------------------------------ MODULE FileTree ------------------------------
(***************************************************************************)
(* The working directory of a job as the file handlers (files/mod.rs) see    *)
(* it: names below the directory, what each name leads to, and the contents  *)
(* of the files. A file that loses its name lives on for whoever has it      *)
(* open. The file system is external; only what the handlers use of it is   *)
(* here.                                                                    *)
(***************************************************************************)
EXTENDS Naturals, Sequences

CONSTANTS
    Names,          \* names below the working directory
    Root,           \* the working directory itself
    Parent,         \* the directory each name is in
    Targets,        \* the names of files
    Links,          \* the names of symbolic links; the others are directories
    Uploads,        \* upload requests; each creates at most one file
    Old,            \* a file that is there from the start
    NoEntry, Dir, Link,     \* a name that leads nowhere, to a directory, to a link
    Hole            \* bytes of a file that nobody wrote

ASSUME TreeAssumption ==
    /\ Parent \in [Names -> Names \cup {Root}]
    /\ Root \notin Names
    /\ Targets \subseteq Names /\ Links \subseteq Names \ Targets
    /\ \A n \in Names : Parent[n] \notin Targets \cup Links
    /\ \A S \in SUBSET Names : S # {} => \E n \in S : Parent[n] \notin S    \* no name is below itself
    /\ Old \notin Uploads
    /\ {NoEntry, Dir, Link} \cap (Uploads \cup {Old}) = {}
    /\ NoEntry # Dir /\ NoEntry # Link /\ Dir # Link
    /\ Hole \notin Uploads \cup {Old}

(* A file is named after the upload that created it.                         *)
Files == Uploads \cup {Old}

VARIABLES
    at,             \* what each name leads to
    data            \* contents of each file: who wrote each unit of it

tree == <<at, data>>

Units == Files \cup {Hole}

TreeTypeOK ==
    /\ at \in [Names -> Files \cup {NoEntry, Dir, Link}]
    /\ data \in [Files -> Seq(Units)]

Dirs == Names \ (Targets \cup Links)

(* A directory a handler may look into.                                      *)
IsDir(n) == n = Root \/ (n \in Names /\ at[n] = Dir)

(* The directories a name is in, up to the working directory.                *)
Above(n) ==
    {a \in Names \ {n} :
        \A S \in SUBSET Names :
            n \in S /\ (\A m \in S : Parent[m] \in S \cup {Root}) => a \in S}

(* The names a directory holds.                                              *)
Entries(dir) == {n \in Names : Parent[n] = dir /\ at[n] # NoEntry}

(* Writing k units of w at offset pos; a gap before pos reads as a hole.     *)
WriteAt(s, pos, k, w) ==
    [i \in 1 .. (IF pos + k > Len(s) THEN pos + k ELSE Len(s)) |->
        IF i \in pos + 1 .. pos + k THEN w
        ELSE IF i <= Len(s) THEN s[i] ELSE Hole]
=============================================================================
