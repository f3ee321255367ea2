----------------------------- MODULE AtomicFile -----------------------------
(***************************************************************************)
(* util/persist.rs: atomic_save_ron_async writes the serialized value to   *)
(* a sibling with a fixed name and renames it onto the target.  A file     *)
(* system is the inode each of the two names refers to and the content of  *)
(* every inode; a writer that has opened the sibling keeps its inode,      *)
(* whatever the names refer to afterwards.                                 *)
(***************************************************************************)
EXTENDS Naturals

CONSTANTS
  Values,   \* what is saved
  Inodes,   \* two names, and at most one open file per writer
  None,
  Empty,    \* an inode that was truncated and not yet filled
  Mixed     \* one text over the rest of a longer one

FileSystem == [tmp : Inodes \cup {None}, file : Inodes \cup {None},
               data : [Inodes -> Values \cup {Empty, Mixed}]]

\* The target holds v, or does not exist.
FileWith(v) ==
  [tmp |-> None, file |-> IF v = None THEN None ELSE 1,
   data |-> [i \in Inodes |-> IF i = 1 /\ v # None THEN v ELSE Empty]]

\* What a reader of the target finds.
Content(fs) == IF fs.file = None THEN None ELSE fs.data[fs.file]

\* The inode the open of the sibling returns: the one it names, or a new one.
Opened(fs, held) ==
  IF fs.tmp # None THEN fs.tmp
  ELSE CHOOSE i \in Inodes \ (held \cup {fs.file}) : TRUE

\* Mutant: the target itself is opened for writing.
OpenTarget(fs, held) ==
  [fs EXCEPT !.tmp = Opened(fs, held), !.file = Opened(fs, held),
             !.data[Opened(fs, held)] = Empty]

\* tokio::fs::write: open with O_CREAT and O_TRUNC ...
OpenTmp(fs, held) ==
  [fs EXCEPT !.tmp = Opened(fs, held), !.data[Opened(fs, held)] = Empty]

\* ... and write from the beginning.  Text that another writer has put there
\* meanwhile is replaced as far as the new one reaches.
FillOutcomes(fs, i, v) ==
  {[fs EXCEPT !.data[i] = r] :
     r \in IF fs.data[i] \in {Empty, v} THEN {v} ELSE {v, Mixed}}

\* tokio::fs::rename; without a sibling it is the error ENOENT.
RenameFails(fs) == fs.tmp = None

Renamed(fs) == [fs EXCEPT !.file = fs.tmp, !.tmp = None]

=============================================================================
