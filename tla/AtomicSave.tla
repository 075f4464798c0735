----------------------------- MODULE AtomicSave -----------------------------
(***************************************************************************)
(* How a cache reaches its file: save_to_file of the caches under          *)
(* src/maxpane_dashboard/data, written from talismans_cache.py, and who    *)
(* calls it (talismans_manager.py: _maybe_save_cache in a thread, close in *)
(* the event loop).                                                        *)
(*                                                                         *)
(* The text goes to path + ".tmp", block by block, and a rename puts it in *)
(* place.  What counts is the file a restart would read, at every moment:  *)
(* a name refers to an inode, a descriptor keeps writing to the inode it   *)
(* opened, whatever its name has become.                                   *)
(***************************************************************************)
EXTENDS Integers, Sequences

CONSTANTS
  Writers,    \* those who save: the thread, the loop
  Overlap,    \* whether one may begin while another is saving
  DiskErrors, \* whether the disk may refuse a save
  Body,       \* blocks of the text behind the time stamp
  Widths,     \* blocks the time stamp in front may take
  MaxGen,     \* bound: states of the cache
  MaxCrashes  \* bound: times the process dies

ASSUME SaveAssumption ==
  /\ Overlap \in BOOLEAN /\ DiskErrors \in BOOLEAN
  /\ Body \in Nat \ {0} /\ Widths \subseteq Nat /\ Widths # {}
  /\ MaxGen \in Nat /\ MaxCrashes \in Nat

VARIABLES
  gen,      \* the state of the cache in memory, as a number
  tmp,      \* inode of path + ".tmp", or None
  path,     \* inode of path, or None
  blocks,   \* per inode: what has been written
  at,       \* per writer: "idle", "open", "write" or "rename"
  fd,       \* per writer: the inode it writes
  text,     \* per writer: the text it writes
  pos,      \* per writer: the blocks of it written
  saved,    \* history: the state of the cache last saved, 0 for none
  crashes

saveVars == <<gen, tmp, path, blocks, at, fd, text, pos, saved, crashes>>

None == 0
Inodes == 1..5

\* The text of state g with a stamp of w blocks.  Two texts of one state are
\* the same but for the stamp, and the body of one lies where its stamp ends.
Text(g, w) == [i \in 1..(w + Body) |-> <<g, i - w>>]

Texts(g) == {Text(g, w) : w \in Widths}

\* What lies between the end of a file and the block written is a hole.
Hole == <<0, 0>>

Put(file, i, b) ==
  [j \in 1..(IF i > Len(file) THEN i ELSE Len(file)) |->
     IF j = i THEN b ELSE IF j <= Len(file) THEN file[j] ELSE Hole]

Idle(w) == at[w] = "idle"

\* What a start reads: the state the file is a whole text of, 0 if it is none.
OnDisk ==
  IF path # None /\ \E g \in 1..MaxGen : blocks[path] \in Texts(g)
    THEN blocks[path][1][1] ELSE 0

\* An inode without a name that nobody writes.
Fresh == CHOOSE i \in Inodes :
           i # tmp /\ i # path /\ \A w \in Writers : Idle(w) \/ i # fd[w]

\* A writer is done: nothing is left of its descriptor, nor of inode i, which
\* has lost its name, unless another one writes it.
Done(w, i) ==
  /\ at' = [at EXCEPT ![w] = "idle"]
  /\ fd' = [fd EXCEPT ![w] = None]
  /\ text' = [text EXCEPT ![w] = <<>>] /\ pos' = [pos EXCEPT ![w] = 0]
  /\ blocks' = IF i = None \/ \E v \in Writers \ {w} : fd[v] = i
                  THEN blocks ELSE [blocks EXCEPT ![i] = <<>>]

-----------------------------------------------------------------------------
\* A refresh changes the cache; it waits for its own save before the next.
Change ==
  /\ gen < MaxGen /\ \A w \in Writers : Idle(w)
  /\ gen' = gen + 1
  /\ UNCHANGED <<tmp, path, blocks, at, fd, text, pos, saved, crashes>>

\* The text is made before the file is opened.
Begin(w) ==
  /\ Idle(w) /\ gen > 0
  /\ Overlap \/ \A v \in Writers : Idle(v)
  /\ \E t \in Texts(gen) : text' = [text EXCEPT ![w] = t]
  /\ at' = [at EXCEPT ![w] = "open"]
  /\ UNCHANGED <<gen, tmp, path, blocks, fd, pos, saved, crashes>>

\* Mutant: the file itself is opened.
OpenInPlace(w) ==
  LET i == IF path # None THEN path ELSE Fresh
  IN  /\ path' = i /\ tmp' = i /\ fd' = [fd EXCEPT ![w] = i]
      /\ blocks' = [blocks EXCEPT ![i] = <<>>]

\* Mutant: what a save that died has left is not emptied.
OpenLeftOver(w) ==
  LET i == IF tmp # None THEN tmp ELSE Fresh
  IN  /\ tmp' = i /\ fd' = [fd EXCEPT ![w] = i]
      /\ blocks' = IF tmp # None THEN blocks ELSE [blocks EXCEPT ![i] = <<>>]
      /\ UNCHANGED path

\* open(tmp, "w"): the file that is there is emptied, not replaced.
OpenTmp(w) ==
  LET i == IF tmp # None THEN tmp ELSE Fresh
  IN  /\ tmp' = i /\ fd' = [fd EXCEPT ![w] = i]
      /\ blocks' = [blocks EXCEPT ![i] = <<>>]
      /\ UNCHANGED path

Open(w) ==
  /\ at[w] = "open" /\ at' = [at EXCEPT ![w] = "write"]
  /\ OpenTmp(w)
  /\ UNCHANGED <<gen, text, pos, saved, crashes>>

\* json.dump, a block at a time
Write(w) ==
  /\ at[w] = "write"
  /\ pos' = [pos EXCEPT ![w] = @ + 1]
  /\ blocks' = [blocks EXCEPT ![fd[w]] = Put(@, pos'[w], text[w][pos'[w]])]
  /\ at' = IF pos'[w] = Len(text[w]) THEN [at EXCEPT ![w] = "rename"] ELSE at
  /\ UNCHANGED <<gen, tmp, path, fd, text, saved, crashes>>

\* os.replace
Rename(w) ==
  /\ at[w] = "rename" /\ tmp # None
  /\ path' = tmp /\ tmp' = None
  /\ saved' = text[w][1][1]
  /\ Done(w, path)
  /\ UNCHANGED <<gen, crashes>>

\* An OSError, of the disk or because the name is gone: the temporary file is
\* removed, if there is one.
Fail(w) ==
  /\ \/ DiskErrors /\ at[w] \in {"open", "write", "rename"}
     \/ at[w] = "rename" /\ tmp = None
  /\ tmp' = None
  /\ Done(w, tmp)
  /\ UNCHANGED <<gen, path, saved, crashes>>

\* The process dies and starts again with what it can read of the file.
Crash ==
  /\ crashes < MaxCrashes /\ crashes' = crashes + 1
  /\ at' = [w \in Writers |-> "idle"] /\ fd' = [w \in Writers |-> None]
  /\ text' = [w \in Writers |-> <<>>] /\ pos' = [w \in Writers |-> 0]
  /\ gen' = OnDisk
  /\ UNCHANGED <<tmp, path, blocks, saved>>

SaveInit ==
  /\ gen = 0 /\ saved = 0 /\ crashes = 0
  /\ tmp = None /\ path = None
  /\ blocks = [i \in Inodes |-> <<>>]
  /\ at = [w \in Writers |-> "idle"] /\ fd = [w \in Writers |-> None]
  /\ text = [w \in Writers |-> <<>>] /\ pos = [w \in Writers |-> 0]

Save(w) == Begin(w) \/ Open(w) \/ Write(w) \/ Rename(w) \/ Fail(w)

SaveNext == Change \/ Crash \/ \E w \in Writers : Save(w)

SaveSpec == SaveInit /\ [][SaveNext]_saveVars

-----------------------------------------------------------------------------
\* Whenever the process dies, a restart reads the whole text of the last save
\* that ended: not of one that failed, not half of one, not an older one.
FileIsLastSave ==
  IF saved = 0 THEN path = None ELSE path # None /\ blocks[path] \in Texts(saved)

\* However many blocks a save takes and wherever it ends, to the rest of the
\* program it is one step that puts the state in memory on disk, or no step.
WholeSaves == INSTANCE SavedFile WITH held <- gen, stored <- OnDisk
SavesAreWhole == WholeSaves!Spec

\* What makes FileIsLastSave inductive when saves take turns: one writer at
\* most is at it; the temporary file it writes is not the file, and holds the
\* text of the present state up to where the writer is.
Filled(t, n) == [i \in 1..n |-> t[i]]

Saving(w) ==
  /\ at[w] \in {"idle", "open"} => fd[w] = None /\ pos[w] = 0
  /\ ~Idle(w) => gen > 0 /\ text[w] \in Texts(gen)
  /\ at[w] \in {"write", "rename"} =>
       fd[w] = tmp /\ tmp # None /\ blocks[tmp] = Filled(text[w], pos[w])
  /\ at[w] = "write" => pos[w] < Len(text[w])
  /\ at[w] = "rename" => blocks[tmp] = text[w]

SaveInv ==
  /\ gen \in 0..MaxGen /\ saved \in 0..MaxGen
  /\ tmp \in Inodes \cup {None} /\ path \in Inodes \cup {None}
  /\ tmp = None \/ tmp # path
  /\ DOMAIN blocks = Inodes /\ DOMAIN text = Writers /\ DOMAIN fd = Writers
  /\ at \in [Writers -> {"idle", "open", "write", "rename"}]
  /\ pos \in [Writers -> Nat]
  /\ \A v, w \in Writers : v = w \/ Idle(v) \/ Idle(w)
  /\ \A w \in Writers : Saving(w)
  /\ FileIsLastSave

\* When all saves have ended the file is whole, of whatever state: nothing
\* tears it, as is said of the two ways to save.
NeverTorn ==
  (\A w \in Writers : Idle(w)) /\ path # None =>
    \E g \in 1..MaxGen : blocks[path] \in Texts(g)
=============================================================================
