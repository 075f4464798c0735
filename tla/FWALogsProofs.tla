--------------------------- MODULE FWALogsProofs ---------------------------
(***************************************************************************)
(* Proofs about FWALogs, for every history, window and lag: no all-time    *)
(* count exceeds the events up to the watermark, and no save takes the     *)
(* name of a draw it keeps.  With logs that do not lag the counts are      *)
(* exact, and the history implements EventLedger.                          *)
(***************************************************************************)
EXTENDS FWALogs, FiniteSetTheorems, TLAPS

\* The events of type k up to block b, counted.
Count(k, b) == Cardinality(Between(k, 1, b))

\* A total beside the number it stands for: never above it, and it is that
\* number where the logs of a node do not lag behind its head.
Agrees(n, c) == n <= c /\ (LogLag = 0 => n = c)

\* What the baseline stands for, and what the store has to hold beyond it.
Floor(m) == IF m.based THEN m.baseBlock ELSE 0
MemInv(m) ==
  /\ Floor(m) <= m.seen
  /\ \A e \in m.store : at[e] >= 1 /\ at[e] <= m.seen
  /\ LogLag = 0 => \A e \in Events : at[e] > Floor(m) /\ at[e] <= m.seen => e \in m.store
  /\ m.based => /\ m.backfilled /\ m.baseBlock = m.restored
                /\ \A k \in Kinds : Agrees(m.base[k], Count(k, m.baseBlock))

\* A file holds what was counted up to its watermark.
DiskInv(d) ==
  d.present => /\ \A e \in d.store : at[e] >= 1 /\ at[e] <= d.seen
               /\ \A k \in Kinds : Agrees(d.base[k], Count(k, d.seen))

\* A tail begins where the store ends, and the whole history is read to
\* beyond the baseline it replaces.
ScanInv ==
  pc = "scan" => /\ scan.to > 0 /\ scan.from <= scan.to
                 /\ ~scan.full => scan.from <= mem.seen
                 /\ scan.full => scan.from = 1 /\ (mem.based => mem.baseBlock <= scan.to)

DownInv == pc = "down" => mem = Blank

IInv == TypeOK /\ MemInv(mem) /\ DiskInv(disk) /\ ScanInv /\ DownInv

-----------------------------------------------------------------------------
(***************************************************************************)
(* Counting.                                                               *)
(***************************************************************************)
LEMMA FiniteParts ==
  ASSUME NEW S \in SUBSET Events
  PROVE  IsFiniteSet(S) /\ Cardinality(S) \in Nat
  BY LogsAssumption, FS_Subset, FS_CardinalityType

\* What is strictly beyond a block is counted apart from what is up to it.
LEMMA CountApart ==
  ASSUME at \in [Events -> Nat], NEW k, NEW b \in Nat, NEW c \in Nat, b <= c
  PROVE  LET new == {e \in Events : KindOf[e] = k /\ at[e] > b /\ at[e] <= c} IN
         Cardinality(new) \in Nat /\ Count(k, c) = Count(k, b) + Cardinality(new)
<1> DEFINE old == Between(k, 1, b)
           new == {e \in Events : KindOf[e] = k /\ at[e] > b /\ at[e] <= c}
<1>1. Between(k, 1, c) = old \cup new /\ old \cap new = {}
  BY DEF Between
<1>2. old \in SUBSET Events /\ new \in SUBSET Events
  BY DEF Between
<1> HIDE DEF old, new
<1>3. Cardinality(old \cap new) = 0
  BY <1>1, FS_EmptySet
<1>4. /\ IsFiniteSet(old) /\ IsFiniteSet(new)
      /\ Cardinality(old) \in Nat /\ Cardinality(new) \in Nat
  BY <1>2, FiniteParts
<1>5. Cardinality(old \cup new) = Cardinality(old) + Cardinality(new) - Cardinality(old \cap new)
  BY <1>4, FS_Union
<1>6. Cardinality(old \cup new) = Cardinality(old) + Cardinality(new)
  BY <1>3, <1>4, <1>5
<1>7. Count(k, c) = Count(k, b) + Cardinality(new)
  BY <1>1, <1>6, Zenon DEF Count, old
<1> QED
  BY <1>4, <1>7, Zenon DEF new

\* The baseline up to its block and the fresh events are at most all up to
\* seen, and all of them with logs that do not lag.
LEMMA CountOfMem ==
  ASSUME at \in [Events -> Nat], NEW m \in Memory, head \in Nat, MemInv(m), NEW k \in Kinds
  PROVE  AllTimeCount(m, k) \in Nat /\ Agrees(AllTimeCount(m, k), Count(k, m.seen))
<1> USE LogsAssumption
<1> DEFINE fresh == Fresh(m, k)
           all == {e \in Events : KindOf[e] = k /\ at[e] > Floor(m) /\ at[e] <= m.seen}
           before == IF m.based THEN m.base[k] ELSE 0
<1>1. /\ m.seen \in Nat /\ m.baseBlock \in Nat /\ m.based \in BOOLEAN /\ m.store \subseteq Events
      /\ m.base[k] \in Nat /\ Floor(m) \in Nat /\ Floor(m) <= m.seen
  BY DEF Memory, MemInv, Floor
<1>2. fresh \subseteq all /\ (LogLag = 0 => fresh = all)
  <2>1. CASE ~m.based
    BY <1>1, <2>1 DEF Fresh, OfKind, MemInv, Floor
  <2>2. CASE m.based
    BY <1>1, <2>2 DEF Fresh, OfKind, Beyond, MemInv, Floor
  <2> QED
    BY <1>1, <2>1, <2>2
<1>3. /\ Cardinality(fresh) \in Nat /\ Cardinality(all) \in Nat
      /\ Cardinality(fresh) <= Cardinality(all)
  <2>1. all \in SUBSET Events /\ fresh \in SUBSET Events
    BY <1>2
  <2> HIDE DEF all, fresh
  <2>2. IsFiniteSet(all) /\ Cardinality(all) \in Nat /\ Cardinality(fresh) \in Nat
    BY <2>1, FiniteParts
  <2> QED
    BY <1>2, <2>2, FS_Subset
<1>4. Count(k, m.seen) = Count(k, Floor(m)) + Cardinality(all)
  BY <1>1, CountApart
<1>5. Agrees(before, Count(k, Floor(m))) /\ before \in Nat /\ Count(k, Floor(m)) \in Nat
  <2>1. Count(k, Floor(m)) \in Nat
    BY FiniteParts DEF Count, Between
  <2>2. CASE m.based
    BY <1>1, <2>1, <2>2 DEF MemInv, Floor
  <2>3. CASE ~m.based
    <3>1. Between(k, 1, 0) = {}
      BY DEF Between
    <3>2. Count(k, 0) = 0
      BY <3>1, FS_EmptySet DEF Count
    <3> QED
      BY <2>1, <2>3, <3>2 DEF Agrees, Floor
  <2> QED
    BY <1>1, <2>2, <2>3
<1>6. AllTimeCount(m, k) = before + Cardinality(fresh)
  BY DEF AllTimeCount
<1> HIDE DEF before, fresh, all
<1> QED
  BY <1>2, <1>3, <1>4, <1>5, <1>6 DEF Agrees

\* The file of a save: what it keeps was in the store, and its totals are
\* those up to its watermark.
LEMMA RetainedInStore ==
  ASSUME NEW m \in Memory, NEW kept \in Retained(m)
  PROVE  kept \subseteq m.store
<1>1. CASE m.seen = 0
  BY <1>1 DEF Retained
<1>2. CASE m.seen # 0
  <2> DEFINE floor(w) == IF m.seen > w THEN m.seen - w ELSE 0
  <2>1. PICK w \in Windows :
          \E draws \in Windowed(OfKind(m.store, "draw"), floor(w), IF w > 0 THEN MinRows ELSE 0) :
            kept = OfKind(m.store, "config") \cup draws \cup ListedKept(m.store, floor(w), draws)
    BY <1>2 DEF Retained
  <2>2. PICK draws \in Windowed(OfKind(m.store, "draw"), floor(w), IF w > 0 THEN MinRows ELSE 0) :
            kept = OfKind(m.store, "config") \cup draws \cup ListedKept(m.store, floor(w), draws)
    BY <2>1
  <2>3. draws \subseteq OfKind(m.store, "draw")
    BY DEF Windowed, Newest
  <2> QED
    BY <2>2, <2>3 DEF OfKind, ListedKept
<1> QED
  BY <1>1, <1>2

LEMMA SavedInv ==
  ASSUME at \in [Events -> Nat], head \in Nat, NEW m \in Memory, MemInv(m), NEW d \in Saved(m)
  PROVE  d \in File /\ DiskInv(d) /\ d.present /\ d.seen = m.seen
<1>1. PICK kept \in Retained(m) :
        d = [present |-> TRUE, store |-> kept, seen |-> m.seen, base |-> SavedBase(m),
             wei |-> AllTimeWei(m)]
  BY DEF Saved
<1>2. kept \subseteq m.store
  BY RetainedInStore
<1>3. m.store \subseteq Events /\ m.seen \in 0..head /\ m.wei \in Nat
  BY DEF Memory
<1>4. \A k \in Kinds : SavedBase(m)[k] \in Nat /\ Agrees(SavedBase(m)[k], Count(k, m.seen))
  BY CountOfMem DEF SavedBase
<1>5. SavedBase(m) \in [Kinds -> Nat]
  BY <1>4 DEF SavedBase
<1>6. AllTimeWei(m) \in Nat
  <2>1. Fresh(m, "draw") \in SUBSET Events
    BY <1>3 DEF Fresh, OfKind, Beyond
  <2>2. Cardinality(Fresh(m, "draw")) \in Nat
    BY <2>1, FiniteParts
  <2> QED
    BY <1>3, <2>2 DEF AllTimeWei
<1>7. d \in File
  BY <1>1, <1>2, <1>3, <1>5, <1>6 DEF File
<1> QED
  BY <1>1, <1>2, <1>3, <1>4, <1>7 DEF DiskInv, MemInv

\* Counts of blocks that are there do not change when the chain grows.
LEMMA CountGrown ==
  ASSUME TypeOK, Grow, NEW k, NEW b \in 0..head
  PROVE  Count(k, b)' = Count(k, b)
<1>1. \A e \in Events : at'[e] = at[e] \/ (at[e] = 0 /\ at'[e] = head + 1)
  BY DEF Grow
<1>2. at \in [Events -> 0..head] /\ head \in Nat
  BY DEF TypeOK
<1>3. Between(k, 1, b)' = Between(k, 1, b)
  BY <1>1, <1>2 DEF Between
<1> QED
  BY <1>3 DEF Count

-----------------------------------------------------------------------------
(***************************************************************************)
(* The invariant.                                                          *)
(***************************************************************************)
LEMMA TypeFacts ==
  ASSUME TypeOK
  PROVE  /\ head \in Nat /\ at \in [Events -> Nat]
         /\ mem.seen \in 0..head /\ mem.baseBlock \in 0..head /\ mem.restored \in 0..head
         /\ mem.store \subseteq Events /\ mem.based \in BOOLEAN /\ mem.base \in [Kinds -> Nat]
         /\ disk.seen \in 0..head /\ disk.store \subseteq Events /\ disk.base \in [Kinds -> Nat]
         /\ scan.from \in 0..head /\ scan.to \in 0..head /\ scan.full \in BOOLEAN
<1>1. head \in Nat /\ \A e \in Events : at[e] \in Nat
  BY LogsAssumption DEF TypeOK
<1> QED
  BY <1>1 DEF TypeOK, Memory, File

LEMMA BlankOK ==
  ASSUME head \in Nat, at \in [Events -> Nat]
  PROVE  Blank \in Memory /\ MemInv(Blank)
<1>1. Blank \in Memory
  BY DEF Blank, Memory
<1>2. MemInv(Blank)
  BY DEF Blank, MemInv, Floor
<1> QED
  BY <1>1, <1>2

LEMMA InitInv == Init => IInv
<1> SUFFICES ASSUME Init PROVE IInv
  OBVIOUS
<1> USE LogsAssumption
<1>1. head \in 1..MaxBlock /\ at \in [Events -> 0..head] /\ head \in Nat
  BY DEF Init
<1>2. at \in [Events -> Nat]
  BY <1>1
<1>3. NoFile \in File /\ ~NoFile.present
  BY <1>1 DEF NoFile, File
<1>4. NoScan \in [full : BOOLEAN, from : 0..head, to : 0..head]
  BY <1>1 DEF NoScan
<1>5. Blank \in Memory /\ MemInv(Blank)
  BY <1>1, <1>2, BlankOK
<1>6. TypeOK
  <2>1. starts \in 0..MaxStarts
    BY DEF Init
  <2> QED
    BY <1>1, <1>3, <1>4, <1>5, <2>1 DEF Init, TypeOK
<1> QED
  BY <1>3, <1>5, <1>6 DEF Init, IInv, DiskInv, ScanInv, DownInv

\* Events happen beyond every watermark.
LEMMA GrowInv == IInv /\ Grow => IInv'
<1> SUFFICES ASSUME IInv, Grow PROVE IInv'
  OBVIOUS
<1> USE LogsAssumption
<1>1. /\ head' = head + 1 /\ head' \in 1..MaxBlock /\ head \in Nat
      /\ \A e \in Events : at'[e] = at[e] \/ (at[e] = 0 /\ at'[e] = head + 1)
      /\ at' \in [Events -> 0..head'] /\ at \in [Events -> 0..head]
      /\ UNCHANGED <<pc, scan, onceDue, mem, once, disk, mark, starts>>
  <2>1. head' = head + 1 /\ head' \in 1..MaxBlock /\ head \in Nat /\ at \in [Events -> 0..head]
    BY DEF Grow, IInv, TypeOK
  <2>2. PICK mined \in SUBSET {e \in Events : at[e] = 0} :
          at' = [e \in Events |-> IF e \in mined THEN head + 1 ELSE at[e]]
    BY DEF Grow
  <2>3. at' \in [Events -> 0..head']
    BY <2>1, <2>2
  <2> QED
    BY <2>1, <2>2, <2>3 DEF Grow
<1>2. TypeOK'
  BY <1>1 DEF IInv, TypeOK, Memory, File
<1>3. MemInv(mem)'
  <2>1. ASSUME NEW k \in Kinds
        PROVE  Count(k, mem.baseBlock)' = Count(k, mem.baseBlock)
    <3>1. PICK b \in 0..head : b = mem.baseBlock
      BY TypeFacts DEF IInv
    <3>2. Count(k, b)' = Count(k, b)
      BY CountGrown DEF IInv
    <3>3. Count(k, mem.baseBlock)' = Count(k, b)'
      BY <1>1, <3>1 DEF Count, Between
    <3> QED
      BY <3>1, <3>2, <3>3
  <2>2. /\ Floor(mem)' = Floor(mem) /\ mem' = mem /\ mem.seen \in 0..head
        /\ mem.store \subseteq Events
    BY <1>1, TypeFacts DEF Floor, IInv
  <2>3. \A e \in mem.store : at'[e] >= 1 /\ at'[e] <= mem.seen
    BY <1>1, <2>2 DEF IInv, MemInv
  <2>4. LogLag = 0 => \A e \in Events : at'[e] > Floor(mem) /\ at'[e] <= mem.seen => e \in mem.store
    BY <1>1, <2>2 DEF IInv, MemInv
  <2> QED
    BY <2>1, <2>2, <2>3, <2>4 DEF IInv, MemInv
<1>4. DiskInv(disk)'
  <2>1. disk.seen \in 0..head /\ disk.store \subseteq Events
    BY TypeFacts DEF IInv
  <2>2. \A k \in Kinds, b \in 0..head : Count(k, b)' = Count(k, b)
    BY CountGrown DEF IInv
  <2>3. ASSUME NEW k \in Kinds PROVE Count(k, disk.seen)' = Count(k, disk.seen)
    <3>1. PICK b \in 0..head : b = disk.seen
      BY <2>1
    <3>2. Count(k, b)' = Count(k, b)
      BY <2>2
    <3>3. Count(k, disk.seen)' = Count(k, b)'
      BY <1>1, <3>1 DEF Count, Between
    <3> QED BY <3>1, <3>2, <3>3
  <2> QED
    BY <1>1, <2>1, <2>3 DEF IInv, DiskInv
<1> QED
  BY <1>1, <1>2, <1>3, <1>4 DEF IInv, ScanInv, DownInv

\* Steps that leave the history, the chain and the files alone.
LEMMA SameInv ==
  ASSUME IInv, UNCHANGED <<head, at, disk>>, mem' = mem \/ mem' = [mem EXCEPT !.caughtUp = TRUE]
  PROVE  /\ mem' \in Memory' /\ disk' \in File' /\ MemInv(mem)' /\ DiskInv(disk)'
         /\ mem'.seen = mem.seen /\ mem'.based = mem.based /\ mem'.baseBlock = mem.baseBlock
<1>1. mem \in Memory /\ disk \in File
  BY DEF IInv, TypeOK
<1>2. /\ mem' \in Memory /\ mem'.seen = mem.seen /\ mem'.based = mem.based
      /\ mem'.baseBlock = mem.baseBlock /\ mem'.base = mem.base /\ mem'.store = mem.store
      /\ mem'.backfilled = mem.backfilled /\ mem'.restored = mem.restored
  BY <1>1 DEF Memory
<1>3. mem' \in Memory' /\ disk' \in File'
  BY <1>1, <1>2 DEF Memory, File
<1>4. MemInv(mem)'
  BY <1>2 DEF IInv, MemInv, Floor, Count, Between
<1>5. DiskInv(disk)'
  BY DEF IInv, DiskInv, Count, Between
<1> QED
  BY <1>2, <1>3, <1>4, <1>5

\* Begin, whatever was due.
BeginsWith(s) ==
  /\ pc' = IF s.to > 0 THEN "scan" ELSE "end"
  /\ onceDue' \in BOOLEAN /\ scan' = s
  /\ UNCHANGED <<chainVars, once, disk, mark, starts>>

LEMMA BeginWith ==
  ASSUME NEW s
  PROVE  Begin(TRUE, s) \/ (\E due \in BOOLEAN : Begin(due, s)) => BeginsWith(s)
  BY DEF Begin, BeginsWith

\* A cycle begins with a scan, if any, that leaves no hole.
LEMMA BeginScan ==
  ASSUME IInv, NEW s \in [full : BOOLEAN, from : 0..head, to : 0..head],
         BeginsWith(s), mem' = mem \/ mem' = [mem EXCEPT !.caughtUp = TRUE],
         s.to > 0 => /\ s.from <= s.to
                     /\ ~s.full => s.from <= mem.seen
                     /\ s.full => s.from = 1 /\ (mem.based => mem.baseBlock <= s.to)
  PROVE  IInv'
<1>1. UNCHANGED <<head, at, disk>>
  BY DEF BeginsWith, chainVars
<1>2. /\ mem' \in Memory' /\ disk' \in File' /\ MemInv(mem)' /\ DiskInv(disk)'
      /\ mem'.seen = mem.seen /\ mem'.based = mem.based /\ mem'.baseBlock = mem.baseBlock
  BY <1>1, SameInv
<1>3. pc' = (IF s.to > 0 THEN "scan" ELSE "end") /\ scan' = s /\ onceDue' \in BOOLEAN
  BY DEF BeginsWith
<1>4. TypeOK'
  BY <1>1, <1>2, <1>3 DEF BeginsWith, IInv, TypeOK
<1>5. ScanInv' /\ DownInv'
  BY <1>2, <1>3 DEF ScanInv, DownInv
<1> QED
  BY <1>2, <1>4, <1>5 DEF IInv

LEMMA TailScan ==
  ASSUME IInv, NEW to \in 0..head
  PROVE  /\ Tail(to) \in [full : BOOLEAN, from : 0..head, to : 0..head]
         /\ Tail(to).from <= Tail(to).to /\ ~Tail(to).full /\ Tail(to).from <= mem.seen
<1>1. mem.seen \in 0..head /\ head \in Nat
  BY TypeFacts DEF IInv
<1> QED
  BY <1>1 DEF Tail

LEMMA BeginInv ==
  IInv /\ (BeginBackfill \/ BeginCatchUp \/ BeginTail \/ BeginNothing) => IInv'
<1> SUFFICES ASSUME IInv, BeginBackfill \/ BeginCatchUp \/ BeginTail \/ BeginNothing
             PROVE  IInv'
  OBVIOUS
<1> USE LogsAssumption
<1> DEFINE Scans == [full : BOOLEAN, from : 0..head, to : 0..head]
<1>1. /\ head \in Nat /\ head >= 1 /\ mem.restored \in 0..head
      /\ \A h \in Heads : h \in 0..head
      /\ NoScan \in Scans /\ NoScan.to = 0
      /\ mem.based => mem.baseBlock = mem.restored /\ mem.backfilled
  BY TypeFacts DEF IInv, TypeOK, Heads, NoScan, MemInv
<1>2. \A h \in Heads : h > 0 => Full(h) \in Scans /\ Full(h).from = 1 /\ Full(h).full /\ Full(h).to = h
  BY <1>1 DEF Full, DeployBlock
<1>3. CASE BeginBackfill
  <2>1. PICK to \in Heads : Begin(TRUE, IF to > 0 THEN Full(to) ELSE NoScan)
    BY <1>3 DEF BeginBackfill
  <2>2. mem' = mem /\ ~mem.based
    BY <1>1, <1>3 DEF BeginBackfill
  <2>3. CASE to > 0
    <3>1. BeginsWith(Full(to))
      BY <2>1, <2>3, BeginWith
    <3>2. /\ Full(to) \in Scans /\ Full(to).from = 1 /\ Full(to).full /\ Full(to).to = to
          /\ to >= 1
      BY <1>1, <1>2, <2>3
    <3> QED
      BY <2>2, <3>1, <3>2, BeginScan
  <2>4. CASE ~(to > 0)
    <3>1. BeginsWith(NoScan)
      BY <2>1, <2>4, BeginWith
    <3> QED
      BY <1>1, <2>2, <3>1, BeginScan
  <2> QED
    BY <2>3, <2>4
<1>4. CASE BeginCatchUp
  <2>1. mem' = [mem EXCEPT !.caughtUp = TRUE]
    BY <1>4 DEF BeginCatchUp
  <2>2. PICK h \in Heads : IF h > mem.restored + CatchupMax THEN Begin(TRUE, Full(h))
                           ELSE \E to \in Heads : Begin(TRUE, Tail(to))
    BY <1>4 DEF BeginCatchUp
  <2>3. CASE h > mem.restored + CatchupMax
    <3>1. h \in Nat /\ h > 0 /\ h >= mem.restored
      BY <1>1, <2>3
    <3>2. BeginsWith(Full(h))
      BY <2>2, <2>3, BeginWith
    <3>3. /\ Full(h) \in Scans /\ Full(h).from = 1 /\ Full(h).full /\ Full(h).to = h
          /\ mem.based => mem.baseBlock <= h
      BY <1>1, <1>2, <3>1
    <3> QED
      BY <2>1, <3>1, <3>2, <3>3, BeginScan
  <2>4. CASE ~(h > mem.restored + CatchupMax)
    <3>1. PICK to \in Heads : Begin(TRUE, Tail(to))
      BY <2>2, <2>4
    <3>2. BeginsWith(Tail(to)) /\ to \in 0..head
      BY <1>1, <3>1, BeginWith
    <3> QED
      BY <2>1, <3>2, BeginScan, TailScan
  <2> QED
    BY <2>3, <2>4
<1>5. CASE BeginTail
  <2>1. PICK to \in Heads : (\E due \in BOOLEAN : Begin(due, Tail(to))) /\ mem' = mem
    BY <1>5 DEF BeginTail, BeginTailAt
  <2>2. BeginsWith(Tail(to)) /\ to \in 0..head
    BY <1>1, <2>1, BeginWith
  <2> QED
    BY <2>1, <2>2, BeginScan, TailScan
<1>6. CASE BeginNothing
  <2>1. BeginsWith(NoScan) /\ mem' = mem
    BY <1>6, BeginWith DEF BeginNothing
  <2> QED
    BY <1>1, <2>1, BeginScan
<1> QED
  BY <1>3, <1>4, <1>5, <1>6

\* A scan that is served leaves nothing beyond the watermark in the store, and
\* with logs that do not lag every event beyond the baseline.
LEMMA ReadInv ==
  ASSUME IInv, pc = "scan", NEW n \in 0..head, n + LogLag >= head
  PROVE  LET read == Ingested(Delivered(n)) IN
         /\ read \in Memory /\ read.seen >= mem.seen
         /\ ~scan.full => MemInv(read)
         /\ scan.full => Rebased(read) \in Memory /\ MemInv(Rebased(read))
                         /\ Rebased(read).seen = read.seen
<1> DEFINE got == Delivered(n)
           read == Ingested(got)
<1> USE LogsAssumption
<1>1. /\ head \in Nat /\ at \in [Events -> Nat] /\ mem.seen \in 0..head
      /\ scan.from \in 0..head /\ scan.to \in 0..head /\ mem.store \subseteq Events
      /\ mem \in Memory /\ mem.based \in BOOLEAN /\ mem.baseBlock \in 0..head
  BY TypeFacts DEF IInv, TypeOK
<1>2. /\ got \subseteq Events
      /\ \A e \in got : at[e] > 0 /\ at[e] <= scan.to
      /\ LogLag = 0 => \A e \in Events :
           at[e] > 0 /\ at[e] >= scan.from /\ at[e] <= scan.to => e \in got
  <2>1. LogLag = 0 => \A e \in Events : at[e] <= n
    BY <1>1 DEF IInv, TypeOK
  <2> QED
    BY <1>1, <2>1 DEF Delivered
<1>3. /\ read \in Memory /\ read.store = mem.store \cup got
      /\ read.seen = IF mem.seen < scan.to THEN scan.to ELSE mem.seen
      /\ read.based = mem.based /\ read.base = mem.base /\ read.baseBlock = mem.baseBlock
      /\ read.backfilled = mem.backfilled /\ read.restored = mem.restored
  BY <1>1, <1>2 DEF Ingested, Memory
<1> HIDE DEF got, read
<1>4. read.seen \in 0..head /\ read.seen >= mem.seen /\ read.seen >= scan.to
  BY <1>1, <1>3
<1>5. \A e \in read.store : at[e] >= 1 /\ at[e] <= read.seen
  BY <1>1, <1>2, <1>3, <1>4 DEF IInv, MemInv
<1>6. ASSUME ~scan.full PROVE MemInv(read)
  <2>1. Floor(read) = Floor(mem) /\ Floor(mem) <= mem.seen
    BY <1>3 DEF Floor, IInv, MemInv
  <2>2. Floor(mem) \in Nat
    BY <1>1 DEF Floor
  <2>3. LogLag = 0 => \A e \in Events : at[e] > Floor(read) /\ at[e] <= read.seen => e \in read.store
    BY <1>1, <1>2, <1>3, <1>6, <2>1, <2>2 DEF IInv, MemInv, ScanInv
  <2> QED
    BY <1>1, <1>3, <1>4, <1>5, <2>1, <2>2, <2>3 DEF IInv, MemInv, Count
<1>7. ASSUME scan.full
      PROVE  /\ Rebased(read) \in Memory /\ MemInv(Rebased(read))
             /\ Rebased(read).seen = read.seen
  <2>1. /\ Rebased(read) \in Memory /\ Rebased(read).seen = read.seen
        /\ Rebased(read).store = read.store /\ ~Rebased(read).based
    <3>1. [k \in Kinds |-> 0] \in [Kinds -> Nat] /\ 0 \in 0..head /\ read \in Memory
      BY <1>1, <1>3
    <3> HIDE DEF Kinds
    <3>2. Rebased(read) \in Memory
      BY <3>1 DEF Rebased, Memory
    <3> QED
      BY <3>1, <3>2 DEF Rebased, Memory
  <2>2. LogLag = 0 => \A e \in Events : at[e] > 0 /\ at[e] <= read.seen => e \in read.store
    BY <1>1, <1>2, <1>3, <1>7 DEF IInv, MemInv, ScanInv, Floor
  <2> QED
    BY <1>1, <1>4, <1>5, <2>1, <2>2 DEF MemInv, Floor
<1> QED
  BY <1>3, <1>4, <1>6, <1>7 DEF got, read

LEMMA ServedInv == IInv /\ ScanServed => IInv' /\ mem'.seen >= mem.seen
                     /\ (disk' = disk \/ (disk'.present /\ disk'.seen = mem'.seen))
<1> SUFFICES ASSUME IInv, ScanServed
             PROVE  IInv' /\ mem'.seen >= mem.seen
                     /\ (disk' = disk \/ (disk'.present /\ disk'.seen = mem'.seen))
  OBVIOUS
<1> USE LogsAssumption
<1>1. pc = "scan" /\ pc' = "end" /\ UNCHANGED <<head, at, scan, onceDue, once, mark, starts>>
  BY DEF ScanServed, chainVars
<1>2. PICK n \in {b \in 0..head : b + LogLag >= head} :
        LET read == Ingested(Delivered(n)) IN
        IF scan.full THEN mem' = Rebased(read) /\ disk' \in Saved(Rebased(read)) \cup {disk}
        ELSE mem' = read /\ UNCHANGED disk
  BY DEF ScanServed
<1>3. head \in Nat /\ at \in [Events -> Nat]
  BY TypeFacts DEF IInv
<1>4. mem' \in Memory /\ MemInv(mem') /\ mem'.seen >= mem.seen
  BY <1>1, <1>2, ReadInv
<1>5. \/ disk' = disk
      \/ disk' \in File /\ DiskInv(disk') /\ disk'.present /\ disk'.seen = mem'.seen
  BY <1>2, <1>3, <1>4, SavedInv
<1>6. disk' \in File /\ DiskInv(disk')
  BY <1>5 DEF IInv, TypeOK
<1>7. mem' \in Memory' /\ disk' \in File'
  BY <1>1, <1>4, <1>6 DEF Memory, File
<1>8. MemInv(mem)' /\ DiskInv(disk)'
  BY <1>1, <1>4, <1>6 DEF MemInv, DiskInv, Floor, Count, Between
<1>9. TypeOK'
  BY <1>1, <1>7 DEF IInv, TypeOK
<1> QED
  BY <1>1, <1>4, <1>5, <1>8, <1>9 DEF IInv, ScanInv, DownInv

LEMMA CycleInv == IInv /\ (ScanFailed \/ EndCycle) => IInv'
<1> SUFFICES ASSUME IInv, ScanFailed \/ EndCycle PROVE IInv'
  OBVIOUS
<1>1. UNCHANGED <<head, at, disk>> /\ mem' = mem
  BY DEF ScanFailed, EndCycle, chainVars
<1>2. /\ mem' \in Memory' /\ disk' \in File' /\ MemInv(mem)' /\ DiskInv(disk)'
  BY <1>1, SameInv
<1>3. TypeOK' /\ ScanInv' /\ DownInv'
  <2>1. CASE ScanFailed
    BY <1>1, <1>2, <2>1 DEF ScanFailed, IInv, TypeOK, ScanInv, DownInv
  <2>2. CASE EndCycle
    <3>1. NoScan \in [full : BOOLEAN, from : 0..head, to : 0..head]
      BY TypeFacts DEF NoScan, IInv
    <3>2. once' \in BOOLEAN /\ mark' \in BOOLEAN
      BY <2>2 DEF EndCycle, IInv, TypeOK
    <3> QED
      BY <1>1, <1>2, <2>2, <3>1, <3>2 DEF EndCycle, IInv, TypeOK, ScanInv, DownInv
  <2> QED
    BY <2>1, <2>2
<1> QED
  BY <1>2, <1>3 DEF IInv

LEMMA DownStepInv ==
  IInv /\ (Close \/ Crash) => /\ IInv' /\ mem' = Blank /\ UNCHANGED at
                              /\ disk' = disk \/ (disk'.present /\ disk'.seen = mem.seen)
<1> SUFFICES ASSUME IInv, Close \/ Crash
             PROVE  /\ IInv' /\ mem' = Blank /\ UNCHANGED at
                    /\ disk' = disk \/ (disk'.present /\ disk'.seen = mem.seen)
  OBVIOUS
<1>1. /\ pc' = "down" /\ mem' = Blank /\ once' = FALSE /\ scan' = NoScan /\ onceDue' = FALSE
      /\ UNCHANGED <<head, at, starts>> /\ mark' \in {mark, once}
      /\ disk' \in Saved(mem) \cup {disk}
  BY DEF Close, Crash, Down, chainVars
<1>2. head \in Nat /\ at \in [Events -> Nat]
  BY TypeFacts DEF IInv
<1>3. /\ disk' \in File /\ DiskInv(disk')
      /\ disk' = disk \/ (disk'.present /\ disk'.seen = mem.seen)
  BY <1>1, <1>2, SavedInv DEF IInv, TypeOK
<1>4. Blank \in Memory /\ MemInv(Blank)
  BY <1>2, BlankOK
<1>5. mem' \in Memory' /\ disk' \in File'
  BY <1>1, <1>3, <1>4 DEF Memory, File
<1>6. MemInv(mem)' /\ DiskInv(disk)'
  BY <1>1, <1>3, <1>4 DEF MemInv, DiskInv, Floor, Count, Between
<1>7. NoScan \in [full : BOOLEAN, from : 0..head, to : 0..head]
  BY <1>2 DEF NoScan
<1>8. TypeOK'
  BY <1>1, <1>5, <1>7 DEF IInv, TypeOK
<1> QED
  BY <1>1, <1>3, <1>6, <1>8 DEF IInv, ScanInv, DownInv

LEMMA RestartInv ==
  IInv /\ Restart => /\ IInv' /\ mem = Blank /\ UNCHANGED <<at, disk>>
                     /\ mem'.seen = 0 \/ (disk.present /\ mem'.seen = disk.seen)
<1> SUFFICES ASSUME IInv, Restart
             PROVE  /\ IInv' /\ mem = Blank /\ UNCHANGED <<at, disk>>
                    /\ mem'.seen = 0 \/ (disk.present /\ mem'.seen = disk.seen)
  OBVIOUS
<1> USE LogsAssumption
<1>1. /\ pc = "down" /\ pc' = "idle" /\ starts' = starts + 1 /\ starts < MaxStarts
      /\ once' \in {mark, FALSE}
      /\ mem' \in (IF disk.present THEN {Loaded} ELSE {}) \cup {Blank}
      /\ UNCHANGED <<head, at, scan, onceDue, disk, mark>>
  BY DEF Restart, chainVars
<1>2. /\ head \in Nat /\ at \in [Events -> Nat] /\ disk \in File
      /\ disk.seen \in 0..head
  BY TypeFacts DEF IInv, TypeOK
<1>3. Blank \in Memory /\ MemInv(Blank) /\ Blank.seen = 0
  BY <1>2, BlankOK DEF Blank
<1>4. ASSUME disk.present PROVE Loaded \in Memory /\ MemInv(Loaded) /\ Loaded.seen = disk.seen
  <2>1. /\ Loaded.store = disk.store /\ Loaded.seen = disk.seen /\ Loaded.restored = disk.seen
        /\ Loaded.backfilled /\ Loaded.based /\ Loaded.base = disk.base
        /\ Loaded.baseBlock = disk.seen
    BY DEF Loaded, Blank
  <2>2. Loaded \in Memory
    BY <1>2 DEF Loaded, Blank, Memory, File
  <2>3. MemInv(Loaded)
    BY <1>2, <1>4, <2>1 DEF MemInv, Floor, IInv, DiskInv
  <2> QED
    BY <2>1, <2>2, <2>3
<1>5. mem' \in Memory /\ MemInv(mem') /\ (mem'.seen = 0 \/ (disk.present /\ mem'.seen = disk.seen))
  BY <1>1, <1>3, <1>4
<1>6. mem' \in Memory' /\ disk' \in File'
  BY <1>1, <1>2, <1>5 DEF Memory, File
<1>7. MemInv(mem)' /\ DiskInv(disk)'
  BY <1>1, <1>5 DEF IInv, MemInv, DiskInv, Floor, Count, Between
<1>8. TypeOK'
  <2>1. starts' \in 0..MaxStarts
    <3>1. starts \in 0..MaxStarts
      BY DEF IInv, TypeOK
    <3> QED
      BY <1>1, <3>1
  <2>2. once' \in BOOLEAN
    BY <1>1 DEF IInv, TypeOK
  <2> QED
    BY <1>1, <1>6, <2>1, <2>2 DEF IInv, TypeOK
<1> QED
  BY <1>1, <1>5, <1>7, <1>8 DEF IInv, ScanInv, DownInv

LEMMA StutterInv == IInv /\ UNCHANGED vars => IInv'
  BY DEF vars, IInv, TypeOK, Memory, File, MemInv, DiskInv, ScanInv, DownInv, Floor, Count, Between

LEMMA NextInv == IInv /\ [Next]_vars => IInv'
  BY GrowInv, BeginInv, ServedInv, CycleInv, DownStepInv, RestartInv, StutterInv DEF Next

-----------------------------------------------------------------------------
(***************************************************************************)
(* The theorems.                                                           *)
(***************************************************************************)
\* Types, a baseline and a file that hold no more than they say, a scan that
\* begins no later than the store ends; and with logs that do not lag, a store
\* with no hole beyond the baseline.
THEOREM HistoryInvariant == Spec => []IInv
<1>1. IInv /\ [Next]_vars => IInv'
  BY NextInv
<1> QED
  BY <1>1, InitInv, PTL DEF Spec

\* No scan starts past its end, no watermark is past what has happened.
THEOREM HistoryTypes == Spec => []TypeOK
  BY HistoryInvariant, PTL DEF IInv

LEMMA CountsAgree ==
  IInv => \A k \in Kinds : Agrees(AllTimeCount(mem, k), Cardinality(Between(k, 1, mem.seen)))
<1> SUFFICES ASSUME IInv
             PROVE  \A k \in Kinds : Agrees(AllTimeCount(mem, k), Cardinality(Between(k, 1, mem.seen)))
  OBVIOUS
<1>1. head \in Nat /\ at \in [Events -> Nat] /\ mem \in Memory /\ MemInv(mem)
  BY TypeFacts DEF IInv, TypeOK
<1> QED
  BY <1>1, CountOfMem DEF Count

\* No event is counted twice and none that has not happened: whatever lags, is
\* read again at a boundary, trimmed, lost or restored, an all-time count is at
\* most the number of events up to the watermark (_all_time_event_counts).
CountsBounded ==
  \A k \in Kinds : AllTimeCount(mem, k) <= Cardinality(Between(k, 1, mem.seen))

THEOREM CountsNeverExceed == Spec => []CountsBounded
<1>1. IInv => CountsBounded
  BY CountsAgree DEF CountsBounded, Agrees
<1> QED
  BY <1>1, HistoryInvariant, PTL

LEMMA ExactCounts == LogLag = 0 /\ IInv => CountsExact
  BY CountsAgree DEF CountsExact, Agrees

\* Over windows, failures, restarts and lost files an all-time count is the
\* number of events up to the watermark.
THEOREM CountsAreExact == ASSUME LogLag = 0 PROVE Spec => []CountsExact
  BY HistoryInvariant, ExactCounts, PTL

\* The prefix a start may resume.
LastSaved == IF disk.present THEN disk.seen ELSE 0

LEMMA SameCardinality == ASSUME NEW S PROVE Ledger!Cardinality(S) = Cardinality(S)
  BY DEF Ledger!Cardinality, Cardinality, Ledger!IsFiniteSet, IsFiniteSet

LEMMA TotalIsTally ==
  CountsExact => [k \in Kinds |-> AllTimeCount(mem, k)] = Ledger!Tally
<1>1. \A k \in Kinds : Ledger!Between(k, 1, mem.seen) = Between(k, 1, mem.seen)
  BY DEF Ledger!Between, Between
<1> QED
  BY <1>1, SameCardinality DEF CountsExact, Ledger!Tally

LEMMA LedgerInit == LogLag = 0 /\ Init => Ledger!Init
<1> SUFFICES ASSUME LogLag = 0, Init PROVE Ledger!Init
  OBVIOUS
<1>1. CountsExact
  BY InitInv, ExactCounts
<1>2. at \in [Events -> Nat]
  BY InitInv, TypeFacts DEF IInv
<1>3. mem.seen = 0 /\ LastSaved = 0
  BY DEF Init, LastSaved, Blank, NoFile
<1> QED
  BY <1>1, <1>2, <1>3, TotalIsTally DEF Ledger!Init, LastSaved

\* A step that leaves the events, the watermark and the file's leaves the
\* totals.
LEMMA LedgerStutter ==
  ASSUME CountsExact, CountsExact', UNCHANGED <<at, disk>>, mem'.seen = mem.seen
  PROVE  UNCHANGED Ledger!vars
<1>1. \A k \in Kinds : AllTimeCount(mem, k)' = AllTimeCount(mem, k)
  BY DEF CountsExact, Between
<1>2. [k \in Kinds |-> AllTimeCount(mem, k)]' = [k \in Kinds |-> AllTimeCount(mem, k)]
  BY <1>1
<1> QED
  BY <1>2 DEF Ledger!vars

LEMMA LedgerGrow ==
  ASSUME IInv, Grow, CountsExact, CountsExact'
  PROVE  Ledger!Happen
<1>1. /\ head' = head + 1 /\ head \in Nat
      /\ \A e \in Events : at'[e] = at[e] \/ (at[e] = 0 /\ at'[e] = head + 1)
      /\ mem' = mem /\ disk' = disk
  BY TypeFacts DEF Grow, IInv
<1>2. mem.seen \in 0..head /\ at \in [Events -> Nat] /\ at' \in [Events -> Nat]
  BY <1>1, GrowInv, TypeFacts DEF IInv, TypeOK
<1>3. \A k \in Kinds : Between(k, 1, mem.seen)' = Between(k, 1, mem.seen)
  BY <1>1, <1>2 DEF Between
<1>4. \A k \in Kinds : AllTimeCount(mem, k)' = AllTimeCount(mem, k)
  BY <1>3 DEF CountsExact
<1>5. [k \in Kinds |-> AllTimeCount(mem, k)]' = [k \in Kinds |-> AllTimeCount(mem, k)]
  BY <1>4
<1> QED
  BY <1>1, <1>2, <1>5 DEF Ledger!Happen

LEMMA LedgerStep ==
  ASSUME LogLag = 0, IInv, [Next]_vars, CountsExact, CountsExact'
  PROVE  [Ledger!Next]_(Ledger!vars)
<1> DEFINE totals == [k \in Kinds |-> AllTimeCount(mem, k)]
<1>1. IInv'
  BY NextInv
<1>2. totals' = Ledger!Tally'
  <2>1. (CountsExact => totals = Ledger!Tally)'
    BY TotalIsTally, PTL
  <2> QED
    BY <2>1
<1>3. mem.seen \in Nat /\ mem'.seen \in Nat /\ head \in Nat
  BY <1>1, TypeFacts DEF IInv, TypeOK, Memory
<1>4. CASE Grow
  BY <1>4, LedgerGrow DEF Ledger!Next
<1>5. CASE BeginBackfill \/ BeginCatchUp \/ BeginTail \/ BeginNothing
  <2>1. UNCHANGED <<at, disk>> /\ mem'.seen = mem.seen
    <3>1. mem' = mem \/ mem' = [mem EXCEPT !.caughtUp = TRUE]
      BY <1>5 DEF BeginBackfill, BeginCatchUp, BeginTail, BeginTailAt, BeginNothing
    <3>2. UNCHANGED <<head, at, disk>>
      BY <1>5 DEF BeginBackfill, BeginCatchUp, BeginTail, BeginTailAt, BeginNothing, Begin,
                  chainVars
    <3> QED
      BY <3>1, <3>2, SameInv
  <2> QED
    BY <2>1, LedgerStutter
<1>6. CASE ScanServed
  <2>1. /\ mem'.seen >= mem.seen /\ UNCHANGED at
        /\ disk' = disk \/ (disk'.present /\ disk'.seen = mem'.seen)
    BY <1>6, ServedInv DEF ScanServed, chainVars
  <2>2. LastSaved' \in {LastSaved, mem'.seen}
    BY <2>1 DEF LastSaved
  <2> QED
    BY <1>2, <1>3, <2>1, <2>2 DEF Ledger!Next, Ledger!Read, LastSaved
<1>7. CASE ScanFailed \/ EndCycle
  <2>1. UNCHANGED <<at, disk>> /\ mem' = mem
    BY <1>7 DEF ScanFailed, EndCycle, chainVars
  <2> QED
    BY <2>1, LedgerStutter
<1>8. CASE Close \/ Crash
  <2>1. /\ mem'.seen = 0 /\ UNCHANGED at
        /\ disk' = disk \/ (disk'.present /\ disk'.seen = mem.seen)
    BY <1>8, DownStepInv DEF Blank
  <2>2. LastSaved' \in {LastSaved, mem.seen}
    BY <2>1 DEF LastSaved
  <2> QED
    BY <1>2, <2>1, <2>2 DEF Ledger!Next, Ledger!Stop, LastSaved
<1>9. CASE Restart
  <2>1. /\ mem.seen = 0 /\ UNCHANGED <<at, disk>>
        /\ mem'.seen = 0 \/ (disk.present /\ mem'.seen = disk.seen)
    BY <1>9, RestartInv DEF Blank
  <2>2. mem'.seen \in {0, LastSaved} /\ LastSaved' = LastSaved
    BY <2>1 DEF LastSaved
  <2> QED
    BY <1>2, <2>1, <2>2 DEF Ledger!Next, Ledger!Resume, LastSaved
<1>10. CASE UNCHANGED vars
  BY <1>10, LedgerStutter DEF vars
<1> QED
  BY <1>4, <1>5, <1>6, <1>7, <1>8, <1>9, <1>10 DEF Next

\* The history implements EventLedger: its totals are always those of one
\* prefix of the chain, which only a start may shorten, to the one last saved.
THEOREM HistoryIsALedger == ASSUME LogLag = 0 PROVE Spec => IsALedger
<1>1. IInv /\ IInv' /\ [Next]_vars => [Ledger!Next]_(Ledger!vars)
  BY LedgerStep, ExactCounts, PTL
<1> QED
  BY <1>1, LedgerInit, HistoryInvariant, PTL DEF Spec, IsALedger, Ledger!Spec

\* A save keeps rows of the store only, and with a draw its listing.
LEMMA RetainedNames ==
  ASSUME NEW m, m.store \subseteq Events, NEW kept \in Retained(m),
         NEW d \in OfKind(kept, "draw"), ListingOf[d] \in m.store
  PROVE  ListingOf[d] \in kept
<1>1. CASE m.seen = 0
  BY <1>1 DEF Retained
<1>2. CASE m.seen # 0
  <2>1. PICK floor, n, draws :
          /\ draws \in Windowed(OfKind(m.store, "draw"), floor, n)
          /\ kept = OfKind(m.store, "config") \cup draws \cup ListedKept(m.store, floor, draws)
    <3>1. PICK w \in Windows :
            kept \in {OfKind(m.store, "config") \cup draws
                        \cup ListedKept(m.store, IF m.seen > w THEN m.seen - w ELSE 0, draws) :
                      draws \in Windowed(OfKind(m.store, "draw"),
                                         IF m.seen > w THEN m.seen - w ELSE 0,
                                         IF w > 0 THEN MinRows ELSE 0)}
      BY <1>2, Zenon DEF Retained
    <3> QED BY <3>1
  <2>2. draws \subseteq OfKind(m.store, "draw")
    BY <2>1 DEF Windowed, Newest
  <2>3. d \in draws /\ d \in Events /\ KindOf[d] = "draw"
    BY <2>1, <2>2 DEF OfKind, ListedKept
  <2>4. KindOf[ListingOf[d]] = "listed"
    BY <2>3, LogsAssumption
  <2> QED
    BY <2>1, <2>3, <2>4 DEF OfKind, ListedKept
<1> QED BY <1>1, <1>2

\* No save trims a listing and keeps its draw: not the one after a full scan,
\* whose store has all the one before it had, nor the one of close().
THEOREM DrawsStayNamed == Spec => NamedStaysNamed
<1> DEFINE Named == \A d \in OfKind(disk'.store, "draw") :
                      ListingOf[d] \in mem.store \cup mem'.store => ListingOf[d] \in disk'.store
<1>1. IInv /\ IInv' /\ [Next]_vars => [disk' # disk => Named]_vars
  <2> SUFFICES ASSUME IInv, IInv', Next, disk' # disk,
                      NEW d \in OfKind(disk'.store, "draw"),
                      ListingOf[d] \in mem.store \cup mem'.store
               PROVE  ListingOf[d] \in disk'.store
    BY DEF vars
  <2>1. mem.store \subseteq Events /\ mem'.store \subseteq Events /\ mem \in Memory
    BY DEF IInv, TypeOK, Memory
  <2>2. CASE ScanServed
    <3>1. PICK b \in 0..head : mem' = Rebased(Ingested(Delivered(b))) /\ disk' \in Saved(mem')
      BY <2>2 DEF ScanServed
    <3>2. mem.store \subseteq mem'.store
      BY <2>1, <3>1 DEF Rebased, Ingested, Memory
    <3>3. disk'.store \in Retained(mem')
      BY <3>1 DEF Saved
    <3> QED BY <2>1, <3>2, <3>3, RetainedNames
  <2>3. CASE Close
    <3>1. mem'.store = {} /\ disk' \in Saved(mem)
      BY <2>3 DEF Close, Down, Blank
    <3>2. disk'.store \in Retained(mem)
      BY <3>1 DEF Saved
    <3> QED BY <2>1, <3>1, <3>2, RetainedNames
  <2>4. CASE Grow \/ BeginBackfill \/ BeginCatchUp \/ BeginTail \/ BeginNothing
             \/ ScanFailed \/ EndCycle \/ Crash \/ Restart
    BY <2>4 DEF Grow, BeginBackfill, BeginCatchUp, BeginTail, BeginTailAt, BeginNothing, Begin,
                ScanFailed, EndCycle, Crash, Restart
  <2> QED BY <2>2, <2>3, <2>4 DEF Next
<1> QED
  BY <1>1, HistoryInvariant, PTL DEF Spec, NamedStaysNamed
=============================================================================
