--------------------------- MODULE LogStoreProofs ---------------------------
(***************************************************************************)
(* Theorems about LogStore for every set of ids and contents, every length *)
(* of the log and every number of crashes: what a replay brings back, and  *)
(* that a collection implements the map of KVStore.                        *)
(***************************************************************************)
EXTENDS LogStore, SequenceTheorems, WellFoundedInduction, TLAPS

-----------------------------------------------------------------------------
(* Least and greatest numbers: all the induction that is needed *)

LEMMA Least ==
  ASSUME NEW S, S \subseteq Nat, S # {}
  PROVE  \E m \in S : \A i \in S : m <= i
<1>1. PICK m \in S : \A i \in S : <<i, m>> \notin OpToRel(<, Nat)
  BY WFMin, NatLessThanWellFounded, Zenon
<1>2. \A i \in S : ~(i < m)
  BY <1>1, Zenon DEF OpToRel
<1>. QED BY <1>2

LEMMA Greatest ==
  ASSUME NEW n \in Nat, NEW S, S \subseteq 1..n, S # {}
  PROVE  \E m \in S : \A i \in S : i <= m
<1>. DEFINE T == {n - i : i \in S}
<1>1. T \subseteq Nat
  OBVIOUS
<1>2. T # {}
  <2>1. PICK i \in S : TRUE
    OBVIOUS
  <2>2. n - i \in T
    OBVIOUS
  <2>. QED BY <2>2
<1>3. PICK t \in T : \A u \in T : t <= u
  BY <1>1, <1>2, Least
<1>4. PICK m \in S : t = n - m
  OBVIOUS
<1>5. \A i \in S : n - m <= n - i
  BY <1>3, <1>4
<1>. QED BY <1>5

-----------------------------------------------------------------------------
(* What a replay brings back *)

Within(R, n) == R \subseteq 1..n

LEMMA WithinItself == \A n \in Nat : Within(1..n, n)
BY DEF Within

\* Cell i is the last of id k that a replay of the cells R sees.
IsLast(f, R, k, i) ==
  i \in R /\ f[i].key = k /\ \A j \in R : f[j].key = k => j <= i

LEMMA LastExists ==
  ASSUME NEW f, NEW n \in Nat, NEW R, Within(R, n), NEW k,
         \E i \in R : f[i].key = k
  PROVE  \E i \in R : IsLast(f, R, k, i)
<1>. DEFINE S == {i \in R : f[i].key = k}
<1>1. PICK i \in S : \A j \in S : j <= i
  <2>1. S # {} /\ S \subseteq 1..n
    BY DEF Within
  <2>. HIDE DEF S
  <2>. QED BY <2>1, Greatest
<1>. QED BY <1>1 DEF IsLast

\* The last cell of an id decides.
LEMMA ReplayIs ==
  ASSUME NEW f, NEW n \in Nat, NEW R, Within(R, n), NEW k \in Key,
         NEW i \in 1..n, IsLast(f, R, k, i)
  PROVE  Replay(f, R)[k] = f[i].val
<1>. DEFINE last == CHOOSE c \in R : IsLast(f, R, k, c)
<1>1. i \in R /\ f[i].key = k
  BY DEF IsLast
<1>2. Replay(f, R)[k] = f[last].val
  BY <1>1, Zenon DEF Replay, IsLast
<1>3. last \in R /\ IsLast(f, R, k, last)
  BY <1>1, Zenon
<1>. HIDE DEF last
<1>4. last = i
  BY <1>1, <1>3 DEF IsLast
<1>. QED BY <1>2, <1>4, Zenon

\* An id without a cell is absent.
LEMMA ReplayNone ==
  ASSUME NEW f, NEW R, NEW k \in Key, \A i \in R : f[i].key # k
  PROVE  Replay(f, R)[k] = Absent
BY Zenon DEF Replay

\* A replay of the cells R of f and one of the cells S of g see the same of id k.
SeeTheSame(f, R, g, S, k) ==
  /\ \A i \in R : f[i].key = k
                    => i \in S /\ g[i].key = k /\ f[i].val = g[i].val
  /\ \A i \in S : g[i].key = k => i \in R /\ f[i].key = k

LEMMA ReplaySame ==
  ASSUME NEW f, NEW g, NEW n \in Nat, NEW k \in Key,
         NEW R, Within(R, n), NEW S, Within(S, n),
         SeeTheSame(f, R, g, S, k)
  PROVE  Replay(f, R)[k] = Replay(g, S)[k]
<1>1. CASE \A i \in R : f[i].key # k
  <2>1. \A i \in S : g[i].key # k
    BY <1>1 DEF SeeTheSame
  <2>2. Replay(f, R)[k] = Absent
    BY <1>1, ReplayNone, Zenon
  <2>3. Replay(g, S)[k] = Absent
    BY <2>1, ReplayNone, Zenon
  <2>. QED BY <2>2, <2>3
<1>2. CASE \E i \in R : f[i].key = k
  <2>1. PICK i \in 1..n : IsLast(f, R, k, i)
    BY <1>2, LastExists DEF Within
  <2>2. IsLast(g, S, k, i) /\ f[i].val = g[i].val
    BY <2>1 DEF IsLast, SeeTheSame
  <2>3. Replay(f, R)[k] = f[i].val
    BY <2>1, ReplayIs
  <2>4. Replay(g, S)[k] = g[i].val
    BY <2>2, ReplayIs
  <2>. QED BY <2>2, <2>3, <2>4
<1>. QED BY <1>1, <1>2

LEMMA ReplayPrefix ==
  ASSUME NEW n \in Nat, NEW f, NEW g, \A i \in 1..n : f[i] = g[i],
         NEW k \in Key
  PROVE  Replay(f, 1..n)[k] = Replay(g, 1..n)[k]
<1>1. SeeTheSame(f, 1..n, g, 1..n, k)
  BY DEF SeeTheSame
<1>. QED BY <1>1, ReplaySame, WithinItself

\* Up to the first torn cell, a replay reads everything.
LEMMA ReadablePrefix ==
  ASSUME NEW f, NEW l \in Nat, l = Len(f), NEW R, Within(R, l),
         Readable(f, R), NEW n \in 0..l, \A i \in 1..n : ~f[i].torn
  PROVE  1..n \subseteq R
<1>. DEFINE S == {i \in 1..n : i \notin R}
<1>. SUFFICES ASSUME S # {} PROVE FALSE
  OBVIOUS
<1>1. S \in SUBSET Nat
  OBVIOUS
<1>2. PICK m \in S : \A i \in S : m <= i
  BY <1>1, Least
<1>3. m \in 1..n /\ m \notin R /\ ~f[m].torn
  OBVIOUS
<1>4. m = 1 \/ m - 1 \in R
  <2>1. ASSUME m # 1 PROVE m - 1 \in R
    <3>1. m - 1 \in 1..n /\ ~(m <= m - 1)
      BY <1>3, <2>1
    <3>. QED BY <1>2, <3>1
  <2>. QED BY <2>1
<1>5. m \in 1..Len(f)
  BY <1>3
<1>. QED BY <1>3, <1>4, <1>5 DEF Readable

-----------------------------------------------------------------------------
(* The inductive invariant *)

\* The record being written is the last of the file.
WritingIsLast ==
  writing # NoWrite => file # <<>> /\ file[Len(file)] = writing

\* A sync is only ever reported after a whole record.
SyncedCellWhole == synced > 0 => ~file[synced].torn

\* A record that may not have reached the disk is one of a write that is in
\* doubt.
UnsyncedInDoubt ==
  \A i \in (synced + 1)..Len(file) :
    ~file[i].torn => file[i].val \in unsure[file[i].key]

WholeUpTo(n) == \A i \in 1..n : ~file[i].torn

\* The synced part of the log, unless it has a torn record in it, says of every
\* id what the map says or what is in doubt.
SyncedTellsMap ==
  WholeUpTo(synced) =>
    \A k \in Key : Replay(file, 1..synced)[k] \in {mem[k]} \cup unsure[k]

\* Without torn writes no record is torn.
NothingTorn == ~TornWrites => WholeUpTo(Len(file))

LogInv ==
  /\ LogTypeOK
  /\ WritingIsLast
  /\ SyncedCellWhole
  /\ UnsyncedInDoubt
  /\ SyncedTellsMap
  /\ NothingTorn
-----------------------------------------------------------------------------
(* Every step keeps it *)

Seqs == Seq(Cell \cup {Torn})

LEMMA WholeCell ==
  ASSUME NEW c \in Cell \cup {Torn}, ~c.torn
  PROVE  c \in Cell
<1>1. Torn.torn
  BY DEF Torn
<1>. QED BY <1>1

\* A replay of whole cells brings back contents.
LEMMA ReplayContent ==
  ASSUME NEW f \in Seqs, NEW n \in 0..Len(f), NEW R, Within(R, n),
         \A i \in R : ~f[i].torn
  PROVE  Replay(f, R) \in [Key -> Content]
<1>. DEFINE is(k) == CHOOSE i \in R : /\ f[i].key = k
                                      /\ \A j \in R : f[j].key = k => j <= i
            val(k) == IF \E i \in R : f[i].key = k THEN f[is(k)].val ELSE Absent
<1>1. Replay(f, R) = [k \in Key |-> val(k)]
  BY Zenon DEF Replay
<1>. HIDE DEF val
<1>2. ASSUME NEW k \in Key
      PROVE  val(k) \in Content
  <2>1. Replay(f, R)[k] = val(k)
    BY <1>1
  <2>2. CASE Replay(f, R)[k] = Absent
    BY <2>1, <2>2 DEF Content
  <2>3. ASSUME NEW i \in R, Replay(f, R)[k] = f[i].val
        PROVE  val(k) \in Content
    <3>1. i \in 1..Len(f)
      BY DEF Seqs, Within
    <3>2. f[i] \in Cell \cup {Torn} /\ ~f[i].torn
      BY <3>1, ElementOfSeq DEF Seqs
    <3>3. f[i] \in Cell
      BY <3>2, WholeCell
    <3>4. f[i].val \in Content
      BY <3>3 DEF Cell
    <3>. QED BY <2>1, <2>3, <3>4
  <2>4. n \in Nat
    BY DEF Seqs
  <2>5. \/ Replay(f, R)[k] = Absent
        \/ \E i \in R : Replay(f, R)[k] = f[i].val
    <3>1. CASE \A i \in R : f[i].key # k
      BY <3>1, ReplayNone
    <3>2. CASE \E i \in R : f[i].key = k
      <4>1. PICK i \in 1..n : IsLast(f, R, k, i)
        BY <2>4, <3>2, LastExists DEF Within
      <4>2. Replay(f, R)[k] = f[i].val
        BY <2>4, <4>1, ReplayIs
      <4>. QED BY <4>1, <4>2 DEF IsLast
    <3>. QED BY <3>1, <3>2
  <2>. QED BY <2>2, <2>3, <2>5
<1>. QED BY <1>1, <1>2

LEMMA InitLog == LogInit => LogInv
<1>. SUFFICES ASSUME LogInit PROVE LogInv
  OBVIOUS
<1>. USE DEF LogInit
<1>1. LogTypeOK
  BY LogAssumption DEF LogTypeOK, Content
<1>2. WritingIsLast /\ SyncedCellWhole /\ UnsyncedInDoubt
  BY DEF WritingIsLast, SyncedCellWhole, UnsyncedInDoubt
<1>3. SyncedTellsMap
  <2>1. \A k \in Key : Replay(file, 1..synced)[k] = Absent
    <3>1. \A i \in 1..synced : FALSE
      OBVIOUS
    <3>. QED BY <3>1, ReplayNone, Zenon
  <2>. QED BY <2>1 DEF SyncedTellsMap
<1>4. NothingTorn
  BY DEF NothingTorn, WholeUpTo
<1>. QED BY <1>1, <1>2, <1>3, <1>4 DEF LogInv

\* A record is appended, whole or torn.
LEMMA AppendInv ==
  ASSUME LogInv, NEW k \in Key, NEW v \in Content, AppendRecord(k, v)
  PROVE  LogInv'
<1>. DEFINE c == IF writing' = writing THEN Torn ELSE CellOf(k, v)
            n == Len(file)
<1>0. /\ file \in Seqs /\ n \in Nat /\ synced \in 0..n
      /\ mem \in [Key -> Content] /\ unsure \in [Key -> SUBSET Content]
      /\ writing = NoWrite /\ UNCHANGED <<mem, synced, handle, crashes>>
      /\ unsure' = [unsure EXCEPT ![k] = @ \cup {v}]
  BY DEF LogInv, LogTypeOK, Seqs, AppendRecord
<1>1. CellOf(k, v) \in Cell /\ ~CellOf(k, v).torn
  BY DEF CellOf, Cell
<1>2. PICK e \in Cell \cup {Torn} :
        /\ file' = Append(file, e)
        /\ \/ e = CellOf(k, v) /\ writing' = e
           \/ e = Torn /\ TornWrites /\ writing' = NoWrite
  BY <1>0, <1>1, Zenon DEF AppendRecord
<1>3. /\ file' \in Seqs /\ Len(file') = n + 1 /\ file' # <<>>
      /\ \A i \in 1..n : file'[i] = file[i]
      /\ file'[n + 1] = e
  BY <1>0, <1>2, AppendProperties DEF Seqs
<1>4. LogTypeOK'
  <2>1. unsure' \in [Key -> SUBSET Content]
    BY <1>0
  <2>. QED BY <1>0, <1>1, <1>2, <1>3, <2>1 DEF LogInv, LogTypeOK, Seqs
<1>5. WritingIsLast'
  BY <1>2, <1>3 DEF WritingIsLast
<1>6. SyncedCellWhole'
  BY <1>0, <1>3 DEF LogInv, SyncedCellWhole
<1>7. UnsyncedInDoubt'
  <2>1. \A x \in Key : unsure[x] \subseteq unsure'[x]
    BY <1>0
  <2>2. ASSUME NEW i \in (synced' + 1)..Len(file'), ~file'[i].torn
        PROVE  file'[i].val \in unsure'[file'[i].key]
    <3>1. CASE i = n + 1
      <4>1. e = CellOf(k, v)
        BY <1>3, <2>2, <3>1, <1>2 DEF Torn
      <4>2. file'[i].val = v /\ file'[i].key = k
        BY <1>3, <3>1, <4>1 DEF CellOf
      <4>. QED BY <1>0, <4>2
    <3>2. CASE i # n + 1
      <4>1. i \in 1..n /\ i \in (synced + 1)..n /\ file'[i] = file[i]
        BY <1>0, <1>3, <3>2
      <4>2. file[i] \in Cell /\ file[i].val \in unsure[file[i].key]
        BY <1>0, <2>2, <4>1, ElementOfSeq
        DEF LogInv, UnsyncedInDoubt, Seqs, Torn
      <4>3. file[i].key \in Key
        BY <4>2 DEF Cell
      <4>. QED BY <2>1, <4>1, <4>2, <4>3
    <3>. QED BY <3>1, <3>2
  <2>. QED BY <2>2 DEF UnsyncedInDoubt
<1>8. SyncedTellsMap'
  <2>. SUFFICES ASSUME WholeUpTo(synced)', NEW x \in Key
                PROVE  Replay(file', 1..synced)[x] \in {mem[x]} \cup unsure'[x]
    BY <1>0 DEF SyncedTellsMap
  <2>1. WholeUpTo(synced)
    BY <1>0, <1>3 DEF WholeUpTo
  <2>2. Replay(file', 1..synced)[x] = Replay(file, 1..synced)[x]
    <3>1. \A i \in 1..synced : file'[i] = file[i]
      BY <1>0, <1>3
    <3>2. synced \in Nat
      BY <1>0
    <3>. QED BY <3>1, <3>2, ReplayPrefix
  <2>3. Replay(file, 1..synced)[x] \in {mem[x]} \cup unsure[x]
    BY <2>1 DEF LogInv, SyncedTellsMap
  <2>. QED BY <1>0, <2>2, <2>3
<1>9. NothingTorn'
  BY <1>0, <1>1, <1>2, <1>3 DEF LogInv, NothingTorn, WholeUpTo
<1>. QED BY <1>4, <1>5, <1>6, <1>7, <1>8, <1>9 DEF LogInv

\* Cells of an id beyond the synced ones are all in doubt.
LEMMA ReplayAll ==
  ASSUME LogInv, WholeUpTo(Len(file)), NEW k \in Key
  PROVE  /\ Replay(file, 1..Len(file))[k] \in {mem[k]} \cup unsure[k]
         /\ (\A i \in (synced + 1)..Len(file) : file[i].key # k)
              \/ Replay(file, 1..Len(file))[k] \in unsure[k]
<1>. DEFINE n == Len(file)
<1>0. /\ file \in Seqs /\ n \in Nat /\ synced \in 0..n
  BY DEF LogInv, LogTypeOK, Seqs
<1>1. CASE \A i \in (synced + 1)..n : file[i].key # k
  <2>1. WholeUpTo(synced)
    BY <1>0 DEF WholeUpTo
  <2>2. Replay(file, 1..n)[k] = Replay(file, 1..synced)[k]
    <3>1. Within(1..synced, n)
      BY <1>0 DEF Within
    <3>2. SeeTheSame(file, 1..n, file, 1..synced, k)
      BY <1>0, <1>1 DEF SeeTheSame
    <3>. QED BY <1>0, <3>1, <3>2, ReplaySame, WithinItself
  <2>3. Replay(file, 1..synced)[k] \in {mem[k]} \cup unsure[k]
    BY <2>1 DEF LogInv, SyncedTellsMap
  <2>. QED BY <1>1, <2>2, <2>3
<1>2. CASE \E i \in (synced + 1)..n : file[i].key = k
  <2>1. PICK i \in (synced + 1)..n : file[i].key = k
    BY <1>2
  <2>2. i \in 1..n
    BY <1>0
  <2>3. PICK j \in 1..n : /\ file[j].key = k /\ i <= j
                          /\ Replay(file, 1..n)[k] = file[j].val
    <3>1. PICK j \in 1..n : IsLast(file, 1..n, k, j)
      BY <1>0, <2>1, <2>2, LastExists, WithinItself
    <3>2. Replay(file, 1..n)[k] = file[j].val
      BY <1>0, <3>1, ReplayIs, WithinItself
    <3>. QED BY <2>1, <2>2, <3>1, <3>2 DEF IsLast
  <2>4. j \in (synced + 1)..n /\ ~file[j].torn
    BY <1>0, <2>3 DEF WholeUpTo
  <2>. QED BY <2>3, <2>4 DEF LogInv, UnsyncedInDoubt
<1>. QED BY <1>1, <1>2

\* The record is synced and acknowledged.
LEMMA SyncInv ==
  ASSUME LogInv, SyncRecord
  PROVE  LogInv'
<1>. DEFINE n == Len(file)
            key == writing.key
            val == writing.val
<1>0. /\ file \in Seqs /\ n \in Nat /\ synced \in 0..n
      /\ mem \in [Key -> Content] /\ unsure \in [Key -> SUBSET Content]
      /\ writing \in Cell
      /\ UNCHANGED <<file, handle, crashes>> /\ synced' = n /\ writing' = NoWrite
      /\ mem' = [mem EXCEPT ![key] = val]
      /\ unsure' = [unsure EXCEPT ![key] = {}]
      /\ file # <<>> /\ file[n] = writing
  BY DEF LogInv, LogTypeOK, Seqs, SyncRecord, WritingIsLast
<1>1. /\ n > 0 /\ file[n] = writing /\ ~file[n].torn
      /\ key \in Key /\ val \in Content
  <2>1. key \in Key /\ val \in Content /\ ~writing.torn
    BY <1>0 DEF Cell
  <2>2. n > 0
    BY <1>0, EmptySeq DEF Seqs
  <2>. QED BY <1>0, <2>1, <2>2
<1>2. LogTypeOK'
  BY <1>0, <1>1 DEF LogInv, LogTypeOK, Seqs
<1>3. WritingIsLast' /\ SyncedCellWhole' /\ UnsyncedInDoubt' /\ NothingTorn'
  BY <1>0, <1>1
  DEF LogInv, WritingIsLast, SyncedCellWhole, UnsyncedInDoubt, NothingTorn,
      WholeUpTo
<1>4. SyncedTellsMap'
  <2>. SUFFICES ASSUME WholeUpTo(n), NEW k \in Key
                PROVE  Replay(file, 1..n)[k] \in {mem'[k]} \cup unsure'[k]
    BY <1>0 DEF SyncedTellsMap, WholeUpTo
  <2>1. CASE k = key
    <3>1. IsLast(file, 1..n, k, n)
      BY <1>0, <1>1, <2>1 DEF IsLast
    <3>2. Replay(file, 1..n)[k] = val
      BY <1>0, <1>1, <3>1, ReplayIs, WithinItself
    <3>. QED BY <1>0, <1>1, <2>1, <3>2
  <2>2. CASE k # key
    <3>1. Replay(file, 1..n)[k] \in {mem[k]} \cup unsure[k]
      BY ReplayAll
    <3>. QED BY <1>0, <1>1, <2>2, <3>1
  <2>. QED BY <2>1, <2>2
<1>. QED BY <1>2, <1>3, <1>4 DEF LogInv

\* A log that says what the map says replaces the old one.
LEMMA CompactInv ==
  ASSUME LogInv, Compact
  PROVE  LogInv'
<1>0. /\ file \in Seqs /\ Len(file) \in Nat
      /\ mem \in [Key -> Content] /\ unsure \in [Key -> SUBSET Content]
      /\ writing = NoWrite /\ handle' \in {"open", "nil"}
      /\ UNCHANGED <<mem, writing, crashes, unsure>>
  BY DEF LogInv, LogTypeOK, Seqs, Compact
<1>1. PICK n \in Nat : \E f \in [1..n -> LiveCells] :
        IsCompaction(f) /\ file' = f /\ synced' = n
  BY <1>0 DEF Compact
<1>2. /\ file' \in [1..n -> LiveCells] /\ IsCompaction(file') /\ synced' = n
  BY <1>1
<1>3. \A c \in LiveCells : /\ c \in Cell /\ ~c.torn /\ c.key \in Key
                           /\ mem[c.key] # Absent
  <2>. SUFFICES ASSUME NEW k \in Key, mem[k] # Absent
                PROVE  LET c == CellOf(k, mem[k])
                       IN  /\ c \in Cell /\ ~c.torn /\ c.key \in Key
                           /\ mem[c.key] # Absent
    BY DEF LiveCells
  <2>1. mem[k] \in Content
    BY <1>0
  <2>. QED BY <2>1 DEF CellOf, Cell
<1>4. file' \in Seqs /\ Len(file') = n
  <2>1. file' \in [1..n -> Cell \cup {Torn}]
    BY <1>2, <1>3
  <2>. QED BY <2>1 DEF Seqs
<1>5. LogTypeOK'
  BY <1>0, <1>2, <1>4 DEF LogInv, LogTypeOK, Seqs
<1>6. \A i \in 1..n : ~file'[i].torn
  BY <1>2, <1>3
<1>7. WritingIsLast' /\ SyncedCellWhole' /\ UnsyncedInDoubt' /\ NothingTorn'
  BY <1>0, <1>2, <1>4, <1>6
  DEF WritingIsLast, SyncedCellWhole, UnsyncedInDoubt, NothingTorn, WholeUpTo
<1>8. SyncedTellsMap'
  <2>. SUFFICES ASSUME NEW k \in Key
                PROVE  Replay(file', 1..n)[k] = mem[k]
    BY <1>0, <1>2 DEF SyncedTellsMap
  <2>1. CASE \A i \in 1..n : file'[i].key # k
    <3>1. mem[k] = Absent
      BY <1>2, <1>4, <2>1 DEF IsCompaction
    <3>. QED BY <2>1, <3>1, ReplayNone
  <2>2. CASE \E i \in 1..n : file'[i].key = k
    <3>1. PICK i \in 1..n : IsLast(file', 1..n, k, i)
      BY <2>2, LastExists, WithinItself
    <3>2. Replay(file', 1..n)[k] = file'[i].val
      BY <3>1, ReplayIs, WithinItself
    <3>3. file'[i].val = mem[k]
      BY <1>2, <1>4, <3>1 DEF IsCompaction, IsLast
    <3>. QED BY <3>2, <3>3
  <2>. QED BY <2>1, <2>2
<1>. QED BY <1>5, <1>7, <1>8 DEF LogInv

\* A crash cuts off cells that were not synced, and perhaps leaves a part of
\* the next one.
LEMMA CrashInv ==
  ASSUME LogInv, Crash
  PROVE  LogInv'
<1>. DEFINE n == Len(file)
<1>0. /\ file \in Seqs /\ n \in Nat /\ synced \in 0..n
      /\ UNCHANGED <<mem, synced, unsure>> /\ writing' = NoWrite
  BY DEF LogInv, LogTypeOK, Seqs, Crash
<1>1. PICK m \in synced..n :
        \/ file' = SubSeq(file, 1, m)
        \/ TornWrites /\ m < n /\ file' = Append(SubSeq(file, 1, m), Torn)
  BY DEF Crash
<1>2. /\ m \in Nat /\ m \in 0..n
      /\ SubSeq(file, 1, m) \in Seqs /\ Len(SubSeq(file, 1, m)) = m
      /\ \A i \in 1..m : SubSeq(file, 1, m)[i] = file[i]
  <2>1. \A i \in 1..m : file[i] \in Cell \cup {Torn}
    BY <1>0, ElementOfSeq DEF Seqs
  <2>2. m \in Int /\ m \in 0..n
    BY <1>0
  <2>. HIDE DEF n
  <2>. QED BY <2>1, <2>2, SubSeqProperties DEF Seqs
<1>3. /\ file' \in Seqs /\ Len(file') \in {m, m + 1}
      /\ \A i \in 1..m : file'[i] = file[i]
      /\ Len(file') = m + 1 => TornWrites /\ file'[m + 1] = Torn
  <2>1. CASE file' = SubSeq(file, 1, m)
    BY <1>2, <2>1
  <2>2. CASE TornWrites /\ file' = Append(SubSeq(file, 1, m), Torn)
    BY <1>2, <2>2, AppendProperties DEF Seqs
  <2>. QED BY <1>1, <2>1, <2>2
<1>. HIDE DEF n
<1>4. LogTypeOK'
  BY <1>0, <1>2, <1>3, LogAssumption DEF LogInv, LogTypeOK, Crash, Seqs
<1>5. WritingIsLast'
  BY <1>0 DEF WritingIsLast
<1>6. SyncedCellWhole'
  BY <1>0, <1>1, <1>3 DEF LogInv, SyncedCellWhole
<1>7. UnsyncedInDoubt'
  <2>. SUFFICES ASSUME NEW i \in (synced + 1)..Len(file'), ~file'[i].torn
                PROVE  file'[i].val \in unsure[file'[i].key]
    BY <1>0 DEF UnsyncedInDoubt
  <2>1. Torn.torn
    BY DEF Torn
  <2>2. i # m + 1
    BY <1>2, <1>3, <2>1
  <2>3. i \in 1..m /\ i \in (synced + 1)..n
    BY <1>0, <1>2, <1>3, <2>2
  <2>4. file'[i] = file[i]
    BY <1>3, <2>3
  <2>. QED BY <2>3, <2>4 DEF LogInv, UnsyncedInDoubt, n
<1>8. SyncedTellsMap'
  <2>. SUFFICES ASSUME WholeUpTo(synced)', NEW k \in Key
                PROVE  Replay(file', 1..synced)[k] \in {mem[k]} \cup unsure[k]
    BY <1>0 DEF SyncedTellsMap
  <2>1. synced \in Nat /\ \A i \in 1..synced : file'[i] = file[i]
    BY <1>0, <1>1, <1>3
  <2>2. WholeUpTo(synced)
    BY <1>0, <2>1 DEF WholeUpTo
  <2>3. Replay(file, 1..synced)[k] \in {mem[k]} \cup unsure[k]
    BY <2>2 DEF LogInv, SyncedTellsMap
  <2>4. Replay(file', 1..synced)[k] = Replay(file, 1..synced)[k]
    BY <2>1, ReplayPrefix
  <2>. QED BY <2>3, <2>4
<1>9. NothingTorn'
  <2>. SUFFICES ASSUME ~TornWrites, NEW i \in 1..Len(file')
                PROVE  ~file'[i].torn
    BY DEF NothingTorn, WholeUpTo
  <2>1. Len(file') = m /\ i \in 1..m /\ i \in 1..n
    BY <1>0, <1>2, <1>3
  <2>. QED BY <1>3, <2>1 DEF LogInv, NothingTorn, WholeUpTo, n
<1>. QED BY <1>4, <1>5, <1>6, <1>7, <1>8, <1>9 DEF LogInv

\* The cells that a restart reads.
Reads(R) == Within(R, Len(file)) /\ Readable(file, R)

\* What a restart brings back of the log it finds.  An id without a write in
\* doubt comes back as the map had it, unless a torn record came before the end
\* of what was synced; and if nothing is torn, the other ids come back as the
\* map had them or as in doubt.
LEMMA LoadBrings ==
  ASSUME LogInv, NEW R, Reads(R), NEW k \in Key
  PROVE  /\ WholeUpTo(synced) /\ unsure[k] = {} =>
              /\ Replay(file, R)[k] = mem[k]
              /\ Replay(file, R)[k] = Replay(file, 1..synced)[k]
         /\ WholeUpTo(Len(file)) =>
              Replay(file, R)[k] \in {mem[k]} \cup unsure[k]
<1>. DEFINE n == Len(file)
<1>0. file \in Seqs /\ n \in Nat /\ synced \in 0..n
  BY DEF LogInv, LogTypeOK, Seqs
<1>1. ASSUME WholeUpTo(synced), unsure[k] = {}
      PROVE  /\ Replay(file, R)[k] = mem[k]
             /\ Replay(file, R)[k] = Replay(file, 1..synced)[k]
  <2>1. 1..synced \subseteq R
    BY <1>0, <1>1, ReadablePrefix DEF Reads, WholeUpTo
  <2>2. \A i \in R : file[i].key = k => i \in 1..synced
    <3>. SUFFICES ASSUME NEW i \in R, file[i].key = k, i \notin 1..synced
                  PROVE  FALSE
      OBVIOUS
    <3>1. i \in 1..n /\ i \in (synced + 1)..n /\ ~file[i].torn
      BY <1>0 DEF Reads, Readable, Within
    <3>2. file[i].val \in unsure[k]
      BY <3>1 DEF LogInv, UnsyncedInDoubt
    <3>. QED BY <1>1, <3>2
  <2>3. SeeTheSame(file, R, file, 1..synced, k)
    BY <2>1, <2>2 DEF SeeTheSame
  <2>4. n \in Nat /\ Within(R, n) /\ Within(1..synced, n)
    BY <1>0 DEF Reads, Within
  <2>5. Replay(file, R)[k] = Replay(file, 1..synced)[k]
    <3>. HIDE DEF n
    <3>. QED BY <2>3, <2>4, ReplaySame
  <2>. QED BY <1>1, <2>5 DEF LogInv, SyncedTellsMap
<1>2. ASSUME WholeUpTo(n)
      PROVE  Replay(file, R)[k] \in {mem[k]} \cup unsure[k]
  <2>1. 1..n \subseteq R
    <3>1. /\ n \in Nat /\ n = Len(file) /\ n \in 0..n
          /\ Within(R, n) /\ Readable(file, R)
          /\ \A i \in 1..n : ~file[i].torn
      BY <1>0, <1>2 DEF Reads, WholeUpTo
    <3>. HIDE DEF n
    <3>. QED BY <3>1, ReadablePrefix
  <2>2. R = 1..n
    BY <2>1 DEF Reads, Within
  <2>3. Replay(file, 1..n)[k] \in {mem[k]} \cup unsure[k]
    BY <1>2, ReplayAll
  <2>. QED BY <2>2, <2>3, Zenon
<1>. QED BY <1>1, <1>2

LEMMA LoadInv ==
  ASSUME LogInv, Load
  PROVE  LogInv'
<1>. DEFINE n == Len(file)
<1>0. /\ file \in Seqs /\ n \in Nat /\ synced \in 0..n
      /\ mem \in [Key -> Content] /\ unsure \in [Key -> SUBSET Content]
      /\ UNCHANGED <<file, synced, writing, crashes>> /\ handle' = "open"
      /\ unsure' = [k \in Key |-> IF unsure[k] = {} THEN {}
                                                    ELSE unsure[k] \cup {mem[k]}]
  BY DEF LogInv, LogTypeOK, Seqs, Load
<1>1. PICK R \in SUBSET (1..n) : Readable(file, R) /\ mem' = Replay(file, R)
  BY DEF Load
<1>2. Within(R, n) /\ Reads(R) /\ \A i \in R : ~file[i].torn
  BY <1>1 DEF Readable, Reads, Within
<1>3. LogTypeOK'
  <2>1. mem' \in [Key -> Content]
    <3>1. n \in 0..Len(file)
      BY <1>0
    <3>2. Replay(file, R) \in [Key -> Content]
      BY <1>0, <1>2, <3>1, ReplayContent
    <3>. QED BY <1>1, <3>2
  <2>2. unsure' \in [Key -> SUBSET Content]
    BY <1>0
  <2>. QED BY <1>0, <2>1, <2>2 DEF LogInv, LogTypeOK
<1>4. WritingIsLast' /\ SyncedCellWhole' /\ NothingTorn'
  BY <1>0
  DEF LogInv, WritingIsLast, SyncedCellWhole, NothingTorn, WholeUpTo
<1>5. UnsyncedInDoubt'
  <2>. SUFFICES ASSUME NEW i \in (synced + 1)..n, ~file[i].torn
                PROVE  file[i].val \in unsure'[file[i].key]
    BY <1>0 DEF UnsyncedInDoubt
  <2>1. file[i].val \in unsure[file[i].key]
    BY DEF LogInv, UnsyncedInDoubt
  <2>2. file[i] \in Cell
    BY <1>0, ElementOfSeq, WholeCell DEF Seqs
  <2>3. file[i].key \in Key
    BY <2>2 DEF Cell
  <2>. QED BY <1>0, <2>1, <2>3
<1>6. SyncedTellsMap'
  <2>. SUFFICES ASSUME WholeUpTo(synced), NEW k \in Key
                PROVE  Replay(file, 1..synced)[k] \in {mem'[k]} \cup unsure'[k]
    BY <1>0 DEF SyncedTellsMap, WholeUpTo
  <2>1. Replay(file, 1..synced)[k] \in {mem[k]} \cup unsure[k]
    BY DEF LogInv, SyncedTellsMap
  <2>2. CASE unsure[k] = {}
    BY <1>1, <1>2, <2>2, LoadBrings
  <2>3. CASE unsure[k] # {}
    BY <1>0, <2>1, <2>3
  <2>. QED BY <2>2, <2>3
<1>. QED BY <1>3, <1>4, <1>5, <1>6 DEF LogInv

LEMMA NextLog ==
  ASSUME LogInv, [LogNext]_vars
  PROVE  LogInv'
<1>. USE DEF LogInv, LogTypeOK, WritingIsLast, SyncedCellWhole,
             UnsyncedInDoubt, SyncedTellsMap, NothingTorn, WholeUpTo
<1>1. CASE SyncFails
  BY <1>1 DEF SyncFails
<1>2. CASE CompactFails
  BY <1>2 DEF CompactFails
<1>3. CASE UNCHANGED vars
  BY <1>3 DEF vars
<1>4. CASE \/ \E k \in Key, v \in Content : AppendRecord(k, v)
           \/ SyncRecord \/ Compact \/ Crash \/ Load
  BY <1>4, AppendInv, SyncInv, CompactInv, CrashInv, LoadInv, Zenon
<1>. QED BY <1>1, <1>2, <1>3, <1>4 DEF LogNext

-----------------------------------------------------------------------------
(* Theorems *)

\* The map, the log and what is in doubt keep their types through every write,
\* failed sync, compaction, crash and replay: a replay in particular never
\* brings back a torn record as one of an id.
THEOREM LogTypeCorrect == LogSpec => []LogTypeOK
<1>1. LogInv => LogTypeOK
  BY DEF LogInv
<1>. QED BY <1>1, InitLog, NextLog, PTL DEF LogSpec

\* However many crashes, failed writes and compactions there were: if the only
\* torn record is the last of the log, a restart brings every acknowledged
\* write back.  "Truncated record at end of file -- safe to stop" is right for
\* a record at the end of the file.
THEOREM TornTailCorrect == LogSpec => TornTailHarmless
<1>. DEFINE Harmless ==
       \A k \in Key :
         /\ handle = "down" /\ handle' = "open"
         /\ unsure[k] = {}
         /\ \A i \in 1..Len(file) : file[i].torn => i = Len(file)
         => mem'[k] = mem[k]
<1>1. ASSUME LogInv, [LogNext]_vars
      PROVE  [Harmless]_<<mem, handle>>
  <2>. SUFFICES ASSUME NEW k \in Key, handle = "down", handle' = "open",
                       unsure[k] = {},
                       \A i \in 1..Len(file) : file[i].torn => i = Len(file)
                PROVE  mem'[k] = mem[k]
    OBVIOUS
  <2>1. Load
    BY <1>1 DEF LogNext, AppendRecord, SyncRecord, SyncFails, Compact,
                CompactFails, Crash, vars
  <2>2. PICK R \in SUBSET (1..Len(file)) :
          Readable(file, R) /\ mem' = Replay(file, R)
    BY <2>1 DEF Load
  <2>3. WholeUpTo(synced)
    <3>1. Len(file) \in Nat /\ synced \in 0..Len(file)
      BY <1>1 DEF LogInv, LogTypeOK
    <3>2. synced > 0 => ~file[synced].torn
      BY <1>1 DEF LogInv, SyncedCellWhole
    <3>. QED BY <3>1, <3>2 DEF WholeUpTo
  <2>4. Reads(R)
    BY <2>2 DEF Reads, Within
  <2>. QED BY <1>1, <2>2, <2>3, <2>4, LoadBrings
<1>. QED BY <1>1, InitLog, NextLog, PTL DEF LogSpec, TornTailHarmless

\* Every step of the log is a step of the map it implements, or none.
LEMMA StepRefines ==
  ASSUME LogInv, ~TornWrites, [LogNext]_vars
  PROVE  [KV!KVNext]_<<mem, unsure>>
<1>. USE DEF KV!KVNext, KV!Content, Content
<1>1. ASSUME NEW k \in Key, NEW v \in Content, AppendRecord(k, v)
      PROVE  KV!Attempt(k, v)
  BY <1>1 DEF AppendRecord, KV!Attempt
<1>2. CASE SyncRecord
  <2>1. writing.key \in Key /\ writing.val \in Content
    BY <1>2 DEF LogInv, LogTypeOK, SyncRecord, Cell
  <2>2. KV!Write(writing.key, writing.val)
    BY <1>2 DEF SyncRecord, KV!Write
  <2>. QED BY <2>1, <2>2
<1>3. CASE Load
  <2>1. PICK R \in SUBSET (1..Len(file)) :
          Readable(file, R) /\ mem' = Replay(file, R)
    BY <1>3 DEF Load
  <2>2. Reads(R) /\ WholeUpTo(Len(file))
    BY <2>1 DEF LogInv, NothingTorn, Reads, Within
  <2>3. \A k \in Key : mem'[k] \in {mem[k]} \cup unsure[k]
    BY <2>1, <2>2, LoadBrings
  <2>4. mem' \in [Key -> Content]
    BY <1>3, LoadInv DEF LogInv, LogTypeOK
  <2>5. KV!Restart
    BY <1>3, <2>3, <2>4 DEF Load, KV!Restart
  <2>. QED BY <2>5
<1>4. CASE \/ SyncFails \/ Compact \/ CompactFails \/ Crash
           \/ UNCHANGED vars
  BY <1>4 DEF SyncFails, Compact, CompactFails, Crash, vars
<1>. QED BY <1>1, <1>2, <1>3, <1>4 DEF LogNext

\* A collection is the map it promises to be when no record is torn: an
\* acknowledged Save or Delete survives every crash, power failure, failed sync
\* and compaction, and a restart turns up nothing but it or a write in doubt.
THEOREM LogImplementsMap == ~TornWrites => (LogSpec => ImplementsKV)
<1>. SUFFICES ASSUME ~TornWrites PROVE LogSpec => ImplementsKV
  OBVIOUS
<1>1. LogInit => KV!KVInit
  BY DEF LogInit, KV!KVInit
<1>2. LogInv /\ [LogNext]_vars => [KV!KVNext]_<<mem, unsure>>
  BY StepRefines
<1>. QED BY <1>1, <1>2, InitLog, NextLog, PTL DEF LogSpec, ImplementsKV, KV!KVSpec
=============================================================================
