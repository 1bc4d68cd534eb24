------------------------ MODULE LsmTreeReadProofs ------------------------
(***************************************************************************)
(* The levels are sorted, zeroed entries have nothing under them, and a    *)
(* read shows the last write of its key, unless a compaction was flawed:   *)
(* for any keys, levels, threads and numbers of writes.                    *)
(***************************************************************************)
EXTENDS LsmTreeWholeProofs

\* What the installation of compaction c finds and leaves.
LEMMA InstallFacts ==
  ASSUME Reserved, Typed, Ordered, NEW j \in Running, NEW c, c = job[j], Installs(j, c), Clear(c)
  PROVE  /\ \A level \in Levels : \A f \in version'[level] :
               \/ /\ f \in version[level]
                  /\ level = c.level => f \notin c.inputs
                  /\ level = c.level + 1 => f \notin c.others
               \/ level = c.level + 1 /\ f \in c.outputs
         /\ \A o \in c.outputs : IsTable(o)
         /\ \A o \in c.outputs : \A k \in DOMAIN o : \E h \in Used(c) : k \in DOMAIN h
         /\ \A o \in c.outputs : \A x \in Span(o) : \E h \in Used(c) : x \in Span(h)
         /\ \A f \in version[c.level + 1] \ c.others, o \in c.outputs : Apart(f, o)
<1>1. JobOK(c)
  BY UsedFacts
<1> QED BY <1>1 DEF Installs, Typed, JobOK, OutputsSound, Apart, OthersCut, Clear, Used

\* The tables of each level still come one after the other.
LEMMA InstallInLine ==
  ASSUME Reserved, Typed, Ordered, LevelsInLine, NEW j \in Running, NEW c, c = job[j],
         Installs(j, c), WholeJob(c)
  PROVE  LevelsInLine'
BY InstallFacts, ApartFollows DEF LevelsInLine, InLine, WholeJob, Typed

\* Zeroed entries are still alone.
LEMMA InstallZero ==
  ASSUME Reserved, Typed, Ordered, ZeroAlone, NEW j \in Running, NEW c, c = job[j],
         Installs(j, c), WholeJob(c)
  PROVE  ZeroAlone'
<1> SUFFICES ASSUME NEW level \in Levels, NEW f \in version'[level], NEW k \in DOMAIN f, f[k].seq = 0
             PROVE  Alone(level, f, k)'
  BY DEF ZeroAlone
<1>1. /\ \A l \in Levels : \A h \in version'[l] :
            \/ /\ h \in version[l]
               /\ l = c.level => h \notin c.inputs
               /\ l = c.level + 1 => h \notin c.others
            \/ l = c.level + 1 /\ h \in c.outputs
      /\ \A o \in c.outputs : IsTable(o)
      /\ \A o \in c.outputs : \A l \in DOMAIN o : \E h \in Used(c) : l \in DOMAIN h
      /\ \A o \in c.outputs : \A x \in Span(o) : \E h \in Used(c) : x \in Span(h)
      /\ \A h \in version[c.level + 1] \ c.others, o \in c.outputs : Apart(h, o)
  BY InstallFacts DEF WholeJob
<1>2. /\ c.level \in Nat /\ c.level \in Levels /\ c.level + 1 \in Levels
      /\ c.inputs \subseteq version[c.level] /\ c.others \subseteq version[c.level + 1]
      /\ \A h \in Used(c) : IsTable(h)
      /\ JobOK(c)
  BY UsedFacts
<1>3. \A l \in Levels : \A lower \in Deeper(l) : lower \in Levels /\ lower \in Nat /\ l \in Nat /\ l < lower
  BY DEF Levels, Deeper
<1>4. CASE /\ f \in version[level] /\ (level = c.level => f \notin c.inputs)
           /\ (level = c.level + 1 => f \notin c.others)
  <2>1. /\ f[k].type = "value"
        /\ \A g \in version[level] : g = f \/ k \notin Span(g)
        /\ \A lower \in Deeper(level) : \A g \in version[lower] : k \notin Span(g)
    BY <1>4 DEF ZeroAlone, Alone
  <2>2. ASSUME NEW g \in version'[level], g # f PROVE k \notin Span(g)
    BY <2>1, <2>2, <1>1, <1>4, TableFacts DEF Apart
  <2>3. ASSUME NEW lower \in Deeper(level), NEW g \in version'[lower], k \in Span(g) PROVE FALSE
    <3>1. CASE g \in version[lower]
      BY <2>1, <2>3, <3>1
    <3>2. CASE lower = c.level + 1 /\ g \in c.outputs
      <4>1. PICK h \in Used(c) : k \in Span(h)
        BY <1>1, <2>3, <3>2
      <4>2. CASE h \in c.others
        BY <1>2, <2>1, <3>2, <4>1, <4>2
      <4>3. CASE h \in c.inputs /\ level = c.level
        BY <1>2, <1>4, <2>1, <4>1, <4>3
      <4>4. CASE h \in c.inputs /\ level # c.level
        <5>1. c.level \in Deeper(level)
          BY <1>2, <1>3, <3>2, <4>4 DEF Deeper, Levels
        <5> QED BY <1>2, <2>1, <4>1, <4>4, <5>1
      <4> QED BY <4>2, <4>3, <4>4 DEF Used
    <3> QED BY <1>1, <1>3, <3>1, <3>2
  <2> QED BY <2>1, <2>2, <2>3 DEF Alone
<1>5. CASE level = c.level + 1 /\ f \in c.outputs
  <2>1. /\ f[k].type = "value" /\ k \notin c.beyond
        /\ \A p \in c.outputs : p = f \/ k \notin Span(p)
    BY <1>5 DEF OutputsZero, WholeJob
  <2>2. k \in Span(f) /\ k \in Keys
    BY <1>1, <1>5, SpanOf DEF IsTable
  <2>3. ASSUME NEW g \in version'[level], g # f PROVE k \notin Span(g)
    BY <1>1, <1>5, <2>2, <2>1, <2>3 DEF Apart
  <2>4. ASSUME NEW lower \in Deeper(level), NEW g \in version'[lower], k \in Span(g) PROVE FALSE
    <3>1. lower \in Deeper(c.level + 1) /\ g \in version[lower]
      BY <1>1, <1>3, <1>5
    <3>2. PICK h \in Used(c) : k \in DOMAIN h
      BY <1>1, <1>5
    <3>3. k \in Span(h)
      BY <1>2, <3>2, SpanOf
    <3>4. k \in c.beyond
      BY <1>2, <2>2, <2>4, <3>1, <3>3 DEF JobOK, Below
    <3> QED BY <2>1, <3>4
  <2> QED BY <2>1, <2>3, <2>4 DEF Alone
<1> QED BY <1>1, <1>4, <1>5

\* If the last write of a key is dropped, nothing of the key is left.
LEMMA InstallDrops ==
  ASSUME Reserved, Typed, Ordered, NEW j \in Running, NEW c, c = job[j], Installs(j, c), Clear(c),
         NEW f \in Used(c), NEW k \in DOMAIN f, LastOf(k, f[k].write), k \notin c.beyond,
         \A o \in c.outputs : k \notin DOMAIN o,
         NEW level \in Levels, NEW g \in version'[level], k \in DOMAIN g
  PROVE  FALSE
<1>1. /\ g \in version[level]
      /\ level = c.level => g \notin c.inputs
      /\ level = c.level + 1 => g \notin c.others
  BY InstallFacts
<1>2. /\ c.level \in Nat /\ c.level \in Levels /\ c.level + 1 \in Levels
      /\ c.inputs \subseteq version[c.level] /\ c.others \subseteq version[c.level + 1]
      /\ IsTable(f) /\ f[k].write \in Nat
      /\ JobOK(c)
  BY UsedFacts
<1>3. IsTable(g) /\ g[k].write \in Nat /\ k \in Keys /\ k \in Span(g) /\ g[k].write \in 1 .. flushed
      /\ history[g[k].write].key = k
  BY <1>1, TableFacts DEF Sound
<1>4. ~(g[k].write > f[k].write)
  BY <1>3 DEF LastOf
<1>5. level \in Nat /\ k \in Span(f) /\ (f \in c.inputs \/ f \in c.others)
  BY <1>2, SpanOf DEF Levels, Used
<1>6. \A lower \in Levels : level < lower => f \notin version[lower]
  BY <1>1, <1>4 DEF Levels, Deeper, Ordered, Above
<1>7. CASE level < c.level
  BY <1>2, <1>5, <1>6, <1>7
<1>8. CASE level = c.level
  <2>1. Apart(g, f) \/ Younger(g, f)
    BY <1>1, <1>2, <1>8, <1>5, <1>6 DEF JobOK, InputsCut
  <2> QED BY <1>4, <2>1, <1>3, <1>5 DEF Younger, Apart
<1>9. CASE level = c.level + 1
  BY <1>1, <1>2, <1>5, <1>9, <1>3 DEF JobOK, OthersCut, Clear, Apart
<1>10. CASE level > c.level + 1
  <2>1. level \in Deeper(c.level + 1)
    BY <1>2, <1>10 DEF Levels, Deeper
  <2> QED BY <1>1, <1>2, <1>3, <1>5, <2>1 DEF JobOK, Below
<1> QED BY <1>2, <1>5, <1>7, <1>8, <1>9, <1>10

\* The last write of a key is still in a table, or dead and gone.
LEMMA InstallKept ==
  ASSUME Reserved, Typed, Past, Ordered, Kept, NEW j \in Running, NEW c, c = job[j],
         Installs(j, c), WholeJob(c)
  PROVE  Kept'
<1> SUFFICES ASSUME NEW k \in Keys, NEW w \in Writes, LastOf(k, w)'
             PROVE  \/ \E level \in Levels : \E f \in version'[level] : k \in DOMAIN f /\ f[k].write = w
                    \/ Dead(w)' /\ \A level \in Levels : \A f \in version'[level] : k \notin DOMAIN f
  BY DEF Kept
<1>1. LastOf(k, w) /\ w \in 1 .. flushed
  BY DEF LastOf, Installs
<1>2. Clear(c) /\ OutputsLast(c) /\ c.phase = "install"
  BY DEF WholeJob, Installs
<1>3. /\ c.level \in Levels /\ c.level + 1 \in Levels
      /\ c.inputs \subseteq version[c.level] /\ c.others \subseteq version[c.level + 1]
      /\ \A f \in Used(c) : \A l \in DOMAIN f : f[l].write \in 1 .. flushed /\ f[l].write \in Nat
      /\ \A f \in Used(c) : \A l \in DOMAIN f : Sound(l, f[l])
  BY UsedFacts
<1>4. CASE Dead(w) /\ \A level \in Levels : \A f \in version[level] : k \notin DOMAIN f
  BY <1>3, <1>4, <1>2, InstallFacts, <1>1, DeadKept DEF Used
<1>5. ASSUME NEW level \in Levels, NEW f \in version[level], k \in DOMAIN f, f[k].write = w
      PROVE  \/ \E lv \in Levels : \E g \in version'[lv] : k \in DOMAIN g /\ g[k].write = w
             \/ Dead(w)' /\ \A lv \in Levels : \A g \in version'[lv] : k \notin DOMAIN g
  <2>1. CASE f \in version'[level]
    BY <1>5, <2>1
  <2>2. CASE f \in Used(c)
    <3>1. Newest(c, k, f)
      BY <1>5, <1>3, <1>1 DEF Newest, Sound, LastOf, Typed
    <3>2. CASE \E o \in c.outputs : k \in DOMAIN o /\ o[k].write = w
      BY <1>3, <3>2 DEF Installs
    <3>3. CASE Dead(w) /\ k \notin c.beyond /\ \A o \in c.outputs : k \notin DOMAIN o
      <4>1. LastOf(k, f[k].write)
        BY <1>1, <1>5
      <4>2. \A lv \in Levels : \A g \in version'[lv] : k \notin DOMAIN g
        BY <1>2, <1>5, <2>2, <3>3, <4>1, InstallDrops
      <4> QED BY <3>3, <4>2, <1>1, DeadKept
    <3> QED BY <1>2, <1>5, <2>2, <3>1, <3>2, <3>3 DEF OutputsLast
  <2> QED BY <2>1, <2>2 DEF Installs, Used
<1> QED BY <1>1, <1>4, <1>5 DEF Kept

\* The outputs of compaction c are not in the way of d either.
LEMMA InstallClear ==
  ASSUME Reserved, Typed, Ordered, NEW i \in Running, NEW j \in Running, i # j,
         NEW c, NEW d, c = job[j], d = job[i], Installs(j, c), Clear(c), Clear(d)
  PROVE  Clear(d)'
<1>1. /\ c.level \in Nat /\ c.level + 1 \in Levels /\ c.others \subseteq version[c.level + 1] /\ JobOK(c)
  BY UsedFacts
<1>2. d.level \in Nat /\ d.level + 1 \in Levels /\ d.others \subseteq version[d.level + 1]
  BY UsedFacts
<1>3. c.level = d.level => c.others \cap d.others = {}
  BY TwoRunning
<1> SUFFICES ASSUME NEW f \in version'[d.level + 1] \ d.others, NEW g \in d.others,
                    NEW x \in Span(f), x \in Span(g)
             PROVE  FALSE
  BY DEF Clear, Apart
<1>4. CASE f \in version[d.level + 1]
  BY <1>4 DEF Clear, Apart
<1>5. CASE d.level = c.level /\ f \in c.outputs
  BY <1>1, <1>5, <1>3, <1>2 DEF JobOK, OutputsSound, Clear, Apart, OthersCut, Used
<1> QED BY <1>1, <1>2, <1>4, <1>5 DEF Installs

\* The installation of a compaction.
LEMMA WholeInstall ==
  ASSUME Reserved, Typed, Past, Ordered, Whole, NEW j \in Running, NEW c, c = job[j], Installs(j, c)
  PROVE  Whole'
<1> SUFFICES ASSUME ~flawed' PROVE LevelsInLine' /\ ZeroAlone' /\ Kept' /\ WholeJobs'
  BY DEF Whole
<1> LevelsInLine /\ ZeroAlone /\ Kept /\ WholeJobs
  BY DEF Whole, Installs
<1> WholeJob(c) /\ Clear(c)
  BY DEF WholeJobs, WholeJob
<1>1. LevelsInLine' /\ ZeroAlone' /\ Kept'
  BY InstallInLine, InstallZero, InstallKept
<1>2. WholeJobs'
  <2> SUFFICES ASSUME NEW i \in Running', NEW d, d = job'[i] PROVE WholeJob(d)'
    BY DEF WholeJobs
  <2> i \in Running /\ i # j /\ d = job[i]
    BY DEF Installs
  <2> WholeJob(d) /\ Clear(d)
    BY DEF WholeJobs, WholeJob
  <2>1. Clear(d)'
    BY InstallClear
  <2> QED BY <2>1, UsedFacts, WholeJobStays
<1> QED BY <1>1, <1>2

\* Every step keeps it.
LEMMA WholeStep ==
  ASSUME Reserved, Typed, Ordered, Whole, [Next]_vars
  PROVE  Whole'
<1>1. Past
  BY TypedStep
<1>2. CASE Quiet
  BY <1>1, <1>2, WholeQuiet
<1>3. CASE flush
  BY <1>1, <1>3, FlushFlushes, WholeFlush
<1>4. ASSUME NEW j \in Jobs, PickCompaction(j) PROVE Whole'
  BY <1>1, <1>4, PickBegins, WholeBegin
<1>5. ASSUME NEW j \in Jobs, ProcessKeyValueCompaction(j) PROVE Whole'
  BY <1>1, <1>5, RunProduces, WholeProduce
<1>6. ASSUME NEW j \in Jobs, Install(j) PROVE Whole'
  BY <1>1, <1>6, InstallInstalls, WholeInstall
<1> QED BY <1>2, <1>3, <1>4, <1>5, <1>6, OtherSteps DEF Next

\* The invariant is inductive.
LEMMA WholeInv == Spec => [](Reserved /\ Typed /\ Ordered /\ Whole)
<1>1. ASSUME Init PROVE Whole
  <2>1. Kept
    BY <1>1 DEF Kept, LastOf, Init
  <2> QED BY <2>1, <1>1 DEF Whole, LevelsInLine, InLine, ZeroAlone, WholeJobs, Init, Running, Idle
<1>2. Reserved /\ Typed /\ Ordered /\ Whole /\ [Next]_vars => Whole'
  BY WholeStep
<1> QED BY <1>1, <1>2, OrderedInv, PTL DEF Spec

----------------------------------------------------------------------------
(***************************************************************************)
(* What holds in every state.                                              *)
(***************************************************************************)

\* A key that two tables of a level share has its sequence number in both.
LEMMA SharedKey ==
  ASSUME Typed, Ordered, ZeroAlone, NEW level \in Levels, NEW f \in version[level],
         NEW g \in version[level], f # g, NEW k \in DOMAIN f \cap DOMAIN g
  PROVE  /\ f[k].seq = f[k].write /\ g[k].seq = g[k].write
         /\ f[k].write \in Nat /\ g[k].write \in Nat
BY TableFacts DEF ZeroAlone, Alone

\* Tables one after the other are so in the order of their internal keys.
LEMMA InLineIsSorted ==
  ASSUME Typed, Ordered, ZeroAlone, NEW level \in Levels, InLine(version[level])
  PROVE  Sorted(version[level])
<1>1. ASSUME NEW f \in version[level], NEW g \in version[level], f # g, Follows(f, g)
      PROVE  Before(f, g)
  <2>1. CASE Largest(f) < Smallest(g)
    BY <2>1 DEF Before
  <2>2. CASE Largest(f) = Smallest(g) /\ f[Largest(f)].write > g[Smallest(g)].write
    <3>1. PICK k : k = Largest(f)
      OBVIOUS
    <3>2. k \in DOMAIN f /\ k \in DOMAIN g
      BY <2>2, <3>1, SpanOf DEF Typed
    <3> QED BY <2>2, <3>1, <1>1, <3>2, SharedKey DEF Before, Precedes
  <2> QED BY <1>1, <2>1, <2>2 DEF Follows
<1> QED BY <1>1 DEF InLine, Sorted

\* VersionBuilder::CheckConsistency finds every level under level 0 sorted, in
\* any number of levels and with any number of compactions at once, as long as
\* none was flawed.
THEOREM LevelsStaySorted == Spec => []LevelsSorted
<1>1. Typed /\ Ordered /\ Whole => LevelsSorted
  BY InLineIsSorted DEF Whole, LevelsInLine, LevelsSorted
<1> QED BY <1>1, WholeInv, PTL

\* What PrepareOutput asserts stays true: nothing of the key gets under an entry
\* whose sequence number was zeroed, as long as no compaction was flawed.
THEOREM ZeroedStaysBottom == Spec => []ZeroedAtBottom
<1>1. ASSUME Typed, Ordered, Whole PROVE ZeroedAtBottom
  BY <1>1, TableFacts DEF ZeroedAtBottom, OnlyBottomZeroed, Alone, Whole, ZeroAlone, Levels,
     Deeper, KeysOf
<1>2. Typed /\ Ordered /\ Whole => ZeroedAtBottom
  BY <1>1
<1> QED BY <1>2, WholeInv, PTL

\* The filter and the drop of expired rows change nothing that is shown.
LEMMA FoundShown ==
  ASSUME NEW k, NEW e, Sound(k, e)
  PROVE  Shown(Found(e)) = Shown(ValueOf(e.write))
BY DEF Found, ValueOf, Shown, Sound

\* Of a key that is in no table neither Get nor an iterator finds anything.
LEMMA NothingThere ==
  ASSUME NEW k, NEW snapshot, \A level \in Levels : \A f \in version[level] : k \notin DOMAIN f
  PROVE  VersionGet(k, snapshot) = NotFound /\ Internal(k, snapshot) = {}
BY DEF Visible, VersionGet, Internal

\* Of the tables of level 0 that have the key, Get takes the one with its last write.
LEMMA NewestFound ==
  ASSUME Typed, Ordered, NEW tables \in SUBSET version[0], NEW f \in tables, NEW k,
         \A g \in tables : k \in DOMAIN g /\ ~(g[k].write > f[k].write)
  PROVE  NewestOf(tables) = f
BY SmallestIsWrite DEF Ordered, Ages, Younger, NewestOf

\* So it does at the other levels.
LEMMA FirstFound ==
  ASSUME Typed, Ordered, ZeroAlone, LevelsInLine, NEW level \in Levels \ {0},
         NEW tables \in SUBSET version[level], NEW f \in tables, NEW k,
         \A g \in tables : k \in DOMAIN g /\ ~(g[k].write > f[k].write)
  PROVE  FirstTable(tables) = f
<1>1. /\ Smallest(f) \in Nat /\ k \in Smallest(f) .. Largest(f)
      /\ IsTable(f)
  BY SpanOf DEF Typed
<1>2. ASSUME NEW g \in tables, g # f
      PROVE  ~BySmallestKey(g, f) /\ BySmallestKey(f, g)
  BY <1>2, <1>1, FollowsKey, SharedKey DEF Typed, LevelsInLine, InLine, Precedes, BySmallestKey
<1>3. ASSUME NEW g \in tables, \A h \in tables : ~BySmallestKey(h, g) PROVE g = f
  BY <1>2, <1>3
<1> QED
  BY <1>2 DEF FirstTable, IsTable, Entry, BySmallestKey, Precedes

\* Of a key whose last write among those in files is in table f, both kinds of
\* read find that write.
LEMMA LastFound ==
  ASSUME Typed, Ordered, ZeroAlone, LevelsInLine, NEW k \in Keys, NEW snapshot \in Nat,
         NEW level \in Levels, NEW f \in version[level], k \in DOMAIN f,
         LastOf(k, f[k].write), f[k].write <= snapshot
  PROVE  /\ \E e : Sound(k, e) /\ e.write = f[k].write /\ VersionGet(k, snapshot) = Found(e)
         /\ Internal(k, snapshot) # {}
         /\ \E e : Sound(k, e) /\ e.write = f[k].write /\ FirstOf(Internal(k, snapshot)) = e
<1>1. ASSUME NEW m \in Levels, NEW g \in version[m], k \in DOMAIN g
      PROVE  /\ g[k] \in Entry /\ Sound(k, g[k]) /\ g[k].seq \in Nat /\ g[k].write \in Nat
             /\ g[k].seq \in {0, g[k].write} /\ k \in Span(g)
             /\ ~(g[k].write > f[k].write) /\ g[k].seq <= snapshot
             /\ ~(m < level)
  <2>1. ~(g[k].write > f[k].write)
    BY TableFacts, <1>1 DEF LastOf, Sound, Typed
  <2>2. ~(m < level)
    BY <1>1, <2>1 DEF Levels, Deeper, Ordered, Above
  <2> QED BY <2>1, <2>2, TableFacts, <1>1 DEF Typed
<1>2. \E e : Sound(k, e) /\ e.write = f[k].write /\ VersionGet(k, snapshot) = Found(e)
  <2> DEFINE hit == {m \in Levels : Visible(version[m], k, snapshot) # {}}
             tables == Visible(version[level], k, snapshot)
  <2>1. f \in tables /\ tables \in SUBSET version[level]
    BY <1>1 DEF Visible
  <2>2. level \in hit /\ hit \in SUBSET Nat /\ hit # {}
    BY <2>1 DEF Levels
  <2>3. Min(hit) \in hit /\ Min(hit) <= level
    <3> HIDE DEF hit
    <3> QED BY <2>2, Least
  <2>4. Min(hit) \in Levels /\ \E g \in version[Min(hit)] : k \in DOMAIN g
    BY <2>3 DEF Visible
  <2>5. ~(Min(hit) < level)
    BY <1>1, <2>4
  <2>6. Min(hit) = level
    BY <2>3, <2>5 DEF Levels
  <2>7. \A g \in tables : k \in DOMAIN g /\ ~(g[k].write > f[k].write)
    BY <1>1 DEF Visible
  <2>8. VersionGet(k, snapshot) =
            Found((IF level = 0 THEN NewestOf(tables) ELSE FirstTable(tables))[k])
    BY <2>2, <2>6 DEF VersionGet
  <2> HIDE DEF tables
  <2>9. level = 0 => NewestOf(tables) = f
    BY <2>1, <2>7, NewestFound
  <2>10. level # 0 => FirstTable(tables) = f
    BY <2>1, <2>7, FirstFound
  <2> QED BY <1>1, <2>8, <2>9, <2>10
<1>3. Internal(k, snapshot) # {} /\ \E e : Sound(k, e) /\ e.write = f[k].write /\ FirstOf(Internal(k, snapshot)) = e
  <2>1. PICK E : E = Internal(k, snapshot)
    OBVIOUS
  <2>2. \A e \in E : \E m \in Levels : \E g \in version[m] : k \in DOMAIN g /\ e = g[k]
    BY <2>1 DEF Internal, Visible
  <2>3. f[k] \in E
    BY <1>1, <2>1 DEF Internal, Visible
  <2>4. FirstOf(E) \in E /\ ~Precedes(f[k], FirstOf(E))
    BY <2>3, FirstComes, <1>1, <2>2
  <2>5. PICK m \in Levels : \E g \in version[m] : k \in DOMAIN g /\ FirstOf(E) = g[k]
    BY <2>2, <2>4
  <2>6. PICK g \in version[m] : k \in DOMAIN g /\ FirstOf(E) = g[k]
    BY <2>5
  <2>7. g[k].write = f[k].write
    BY <1>1, <2>4, <2>6 DEF Precedes, ZeroAlone, Levels, Deeper, Alone
  <2> QED BY <1>1, <2>1, <2>3, <2>6, <2>7
<1> QED BY <1>2, <1>3

\* What a read shows of a key that nobody wrote after its snapshot.
LEMMA ReadsLatest ==
  ASSUME Typed, Ordered, ZeroAlone, LevelsInLine, Kept, NEW k \in Keys, NEW snapshot \in 0 .. Len(history),
         \A w \in snapshot + 1 .. Len(history) : history[w].key # k
  PROVE  /\ Shown(GetImpl(k, snapshot)) = Shown(Latest(k, snapshot))
         /\ Shown(IteratorGet(k, snapshot)) = Shown(Latest(k, snapshot))
<1> DEFINE ws == {w \in 1 .. snapshot : history[w].key = k}
           mem == {w \in flushed + 1 .. snapshot : history[w].key = k}
<1>1. Len(history) \in Nat /\ Len(history) <= MaxWrites /\ flushed \in 0 .. Len(history) /\ snapshot \in Nat
  BY DEF Typed
<1>2. ws \in SUBSET Nat /\ (\A w \in ws : w <= snapshot) /\ mem \in SUBSET Nat /\ mem \subseteq ws
      /\ \A w \in ws : w > flushed <=> w \in mem
  BY <1>1
<1>3. ws # {} => Max(ws) \in ws /\ \A w \in ws : w <= Max(ws)
  <2> HIDE DEF ws
  <2> QED BY <1>1, <1>2, Greatest, Zenon
<1>4. mem # {} => Max(mem) \in mem /\ \A w \in mem : w <= Max(mem)
  <2> HIDE DEF ws, mem
  <2>1. \A w \in mem : w <= snapshot
    BY <1>2
  <2> QED BY <1>1, <1>2, <2>1, Greatest, Zenon
<1>5. \A w \in 1 .. flushed : history[w].key = k => w \in ws
  BY <1>1
<1>6. CASE mem # {}
  <2>1. Max(mem) = Max(ws)
    <3> HIDE DEF ws, mem
    <3>1. ws # {} /\ Max(mem) \in ws /\ Max(mem) \in Nat /\ Max(ws) \in Nat /\ Max(mem) <= Max(ws)
      BY <1>2, <1>3, <1>4, <1>6, Zenon
    <3>2. Max(ws) \in mem
      BY <1>1, <1>2, <1>3, <1>4, <1>6, <3>1
    <3> QED BY <1>4, <3>1, <3>2
  <2> QED BY <1>6, <2>1, <1>2 DEF GetImpl, IteratorGet, InMemory, Latest
<1>7. CASE mem = {}
  <2>1. /\ GetImpl(k, snapshot) = VersionGet(k, snapshot)
        /\ IteratorGet(k, snapshot) = IF Internal(k, snapshot) = {} THEN NotFound
                                      ELSE Found(FirstOf(Internal(k, snapshot)))
        /\ Latest(k, snapshot) = IF ws = {} THEN NotFound ELSE ValueOf(Max(ws))
    BY <1>7 DEF GetImpl, IteratorGet, InMemory, Latest
  <2> HIDE DEF ws, mem
  <2>2. CASE ws = {}
    <3>1. \A level \in Levels : \A f \in version[level] : k \notin DOMAIN f
      BY <1>5, <2>2, TableFacts DEF Sound
    <3>2. VersionGet(k, snapshot) = NotFound /\ Internal(k, snapshot) = {}
      BY <3>1, NothingThere, Zenon
    <3> QED BY <2>1, <2>2, <3>2, Zenon
  <2>3. CASE ws # {}
    <3>1. PICK w : w = Max(ws)
      OBVIOUS
    <3>2. w \in ws /\ w \in Nat /\ w <= snapshot /\ ~(w > flushed)
      BY <1>2, <1>3, <1>7, <2>3, <3>1, Zenon
    <3>3. w \in 1 .. flushed /\ history[w].key = k /\ w \in Writes
      BY <1>1, <3>2, LsmTreeAssumption DEF ws, Writes
    <3>4. LastOf(k, w)
      <4>1. ASSUME NEW v \in w + 1 .. flushed, history[v].key = k PROVE FALSE
        <5>1. v \in ws
          BY <1>5, <3>3, <4>1
        <5> QED BY <1>3, <3>1, <3>2, <5>1
      <4> QED BY <3>3, <4>1 DEF LastOf
    <3>5. Latest(k, snapshot) = ValueOf(w)
      BY <2>1, <2>3, <3>1
    <3>6. CASE Dead(w) /\ \A level \in Levels : \A f \in version[level] : k \notin DOMAIN f
      <4>1. VersionGet(k, snapshot) = NotFound /\ Internal(k, snapshot) = {}
        BY <3>6, NothingThere, Zenon
      <4>2. Shown(ValueOf(w)) = Shown(NotFound)
        BY <3>6 DEF Dead, Shown, ValueOf
      <4> QED BY <2>1, <3>5, <4>1, <4>2, Zenon
    <3>7. ASSUME NEW level \in Levels, NEW f \in version[level], k \in DOMAIN f, f[k].write = w
          PROVE  /\ Shown(GetImpl(k, snapshot)) = Shown(Latest(k, snapshot))
                 /\ Shown(IteratorGet(k, snapshot)) = Shown(Latest(k, snapshot))
      <4>1. /\ \E e : Sound(k, e) /\ e.write = w /\ VersionGet(k, snapshot) = Found(e)
            /\ Internal(k, snapshot) # {}
            /\ \E e : Sound(k, e) /\ e.write = w /\ FirstOf(Internal(k, snapshot)) = e
        <5>1. LastOf(k, f[k].write) /\ f[k].write <= snapshot
          BY <3>2, <3>4, <3>7
        <5>2. /\ \E e : Sound(k, e) /\ e.write = f[k].write /\ VersionGet(k, snapshot) = Found(e)
              /\ Internal(k, snapshot) # {}
              /\ \E e : Sound(k, e) /\ e.write = f[k].write /\ FirstOf(Internal(k, snapshot)) = e
          BY <1>1, <3>7, <5>1, LastFound, Zenon
        <5> QED BY <3>7, <5>2, Zenon
      <4>2. Shown(VersionGet(k, snapshot)) = Shown(ValueOf(w))
        BY <4>1, FoundShown, Zenon
      <4>3. Shown(Found(FirstOf(Internal(k, snapshot)))) = Shown(ValueOf(w))
        BY <4>1, FoundShown, Zenon
      <4> QED BY <2>1, <3>5, <4>1, <4>2, <4>3, Zenon
    <3> QED BY <3>3, <3>4, <3>6, <3>7, Zenon DEF Kept
  <2> QED BY <2>2, <2>3
<1> QED BY <1>6, <1>7

\* Whatever is flushed, merged, filtered, dropped and moved, by any number of
\* compactions at once over any number of levels, a Get and an iterator show of
\* each key its last write and never an older row, as long as no compaction was
\* flawed.
THEOREM ReadsAreRight == Spec => []ReadsShowLatest
<1>1. Typed /\ Ordered /\ Whole => ReadsShowLatest
  BY ReadsLatest DEF Whole, ReadsShowLatest, NoRowComesBack
<1> QED BY <1>1, WholeInv, PTL

============================================================================
