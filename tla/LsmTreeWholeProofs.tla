------------------------ MODULE LsmTreeWholeProofs ------------------------
(***************************************************************************)
(* What a read needs of the levels and of what compactions write, and that *)
(* flushes and compactions keep it until a compaction is installed.        *)
(***************************************************************************)
EXTENDS LsmTreeOrderProofs

\* A read of the write shows nothing.
Dead(w) == history[w].type = "deletion" \/ Expired(history[w].expire_ts)

\* Table g comes after f; they may share a key, of which f has the newer write.
Follows(f, g) ==
    \/ Largest(f) < Smallest(g)
    \/ Largest(f) = Smallest(g) /\ f[Largest(f)].write > g[Smallest(g)].write
InLine(tables) == \A f, g \in tables : f = g \/ Follows(f, g) \/ Follows(g, f)

\* Under level 0 the tables of a level come one after the other.
LevelsInLine == \A level \in Levels \ {0} : InLine(version[level])

\* Entry k of a table of the level may have its sequence number zeroed.
Alone(level, f, k) ==
    /\ f[k].type = "value"
    /\ \A g \in version[level] : g = f \/ k \notin Span(g)
    /\ \A lower \in Deeper(level) : \A g \in version[lower] : k \notin Span(g)
ZeroAlone ==
    \A level \in Levels : \A f \in version[level] : \A k \in DOMAIN f :
        f[k].seq = 0 => Alone(level, f, k)

\* The last write of a key among those in files is in some table, or is dead
\* and then no older one is left.
LastOf(k, w) ==
    /\ w \in 1 .. flushed /\ history[w].key = k
    /\ \A v \in w + 1 .. flushed : history[v].key # k
Kept ==
    \A k \in Keys, w \in Writes : LastOf(k, w) =>
        \/ \E level \in Levels : \E f \in version[level] : k \in DOMAIN f /\ f[k].write = w
        \/ Dead(w) /\ \A level \in Levels : \A f \in version[level] : k \notin DOMAIN f

\* Compaction c has what is in the way of its tables at the level it writes to.
Clear(c) == \A f \in version[c.level + 1] \ c.others, g \in c.others : Apart(f, g)

\* If it takes its output level for the bottommost, nothing is deeper; nor is
\* anything deeper under an entry that was zeroed before.
Bottom(c) ==
    /\ c.phase = "run" /\ c.bottommost => \A g \in Used(c) : Span(g) \cap c.beyond = {}
    /\ \A g \in Used(c) : \A k \in DOMAIN g : g[k].seq = 0 => k \notin c.beyond

\* The entries it zeroed are values, alone and with nothing deeper.
OutputsZero(c) ==
    \A o \in c.outputs : \A k \in DOMAIN o : o[k].seq = 0 =>
        /\ o[k].type = "value" /\ k \notin c.beyond
        /\ \A p \in c.outputs : p = o \/ k \notin Span(p)

\* Of each key it has the newest write among its tables in its outputs, unless
\* that is dead and nothing is deeper.
Newest(c, k, f) ==
    k \in DOMAIN f /\ \A g \in Used(c) : k \in DOMAIN g => g[k].write <= f[k].write
OutputsLast(c) ==
    c.phase = "install" => \A f \in Used(c) : \A k \in DOMAIN f : Newest(c, k, f) =>
        \/ \E o \in c.outputs : k \in DOMAIN o /\ o[k].write = f[k].write
        \/ /\ Dead(f[k].write) /\ k \notin c.beyond
           /\ \A o \in c.outputs : k \notin DOMAIN o

WholeJob(c) ==
    Clear(c) /\ Bottom(c) /\ InLine(c.outputs) /\ OutputsZero(c) /\ OutputsLast(c)
WholeJobs == \A j \in Running : \A c : c = job[j] => WholeJob(c)

\* The inductive invariant for what reads show.
Whole == ~flawed => LevelsInLine /\ ZeroAlone /\ Kept /\ WholeJobs

\* A dead write stays dead.
LEMMA DeadKept ==
  ASSUME Past, NEW w \in 1 .. flushed, Dead(w)
  PROVE  Dead(w)'
BY DEF Past, Dead, Expired

\* What is known of the tables of a running compaction.
LEMMA UsedFacts ==
  ASSUME Reserved, Typed, Ordered, NEW j \in Running, NEW c, c = job[j]
  PROVE  /\ c.level \in Nat /\ c.level \in Levels /\ c.level + 1 \in Levels
         /\ c.inputs \subseteq version[c.level] /\ c.others \subseteq version[c.level + 1]
         /\ \A f \in Used(c) : IsTable(f)
         /\ \A f \in Used(c) : \A k \in DOMAIN f :
               f[k] \in Entry /\ Sound(k, f[k]) /\ f[k].write \in 1 .. flushed /\ f[k].write \in Nat
         /\ JobOK(c)
<1> /\ c.level \in Nat /\ c.level \in Levels /\ c.level + 1 \in Levels
    /\ c.inputs \subseteq version[c.level] /\ c.others \subseteq version[c.level + 1]
  BY RunningFacts
<1>1. \A f \in Used(c) : \A k \in DOMAIN f : f[k] \in Entry /\ Sound(k, f[k])
  BY DEF Used, IsTable, Ordered, TablesSound, Typed
<1> QED BY <1>1 DEF Used, Typed, Entry, Writes, Sound, Ordered, JobsOK

\* The tables of the version.
LEMMA TableFacts ==
  ASSUME Typed, Ordered, NEW level \in Levels, NEW f \in version[level]
  PROVE  /\ IsTable(f)
         /\ \A k \in DOMAIN f : /\ f[k] \in Entry /\ Sound(k, f[k]) /\ f[k].write \in 1 .. flushed
                                /\ f[k].write \in Nat /\ k \in Keys /\ k \in Span(f)
                                /\ f[k].seq \in {0, f[k].write} /\ (level = 0 => f[k].seq = f[k].write)
<1> IsTable(f) /\ flushed \in Nat
  BY DEF Typed
<1> ASSUME NEW k \in DOMAIN f
    PROVE  f[k] \in Entry /\ Sound(k, f[k]) /\ (level = 0 => f[k].seq = f[k].write) /\ k \in Keys
  BY DEF IsTable, Ordered, TablesSound
<1>1. ASSUME NEW k \in DOMAIN f
      PROVE  f[k].write \in 1 .. flushed /\ f[k].write \in Nat /\ f[k].seq \in {0, f[k].write}
  BY DEF Entry, Writes, Sound
<1> QED BY <1>1, SpanOf

\* Tables that are apart come one after the other.
LEMMA ApartFollows ==
  ASSUME NEW f, NEW g, IsTable(f), IsTable(g), Apart(f, g)
  PROVE  Follows(f, g) \/ Follows(g, f)
BY SpanOf DEF Apart, Follows

\* Two tables one after the other share one key at most, of which the first has
\* the newer write.
LEMMA FollowsKey ==
  ASSUME NEW f, NEW g, IsTable(f), IsTable(g), Follows(f, g), NEW k \in DOMAIN f \cap DOMAIN g
  PROVE  k = Largest(f) /\ k = Smallest(g) /\ f[k].write > g[k].write
BY SpanOf DEF Follows

\* What is known of a compaction stays, if nothing gets in its way.
LEMMA WholeJobStays ==
  ASSUME Past, NEW c, WholeJob(c), Clear(c)',
         \A f \in Used(c) : \A k \in DOMAIN f : f[k].write \in 1 .. flushed
  PROVE  WholeJob(c)'
<1>1. OutputsLast(c)'
  <2>1. OutputsLast(c)
    BY DEF WholeJob
  <2> QED BY <2>1, DeadKept DEF OutputsLast, Newest
<1> QED BY <1>1 DEF WholeJob, Bottom, OutputsZero

\* So does what is known of the last writes.
LEMMA KeptStays ==
  ASSUME Past, Kept, version' = version, flushed' = flushed
  PROVE  Kept'
BY DeadKept DEF Kept, LastOf, Past

\* Steps that change no table and no running compaction.
LEMMA WholeQuiet ==
  ASSUME Reserved, Typed, Past, Ordered, Whole, Quiet
  PROVE  Whole'
<1> SUFFICES ASSUME ~flawed' PROVE LevelsInLine' /\ ZeroAlone' /\ Kept' /\ WholeJobs'
  BY DEF Whole
<1>1. LevelsInLine /\ ZeroAlone /\ Kept /\ WholeJobs /\ version' = version /\ flushed' = flushed
  BY DEF Whole, Quiet
<1>2. LevelsInLine' /\ ZeroAlone'
  BY <1>1 DEF LevelsInLine, ZeroAlone, Alone
<1>3. ASSUME NEW i \in Running', NEW d, d = job'[i] PROVE WholeJob(d)'
  <2>1. WholeJob(d) /\ \A f \in Used(d) : \A k \in DOMAIN f : f[k].write \in 1 .. flushed
    BY <1>1, <1>3, UsedFacts DEF Quiet, WholeJobs
  <2>2. Clear(d)'
    BY <1>1, <2>1 DEF WholeJob, Clear
  <2> QED BY <2>1, <2>2, WholeJobStays
<1> QED BY <1>1, <1>2, <1>3, KeptStays DEF WholeJobs

\* The last writes are in the table of the flush, or where they were.
LEMMA KeptFlush ==
  ASSUME Typed, Past, Kept, flushed < Len(history), Flushes(BuildTable)
  PROVE  Kept'
<1> SUFFICES ASSUME NEW k \in Keys, NEW w \in Writes, LastOf(k, w)'
             PROVE  \/ \E level \in Levels : \E f \in version'[level] : k \in DOMAIN f /\ f[k].write = w
                    \/ Dead(w)' /\ \A level \in Levels : \A f \in version'[level] : k \notin DOMAIN f
  BY DEF Kept
<1>1. PICK b : b = BuildTable
  OBVIOUS
<1>2. /\ 0 \in Levels /\ version'[0] = version[0] \cup {b}
      /\ \A level \in Levels \ {0} : version'[level] = version[level]
  BY <1>1, LsmTreeAssumption DEF Flushes, Levels
<1>3. flushed \in Nat /\ Len(history) \in Nat
  BY DEF Typed
<1>4. /\ w \in 1 .. Len(history) /\ history[w].key = k
      /\ \A v \in w + 1 .. Len(history) : history[v].key # k
  BY DEF LastOf, Flushes
<1>5. CASE w > flushed
  <2>1. w \in flushed + 1 .. Len(history)
    BY <1>3, <1>4, <1>5
  <2>2. k \in DOMAIN b /\ b[k].write = w
    BY <1>1, <1>4, <2>1, BuiltTable
  <2> QED BY <1>2, <2>2
<1>6. CASE ~(w > flushed)
  <2>1. LastOf(k, w) /\ w \in 1 .. flushed
    BY <1>3, <1>4, <1>6 DEF LastOf
  <2>2. \A l \in DOMAIN b : b[l].write \in flushed + 1 .. Len(history) /\ history[b[l].write].key = l
    BY <1>1, BuiltTable
  <2>3. k \notin DOMAIN b
    BY <1>3, <1>4, <2>1, <2>2
  <2>4. CASE \E level \in Levels : \E f \in version[level] : k \in DOMAIN f /\ f[k].write = w
    BY <1>2, <2>4
  <2>5. CASE Dead(w) /\ \A level \in Levels : \A f \in version[level] : k \notin DOMAIN f
    BY <1>2, <2>1, <2>3, <2>5, DeadKept
  <2> QED BY <2>1, <2>4, <2>5 DEF Kept
<1> QED BY <1>5, <1>6

\* A flush.
LEMMA WholeFlush ==
  ASSUME Reserved, Typed, Past, Ordered, Whole, flushed < Len(history), Flushes(BuildTable)
  PROVE  Whole'
<1> SUFFICES ASSUME ~flawed' PROVE LevelsInLine' /\ ZeroAlone' /\ Kept' /\ WholeJobs'
  BY DEF Whole
<1> LevelsInLine /\ ZeroAlone /\ Kept /\ WholeJobs
  BY DEF Whole, Flushes
<1> PICK b : b = BuildTable
  OBVIOUS
<1> /\ 0 \in Levels /\ version'[0] = version[0] \cup {b}
    /\ \A level \in Levels \ {0} : version'[level] = version[level]
    /\ job' = job
  BY LsmTreeAssumption DEF Flushes, Levels
<1> flushed \in Nat /\ \A k \in DOMAIN b : b[k].seq \in flushed + 1 .. Len(history)
  BY BuiltTable DEF Typed
<1>1. ZeroAlone'
  BY TableFacts DEF ZeroAlone, Alone, Deeper, Levels
<1>2. Kept'
  BY KeptFlush
<1>3. WholeJobs'
  <2> SUFFICES ASSUME NEW i \in Running, NEW d, d = job[i] PROVE WholeJob(d)'
    BY DEF WholeJobs, Running
  <2>1. WholeJob(d)
    BY DEF WholeJobs
  <2>2. /\ d.level \in Nat /\ d.level + 1 \in Levels
        /\ \A f \in Used(d) : \A k \in DOMAIN f : f[k].write \in 1 .. flushed
    BY UsedFacts
  <2>3. Clear(d)'
    BY <2>1, <2>2 DEF WholeJob, Clear
  <2> QED BY <2>1, <2>2, <2>3, WholeJobStays
<1>4. LevelsInLine'
  BY DEF LevelsInLine
<1> QED BY <1>1, <1>2, <1>3, <1>4

\* At level 0 the order of the tables is that of their writes.
LEMMA SortedFollows ==
  ASSUME Typed, Ordered, NEW f \in version[0], NEW g \in version[0], f # g, Before(f, g)
  PROVE  Follows(f, g)
BY LsmTreeAssumption, TableFacts, SpanOf DEF Levels, Ordered, Ages, Younger, Before, Follows,
   Precedes

\* A compaction that was not flawed has what is in its way.
LEMMA BeginClear ==
  ASSUME Reserved, Typed, Ordered, ZeroAlone, NEW level, NEW inputs, NEW others,
         Chosen(level, inputs, others), NEW move \in TrivialMove(level, inputs, others),
         move \/ ~Flawed(level, inputs, others), NEW c, c = Compaction(level, inputs, others, move)
  PROVE  Clear(c) /\ Bottom(c)
<1>1. /\ level \in Nat /\ level \in Levels /\ level + 1 \in Levels
      /\ inputs \subseteq version[level] /\ others \subseteq version[level + 1]
      /\ \A f \in inputs \cup others : IsTable(f)
  BY ChosenCut, Zenon
<1>2. /\ c.level = level /\ c.inputs = inputs /\ c.others = others
      /\ c.beyond = Beyond(level)
      /\ c.bottommost = IsBottommostLevel(level, inputs, others)
      /\ c.phase = (IF move THEN "install" ELSE "run")
  BY CompactionParts
<1>3. \A k \in Beyond(level) : \E lower \in Deeper(level + 1) : \E f \in version[lower] : k \in Span(f)
  BY Zenon DEF Beyond, Overlapping, Span
<1>4. ASSUME NEW g \in inputs \cup others, NEW k \in DOMAIN g, g[k].seq = 0 PROVE k \notin Beyond(level)
  BY <1>1, <1>4, <1>3 DEF Deeper, ZeroAlone, Alone
<1>5. CASE move
  <2>1. others = {}
    BY <1>5, Zenon DEF TrivialMove
  <2> QED BY <1>2, <1>4, <2>1, <1>5 DEF Clear, Bottom, Used
<1>6. CASE ~Flawed(level, inputs, others)
  <2>1. ASSUME IsBottommostLevel(level, inputs, others), NEW g \in inputs \cup others,
               NEW k \in Span(g), k \in Beyond(level)
        PROVE  FALSE
    <3>1. PICK lower \in Deeper(level + 1) : \E f \in version[lower] : k \in Span(f)
      BY <1>3, <2>1
    <3>2. PICK f \in version[lower] : k \in Span(f)
      BY <3>1
    <3>3. f \in Overlapping(lower, KeyRange(inputs \cup others))
      BY <3>2, <1>1, SpanInRange DEF Overlapping, Span
    <3> QED BY <2>1, <3>3, <1>6 DEF Flawed
  <2>2. Bottom(c)
    BY <1>2, <1>4, <2>1 DEF Bottom, Used
  <2>3. CleanCut(level + 1, others) /\ \A f \in version[level + 1] : IsTable(f)
    BY <1>1, <1>6 DEF Flawed, Typed
  <2>4. \A f \in version[level + 1] \ others, g \in others : Apart(f, g)
    BY <1>1, <2>3, CutApart
  <2>5. Clear(c)
    BY <1>2, <2>4 DEF Clear
  <2> QED BY <2>2, <2>5
<1> QED BY <1>5, <1>6

\* What a trivial move moves.
LEMMA BeginMove ==
  ASSUME Reserved, Typed, Ordered, LevelsInLine, ZeroAlone, NEW level, NEW inputs, NEW others,
         Chosen(level, inputs, others), NEW move \in TrivialMove(level, inputs, others),
         NEW c, c = Compaction(level, inputs, others, move), Bottom(c)
  PROVE  InLine(c.outputs) /\ OutputsZero(c) /\ OutputsLast(c)
<1>1. level \in Nat /\ level \in Levels /\ inputs \subseteq version[level]
  BY ChosenCut, Zenon
<1>2. /\ c.level = level /\ c.inputs = inputs /\ c.others = others /\ c.beyond = Beyond(level)
      /\ c.phase = (IF move THEN "install" ELSE "run")
      /\ c.outputs = (IF move THEN inputs ELSE {})
  BY CompactionParts
<1>3. CASE ~move
  BY <1>2, <1>3 DEF InLine, OutputsZero, OutputsLast
<1>4. CASE move
  <2>1. others = {} /\ (level = 0 => Sorted(version[0]))
    BY <1>4, Zenon DEF TrivialMove
  <2>2. c.outputs = inputs /\ Used(c) = inputs
    BY <1>2, <1>4, <2>1 DEF Used
  <2>3. InLine(inputs)
    <3>1. CASE level = 0
      BY <1>1, <2>1, <3>1, SortedFollows DEF InLine, Sorted
    <3>2. CASE level # 0
      BY <1>1, <3>2 DEF InLine, LevelsInLine
    <3> QED BY <3>1, <3>2
  <2>4. OutputsZero(c)
    BY <1>1, <1>2, <2>2 DEF OutputsZero, ZeroAlone, Bottom, Alone
  <2> QED BY <2>2, <2>3, <2>4 DEF OutputsLast
<1> QED BY <1>3, <1>4

\* A compaction begins.
LEMMA WholeBegin ==
  ASSUME Reserved, Typed, Past, Ordered, Whole, NEW j \in Jobs, NEW level, NEW inputs, NEW others,
         NEW move \in TrivialMove(level, inputs, others), Chosen(level, inputs, others),
         Begins(j, Compaction(level, inputs, others, move)),
         flawed' = (flawed \/ (~move /\ Flawed(level, inputs, others)))
  PROVE  Whole'
<1> SUFFICES ASSUME ~flawed' PROVE LevelsInLine' /\ ZeroAlone' /\ Kept' /\ WholeJobs'
  BY DEF Whole
<1>1. ~flawed /\ (move \/ ~Flawed(level, inputs, others))
  BY Zenon
<1>2. LevelsInLine /\ ZeroAlone /\ Kept /\ WholeJobs
  BY <1>1 DEF Whole
<1>3. PICK c : c = Compaction(level, inputs, others, move)
  OBVIOUS
<1>4. /\ version' = version /\ flushed' = flushed
      /\ Running' = Running \cup {j} /\ job'[j] = c
      /\ \A i \in Running : i # j /\ job'[i] = job[i]
  BY <1>3 DEF Begins
<1>5. WholeJob(c)
  <2>1. Clear(c) /\ Bottom(c)
    BY <1>1, <1>2, <1>3, BeginClear
  <2>2. InLine(c.outputs) /\ OutputsZero(c) /\ OutputsLast(c)
    BY <1>2, <1>3, <2>1, BeginMove
  <2> QED BY <2>1, <2>2 DEF WholeJob
<1>6. \A f \in Used(c) : \A k \in DOMAIN f : f[k].write \in 1 .. flushed
  <2>1. level \in Levels /\ level + 1 \in Levels /\ inputs \subseteq version[level] /\ others \subseteq version[level + 1]
    BY ChosenCut, Zenon
  <2>2. Used(c) = inputs \cup others
    BY <1>3, CompactionParts DEF Used
  <2> QED BY <2>1, <2>2, TableFacts
<1>7. WholeJobs'
  <2> SUFFICES ASSUME NEW i \in Running', NEW d, d = job'[i] PROVE WholeJob(d)'
    BY DEF WholeJobs
  <2>1. WholeJob(d) /\ \A f \in Used(d) : \A k \in DOMAIN f : f[k].write \in 1 .. flushed
    BY <1>4, <1>5, <1>6, <1>2, UsedFacts DEF WholeJobs
  <2>2. Clear(d)'
    BY <1>4, <2>1 DEF WholeJob, Clear
  <2> QED BY <2>1, <2>2, WholeJobStays
<1>8. LevelsInLine' /\ ZeroAlone'
  BY <1>2, <1>4 DEF LevelsInLine, ZeroAlone, Alone
<1> QED BY <1>2, <1>4, <1>7, <1>8, KeptStays

\* The first entry of a key among the tables of a compaction is the newest.
LEMMA FirstIsNewest ==
  ASSUME Reserved, Typed, Ordered, ZeroAlone, NEW j \in Running, NEW c, c = job[j],
         NEW f \in Used(c), NEW h \in Used(c), NEW k \in DOMAIN f \cap DOMAIN h,
         Newest(c, k, f), ~Precedes(f[k], h[k])
  PROVE  h[k].write = f[k].write
<1>1. /\ c.level \in Nat /\ c.level \in Levels /\ c.level + 1 \in Levels
      /\ c.inputs \subseteq version[c.level] /\ c.others \subseteq version[c.level + 1]
      /\ f[k] \in Entry /\ Sound(k, f[k]) /\ h[k] \in Entry /\ Sound(k, h[k])
      /\ f[k].write \in Nat /\ h[k].write \in Nat /\ IsTable(h)
  BY UsedFacts
<1>2. f[k].seq \in {0, f[k].write} /\ h[k].seq \in {0, h[k].write}
  BY <1>1 DEF Sound
<1> SUFFICES ASSUME h[k].write < f[k].write PROVE FALSE
  BY <1>1 DEF Newest
<1>3. f[k].seq = 0 /\ f # h
  BY <1>1, <1>2 DEF Precedes, Entry
<1>4. k \in Span(h)
  BY <1>1, SpanOf
<1>5. (h \in c.inputs \/ h \in c.others) /\ (f \in c.inputs \/ f \in c.others)
  BY DEF Used
<1>6. c.level + 1 \in Deeper(c.level)
  BY <1>1, LsmTreeAssumption DEF Deeper, Levels
<1>7. CASE f \in c.inputs
  <2>1. Alone(c.level, f, k)
    BY <1>1, <1>3, <1>7 DEF ZeroAlone
  <2>2. h \notin c.inputs
    BY <1>1, <1>3, <1>4, <2>1 DEF Alone
  <2> QED BY <1>1, <1>4, <1>5, <1>6, <2>1, <2>2 DEF Alone
<1>8. CASE f \in c.others /\ h \in c.others
  BY <1>1, <1>3, <1>4, <1>8 DEF ZeroAlone, Alone
<1>9. CASE f \in c.others /\ h \in c.inputs
  BY <1>1, <1>9, <1>6 DEF Ordered, Above
<1> QED BY <1>5, <1>7, <1>8, <1>9

\* What a compaction writes of a key.
LEMMA ProducedKey ==
  ASSUME Reserved, Typed, Ordered, NEW j \in Running, NEW c, c = job[j],
         NEW enabled \in BOOLEAN, NEW k \in KeysOf(Used(c)),
         NEW e, e = Filtered(enabled, Merged(c, k))
  PROVE  \E f \in Used(c) :
            /\ k \in DOMAIN f /\ \A g \in Used(c) : k \in DOMAIN g => ~Precedes(g[k], f[k])
            /\ e \in Entry
            /\ PrepareOutput(c, e).write = f[k].write
            /\ PrepareOutput(c, e).type = e.type
            /\ PrepareOutput(c, e).seq = 0 => c.bottommost \/ f[k].seq = 0
            /\ \/ e.type = f[k].type
               \/ e.type = "deletion" /\ Expired(history[f[k].write].expire_ts)
<1>1. /\ \A f \in Used(c) : IsTable(f)
      /\ \A f \in Used(c) : \A l \in DOMAIN f : f[l] \in Entry /\ Sound(l, f[l]) /\ f[l].write \in Nat
  BY UsedFacts
<1> QED BY <1>1, MergedIsFirst, PreparedEntry

\* What is true of the outputs of compaction c: they are apart; a row that gives
\* up its sequence number is a value, alone at its key and has nothing deeper; and
\* the newest row of every key is among them, unless it is dead and nothing of
\* the key is left.
OutputsWhole(c, tables) ==
    /\ InLine(tables)
    /\ \A o \in tables : \A k \in DOMAIN o : o[k].seq = 0 =>
          /\ o[k].type = "value" /\ k \notin c.beyond
          /\ \A p \in tables : p = o \/ k \notin Span(p)
    /\ \A f \in Used(c) : \A k \in DOMAIN f : Newest(c, k, f) =>
          \/ \E o \in tables : k \in DOMAIN o /\ o[k].write = f[k].write
          \/ /\ Dead(f[k].write) /\ k \notin c.beyond
             /\ \A o \in tables : k \notin DOMAIN o

\* The tables that a compaction writes.
LEMMA ProducedWhole ==
  ASSUME Reserved, Typed, Ordered, ZeroAlone, NEW j \in Running, NEW c, c = job[j],
         c.phase = "run", Bottom(c), NEW enabled \in BOOLEAN,
         NEW tables \in Tables(CompactionOutput(c, enabled))
  PROVE  OutputsWhole(c, tables)
<1> DEFINE e(k) == Filtered(enabled, Merged(c, k))
<1>1. /\ \A o \in tables : IsTable(o)
      /\ \A o, p \in tables : o = p \/ Apart(o, p)
      /\ \A o \in tables : \A k \in DOMAIN o :
            k \in KeysOf(Used(c)) /\ ~Obsolete(c, k, e(k)) /\ o[k] = PrepareOutput(c, e(k))
      /\ \A k \in KeysOf(Used(c)) : Obsolete(c, k, e(k)) \/ \E o \in tables : k \in DOMAIN o
  <2>1. \A level \in Levels : \A f \in version[level] : IsTable(f)
    BY DEF Typed
  <2> QED BY <2>1, OutputTables
<1>2. ASSUME NEW k \in KeysOf(Used(c))
      PROVE  \E f \in Used(c) :
                /\ k \in DOMAIN f /\ \A g \in Used(c) : k \in DOMAIN g => ~Precedes(g[k], f[k])
                /\ e(k) \in Entry
                /\ PrepareOutput(c, e(k)).write = f[k].write
                /\ PrepareOutput(c, e(k)).type = e(k).type
                /\ PrepareOutput(c, e(k)).seq = 0 => c.bottommost \/ f[k].seq = 0
                /\ \/ e(k).type = f[k].type
                   \/ e(k).type = "deletion" /\ Expired(history[f[k].write].expire_ts)
  BY ProducedKey
<1> HIDE DEF e
<1>3. InLine(tables)
  BY <1>1, ApartFollows DEF InLine
<1>4. ASSUME NEW o \in tables, NEW k \in DOMAIN o, o[k].seq = 0
      PROVE  /\ o[k].type = "value" /\ k \notin c.beyond
             /\ \A p \in tables : p = o \/ k \notin Span(p)
  <2>1. k \in KeysOf(Used(c)) /\ ~Obsolete(c, k, e(k)) /\ o[k] = PrepareOutput(c, e(k)) /\ IsTable(o)
    BY <1>1
  <2>2. PICK f \in Used(c) : /\ k \in DOMAIN f /\ e(k) \in Entry
                             /\ PrepareOutput(c, e(k)).type = e(k).type
                             /\ PrepareOutput(c, e(k)).seq = 0 => c.bottommost \/ f[k].seq = 0
    BY <1>2, <2>1, Zenon
  <2>3. IsTable(f)
    BY UsedFacts
  <2>4. k \in Span(f) /\ k \in Span(o)
    BY <2>1, <2>2, <2>3, SpanOf
  <2>5. k \notin c.beyond
    BY <1>4, <2>1, <2>2, <2>4 DEF Bottom
  <2>6. o[k].type = "value"
    BY <2>1, <2>2, <2>5 DEF Obsolete, Entry
  <2>7. \A p \in tables : p = o \/ k \notin Span(p)
    BY <1>1, <2>4 DEF Apart
  <2> QED BY <2>5, <2>6, <2>7
<1>5. ASSUME NEW f \in Used(c), NEW k \in DOMAIN f, Newest(c, k, f)
      PROVE  \/ \E o \in tables : k \in DOMAIN o /\ o[k].write = f[k].write
             \/ /\ Dead(f[k].write) /\ k \notin c.beyond
                /\ \A o \in tables : k \notin DOMAIN o
  <2>1. k \in KeysOf(Used(c))
    BY DEF KeysOf
  <2>2. PICK h \in Used(c) :
           /\ k \in DOMAIN h /\ \A g \in Used(c) : k \in DOMAIN g => ~Precedes(g[k], h[k])
           /\ PrepareOutput(c, e(k)).write = h[k].write
           /\ \/ e(k).type = h[k].type
              \/ e(k).type = "deletion" /\ Expired(history[h[k].write].expire_ts)
    BY <1>2, <2>1, Zenon
  <2>3. ~Precedes(f[k], h[k])
    BY <2>2
  <2>4. h[k].write = f[k].write
    BY <1>5, <2>2, <2>3, FirstIsNewest
  <2>5. CASE Obsolete(c, k, e(k))
    <3>1. Sound(k, h[k])
      BY <2>2, UsedFacts
    <3>2. Dead(f[k].write) /\ k \notin c.beyond
      BY <2>2, <2>4, <2>5, <3>1 DEF Obsolete, Dead, Sound
    <3>3. \A o \in tables : k \notin DOMAIN o
      BY <1>1, <2>5
    <3> QED BY <3>2, <3>3
  <2>6. ASSUME NEW o \in tables, k \in DOMAIN o PROVE o[k].write = f[k].write
    BY <1>1, <2>2, <2>4, <2>6
  <2> QED BY <1>1, <2>1, <2>5, <2>6, Zenon
<1> QED BY <1>3, <1>4, <1>5, Zenon DEF OutputsWhole

\* A compaction has its outputs.
LEMMA WholeProduce ==
  ASSUME Reserved, Typed, Past, Ordered, Whole, NEW j \in Running, NEW enabled \in BOOLEAN,
         NEW tables \in Tables(CompactionOutput(job[j], enabled)), Produces(j, job[j], tables)
  PROVE  Whole'
<1> SUFFICES ASSUME ~flawed' PROVE LevelsInLine' /\ ZeroAlone' /\ Kept' /\ WholeJobs'
  BY DEF Whole
<1>1. LevelsInLine /\ ZeroAlone /\ Kept /\ WholeJobs
  BY DEF Whole, Produces
<1>2. /\ version' = version /\ flushed' = flushed /\ Running' = Running
      /\ \A i \in Running \ {j} : job'[i] = job[i]
  BY DEF Produces
<1>3. PICK c : c = job[j]
  OBVIOUS
<1>4. WholeJob(c) /\ \A f \in Used(c) : \A k \in DOMAIN f : f[k].write \in 1 .. flushed
  BY <1>1, <1>3, UsedFacts, Zenon DEF WholeJobs
<1>5. ASSUME NEW d, d = job'[j]
      PROVE  WholeJob(d) /\ \A f \in Used(d) : \A k \in DOMAIN f : f[k].write \in 1 .. flushed
  <2>1. /\ c.phase = "run" /\ d.phase = "install" /\ d.level = c.level /\ d.inputs = c.inputs
        /\ d.others = c.others /\ d.outputs = tables /\ d.beyond = c.beyond
    BY <1>3, <1>5 DEF Produces
  <2>2. Used(d) = Used(c)
    BY <2>1 DEF Used
  <2>3. Clear(c) /\ Bottom(c)
    BY <1>4 DEF WholeJob
  <2>4. Clear(d) /\ Bottom(d)
    BY <2>1, <2>2, <2>3 DEF Clear, Bottom
  <2>5. OutputsWhole(c, tables)
    <3>1. tables \in Tables(CompactionOutput(c, enabled))
      BY <1>3, Zenon
    <3> QED BY <1>1, <1>3, <2>1, <2>3, <3>1, ProducedWhole, Zenon
  <2>6. OutputsZero(d)
    BY <2>1, <2>5 DEF OutputsWhole, OutputsZero
  <2>7. OutputsLast(d)
    BY <2>1, <2>2, <2>5 DEF OutputsWhole, OutputsLast, Newest
  <2>8. InLine(tables)
    BY <2>5 DEF OutputsWhole
  <2> QED BY <1>4, <2>1, <2>2, <2>4, <2>6, <2>7, <2>8 DEF WholeJob
<1>6. WholeJobs'
  <2> SUFFICES ASSUME NEW i \in Running', NEW d, d = job'[i] PROVE WholeJob(d)'
    BY DEF WholeJobs
  <2>1. WholeJob(d) /\ \A f \in Used(d) : \A k \in DOMAIN f : f[k].write \in 1 .. flushed
    <3>1. CASE i = j
      BY <1>5, <3>1
    <3>2. CASE i # j
      <4>1. i \in Running /\ d = job[i]
        BY <1>2, <3>2
      <4>2. \A f \in Used(d) : \A k \in DOMAIN f : f[k].write \in 1 .. flushed
        BY <4>1, UsedFacts, Zenon
      <4> QED BY <1>1, <4>1, <4>2, Zenon DEF WholeJobs
    <3> QED BY <3>1, <3>2
  <2>2. Clear(d)'
    BY <1>2, <2>1 DEF WholeJob, Clear
  <2> QED BY <2>1, <2>2, WholeJobStays
<1>7. LevelsInLine' /\ ZeroAlone'
  BY <1>1, <1>2 DEF LevelsInLine, ZeroAlone, Alone
<1>8. Kept'
  BY <1>1, <1>2, KeptStays
<1> QED BY <1>6, <1>7, <1>8
============================================================================
