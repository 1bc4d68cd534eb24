------------------------ MODULE LsmTreeOrderProofs ------------------------
(***************************************************************************)
(* Of every key the higher levels have the newer writes, and compactions   *)
(* that run at the same time stay out of each other's ranges: for any      *)
(* keys, levels, threads and numbers of writes.                            *)
(***************************************************************************)
EXTENDS LsmTreeProofs

\* Every write of f is newer than every write of g.
Younger(f, g) == \A k \in DOMAIN f, l \in DOMAIN g : f[k].write > g[l].write

\* What an entry of key k says is what was written.
Sound(k, e) ==
    /\ e.write <= flushed /\ history[e.write].key = k
    /\ e.seq \in {0, e.write}
    /\ \/ e.type = history[e.write].type
       \/ e.type = "deletion" /\ Expired(history[e.write].expire_ts)

\* So do all entries; those of level 0 have their sequence number still.
TablesSound ==
    \A level \in Levels : \A f \in version[level] : \A k \in DOMAIN f :
        Sound(k, f[k]) /\ (level = 0 => f[k].seq = f[k].write)

\* The tables of level 0 are from flushes one after the other.
Ages == \A f, g \in version[0] : f = g \/ Younger(f, g) \/ Younger(g, f)

\* Of a key, the writes of a level are newer than those of deeper ones.
Above ==
    \A level \in Levels : \A lower \in Deeper(level) :
        \A f \in version[level], g \in version[lower] :
            \A k \in DOMAIN f \cap DOMAIN g : f[k].write > g[k].write

\* What compaction c leaves at its level is out of the way of its inputs, or
\* was flushed since.
InputsCut(c) ==
    \A f \in version[c.level] \ c.inputs, g \in c.inputs :
        Apart(f, g) \/ (c.level = 0 /\ Younger(f, g))

\* So is what it leaves at the level it writes to.
OthersCut(c) == \A f \in version[c.level + 1] \ c.others, g \in c.inputs : Apart(f, g)

\* It knows the keys that may be deeper.
Below(c) ==
    \A lower \in Deeper(c.level + 1) : \A f \in version[lower] : \A g \in Used(c) :
        Keys \cap Span(f) \cap Span(g) \subseteq c.beyond

\* Its outputs have their entries from its tables, and their ranges are in
\* those of its tables.
OutputsSound(c) ==
    \A o \in c.outputs :
        /\ \A k \in DOMAIN o :
              /\ Sound(k, o[k])
              /\ \E f \in Used(c) : k \in DOMAIN f /\ f[k].write = o[k].write
        /\ \A x \in Span(o) : \E h \in Used(c) : x \in Span(h)

JobOK(c) == InputsCut(c) /\ OthersCut(c) /\ Below(c) /\ OutputsSound(c) /\ Gapless(Used(c))
JobsOK == \A j \in Running : \A c : c = job[j] => JobOK(c)

\* Two compactions: one at most is at level 0, and the inputs of one at a level
\* and one at the next are apart.
PairsCut ==
    \A i, j \in Running :
        /\ i # j /\ job[i].level = 0 => job[j].level # 0
        /\ job[i].level + 1 = job[j].level =>
              \A f \in job[i].inputs, g \in job[j].inputs : Apart(f, g)

\* The inductive invariant for the order of the writes.
Ordered == TablesSound /\ Ages /\ Above /\ PairsCut /\ JobsOK

\* What is said of an entry or a write stays true.
LEMMA SoundKept ==
  ASSUME Past, NEW k, NEW e \in Entry, Sound(k, e)
  PROVE  Sound(k, e)'
BY LsmTreeAssumption DEF Sound, Entry, Writes, Past, Expired

----------------------------------------------------------------------------
(***************************************************************************)
(* The order of the writes of a key over the levels.                       *)
(***************************************************************************)

\* The outputs of a compaction stay what they are.
LEMMA OutputsStay ==
  ASSUME Past, NEW c, \A o \in c.outputs : IsTable(o), OutputsSound(c)
  PROVE  OutputsSound(c)'
BY SoundKept DEF OutputsSound, IsTable

\* A compaction is not affected by steps that leave the version alone.
LEMMA JobStays ==
  ASSUME Past, version' = version, NEW c, \A o \in c.outputs : IsTable(o), JobOK(c)
  PROVE  JobOK(c)'
BY OutputsStay DEF JobOK, InputsCut, OthersCut, Below

\* Nor are the tables.
LEMMA TablesStay ==
  ASSUME Past, Typed, version' = version, TablesSound, Ages, Above
  PROVE  TablesSound' /\ Ages' /\ Above'
BY SoundKept DEF TablesSound, Typed, IsTable, Ages, Above

\* Steps that change no table and no running compaction.
LEMMA OrderedQuiet ==
  ASSUME Past, Typed, Ordered, Quiet
  PROVE  Ordered'
BY TablesStay, JobStays DEF Ordered, Quiet, JobsOK, Typed, PairsCut

\* A flush puts the newest writes on top.
LEMMA OrderedFlush ==
  ASSUME Reserved, Typed, Past, Ordered, flushed < Len(history), Flushes(BuildTable)
  PROVE  Ordered'
<1> PICK b : b = BuildTable
  OBVIOUS
<1> IsTable(b) /\ flushed \in Nat /\ flushed' = Len(history) /\ Len(history) \in Nat
  BY BuiltTable DEF Flushes, Past, Typed
<1> \A k \in DOMAIN b : /\ b[k].seq = b[k].write /\ b[k].write \in Nat /\ b[k].write > flushed
                        /\ Sound(k, b[k])'
  <2> TAKE k \in DOMAIN b
  <2>1. /\ b[k].seq = b[k].write /\ b[k].write \in flushed + 1 .. Len(history)
        /\ history[b[k].write].key = k /\ b[k].type = history[b[k].write].type
    BY BuiltTable
  <2>2. history' = history
    BY DEF Flushes
  <2> QED BY <2>1, <2>2 DEF Sound
<1> /\ 0 \in Levels /\ version'[0] = version[0] \cup {b}
    /\ \A level \in Levels \ {0} : version'[level] = version[level]
  BY LsmTreeAssumption DEF Flushes, Levels
<1> \A level \in Levels : \A f \in version[level] : \A k \in DOMAIN f :
        /\ f[k].write \in Nat /\ f[k].write <= flushed /\ Sound(k, f[k])'
        /\ level = 0 => f[k].seq = f[k].write
  <2> TAKE level \in Levels
  <2> TAKE f \in version[level]
  <2> TAKE k \in DOMAIN f
  <2> f[k] \in Entry /\ Sound(k, f[k]) /\ (level = 0 => f[k].seq = f[k].write)
    BY DEF Typed, IsTable, Ordered, TablesSound
  <2>1. f[k].write \in Nat /\ f[k].write <= flushed
    BY LsmTreeAssumption DEF Entry, Writes, Sound
  <2> QED BY <2>1, SoundKept
<1> \A g \in version[0] : Younger(b, g)
  BY DEF Younger
<1> \A level \in Levels : Deeper(level) \subseteq Levels \ {0}
  BY LsmTreeAssumption DEF Deeper, Levels
<1>1. JobsOK'
  <2> SUFFICES ASSUME NEW j \in Running, NEW c, c = job[j] PROVE JobOK(c)'
    BY DEF JobsOK, Flushes, Running
  <2>1. /\ JobOK(c) /\ \A o \in c.outputs : IsTable(o)
        /\ c.level \in Levels /\ c.level + 1 \in Levels \ {0} /\ c.inputs \subseteq version[c.level]
    BY RunningFacts DEF Ordered, JobsOK, Typed
  <2> QED
    BY <2>1, SoundKept DEF JobOK, InputsCut, OthersCut, Below, OutputsSound, IsTable
<1> QED
  BY <1>1 DEF Ordered, TablesSound, Ages, Above, PairsCut, Flushes, Running

\* The tables that are left out share no key with the inputs, and what is deeper
\* is known.
LEMMA ChosenCut ==
  ASSUME Reserved, Typed, NEW level, NEW inputs, NEW others, Chosen(level, inputs, others)
  PROVE  /\ level \in Nat /\ level \in Levels /\ level + 1 \in Levels
         /\ inputs \subseteq version[level] /\ others \subseteq version[level + 1]
         /\ \A f \in inputs \cup others : IsTable(f)
         /\ \A f \in version[level] \ inputs, g \in inputs : Apart(f, g)
         /\ \A f \in version[level + 1] \ others, g \in inputs : Apart(f, g)
         /\ Gapless(inputs \cup others)
         /\ \A lower \in Deeper(level + 1) : \A f \in version[lower] : \A k \in Keys \cap Span(f) :
               k \in Beyond(level)
<1>1. /\ level \in Nat /\ level \in Levels /\ level + 1 \in Levels
      /\ Deeper(level + 1) \subseteq Levels
  BY LsmTreeAssumption DEF Chosen, Levels, Deeper
<1>2. \A l \in Levels : \A f \in version[l] : IsTable(f)
  BY DEF Typed
<1>3. /\ inputs \subseteq version[level] /\ others = Overlapping(level + 1, KeyRange(inputs))
      /\ CleanCut(level, inputs) /\ Gapless(inputs \cup others)
  BY <1>2, ChosenGapless, Zenon DEF Chosen
<1>4. ASSUME NEW f \in version[level + 1] \ others, NEW g \in inputs PROVE Apart(f, g)
  BY <1>1, <1>2, <1>3, SpanInRange DEF Apart, Overlapping, Span
<1>5. ASSUME NEW lower \in Deeper(level + 1), NEW f \in version[lower], NEW k \in Keys \cap Span(f)
      PROVE  k \in Beyond(level)
  BY DEF Overlapping, Span, Beyond
<1> QED BY <1>1, <1>2, <1>3, <1>4, <1>5, CutApart DEF Overlapping

\* A compaction begins.
LEMMA OrderedBegin ==
  ASSUME Reserved, Typed, Past, Ordered, NEW j \in Jobs, NEW level, NEW inputs, NEW others,
         NEW move, Chosen(level, inputs, others), Begins(j, Compaction(level, inputs, others, move))
  PROVE  Ordered'
<1>1. PICK c : c = Compaction(level, inputs, others, move)
  OBVIOUS
<1>2. /\ c.level = level /\ c.inputs = inputs /\ c.others = others /\ c.beyond = Beyond(level)
      /\ c.outputs \subseteq inputs
  BY <1>1, CompactionParts
<1>3. /\ version' = version /\ Running' = Running \cup {j} /\ job'[j] = c
      /\ \A i \in Running : i # j /\ job'[i] = job[i]
  BY <1>1 DEF Begins
<1>4. JobOK(c)
  <2>1. /\ level \in Levels /\ level + 1 \in Levels /\ inputs \subseteq version[level]
        /\ \A f \in version[level] \ inputs, g \in inputs : Apart(f, g)
        /\ \A f \in version[level + 1] \ others, g \in inputs : Apart(f, g)
        /\ \A lower \in Deeper(level + 1) : \A f \in version[lower] : \A k \in Keys \cap Span(f) :
              k \in Beyond(level)
        /\ Gapless(inputs \cup others)
    BY ChosenCut
  <2> QED
    BY <1>2, <2>1 DEF JobOK, InputsCut, OthersCut, Below, OutputsSound, Used, Ordered,
       TablesSound
<1>5. JobsOK'
  <2> SUFFICES ASSUME NEW i \in Running', NEW d, d = job'[i] PROVE JobOK(d)'
    BY DEF JobsOK
  <2>1. \A o \in c.outputs : IsTable(o)
    BY <1>2, ChosenCut, Zenon
  <2>2. CASE i = j
    BY <1>3, <1>4, <2>1, <2>2, JobStays
  <2>3. CASE i # j
    BY <1>3, <2>3, JobStays DEF Ordered, JobsOK, Typed
  <2> QED BY <2>2, <2>3
<1>6. ASSUME NEW i \in Running
      PROVE  /\ job[i].level = 0 => level # 0
             /\ job[i].level + 1 = level => \A f \in job[i].inputs, g \in inputs : Apart(f, g)
             /\ level + 1 = job[i].level => \A f \in inputs, g \in job[i].inputs : Apart(f, g)
  <2>1. PICK d : d = job[i]
    OBVIOUS
  <2>2. /\ d.level \in Nat /\ d.inputs \subseteq version[d.level] /\ d.others \subseteq version[d.level + 1]
    BY <2>1, RunningFacts
  <2>3. level + 1 = d.level => d.inputs \cap others = {}
    BY <2>1, NotInCompaction DEF Chosen
  <2>4. level + 1 = d.level => \A f \in inputs, g \in d.inputs : Apart(f, g)
    BY <2>2, <2>3, ChosenCut, Zenon DEF Apart
  <2> QED
    BY <2>1, <2>4, <2>2, ChosenCut, NotInCompaction DEF Chosen, OthersCut, Apart, Ordered,
       JobsOK, JobOK
<1>7. PairsCut'
  <2>1. level \in Nat
    BY ChosenCut, Zenon
  <2> QED BY <1>2, <1>3, <1>6, <2>1 DEF Ordered, PairsCut
<1> QED BY <1>5, <1>7, <1>3, TablesStay DEF Ordered

\* The tables of a compaction have their entries from those it read.
LEMMA ProducedSound ==
  ASSUME Reserved, Typed, TablesSound, NEW j \in Running, NEW enabled \in BOOLEAN,
         NEW tables \in Tables(CompactionOutput(job[j], enabled)),
         NEW o \in tables, NEW k \in DOMAIN o
  PROVE  /\ Sound(k, o[k])
         /\ \E f \in Used(job[j]) : k \in DOMAIN f /\ f[k].write = o[k].write
<1> PICK c : c = job[j]
  OBVIOUS
<1> \A f \in Used(c) : IsTable(f) /\ \A l \in DOMAIN f : Sound(l, f[l])
  BY RunningFacts DEF Used, Typed, TablesSound
<1> k \in KeysOf(Used(c)) /\ o[k] = PrepareOutput(c, Filtered(enabled, Merged(c, k)))
  BY OutputTables DEF Typed
<1>1. PICK f \in Used(c) : k \in DOMAIN f /\ Merged(c, k) = f[k] /\ f[k] \in Entry
  BY MergedIsFirst
<1> QED BY <1>1, PreparedEntry DEF Sound

\* The ranges of these tables are in those it read, as those leave no gap.
LEMMA ProducedWithin ==
  ASSUME Reserved, Typed, NEW j \in Running, NEW enabled \in BOOLEAN,
         NEW tables \in Tables(CompactionOutput(job[j], enabled)), NEW o \in tables,
         Gapless(Used(job[j]))
  PROVE  IsTable(o) /\ \A x \in Span(o) : \E h \in Used(job[j]) : x \in Span(h)
<1> PICK c : c = job[j]
  OBVIOUS
<1> \A f \in Used(c) : IsTable(f)
  BY RunningFacts DEF Used, Typed
<1> IsTable(o) /\ \A k \in DOMAIN o : k \in KeysOf(Used(c))
  BY OutputTables DEF Typed
<1> Smallest(o) \in DOMAIN o /\ Largest(o) \in DOMAIN o /\ Span(o) = Smallest(o) .. Largest(o)
    /\ Smallest(o) \in Nat /\ Largest(o) \in Nat
  BY SpanOf
<1>1. PICK f \in Used(c) : Smallest(o) \in DOMAIN f
  BY DEF KeysOf
<1>2. PICK g \in Used(c) : Largest(o) \in DOMAIN g
  BY DEF KeysOf
<1>3. Smallest(o) \in Smallest(f) .. Largest(f) /\ Smallest(f) \in Nat
  BY <1>1, SpanOf
<1>4. Largest(o) \in Smallest(g) .. Largest(g) /\ Largest(g) \in Nat
  BY <1>2, SpanOf
<1>5. ASSUME NEW x \in Span(o) PROVE \E h \in Used(c) : x \in Span(h)
  BY <1>3, <1>4 DEF Gapless
<1> QED BY <1>5

\* A compaction has its outputs.
LEMMA OrderedProduce ==
  ASSUME Reserved, Typed, Past, Ordered, NEW j \in Running, NEW enabled \in BOOLEAN,
         NEW tables \in Tables(CompactionOutput(job[j], enabled)), Produces(j, job[j], tables)
  PROVE  Ordered'
<1> PICK c : c = job[j]
  OBVIOUS
<1> /\ version' = version /\ Running' = Running
    /\ \A i \in Running : /\ job'[i].level = job[i].level
                          /\ job'[i].inputs = job[i].inputs
    /\ \A i \in Running \ {j} : job'[i] = job[i]
  BY DEF Produces
<1>1. JobsOK'
  <2> SUFFICES ASSUME NEW i \in Running, NEW d, d = job'[i] PROVE JobOK(d)'
    BY DEF JobsOK
  <2>1. CASE i # j
    BY <2>1, JobStays DEF Ordered, JobsOK, Typed
  <2>2. CASE i = j
    <3> /\ d.level = c.level /\ d.inputs = c.inputs /\ d.others = c.others
        /\ d.beyond = c.beyond /\ d.outputs = tables
      BY <2>2 DEF Produces
    <3>1. Used(d) = Used(c)
      BY DEF Used
    <3>2. JobOK(d)
      BY <3>1, ProducedSound, ProducedWithin DEF JobOK, InputsCut, OthersCut, Below, Ordered,
         JobsOK, OutputsSound
    <3> QED BY <3>2, JobStays, ProducedWithin DEF JobOK, Ordered, JobsOK
  <2> QED BY <2>1, <2>2
<1> QED BY <1>1, TablesStay DEF Ordered, PairsCut

\* What two running compactions have to do with each other.
LEMMA TwoRunning ==
  ASSUME Reserved, Ordered, NEW i \in Running, NEW j \in Running, i # j,
         NEW c, NEW d, c = job[i], d = job[j]
  PROVE  /\ c.level = 0 => d.level # 0
         /\ c.level = d.level => c.inputs \cap d.inputs = {} /\ c.others \cap d.others = {}
         /\ d.level = c.level + 1 => /\ d.inputs \cap c.others = {}
                                     /\ \A f \in c.inputs, g \in d.inputs : Apart(f, g)
BY DEF Ordered, PairsCut, Reserved, InputsReserved

\* The compaction c of thread j is installed while thread i runs d.
LEMMA JobInstall ==
  ASSUME Reserved, Typed, Past, Ordered, NEW i \in Running, NEW j \in Running, i # j,
         NEW c, NEW d, c = job[j], d = job[i], Installs(j, c)
  PROVE  JobOK(d)'
<1>1. /\ c.level \in Nat /\ c.level \in Levels /\ c.level + 1 \in Levels
      /\ c.inputs \subseteq version[c.level] /\ c.others \subseteq version[c.level + 1]
  BY RunningFacts
<1> /\ d.level \in Nat /\ d.level \in Levels /\ d.level + 1 \in Levels
    /\ d.inputs \subseteq version[d.level] /\ d.others \subseteq version[d.level + 1]
  BY RunningFacts
<1> /\ c.level = 0 => d.level # 0
    /\ c.level = d.level => c.inputs \cap d.inputs = {} /\ c.others \cap d.others = {}
    /\ d.level = c.level + 1 => /\ d.inputs \cap c.others = {}
                                /\ \A f \in c.inputs, g \in d.inputs : Apart(f, g)
    /\ c.level = d.level + 1 => /\ c.inputs \cap d.others = {}
                                /\ \A f \in d.inputs, g \in c.inputs : Apart(f, g)
  BY TwoRunning
<1> JobOK(c) /\ JobOK(d)
  BY DEF Ordered, JobsOK
<1> \A level \in Levels : \A f \in version'[level] :
       f \in version[level] \/ (level = c.level + 1 /\ f \in c.outputs)
  BY DEF Installs
<1> \A o \in c.outputs : \A x \in Span(o) : \E h \in c.inputs \cup c.others : x \in Span(h)
  BY DEF JobOK, OutputsSound, Used
<1>2. InputsCut(d)'
  BY <1>1 DEF InputsCut, JobOK, Apart
<1>3. OthersCut(d)'
  BY <1>1 DEF OthersCut, Apart, JobOK, InputsCut
<1>4. Below(d)'
  BY <1>1, LsmTreeAssumption DEF Below, JobOK, Apart, Used, InputsCut, Deeper, Levels
<1>5. OutputsSound(d)'
  <2>1. OutputsSound(d) /\ \A o \in d.outputs : IsTable(o)
    BY DEF JobOK, Typed
  <2> QED BY <2>1, OutputsStay
<1> QED BY <1>2, <1>3, <1>4, <1>5 DEF JobOK

\* The entries after a compaction.
LEMMA SoundInstall ==
  ASSUME Reserved, Typed, Past, TablesSound, NEW j \in Running, NEW c, c = job[j], OutputsSound(c),
         Installs(j, c)
  PROVE  TablesSound'
<1> SUFFICES ASSUME NEW level \in Levels, NEW f \in version'[level], NEW k \in DOMAIN f
             PROVE  Sound(k, f[k])' /\ (level = 0 => f[k].seq = f[k].write)
  BY DEF TablesSound
<1>1. c.level \in Nat
  BY RunningFacts
<1>2. CASE f \in version[level]
  <2>1. f[k] \in Entry /\ Sound(k, f[k]) /\ (level = 0 => f[k].seq = f[k].write)
    BY <1>2 DEF TablesSound, Typed, IsTable
  <2> QED BY <2>1, SoundKept
<1>3. CASE level = c.level + 1 /\ f \in c.outputs
  <2>1. f[k] \in Entry /\ Sound(k, f[k]) /\ level # 0
    BY <1>1, <1>3 DEF OutputsSound, Typed, IsTable
  <2> QED BY <2>1, SoundKept
<1> QED BY <1>2, <1>3 DEF Installs

\* The levels after a compaction.
LEMMA OrderedInstall ==
  ASSUME Reserved, Typed, Past, Ordered, NEW j \in Running, NEW c, c = job[j], Installs(j, c)
  PROVE  Ordered'
<1> /\ c.level \in Nat /\ c.level \in Levels /\ c.level + 1 \in Levels
    /\ c.inputs \subseteq version[c.level] /\ c.others \subseteq version[c.level + 1]
  BY RunningFacts
<1> JobOK(c) /\ \A o \in c.outputs : IsTable(o)
  BY DEF Ordered, JobsOK, Typed
<1> \A level \in Levels : \A f \in version'[level] :
       \/ f \in version[level] /\ (level = c.level => f \notin c.inputs)
       \/ level = c.level + 1 /\ f \in c.outputs
  BY DEF Installs
<1>1. Ages'
  BY LsmTreeAssumption DEF Levels, Ordered, Ages
<1>2. Above'
  <2> SUFFICES ASSUME NEW level \in Levels, NEW lower \in Deeper(level),
                      NEW f \in version'[level], NEW g \in version'[lower],
                      NEW k \in DOMAIN f \cap DOMAIN g
               PROVE  f[k].write > g[k].write
    BY DEF Above
  <2> lower \in Levels /\ lower \in Nat /\ level \in Nat /\ level < lower
    BY LsmTreeAssumption DEF Levels, Deeper
  <2> \A l \in Levels, m \in Levels : l < m => \A h \in version[l], e \in version[m] :
          k \in DOMAIN h /\ k \in DOMAIN e => h[k].write > e[k].write
    BY LsmTreeAssumption DEF Ordered, Above, Levels, Deeper
  <2> CASE f \in version[level] /\ g \in version[lower]
    OBVIOUS
  <2> CASE f \in version[level] /\ (level = c.level => f \notin c.inputs) /\ lower = c.level + 1 /\ g \in c.outputs
    <3> PICK h \in c.inputs \cup c.others : k \in DOMAIN h /\ h[k].write = g[k].write
      BY DEF JobOK, OutputsSound, Used
    <3> CASE h \in c.others
      OBVIOUS
    <3> CASE h \in c.inputs /\ level = c.level
      BY ApartKeys DEF JobOK, InputsCut, Typed, Younger
    <3> CASE h \in c.inputs /\ level # c.level
      OBVIOUS
    <3> QED OBVIOUS
  <2> CASE level = c.level + 1 /\ f \in c.outputs /\ g \in version[lower]
    BY DEF JobOK, OutputsSound, Used
  <2> QED OBVIOUS
<1>3. TablesSound'
  BY SoundInstall DEF Ordered, JobOK
<1>4. \A i \in Running' : i \in Running /\ i # j /\ job'[i] = job[i]
  BY DEF Installs
<1>5. JobsOK'
  <2> SUFFICES ASSUME NEW i \in Running', NEW d, d = job'[i] PROVE JobOK(d)'
    BY DEF JobsOK
  <2> QED BY <1>4, JobInstall
<1>6. PairsCut'
  BY <1>4 DEF Ordered, PairsCut
<1> QED BY <1>1, <1>2, <1>3, <1>5, <1>6 DEF Ordered

\* Every step keeps the order.
LEMMA OrderedStep ==
  ASSUME Reserved, Typed, Ordered, [Next]_vars
  PROVE  Ordered'
<1> Past
  BY TypedStep
<1> CASE Quiet
  BY OrderedQuiet
<1> CASE flush
  BY FlushFlushes, OrderedFlush
<1> ASSUME NEW j \in Jobs, PickCompaction(j) PROVE Ordered'
  BY PickBegins, OrderedBegin
<1> ASSUME NEW j \in Jobs, ProcessKeyValueCompaction(j) PROVE Ordered'
  BY RunProduces, OrderedProduce
<1> ASSUME NEW j \in Jobs, Install(j) PROVE Ordered'
  BY InstallInstalls, OrderedInstall
<1> QED BY OtherSteps DEF Next

----------------------------------------------------------------------------
(***************************************************************************)
(* What holds in every state.                                              *)
(***************************************************************************)

\* The smallest sequence number of a table of level 0 is that of a write of it.
LEMMA SmallestIsWrite ==
  ASSUME Typed, TablesSound, NEW f \in version[0]
  PROVE  \E k \in DOMAIN f : SmallestSeqno(f) = f[k].write /\ f[k].write \in Nat
<1>1. 0 \in Levels
  BY LsmTreeAssumption DEF Levels
<1>2. IsTable(f) /\ \A k \in DOMAIN f : f[k].seq = f[k].write
  BY <1>1 DEF Typed, TablesSound
<1>3. \A k \in DOMAIN f : f[k].seq \in Nat
  BY <1>2, LsmTreeAssumption DEF IsTable, Entry
<1> DEFINE S == {f[k].seq : k \in DOMAIN f}
<1>4. S \in SUBSET Nat
  BY <1>3
<1>5. S # {}
  BY <1>2 DEF IsTable
<1>6. Min(S) \in S
  <2> HIDE DEF S
  <2> QED BY <1>4, <1>5, Least
<1>7. PICK k \in DOMAIN f : Min(S) = f[k].seq
  BY <1>6, Zenon
<1> QED BY <1>2, <1>3, <1>7, Zenon DEF SmallestSeqno

\* In a younger table the smallest sequence number is larger.
LEMMA YoungerSeqno ==
  ASSUME Typed, TablesSound, NEW f \in version[0], NEW g \in version[0], Younger(f, g)
  PROVE  /\ SmallestSeqno(f) \in Nat /\ SmallestSeqno(g) \in Nat
         /\ SmallestSeqno(f) > SmallestSeqno(g)
BY SmallestIsWrite DEF Younger

\* The order says what lets Get stop at the first table that has the key.
LEMMA OrderedIsNewer ==
  ASSUME Typed, Ordered
  PROVE  NewerAbove
BY YoungerSeqno, SmallestIsWrite DEF Ordered, Ages, Younger, NewerAbove, Above

\* The invariant is inductive.
LEMMA OrderedInv == Spec => [](Reserved /\ Typed /\ Ordered)
<1>1. ASSUME Init PROVE Reserved /\ Typed /\ Ordered
  <2>1. Ages /\ Above
    BY <1>1, LsmTreeAssumption DEF Ages, Above, Init, Running, Idle, Levels
  <2> QED BY <1>1, <2>1, InitTyped DEF Ordered, TablesSound, PairsCut, JobsOK, Init, Running, Idle
<1>2. Reserved /\ Typed /\ Ordered /\ [Next]_vars => (Reserved /\ Typed /\ Ordered)'
  BY ReservedStep, TypedStep, OrderedStep
<1> QED BY <1>1, <1>2, PTL DEF Spec

\* Version::Get may stop at the first table that has the key: whatever is
\* flushed, picked, expanded, moved and merged by any number of compactions at
\* once, the entries of a higher level are newer, flawed compactions included.
THEOREM HigherIsNewer == Spec => []NewerAbove
<1>1. Typed /\ Ordered => NewerAbove
  BY OrderedIsNewer
<1> QED BY <1>1, OrderedInv, PTL

============================================================================
