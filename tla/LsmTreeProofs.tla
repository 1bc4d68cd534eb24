--------------------------- MODULE LsmTreeProofs ---------------------------
(***************************************************************************)
(* The tables of a compaction stay in the version and are its own until it *)
(* is installed: for any keys, levels, threads and numbers of writes.      *)
(***************************************************************************)
EXTENDS LsmTree, WellFoundedInduction, TLAPS

\* What the proof needs of the variables' types.
Shape ==
    /\ version = [level \in Levels |-> version[level]]
    /\ job = [j \in Jobs |-> job[j]]
    /\ \A j \in Jobs :
         job[j] # Idle =>
            /\ job[j] = [phase |-> job[j].phase, level |-> job[j].level,
                         inputs |-> job[j].inputs, others |-> job[j].others,
                         outputs |-> job[j].outputs, bottommost |-> job[j].bottommost,
                         beyond |-> job[j].beyond]
            /\ job[j].phase \in {"run", "install"}
            /\ job[j].level \in 0 .. NumLevels - 2

Reserved == Shape /\ InputsReserved

\* A table has keys, and an entry for each.
IsTable(f) == DOMAIN f \subseteq Keys /\ DOMAIN f # {} /\ \A k \in DOMAIN f : f[k] \in Entry

\* The range of a table, and tables whose ranges do not meet.
Span(f) == KeyRange({f})
Apart(f, g) == Span(f) \cap Span(g) = {}

\* The tables of a compaction.
Used(c) == c.inputs \cup c.others

\* They leave no gap: what is between two of them is in the range of one.
Gapless(tables) ==
    \A f, g \in tables : \A x \in Smallest(f) .. Largest(g) : \E h \in tables : x \in Span(h)

----------------------------------------------------------------------------

\* The tables that are picked are tables of their levels.
LEMMA PickedAreThere ==
  ASSUME NEW level, NEW f, NEW inputs
  PROVE  /\ PickedInputs(level, f) \subseteq version[level]
         /\ Expanded(level, inputs) \subseteq version[level]
         /\ OtherInputs(level, inputs) \subseteq version[level + 1]
BY DEF PickedInputs, Closure, Expanded, OverlappingInputs, Overlapping, OtherInputs

\* What FilesInCompaction rules out.
LEMMA NotInCompaction ==
  ASSUME NEW level, NEW tables, ~FilesInCompaction(level, tables),
         NEW i \in Running
  PROVE  /\ job[i].level = level => job[i].inputs \cap tables = {}
         /\ job[i].level + 1 = level => job[i].others \cap tables = {}
BY DEF FilesInCompaction

----------------------------------------------------------------------------

\* A compaction whose tables nobody has can be set up.
LEMMA SetUpKeeps ==
  ASSUME Reserved, NEW j \in Jobs, job[j] = Idle, version' = version,
         NEW level \in 0 .. NumLevels - 2, NEW inputs, NEW others,
         inputs \subseteq version[level], others \subseteq version[level + 1],
         ~FilesInCompaction(level, inputs), ~FilesInCompaction(level + 1, others),
         SetUp(j, level, inputs, others)
  PROVE  Reserved'
<1>1. PICK move \in TrivialMove(level, inputs, others) :
        job' = [job EXCEPT ![j] = Compaction(level, inputs, others, move)]
  BY Zenon DEF SetUp
<1> DEFINE b == IsBottommostLevel(level, inputs, others)
           y == Beyond(level)
           o == IF move THEN inputs ELSE {}
           p == IF move THEN "install" ELSE "run"
<1>2. /\ p \in {"run", "install"}
      /\ job' = [job EXCEPT ![j] = [phase |-> p, level |-> level, inputs |-> inputs,
                   others |-> others, outputs |-> o, bottommost |-> b, beyond |-> y]]
  BY <1>1 DEF Compaction
<1> HIDE DEF b, y, o, p
<1>3. Shape'
  BY <1>2 DEF Reserved, Shape, Idle
<1>4. Running = {i \in Jobs : job[i] # Idle} /\ Running' = {i \in Jobs : job'[i] # Idle}
  BY <1>3 DEF Reserved, Shape, Running, Idle
<1>5. j \notin Running /\ Running' = Running \cup {j} /\ \A i \in Running : job'[i] = job[i]
  BY <1>2, <1>4 DEF Reserved, Shape, Idle
<1>6. job'[j].level = level /\ job'[j].inputs = inputs /\ job'[j].others = others
  BY <1>2 DEF Reserved, Shape
<1>7. \A i \in Running :
         /\ job[i].level = level =>
               job[i].inputs \cap inputs = {} /\ job[i].others \cap others = {}
         /\ job[i].level = level + 1 => job[i].inputs \cap others = {}
         /\ level = job[i].level + 1 => inputs \cap job[i].others = {}
  <2> TAKE i \in Running
  <2>1. job[i].level \in Int
    BY <1>4 DEF Reserved, Shape
  <2> QED BY <2>1, NotInCompaction
<1>8. InputsReserved'
  BY <1>4, <1>5, <1>6, <1>7 DEF Reserved, InputsReserved
<1> QED BY <1>3, <1>8 DEF Reserved

\* What is known of the tables a compaction is set up with.
Chosen(level, inputs, others) ==
    /\ level \in 0 .. NumLevels - 2
    /\ inputs \subseteq version[level] /\ others = Overlapping(level + 1, KeyRange(inputs))
    /\ \E f \in version[level] :
          \/ inputs = PickedInputs(level, f)
          \/ /\ inputs = Expanded(level, PickedInputs(level, f))
             /\ level # 0 => CleanCut(level, inputs)
    /\ ~FilesInCompaction(level, inputs) /\ ~FilesInCompaction(level + 1, others)
    /\ level = 0 => \A j \in Running : job[j].level # 0

\* PickCompaction sets up a compaction of such tables.
LEMMA PickChooses ==
  ASSUME NEW j \in Jobs, PickCompaction(j)
  PROVE  \E level, inputs, others : Chosen(level, inputs, others) /\ SetUp(j, level, inputs, others)
<1>1. PICK level \in 0 .. NumLevels - 2 : \E f \in version[level] :
         LET picked == PickedInputs(level, f)
             expanded == Expanded(level, picked)
         IN /\ CanPick(level, f)
            /\ \/ SetUp(j, level, picked, OtherInputs(level, picked))
               \/ /\ CanExpand(level, picked)
                  /\ SetUp(j, level, expanded, OtherInputs(level, expanded))
  BY DEF PickCompaction
<1>2. PICK f \in version[level] :
         LET picked == PickedInputs(level, f)
             expanded == Expanded(level, picked)
         IN /\ CanPick(level, f)
            /\ \/ SetUp(j, level, picked, OtherInputs(level, picked))
               \/ /\ CanExpand(level, picked)
                  /\ SetUp(j, level, expanded, OtherInputs(level, expanded))
  BY <1>1
<1> DEFINE picked == PickedInputs(level, f)
           expanded == Expanded(level, picked)
<1> picked \subseteq version[level] /\ expanded \subseteq version[level]
  BY PickedAreThere
<1>3. CASE SetUp(j, level, picked, OtherInputs(level, picked))
  BY <1>2, <1>3 DEF Chosen, CanPick, OtherInputs
<1>4. CASE CanExpand(level, picked) /\ SetUp(j, level, expanded, OtherInputs(level, expanded))
  BY <1>2, <1>4 DEF CanPick, CanExpand, Chosen, OtherInputs
<1> QED BY <1>2, <1>3, <1>4

\* A compaction that is picked takes nothing another one has.
LEMMA PickKeeps ==
  ASSUME Reserved, NEW j \in Jobs, PickCompaction(j)
  PROVE  Reserved'
<1> PICK level, inputs, others : Chosen(level, inputs, others) /\ SetUp(j, level, inputs, others)
  BY PickChooses
<1>1. others \subseteq version[level + 1]
  BY DEF Chosen, Overlapping
<1> QED BY <1>1, SetUpKeeps DEF Chosen, PickCompaction

\* Installing takes away only what the compaction had.
LEMMA InstallKeeps ==
  ASSUME Reserved, NEW j \in Jobs, Install(j)
  PROVE  Reserved'
<1> DEFINE c == job[j]
<1>1. /\ c # Idle /\ c.level \in 0 .. NumLevels - 2
      /\ c.level \in Levels /\ c.level + 1 \in Levels /\ c.level # c.level + 1
  BY LsmTreeAssumption DEF Install, Reserved, Shape, Idle, Levels
<1>2. Shape'
  BY <1>1, Zenon DEF Reserved, Shape, Install, Idle
<1>3. Running = {i \in Jobs : job[i] # Idle} /\ Running' = {i \in Jobs : job'[i] # Idle}
  BY <1>2 DEF Reserved, Shape, Running, Idle
<1>4. j \in Running /\ Running' = Running \ {j} /\ \A i \in Running \ {j} : job'[i] = job[i]
  BY <1>1, <1>3 DEF Reserved, Shape, Install
<1>5. /\ version'[c.level] = version[c.level] \ c.inputs
      /\ version[c.level + 1] \ c.others \subseteq version'[c.level + 1]
      /\ \A l \in Levels \ {c.level, c.level + 1} : version'[l] = version[l]
  BY <1>1 DEF Reserved, Shape, Install
<1>6. ASSUME NEW i \in Running'
      PROVE  job[i].inputs \subseteq version'[job[i].level] /\ job[i].others \subseteq version'[job[i].level + 1]
  <2>1. /\ i \in Running /\ i # j
        /\ job[i].level \in 0 .. NumLevels - 2
        /\ job[i].level \in Levels /\ job[i].level + 1 \in Levels
    BY <1>4, <1>3, LsmTreeAssumption DEF Reserved, Shape, Levels
  <2>2. job[i].inputs \subseteq version[job[i].level] /\ job[i].others \subseteq version[job[i].level + 1]
    BY <2>1 DEF Reserved, InputsReserved
  <2>3. /\ job[i].level = c.level => job[i].inputs \cap c.inputs = {} /\ job[i].others \cap c.others = {}
        /\ job[i].level = c.level + 1 => job[i].inputs \cap c.others = {}
        /\ c.level = job[i].level + 1 => c.inputs \cap job[i].others = {}
    BY <1>4, <2>1 DEF Reserved, InputsReserved
  <2> HIDE DEF c
  <2>4. job[i].inputs \subseteq version'[job[i].level]
    BY <1>1, <1>5, <2>1, <2>2, <2>3
  <2>5. job[i].others \subseteq version'[job[i].level + 1]
    BY <1>1, <1>5, <2>1, <2>2, <2>3
  <2> QED BY <2>4, <2>5
<1>7. InputsReserved'
  BY <1>4, <1>6 DEF Reserved, InputsReserved
<1> QED BY <1>2, <1>7 DEF Reserved

\* Every step keeps the tables of compactions reserved.
LEMMA ReservedStep == Reserved /\ [Next]_vars => Reserved'
<1> SUFFICES ASSUME Reserved, [Next]_vars PROVE Reserved'
  OBVIOUS
<1>1. ASSUME NEW k \in Keys, NEW e, NEW type, write(k, type, e) PROVE Reserved'
  BY <1>1 DEF write, Reserved, Shape, InputsReserved, Running
<1>2. CASE flush
  <2>1. Shape' /\ Running' = Running /\ job' = job
    BY <1>2 DEF flush, Reserved, Shape, Running
  <2>2. \A l \in Levels : version[l] \subseteq version'[l]
    BY <1>2 DEF flush, Reserved, Shape
  <2> QED
    BY <2>1, <2>2, LsmTreeAssumption DEF Reserved, InputsReserved, Shape, Running, Idle, Levels
<1>3. CASE tick
  BY <1>3 DEF tick, Reserved, Shape, InputsReserved, Running
<1>4. ASSUME NEW j \in Jobs, PickCompaction(j) PROVE Reserved'
  BY <1>4, PickKeeps
<1>5. ASSUME NEW j \in Jobs, ProcessKeyValueCompaction(j) PROVE Reserved'
  <2>1. PICK tables : job' = [job EXCEPT ![j] = [@ EXCEPT !.phase = "install", !.outputs = tables]]
    BY <1>5, Zenon DEF ProcessKeyValueCompaction
  <2>2. version' = version /\ job[j] # Idle
    BY <1>5 DEF ProcessKeyValueCompaction, Idle
  <2>3. job'[j] = [phase |-> "install", level |-> job[j].level,
                   inputs |-> job[j].inputs, others |-> job[j].others,
                   outputs |-> tables, bottommost |-> job[j].bottommost,
                   beyond |-> job[j].beyond]
    <3>1. job[j] = [phase |-> job[j].phase, level |-> job[j].level,
                    inputs |-> job[j].inputs, others |-> job[j].others,
                    outputs |-> job[j].outputs, bottommost |-> job[j].bottommost,
                    beyond |-> job[j].beyond]
      BY <1>5, <2>2 DEF Reserved, Shape
    <3>2. job'[j] = [job[j] EXCEPT !.phase = "install", !.outputs = tables]
      BY <1>5, <2>1 DEF Reserved, Shape
    <3> QED BY <3>1, <3>2, Zenon
  <2> QED BY <2>2, <2>1, <2>3 DEF Reserved, InputsReserved, Shape, Running, Idle
<1>6. ASSUME NEW j \in Jobs, Install(j) PROVE Reserved'
  BY <1>6, InstallKeeps
<1>7. ASSUME NEW j \in Jobs, Fail(j) PROVE Reserved'
  BY <1>7 DEF Fail, Reserved, Shape, Running, Idle, InputsReserved
<1>8. CASE reopen
  BY <1>8 DEF reopen, Reserved, Shape, Running, Idle, InputsReserved
<1>9. CASE UNCHANGED vars
  BY <1>9 DEF vars, Reserved, Shape, InputsReserved, Running
<1> QED BY <1>1, <1>2, <1>3, <1>4, <1>5, <1>6, <1>7, <1>8, <1>9 DEF Next

----------------------------------------------------------------------------
(***************************************************************************)
(* Numbers and the ranges of tables.                                       *)
(***************************************************************************)

\* A set of numbers has a smallest one.
LEMMA Least ==
  ASSUME NEW S \in SUBSET Nat, S # {}
  PROVE  Min(S) \in S /\ \A y \in S : Min(S) <= y
<1>1. PICK x \in S : \A y \in S : ~(<<y, x>> \in OpToRel(<, Nat))
  BY NatLessThanWellFounded, WFMin, Zenon
<1>2. \A y \in S : ~(<<y, x>> \in {ss \in Nat \X Nat : ss[1] < ss[2]})
  BY <1>1 DEF OpToRel
<1>3. \A y \in S : ~(y < x)
  BY <1>2, Zenon
<1>4. \A y \in S : x <= y
  BY <1>3
<1> QED BY <1>4, Zenon DEF Min

\* A bounded set of numbers has a largest one.
LEMMA Greatest ==
  ASSUME NEW S \in SUBSET Nat, S # {}, NEW n \in Nat, \A y \in S : y <= n
  PROVE  Max(S) \in S /\ \A y \in S : y <= Max(S)
<1> DEFINE T == {n - y : y \in S}
<1>1. T \in SUBSET Nat
  OBVIOUS
<1>2. T # {}
  <2>1. PICK y \in S : TRUE
    BY Zenon
  <2> QED OBVIOUS
<1>3. Min(T) \in T /\ \A y \in T : Min(T) <= y
  <2> HIDE DEF T
  <2> QED BY <1>1, <1>2, Least
<1>4. PICK x \in S : Min(T) = n - x
  BY <1>3, Zenon
<1>5. \A y \in S : x >= y
  <2> TAKE y \in S
  <2>1. n - y \in T
    OBVIOUS
  <2> HIDE DEF T
  <2> QED BY <1>3, <1>4, <2>1
<1> HIDE DEF T
<1> QED BY <1>5, Zenon DEF Max

\* The key of a table is in the range of every set of tables it is in.
LEMMA InRange ==
  ASSUME NEW tables, \A f \in tables : IsTable(f), NEW f \in tables, NEW k \in DOMAIN f
  PROVE  k \in KeyRange(tables)
<1>1. KeysOf(tables) \in SUBSET Nat /\ KeysOf(tables) \subseteq Keys /\ k \in KeysOf(tables)
  BY LsmTreeAssumption, Zenon DEF KeysOf, IsTable
<1>2. PICK last \in Keys : \A y \in Keys : y <= last
  BY <1>1, LsmTreeAssumption
<1>3. last \in Nat /\ \A y \in KeysOf(tables) : y <= last
  BY <1>1, <1>2, LsmTreeAssumption
<1>4. Max(KeysOf(tables)) \in KeysOf(tables) /\ k <= Max(KeysOf(tables))
  BY <1>1, <1>3, Greatest, Zenon
<1> QED BY <1>1, <1>4, Least DEF KeyRange

\* A range of tables goes from a key of one to a key of another.
LEMMA RangeEnds ==
  ASSUME NEW tables, \A f \in tables : IsTable(f), tables # {}
  PROVE  /\ \E f \in tables : Min(KeysOf(tables)) \in DOMAIN f
         /\ \E f \in tables : Max(KeysOf(tables)) \in DOMAIN f
         /\ Min(KeysOf(tables)) \in Nat /\ Max(KeysOf(tables)) \in Nat
         /\ KeyRange(tables) = Min(KeysOf(tables)) .. Max(KeysOf(tables))
<1>1. KeysOf(tables) \in SUBSET Nat /\ KeysOf(tables) \subseteq Keys /\ KeysOf(tables) # {}
  <2>1. PICK f \in tables : TRUE
    OBVIOUS
  <2>2. PICK k \in DOMAIN f : TRUE
    BY DEF IsTable
  <2>3. k \in KeysOf(tables)
    BY DEF KeysOf
  <2>4. KeysOf(tables) \subseteq Keys
    BY DEF KeysOf, IsTable
  <2> QED BY <2>3, <2>4, LsmTreeAssumption, Zenon
<1>2. PICK last \in Keys : \A y \in Keys : y <= last
  BY <1>1, LsmTreeAssumption
<1>3. last \in Nat /\ \A y \in KeysOf(tables) : y <= last
  BY <1>1, <1>2, LsmTreeAssumption
<1>4. Min(KeysOf(tables)) \in KeysOf(tables) /\ Max(KeysOf(tables)) \in KeysOf(tables)
  BY <1>1, <1>3, Least, Greatest, Zenon
<1> QED BY <1>1, <1>4 DEF KeyRange, KeysOf

\* The range of one table.
LEMMA SpanOf ==
  ASSUME NEW f, IsTable(f)
  PROVE  /\ Smallest(f) \in DOMAIN f /\ Largest(f) \in DOMAIN f
         /\ Smallest(f) \in Nat /\ Largest(f) \in Nat /\ Smallest(f) <= Largest(f)
         /\ Span(f) = Smallest(f) .. Largest(f)
         /\ DOMAIN f \subseteq Span(f)
<1>1. KeysOf({f}) = DOMAIN f
  BY DEF KeysOf
<1>2. /\ Smallest(f) \in DOMAIN f /\ Largest(f) \in DOMAIN f
      /\ Smallest(f) \in Nat /\ Largest(f) \in Nat
      /\ Span(f) = Smallest(f) .. Largest(f)
  BY <1>1, RangeEnds DEF Span, Smallest, Largest
<1> QED BY <1>2, InRange DEF Span

\* It is in the range of every set of tables that has the table.
LEMMA SpanInRange ==
  ASSUME NEW tables, \A f \in tables : IsTable(f), NEW f \in tables, NEW x \in Span(f)
  PROVE  x \in KeyRange(tables)
<1>1. KeyRange(tables) = Min(KeysOf(tables)) .. Max(KeysOf(tables)) /\ Min(KeysOf(tables)) \in Nat
      /\ Max(KeysOf(tables)) \in Nat
  BY RangeEnds
<1> QED BY <1>1, SpanOf, InRange

\* What is in a range is between the beginning of a table and the end of one.
LEMMA RangeBetween ==
  ASSUME NEW tables, \A f \in tables : IsTable(f), NEW x \in KeyRange(tables)
  PROVE  \E f, g \in tables : x \in Smallest(f) .. Largest(g)
<1> tables # {}
  BY DEF KeyRange
<1>1. PICK f \in tables : Min(KeysOf(tables)) \in DOMAIN f
  BY RangeEnds
<1>2. PICK g \in tables : Max(KeysOf(tables)) \in DOMAIN g
  BY RangeEnds
<1>3. x \in Min(KeysOf(tables)) .. Max(KeysOf(tables)) /\ Min(KeysOf(tables)) \in Nat
      /\ Max(KeysOf(tables)) \in Nat
  BY RangeEnds
<1> QED BY <1>3, SpanOf, <1>1, <1>2

\* Tables that are apart have no key in common.
LEMMA ApartKeys ==
  ASSUME NEW f, NEW g, IsTable(f), IsTable(g), Apart(f, g)
  PROVE  DOMAIN f \cap DOMAIN g = {}
BY SpanOf DEF Apart

\* The tables outside a clean cut are apart from those in it.
LEMMA CutApart ==
  ASSUME NEW level \in Levels, \A f \in version[level] : IsTable(f),
         NEW s, s \subseteq version[level], CleanCut(level, s),
         NEW f \in version[level] \ s, NEW g \in s
  PROVE  Apart(f, g)
<1> SUFFICES ASSUME NEW x \in Span(f), x \in Span(g) PROVE FALSE
  BY DEF Apart
<1> QED BY SpanInRange DEF CleanCut, Overlapping, Span

\* More tables, more range.
LEMMA RangeGrows ==
  ASSUME NEW more, \A f \in more : IsTable(f), NEW tables, tables \subseteq more
  PROVE  KeyRange(tables) \subseteq KeyRange(more)
<1> SUFFICES ASSUME NEW x \in KeyRange(tables) PROVE x \in KeyRange(more)
  OBVIOUS
<1>1. PICK f \in tables, g \in tables : x \in Smallest(f) .. Largest(g)
  BY RangeBetween
<1> f \in more /\ g \in more
  OBVIOUS
<1>2. /\ KeyRange(more) = Min(KeysOf(more)) .. Max(KeysOf(more))
      /\ Min(KeysOf(more)) \in Nat /\ Max(KeysOf(more)) \in Nat
  BY RangeEnds
<1>3. Smallest(f) \in Nat /\ Largest(g) \in Nat
  BY SpanOf
<1> QED BY <1>1, <1>2, <1>3, SpanOf, InRange

\* The closure is a clean cut, and has the tables it was made for.
LEMMA ClosureClean ==
  ASSUME NEW level \in Levels, \A f \in version[level] : IsTable(f), NEW t, t \subseteq version[level]
  PROVE  CleanCut(level, Closure(level, t)) /\ t \subseteq Closure(level, t)
<1>1. ASSUME NEW h \in Overlapping(level, KeyRange(Closure(level, t))), NEW s \in SUBSET version[level],
             t \subseteq s, CleanCut(level, s)
      PROVE  h \in s
  <2>1. KeyRange(Closure(level, t)) \subseteq KeyRange(s)
    BY RangeGrows, <1>1 DEF Closure
  <2> QED BY <1>1, <2>1 DEF CleanCut, Overlapping
<1>2. Overlapping(level, KeyRange(Closure(level, t))) \subseteq version[level]
  BY DEF Overlapping
<1>3. Overlapping(level, KeyRange(Closure(level, t))) \subseteq Closure(level, t)
  BY <1>1, <1>2 DEF Closure
<1> QED BY <1>3 DEF CleanCut, Closure

\* Where no table of the closure is, it does not get across.
LEMMA ClosureStops ==
  ASSUME NEW level \in Levels, \A f \in version[level] : IsTable(f), NEW t, t \subseteq version[level],
         NEW x \in Nat, \A h \in Closure(level, t) : x \notin Span(h)
  PROVE  /\ (\A g \in t : Largest(g) < x) => \A g \in Closure(level, t) : Largest(g) < x
         /\ (\A g \in t : Smallest(g) > x) => \A g \in Closure(level, t) : Smallest(g) > x
<1> DEFINE C == Closure(level, t)
           lo == {g \in C : Largest(g) < x}
           hi == {g \in C : Smallest(g) > x}
<1> C \subseteq version[level]
  BY DEF Closure
<1>1. t \subseteq C /\ CleanCut(level, C)
  BY ClosureClean
<1>2. \A h \in C : /\ IsTable(h) /\ Smallest(h) \in Nat /\ Largest(h) \in Nat
                   /\ Span(h) = Smallest(h) .. Largest(h) /\ (Largest(h) < x \/ Smallest(h) > x)
  BY SpanOf
<1> \A s : s \subseteq version[level] /\ t \subseteq s /\ CleanCut(level, s) => C \subseteq s
  BY DEF Closure
<1> HIDE DEF C
<1> ASSUME NEW s, s \subseteq C, NEW h \in Overlapping(level, KeyRange(s))
    PROVE  h \in C /\ \E y \in Span(h), a \in s, b \in s : y \in Smallest(a) .. Largest(b)
  <2>1. h \in C
    BY <1>1, <1>2, RangeGrows DEF CleanCut, Overlapping
  <2>2. PICK y \in Span(h) : y \in KeyRange(s)
    BY DEF Overlapping, Span
  <2> QED BY <2>1, <2>2, RangeBetween, <1>2
<1>3. CleanCut(level, lo)
  BY <1>2 DEF CleanCut
<1>4. CleanCut(level, hi)
  BY <1>2 DEF CleanCut
<1> ASSUME \A g \in t : Largest(g) < x PROVE \A g \in C : Largest(g) < x
  BY <1>1, <1>3
<1> ASSUME \A g \in t : Smallest(g) > x PROVE \A g \in C : Smallest(g) > x
  BY <1>1, <1>4
<1> QED BY DEF C

\* Where tables without a gap do not reach, they are all on one side.
LEMMA GaplessSides ==
  ASSUME NEW k, \A f \in k : IsTable(f), Gapless(k), NEW x \in Nat, \A h \in k : x \notin Span(h)
  PROVE  (\A g \in k : Largest(g) < x) \/ (\A g \in k : Smallest(g) > x)
<1>1. \A f, g \in k : x \notin Smallest(f) .. Largest(g)
  BY DEF Gapless
<1> QED BY <1>1, SpanOf

\* Tables that meet the range of such tables leave no gap either.
LEMMA GaplessMore ==
  ASSUME NEW more, \A f \in more : IsTable(f), NEW k, k \subseteq more, Gapless(k),
         \A h \in more : Span(h) \cap KeyRange(k) # {}
  PROVE  Gapless(more)
<1> SUFFICES ASSUME NEW f \in more, NEW g \in more, NEW x \in Smallest(f) .. Largest(g),
                    \A h \in more : x \notin Span(h)
             PROVE  FALSE
  BY DEF Gapless
<1>1. \A h \in more : /\ Smallest(h) \in Nat /\ Largest(h) \in Nat /\ Smallest(h) <= Largest(h)
                      /\ Span(h) = Smallest(h) .. Largest(h) /\ (Largest(h) < x \/ Smallest(h) > x)
  BY SpanOf
<1>2. x \in Nat
  BY <1>1
<1>3. \A h \in more : \E y \in Span(h), a \in k, b \in k : y \in Smallest(a) .. Largest(b)
  BY RangeBetween
<1> CASE \A h \in k : Largest(h) < x
  <2>1. PICK y \in Span(g), b \in k : y <= Largest(b)
    BY <1>3
  <2> QED BY <1>1, <2>1
<1> CASE \A h \in k : Smallest(h) > x
  <2>1. PICK y \in Span(f), a \in k : Smallest(a) <= y
    BY <1>3
  <2> QED BY <1>1, <2>1
<1> QED BY <1>2, GaplessSides

\* Nor does the closure.
LEMMA GaplessClosure ==
  ASSUME NEW level \in Levels, \A f \in version[level] : IsTable(f), NEW t, t \subseteq version[level],
         NEW o, \A f \in o : IsTable(f), Gapless(t \cup o)
  PROVE  Gapless(Closure(level, t) \cup o)
<1> DEFINE C == Closure(level, t)
<1>1. C \subseteq version[level]
  BY DEF Closure
<1> SUFFICES ASSUME NEW f \in C \cup o, NEW g \in C \cup o, NEW x \in Smallest(f) .. Largest(g),
                    \A h \in C \cup o : x \notin Span(h)
             PROVE  FALSE
  BY DEF Gapless
<1>2. \A h \in C \cup o : /\ Smallest(h) \in Nat /\ Largest(h) \in Nat /\ Smallest(h) <= Largest(h)
  BY <1>1, SpanOf
<1> x \in Nat /\ ~(Largest(g) < x) /\ ~(Smallest(f) > x)
  BY <1>2
<1>3. t \subseteq C
  BY ClosureClean
<1>4. (\A h \in t \cup o : Largest(h) < x) \/ (\A h \in t \cup o : Smallest(h) > x)
  BY <1>3, GaplessSides
<1>5. (\A h \in C \cup o : Largest(h) < x) \/ (\A h \in C \cup o : Smallest(h) > x)
  BY <1>4, ClosureStops
<1> QED BY <1>5

\* The tables that PickCompaction chooses leave no gap.
LEMMA ChosenGapless ==
  ASSUME \A l \in Levels : \A f \in version[l] : IsTable(f),
         NEW level, NEW inputs, NEW others, Chosen(level, inputs, others)
  PROVE  Gapless(inputs \cup others) /\ CleanCut(level, inputs)
<1>1. level \in Nat /\ level \in Levels /\ level + 1 \in Levels
  BY LsmTreeAssumption DEF Chosen, Levels
<1>2. PICK f \in version[level] :
         \/ inputs = PickedInputs(level, f)
         \/ /\ inputs = Expanded(level, PickedInputs(level, f))
            /\ level # 0 => CleanCut(level, inputs)
  BY DEF Chosen
<1> DEFINE P == Closure(level, {f})
           O == Overlapping(level + 1, KeyRange(P))
           R == KeyRange(P \cup O)
           T == Overlapping(level, R)
<1>3. P \subseteq version[level] /\ O \subseteq version[level + 1] /\ T \subseteq version[level]
  BY DEF Closure, Overlapping
<1>4. /\ \A g \in version[level] \cup version[level + 1] : IsTable(g)
      /\ \A g \in P \cup O : IsTable(g)
      /\ \A g \in T \cup O : IsTable(g)
  BY <1>1, <1>3, Zenon
<1>5. Gapless(P) /\ CleanCut(level, P)
  <2>1. Gapless({f} \cup {})
    BY <1>1, SpanOf DEF Gapless
  <2>2. Gapless(Closure(level, {f}) \cup {})
    BY <1>1, <2>1, GaplessClosure, Zenon
  <2> QED BY <1>1, <2>2, ClosureClean
<1>6. \A g \in P : Span(g) \cap KeyRange(P) # {}
  BY <1>4, SpanOf, InRange, Zenon
<1>7. Gapless(P \cup O)
  <2>1. \A g \in O : Span(g) \cap KeyRange(P) # {}
    BY DEF Overlapping, Span
  <2> HIDE DEF P, O
  <2> QED BY <1>4, <1>5, <1>6, <2>1, GaplessMore
<1>8. CASE inputs = PickedInputs(level, f)
  BY <1>5, <1>7, <1>8 DEF PickedInputs, Chosen
<1>9. CASE /\ inputs = Expanded(level, PickedInputs(level, f))
           /\ level # 0 => CleanCut(level, inputs)
  <2>1. inputs = (IF level = 0 THEN Closure(0, T) ELSE T)
    BY <1>9 DEF Expanded, PickedInputs, OtherInputs, OverlappingInputs
  <2>2. \A g \in P \cup O : Span(g) \cap R # {}
    <3> HIDE DEF P, O
    <3> QED BY <1>4, SpanOf, InRange
  <2>3. P \subseteq T
    BY <1>3, <2>2, Zenon DEF Overlapping, Span
  <2>4. Gapless(T \cup O)
    <3>1. \A g \in T : Span(g) \cap R # {}
      BY Zenon DEF Overlapping, Span
    <3>2. P \cup O \subseteq T \cup O
      BY <2>3
    <3> HIDE DEF P, O, T
    <3> QED BY <1>4, <1>7, <2>2, <3>1, <3>2, GaplessMore, Zenon
  <2> HIDE DEF P, T
  <2>5. T \subseteq inputs /\ Gapless(inputs \cup O) /\ CleanCut(level, inputs)
    <3>1. CASE level = 0
      BY <1>1, <1>3, <1>4, <2>1, <2>4, <3>1, ClosureClean, GaplessClosure, Zenon
    <3>2. CASE level # 0
      BY <1>9, <2>1, <2>4, <3>2
    <3> QED BY <3>1, <3>2
  <2>6. inputs \subseteq version[level] /\ others = Overlapping(level + 1, KeyRange(inputs))
    BY DEF Chosen
  <2>7. \A g \in inputs \cup others : IsTable(g)
    BY <1>1, <2>6 DEF Overlapping
  <2>8. O \subseteq others
    <3>1. KeyRange(P) \subseteq KeyRange(inputs)
      BY <2>7, RangeGrows, <2>3, <2>5
    <3> QED BY <2>6, <3>1 DEF Overlapping, O
  <2>9. KeyRange(inputs) \subseteq KeyRange(inputs \cup O)
    BY <2>7, <2>8, RangeGrows
  <2>10. \A g \in inputs \cup others : Span(g) \cap KeyRange(inputs \cup O) # {}
    <3>1. \A g \in others : Span(g) \cap KeyRange(inputs) # {}
      BY <2>6 DEF Overlapping, Span
    <3>2. \A g \in inputs : Span(g) \cap KeyRange(inputs) # {}
      BY <2>7, SpanOf, InRange
    <3> QED BY <2>9, <3>1, <3>2, Zenon
  <2>11. Gapless(inputs \cup others)
    BY <2>5, <2>7, <2>8, <2>10, GaplessMore, Zenon
  <2> QED BY <2>5, <2>11
<1> QED BY <1>2, <1>8, <1>9

\* Of the entries of a key one comes first.
LEMMA FirstComes ==
  ASSUME NEW E, E \subseteq Entry, E # {}
  PROVE  FirstOf(E) \in E /\ \A b \in E : ~Precedes(b, FirstOf(E))
<1> DEFINE S == {e.seq : e \in E}
<1>1. S \in SUBSET Nat /\ \A n \in S : n <= MaxWrites
  BY LsmTreeAssumption DEF Entry
<1>2. PICK e0 \in E : TRUE
  OBVIOUS
<1>3. S # {}
  BY <1>2, Zenon
<1>4. Max(S) \in S /\ \A n \in S : n <= Max(S)
  <2> HIDE DEF S
  <2> QED BY <1>1, <1>3, Greatest, LsmTreeAssumption
<1>5. PICK e \in E : e.seq = Max(S)
  BY <1>4
<1>6. \A b \in E : b.seq \in Nat /\ b.seq <= e.seq
  BY <1>1, <1>4, <1>5
<1> HIDE DEF S
<1>7. \E a \in E : \A b \in E : ~Precedes(b, a)
  BY <1>6 DEF Precedes
<1> QED BY <1>7 DEF FirstOf

\* What a compaction makes of a key is the first entry of its tables.
LEMMA MergedIsFirst ==
  ASSUME NEW c, \A f \in Used(c) : IsTable(f), NEW k \in KeysOf(Used(c))
  PROVE  \E f \in Used(c) : /\ k \in DOMAIN f /\ Merged(c, k) = f[k] /\ f[k] \in Entry
                            /\ \A g \in Used(c) : k \in DOMAIN g => ~Precedes(g[k], f[k])
<1> DEFINE T == {g \in Used(c) : k \in DOMAIN g}
           E == {f[k] : f \in T}
<1>1. E \subseteq Entry
  BY DEF IsTable
<1>2. PICK f0 \in T : TRUE
  BY DEF KeysOf
<1>3. E # {}
  BY <1>2
<1>4. Merged(c, k) = FirstOf(E)
  BY DEF Merged, Used
<1>5. FirstOf(E) \in E /\ \A b \in E : ~Precedes(b, FirstOf(E))
  <2> HIDE DEF E
  <2> QED BY <1>1, <1>3, FirstComes
<1>6. PICK f \in T : FirstOf(E) = f[k]
  BY <1>5, Zenon
<1>7. \A g \in Used(c) : k \in DOMAIN g => ~Precedes(g[k], f[k])
  BY <1>5, <1>6
<1>8. f[k] \in Entry
  BY <1>1, <1>6
<1> QED BY <1>4, <1>6, <1>7, <1>8, Zenon

\* The output is cut into tables that have its keys and are apart.
LEMMA TablesCut ==
  ASSUME NEW f, DOMAIN f \subseteq Keys, \A k \in DOMAIN f : f[k] \in Entry, NEW tables \in Tables(f)
  PROVE  /\ \A o \in tables : /\ DOMAIN o # {} /\ DOMAIN o \subseteq DOMAIN f
                              /\ \A k \in DOMAIN o : o[k] = f[k]
         /\ \A o, p \in tables : o = p \/ Apart(o, p)
         /\ \A k \in DOMAIN f : \E o \in tables : k \in DOMAIN o
<1>1. CASE DOMAIN f = {}
  BY <1>1 DEF Tables
<1>2. CASE DOMAIN f # {}
  <2>1. PICK cut \in SUBSET (DOMAIN f \ {Min(DOMAIN f)}) :
          tables = {Restricted(f, {k \in Keys : \A c \in cut : (c <= k) = (c <= s)}) : s \in DOMAIN f}
    BY <1>2, Zenon DEF Tables, Cuts
  <2> DEFINE Whole(s) == Restricted(f, {k \in Keys : \A c \in cut : (c <= k) = (c <= s)})
             Part(s) == {k \in DOMAIN f : \A c \in cut : (c <= k) = (c <= s)}
             Piece(s) == [k \in Part(s) |-> f[k]]
  <2>2. \A s \in DOMAIN f : Whole(s) = Piece(s)
    <3> TAKE s \in DOMAIN f
    <3>1. DOMAIN f \cap {k \in Keys : \A c \in cut : (c <= k) = (c <= s)} = Part(s)
      OBVIOUS
    <3> QED BY <3>1 DEF Restricted
  <2>3. tables = {Piece(s) : s \in DOMAIN f}
    <3>1. tables = {Whole(s) : s \in DOMAIN f}
      BY <2>1
    <3> HIDE DEF Whole, Piece
    <3> QED BY <3>1, <2>2, Zenon
  <2>4. \A s \in DOMAIN f : s \in Part(s) /\ Part(s) \subseteq DOMAIN f
    OBVIOUS
  <2>5. \A s, t \in DOMAIN f :
            \/ Part(s) = Part(t)
            \/ \E c \in Nat : \/ \A k \in Part(s), l \in Part(t) : c <= k /\ ~(c <= l)
                              \/ \A k \in Part(s), l \in Part(t) : c <= l /\ ~(c <= k)
    <3> SUFFICES ASSUME NEW s \in DOMAIN f, NEW t \in DOMAIN f
                 PROVE  \/ Part(s) = Part(t)
                        \/ \E c \in Nat : \/ \A k \in Part(s), l \in Part(t) : c <= k /\ ~(c <= l)
                                          \/ \A k \in Part(s), l \in Part(t) : c <= l /\ ~(c <= k)
      BY Zenon
    <3>1. CASE \A c \in cut : (c <= s) = (c <= t)
      BY <3>1
    <3>2. CASE \E c \in cut : (c <= s) # (c <= t)
      <4>1. PICK c \in cut : (c <= s) # (c <= t)
        BY <3>2
      <4>2. c \in Nat /\ s \in Nat /\ t \in Nat
        BY LsmTreeAssumption, Zenon
      <4>3. CASE c <= s
        BY <4>1, <4>3, <4>2
      <4>4. CASE ~(c <= s)
        BY <4>1, <4>4, <4>2
      <4> QED BY <4>3, <4>4
    <3> QED BY <3>1, <3>2
  <2> HIDE DEF Part
  <2>6. \A s \in DOMAIN f : DOMAIN Piece(s) = Part(s) /\ \A k \in Part(s) : Piece(s)[k] = f[k]
    OBVIOUS
  <2>7. \A s, t \in DOMAIN f : Part(s) = Part(t) => Piece(s) = Piece(t)
    OBVIOUS
  <2> HIDE DEF Piece
  <2>8. \A o \in tables : DOMAIN o # {} /\ DOMAIN o \subseteq DOMAIN f /\ \A k \in DOMAIN o : o[k] = f[k]
    BY <2>3, <2>4, <2>6
  <2>9. \A o, p \in tables : o = p \/ Apart(o, p)
    <3> TAKE o, p \in tables
    <3>1. PICK s \in DOMAIN f : o = Piece(s)
      BY <2>3
    <3>2. PICK t \in DOMAIN f : p = Piece(t)
      BY <2>3
    <3>3. CASE Part(s) = Part(t)
      BY <2>7, <3>1, <3>2, <3>3
    <3>4. CASE \E c \in Nat : \/ \A k \in Part(s), l \in Part(t) : c <= k /\ ~(c <= l)
                              \/ \A k \in Part(s), l \in Part(t) : c <= l /\ ~(c <= k)
      <4>1. /\ Smallest(o) \in Part(s) /\ Largest(o) \in Part(s) /\ Span(o) = Smallest(o) .. Largest(o)
            /\ Smallest(o) \in Nat /\ Largest(o) \in Nat
        BY SpanOf, <2>8, <2>6, <3>1, <3>2 DEF IsTable
      <4>2. /\ Smallest(p) \in Part(t) /\ Largest(p) \in Part(t) /\ Span(p) = Smallest(p) .. Largest(p)
            /\ Smallest(p) \in Nat /\ Largest(p) \in Nat
        BY SpanOf, <2>8, <2>6, <3>1, <3>2 DEF IsTable
      <4> QED BY <3>4, <4>1, <4>2 DEF Apart
    <3> QED BY <2>5, <3>3, <3>4
  <2>10. \A k \in DOMAIN f : \E o \in tables : k \in DOMAIN o
    BY <2>3, <2>4, <2>6
  <2> QED BY <2>8, <2>9, <2>10
<1> QED BY <1>1, <1>2

\* What the filter and PrepareOutput leave of an entry.
LEMMA PreparedEntry ==
  ASSUME NEW c, NEW enabled, NEW e \in Entry
  PROVE  LET p == PrepareOutput(c, Filtered(enabled, e)) IN
         /\ p \in Entry /\ Filtered(enabled, e) \in Entry
         /\ p.write = e.write /\ p.type = Filtered(enabled, e).type
         /\ p.seq = e.seq \/ p.seq = 0
         /\ p.seq = 0 => c.bottommost \/ e.seq = 0
         /\ \/ Filtered(enabled, e).type = e.type
            \/ /\ Filtered(enabled, e).type = "deletion"
               /\ Expired(history[e.write].expire_ts)
<1> DEFINE t == Filtered(enabled, e)
<1> /\ t \in Entry /\ t.write = e.write /\ t.seq = e.seq
    /\ t.type = e.type \/ (t.type = "deletion" /\ Expired(history[e.write].expire_ts))
  BY DEF Filtered, Entry
<1> HIDE DEF t
<1>1. LET p == PrepareOutput(c, t) IN
      /\ p \in Entry /\ p.write = t.write /\ p.type = t.type
      /\ p.seq = t.seq \/ p.seq = 0
      /\ p.seq = 0 => c.bottommost \/ t.seq = 0
  BY LsmTreeAssumption DEF PrepareOutput, Entry
<1> QED BY <1>1 DEF t

----------------------------------------------------------------------------
(***************************************************************************)
(* The types, and what each kind of step does.                             *)
(***************************************************************************)

Row == [key : Keys, type : {"value", "deletion"}, expire_ts : Nat]
Typed ==
    /\ history \in Seq(Row)
    /\ Len(history) <= MaxWrites /\ flushed \in 0 .. Len(history)
    /\ now \in Nat /\ flawed \in BOOLEAN
    /\ \A level \in Levels : \A f \in version[level] : IsTable(f)
    /\ \A j \in Running : \A o \in job[j].outputs : IsTable(o)

\* Time passes, and what is in files stays written.
Past ==
    /\ flushed \in Nat /\ flushed' \in Nat /\ flushed <= flushed' /\ now <= now'
    /\ \A w \in 1 .. flushed : history'[w] = history[w] /\ history[w].expire_ts \in Nat
    /\ now \in Nat /\ now' \in Nat

\* A step that changes no table and no compaction, but for those that end.
Quiet ==
    /\ version' = version /\ flushed' = flushed /\ flawed' = flawed
    /\ \A j \in Running' : j \in Running /\ job'[j] = job[j]

\* The table b is added to level 0.
Flushes(b) ==
    /\ job' = job /\ flawed' = flawed /\ history' = history /\ flushed' = Len(history)
    /\ version'[0] = version[0] \cup {b}
    /\ \A level \in Levels \ {0} : version'[level] = version[level]

\* Thread j begins with compaction c.
Begins(j, c) ==
    /\ version' = version /\ history' = history /\ flushed' = flushed /\ now' = now
    /\ Running' = Running \cup {j} /\ job'[j] = c
    /\ \A i \in Running : i # j /\ job'[i] = job[i]
    /\ flawed => flawed'

\* Thread j has the outputs of its compaction.
Produces(j, c, tables) ==
    /\ version' = version /\ history' = history /\ flushed' = flushed /\ now' = now
    /\ flawed' = flawed
    /\ Running' = Running /\ c.phase = "run"
    /\ \A i \in Running \ {j} : job'[i] = job[i]
    /\ job'[j].phase = "install" /\ job'[j].level = c.level /\ job'[j].inputs = c.inputs
    /\ job'[j].others = c.others /\ job'[j].outputs = tables
    /\ job'[j].beyond = c.beyond

\* The compaction c of thread j is in the version.
Installs(j, c) ==
    /\ history' = history /\ flushed' = flushed /\ now' = now /\ flawed' = flawed
    /\ \A i \in Running' : i \in Running /\ i # j /\ job'[i] = job[i]
    /\ c.phase = "install"
    /\ \A level \in Levels : \A f \in version'[level] :
          \/ /\ f \in version[level]
             /\ level = c.level => f \notin c.inputs
             /\ level = c.level + 1 => f \notin c.others
          \/ level = c.level + 1 /\ f \in c.outputs
    /\ \A level \in Levels : \A f \in version[level] :
          \/ f \in version'[level]
          \/ level = c.level /\ f \in c.inputs
          \/ level = c.level + 1 /\ f \in c.others
    /\ c.outputs \subseteq version'[c.level + 1]

\* What is known of a running compaction.
LEMMA RunningFacts ==
  ASSUME Reserved, NEW j \in Running
  PROVE  /\ j \in Jobs /\ job[j] # Idle /\ job[j].phase \in {"run", "install"}
         /\ job[j].level \in Nat /\ job[j].level \in 0 .. NumLevels - 2
         /\ job[j].level \in Levels /\ job[j].level + 1 \in Levels
         /\ job[j].inputs \subseteq version[job[j].level]
         /\ job[j].others \subseteq version[job[j].level + 1]
BY LsmTreeAssumption DEF Running, Idle, Reserved, Shape, Levels, InputsReserved

\* The table of a flush has the last write of each key since the last flush.
LEMMA BuiltTable ==
  ASSUME Typed, flushed < Len(history)
  PROVE  /\ IsTable(BuildTable)
         /\ \A k \in DOMAIN BuildTable :
               LET e == BuildTable[k] IN
               /\ e.seq = e.write /\ e.write \in flushed + 1 .. Len(history)
               /\ history[e.write].key = k /\ e.type = history[e.write].type
         /\ \A w \in flushed + 1 .. Len(history) :
               (\A v \in w + 1 .. Len(history) : history[v].key # history[w].key) =>
                  history[w].key \in DOMAIN BuildTable /\ BuildTable[history[w].key].write = w
<1> DEFINE rows == flushed + 1 .. Len(history)
           last(k) == Max({v \in rows : history[v].key = k})
           ks == {history[w].key : w \in rows}
<1>1. /\ Len(history) \in Nat /\ flushed \in Nat /\ Len(history) <= MaxWrites
      /\ \A w \in 1 .. Len(history) : history[w] \in Row
  BY DEF Typed
<1>2. /\ Len(history) \in Nat /\ flushed \in Nat /\ flushed + 1 \in rows
      /\ rows \subseteq Writes /\ rows \subseteq Nat /\ \A w \in rows : w <= Len(history)
      /\ \A w \in rows : history[w].key \in Keys /\ history[w].type \in {"value", "deletion"}
  <2>1. flushed + 1 \in rows /\ rows \subseteq 1 .. Len(history)
    BY <1>1
  <2>2. rows \subseteq Writes /\ rows \subseteq Nat /\ \A w \in rows : w <= Len(history)
    BY <1>1, LsmTreeAssumption DEF Writes
  <2> HIDE DEF rows
  <2> QED BY <1>1, <2>1, <2>2, Zenon DEF Row
<1> HIDE DEF rows
<1>3. ASSUME NEW k \in ks
      PROVE  last(k) \in rows /\ history[last(k)].key = k /\ \A v \in rows : history[v].key = k => v <= last(k)
  <2> DEFINE S == {v \in rows : history[v].key = k}
  <2>1. S \in SUBSET Nat /\ S # {} /\ \A v \in S : v <= Len(history)
    BY <1>2
  <2>2. Max(S) \in S /\ \A v \in S : v <= Max(S)
    <3> HIDE DEF S
    <3> QED BY <1>2, <2>1, Greatest, Zenon
  <2> QED BY <2>2
<1> HIDE DEF last
<1>4. BuildTable = [k \in ks |-> [seq |-> last(k), type |-> history[last(k)].type, write |-> last(k)]]
  BY DEF BuildTable, rows, last
<1>5. ks \subseteq Keys /\ ks # {}
  BY <1>2
<1>6. DOMAIN BuildTable = ks
  BY <1>4
<1>7. \A k \in ks : BuildTable[k] = [seq |-> last(k), type |-> history[last(k)].type, write |-> last(k)]
  BY <1>4
<1>8. \A k \in ks : BuildTable[k] \in Entry
  <2> TAKE k \in ks
  <2>1. last(k) \in Writes /\ history[last(k)].type \in {"value", "deletion"}
    BY <1>2, <1>3, Zenon
  <2>2. last(k) \in 0 .. MaxWrites
    BY <2>1, LsmTreeAssumption DEF Writes
  <2>3. BuildTable[k] = [seq |-> last(k), type |-> history[last(k)].type, write |-> last(k)]
    BY <1>7
  <2> QED BY <2>1, <2>2, <2>3 DEF Entry
<1>9. \A w \in rows : (\A v \in w + 1 .. Len(history) : history[v].key # history[w].key) =>
          last(history[w].key) = w
  <2> TAKE w \in rows
  <2> HAVE \A v \in w + 1 .. Len(history) : history[v].key # history[w].key
  <2>1. last(history[w].key) \in rows /\ history[last(history[w].key)].key = history[w].key /\ w <= last(history[w].key)
    BY <1>3
  <2>2. last(history[w].key) <= Len(history) /\ last(history[w].key) \in Nat /\ w \in Nat
    BY <1>2, <2>1, Zenon
  <2> QED BY <1>2, <2>1, <2>2
<1>10. \A w \in rows : history[w].key \in ks
  OBVIOUS
<1> HIDE DEF ks
<1>11. IsTable(BuildTable)
  BY <1>5, <1>6, <1>8 DEF IsTable
<1>12. \A k \in DOMAIN BuildTable : LET e == BuildTable[k] IN
               /\ e.seq = e.write /\ e.write \in rows
               /\ history[e.write].key = k /\ e.type = history[e.write].type
  BY <1>3, <1>6, <1>7
<1>13. \A w \in rows :
          (\A v \in w + 1 .. Len(history) : history[v].key # history[w].key) =>
              history[w].key \in DOMAIN BuildTable /\ BuildTable[history[w].key].write = w
  BY <1>6, <1>7, <1>9, <1>10
<1> QED BY <1>11, <1>12, <1>13 DEF rows

\* The tables that a compaction writes: their entries come from its tables.
LEMMA OutputTables ==
  ASSUME Reserved, \A level \in Levels : \A f \in version[level] : IsTable(f),
         NEW j \in Running, NEW enabled \in BOOLEAN,
         NEW tables \in Tables(CompactionOutput(job[j], enabled))
  PROVE  /\ \A o \in tables : IsTable(o)
         /\ \A o, p \in tables : o = p \/ Apart(o, p)
         /\ \A o \in tables : \A k \in DOMAIN o :
               LET e == Filtered(enabled, Merged(job[j], k)) IN
               /\ k \in KeysOf(Used(job[j]))
               /\ ~Obsolete(job[j], k, e) /\ o[k] = PrepareOutput(job[j], e)
         /\ \A k \in KeysOf(Used(job[j])) :
               \/ Obsolete(job[j], k, Filtered(enabled, Merged(job[j], k)))
               \/ \E o \in tables : k \in DOMAIN o
<1> DEFINE c == job[j]
           e(k) == Filtered(enabled, Merged(c, k))
           p(k) == PrepareOutput(c, e(k))
           kept == {k \in KeysOf(Used(c)) : ~Obsolete(c, k, e(k))}
           out == CompactionOutput(c, enabled)
<1> \A f \in Used(c) : IsTable(f)
  BY RunningFacts DEF Used
<1>1. out = [k \in kept |-> p(k)]
  BY DEF CompactionOutput, Used
<1> KeysOf(Used(c)) \subseteq Keys
  BY DEF KeysOf, IsTable
<1> \A k \in KeysOf(Used(c)) : p(k) \in Entry
  <2> TAKE k \in KeysOf(Used(c))
  <2>1. Merged(c, k) \in Entry
    BY MergedIsFirst
  <2> QED BY <2>1, PreparedEntry
<1> HIDE DEF c, e, p
<1> DOMAIN out = kept /\ \A k \in kept : out[k] = p(k)
  BY <1>1
<1> HIDE DEF out
<1>2. DOMAIN out \subseteq Keys
  OBVIOUS
<1> /\ \A o \in tables : /\ DOMAIN o # {} /\ DOMAIN o \subseteq DOMAIN out
                         /\ \A k \in DOMAIN o : o[k] = out[k]
    /\ \A o, q \in tables : o = q \/ Apart(o, q)
    /\ \A k \in DOMAIN out : \E o \in tables : k \in DOMAIN o
  BY <1>2, TablesCut DEF out, c
<1>3. \A o \in tables : IsTable(o)
  BY DEF IsTable
<1>4. \A o \in tables : \A k \in DOMAIN o :
         k \in KeysOf(Used(c)) /\ ~Obsolete(c, k, e(k)) /\ o[k] = p(k)
  OBVIOUS
<1>5. \A k \in KeysOf(Used(c)) : Obsolete(c, k, e(k)) \/ \E o \in tables : k \in DOMAIN o
  OBVIOUS
<1> QED BY <1>3, <1>4, <1>5, Zenon DEF c, e, p

\* What PickCompaction does.
LEMMA PickBegins ==
  ASSUME Reserved, Typed, NEW j \in Jobs, PickCompaction(j)
  PROVE  \E level, inputs, others : \E move \in TrivialMove(level, inputs, others) :
            /\ Chosen(level, inputs, others)
            /\ Begins(j, Compaction(level, inputs, others, move))
            /\ flawed' = (flawed \/ (~move /\ Flawed(level, inputs, others)))
<1> PICK level, inputs, others : Chosen(level, inputs, others) /\ SetUp(j, level, inputs, others)
  BY PickChooses
<1> PICK move \in TrivialMove(level, inputs, others) :
      /\ job' = [job EXCEPT ![j] = Compaction(level, inputs, others, move)]
      /\ flawed' = (flawed \/ (~move /\ Flawed(level, inputs, others)))
  BY Zenon DEF SetUp
<1> DEFINE c == Compaction(level, inputs, others, move)
<1>1. c.phase # "idle"
  BY DEF Compaction
<1>2. job = [i \in Jobs |-> job[i]] /\ job[j].phase = "idle"
  BY DEF Reserved, Shape, PickCompaction, Idle
<1>3. UNCHANGED <<version, history, flushed, now>>
  BY DEF PickCompaction, data
<1> HIDE DEF c
<1>4. /\ Running' = Running \cup {j} /\ job'[j] = c
      /\ \A i \in Running : i # j /\ job'[i] = job[i]
  BY <1>1, <1>2 DEF Running, c
<1>5. flawed => flawed'
  <2> DEFINE fl == ~move /\ Flawed(level, inputs, others)
  <2>1. flawed' = (flawed \/ fl)
    OBVIOUS
  <2> HIDE DEF fl
  <2> QED BY <2>1, Zenon
<1>6. Begins(j, c)
  BY <1>3, <1>4, <1>5 DEF Begins
<1> QED BY <1>6 DEF c

\* What ProcessKeyValueCompaction does.
LEMMA RunProduces ==
  ASSUME Reserved, NEW j \in Jobs, ProcessKeyValueCompaction(j)
  PROVE  /\ j \in Running
         /\ \E enabled \in BOOLEAN : \E tables \in Tables(CompactionOutput(job[j], enabled)) :
               Produces(j, job[j], tables)
<1>1. PICK enabled \in BOOLEAN : \E tables \in Tables(CompactionOutput(job[j], enabled)) :
         job' = [job EXCEPT ![j] = [@ EXCEPT !.phase = "install", !.outputs = tables]]
  BY Zenon DEF ProcessKeyValueCompaction
<1>2. PICK tables \in Tables(CompactionOutput(job[j], enabled)) :
         job' = [job EXCEPT ![j] = [@ EXCEPT !.phase = "install", !.outputs = tables]]
  BY <1>1, Zenon
<1>3. job = [i \in Jobs |-> job[i]] /\ job[j].phase = "run" /\ job[j] # Idle
  BY DEF Reserved, Shape, ProcessKeyValueCompaction, Idle
<1>4. job'[j] = [job[j] EXCEPT !.phase = "install", !.outputs = tables]
  BY <1>2, <1>3
<1>5. /\ job'[j].phase = "install" /\ job'[j].level = job[j].level
      /\ job'[j].inputs = job[j].inputs /\ job'[j].others = job[j].others
      /\ job'[j].outputs = tables /\ job'[j].beyond = job[j].beyond
  BY <1>4, <1>3 DEF Reserved, Shape
<1> QED BY <1>3, <1>5, <1>2 DEF Running, Produces, ProcessKeyValueCompaction, data

\* What Install does.
LEMMA InstallInstalls ==
  ASSUME Reserved, NEW j \in Jobs, Install(j)
  PROVE  j \in Running /\ Installs(j, job[j])
<1> j \in Running /\ job[j].phase = "install"
  BY DEF Install, Running
<1>1. \A i \in Running' : i \in Running /\ i # j /\ job'[i] = job[i]
  BY DEF Install, Running, Idle, Reserved, Shape
<1> PICK c : c = job[j]
  OBVIOUS
<1> /\ c.level \in Levels /\ c.level + 1 \in Levels /\ c.level # c.level + 1
  BY RunningFacts
<1>2. /\ version'[c.level] = version[c.level] \ c.inputs
      /\ version'[c.level + 1] = (version[c.level + 1] \ c.others) \cup c.outputs
      /\ \A l \in Levels \ {c.level, c.level + 1} : version'[l] = version[l]
  BY DEF Reserved, Shape, Install
<1>3. UNCHANGED <<history, flushed, now, flawed>>
  BY DEF Install, data
<1> QED BY <1>1, <1>2, <1>3 DEF Installs

\* What the other steps do.
LEMMA OtherSteps ==
  ASSUME Reserved, Typed,
         \/ \E k \in Keys : \/ \E e \in ExpireTs : write(k, "value", e)
                            \/ write(k, "deletion", 0)
         \/ tick \/ reopen \/ UNCHANGED vars \/ \E j \in Jobs : Fail(j)
  PROVE  Quiet
<1>1. version' = version /\ flushed' = flushed /\ flawed' = flawed
  BY Zenon DEF write, tick, reopen, vars, Fail, data
<1>2. \A j \in Running' : j \in Running /\ job'[j] = job[j]
  <2>1. CASE job' = job
    BY <2>1 DEF Running
  <2>2. CASE reopen
    BY <2>2 DEF reopen, Running, Idle
  <2>3. ASSUME NEW j \in Jobs, Fail(j) PROVE \A i \in Running' : i \in Running /\ job'[i] = job[i]
    BY <2>3 DEF Fail, Running, Idle, Reserved, Shape
  <2> QED BY <2>1, <2>2, <2>3, Zenon DEF write, tick, vars
<1> QED BY <1>1, <1>2 DEF Quiet

\* What a flush does.
LEMMA FlushFlushes ==
  ASSUME Reserved, flush
  PROVE  flushed < Len(history) /\ Flushes(BuildTable)
BY LsmTreeAssumption DEF Reserved, Shape, Levels, flush, Flushes

\* The steps that change more than tables and compactions.
LEMMA DataSteps ==
  ASSUME [Next]_vars
  PROVE  \/ history' = history /\ flushed' = flushed /\ now' = now
         \/ \E k \in Keys : \/ \E e \in ExpireTs : write(k, "value", e)
                            \/ write(k, "deletion", 0)
         \/ flush
         \/ tick
<1> ASSUME NEW j \in Jobs, PickCompaction(j) PROVE history' = history /\ flushed' = flushed /\ now' = now
  BY Zenon DEF PickCompaction, data
<1> ASSUME NEW j \in Jobs, ProcessKeyValueCompaction(j) PROVE history' = history /\ flushed' = flushed /\ now' = now
  BY Zenon DEF ProcessKeyValueCompaction, data
<1> ASSUME NEW j \in Jobs, Install(j) \/ Fail(j) PROVE history' = history /\ flushed' = flushed /\ now' = now
  BY Zenon DEF Install, Fail, data
<1> ASSUME reopen \/ UNCHANGED vars PROVE history' = history /\ flushed' = flushed /\ now' = now
  BY Zenon DEF reopen, data, vars
<1> QED BY Zenon DEF Next

\* What a compaction is set up with.
LEMMA CompactionParts ==
  ASSUME NEW level, NEW inputs, NEW others, NEW move, NEW c,
         c = Compaction(level, inputs, others, move)
  PROVE  /\ c.level = level /\ c.inputs = inputs /\ c.others = others
         /\ c.beyond = Beyond(level)
         /\ c.bottommost = IsBottommostLevel(level, inputs, others)
         /\ c.phase = (IF move THEN "install" ELSE "run")
         /\ c.outputs = (IF move THEN inputs ELSE {})
BY DEF Compaction

\* Every step keeps the types and what is written.
LEMMA TypedStep ==
  ASSUME Reserved, Typed, [Next]_vars
  PROVE  Typed' /\ Past
<1>1. /\ history \in Seq(Row) /\ Len(history) <= MaxWrites /\ flushed \in 0 .. Len(history)
      /\ now \in Nat /\ flawed \in BOOLEAN
  BY DEF Typed
<1>2. /\ Len(history) \in Nat /\ flushed \in Nat /\ flushed <= Len(history)
      /\ \A w \in 1 .. Len(history) : history[w] \in Row
  BY <1>1
<1> DEFINE Longer == /\ history' \in Seq(Row) /\ Len(history') <= MaxWrites
                     /\ Len(history) <= Len(history')
                     /\ \A w \in 1 .. flushed : history'[w] = history[w]
<1>3. Longer
  <2>1. CASE history' = history
    BY <1>1, <1>2, <2>1
  <2>2. ASSUME NEW k \in Keys, NEW type \in {"value", "deletion"}, NEW e \in Nat, write(k, type, e)
        PROVE  Longer
    <3> DEFINE r == [key |-> k, type |-> type, expire_ts |-> e]
    <3>1. history' = Append(history, r) /\ Len(history) < MaxWrites
      BY <2>2 DEF write
    <3>2. r \in Row
      BY Zenon DEF Row
    <3> HIDE DEF r
    <3> QED BY <1>1, <1>2, <3>1, <3>2, LsmTreeAssumption
  <2> HIDE DEF Longer
  <2> QED BY <2>1, <2>2, DataSteps, LsmTreeAssumption DEF flush, tick
<1>4. flushed' \in Nat /\ flushed <= flushed' /\ flushed' <= Len(history')
  <2>1. CASE flushed' = flushed
    BY <1>2, <1>3, <2>1
  <2>2. CASE flushed' = Len(history) /\ history' = history
    BY <2>2, <1>2
  <2> HIDE DEF Longer
  <2> QED BY <2>1, <2>2, DataSteps, Zenon DEF write, flush, tick
<1>5. now' \in Nat /\ now <= now'
  <2>1. CASE now' = now
    BY <1>1, <2>1
  <2>2. CASE now' = now + 1
    BY <1>1, <2>2
  <2> QED BY <2>1, <2>2, DataSteps, Zenon DEF write, flush, tick
<1>6. Past
  <2>1. \A w \in 1 .. flushed : history[w].expire_ts \in Nat
    BY <1>2 DEF Row
  <2> QED BY <1>1, <1>2, <1>3, <1>4, <1>5, <2>1 DEF Past
<1> HIDE DEF Longer
<1>7. /\ \A level \in Levels : \A f \in version[level] : IsTable(f)
      /\ \A j \in Running : \A o \in job[j].outputs : IsTable(o)
  BY DEF Typed
<1> DEFINE Goal == /\ flawed' \in BOOLEAN
                   /\ \A level \in Levels : \A f \in version'[level] : IsTable(f)
                   /\ \A j \in Running' : \A o \in job'[j].outputs : IsTable(o)
<1>8. ASSUME Quiet PROVE Goal
  BY <1>1, <1>7, <1>8 DEF Quiet
<1>9. ASSUME flush PROVE Goal
  BY <1>9, FlushFlushes, BuiltTable, <1>7, <1>1 DEF Flushes, Running
<1>10. ASSUME NEW j \in Jobs, PickCompaction(j) PROVE Goal
  <2>1. PICK level, inputs, others, move :
            /\ Chosen(level, inputs, others)
            /\ Begins(j, Compaction(level, inputs, others, move))
            /\ flawed' = (flawed \/ (~move /\ Flawed(level, inputs, others)))
    BY <1>10, PickBegins
  <2>2. flawed' \in BOOLEAN
    BY <2>1, Zenon
  <2> DEFINE c == Compaction(level, inputs, others, move)
  <2>3. c.outputs = (IF move THEN inputs ELSE {})
    BY CompactionParts
  <2>4. level \in Levels /\ inputs \subseteq version[level]
    BY <2>1, LsmTreeAssumption DEF Chosen, Levels
  <2>5. version' = version /\ Running' = Running \cup {j} /\ job'[j] = c
        /\ \A i \in Running : job'[i] = job[i]
    BY <2>1 DEF Begins
  <2> HIDE DEF c
  <2>6. \A o \in c.outputs : IsTable(o)
    BY <1>7, <2>3, <2>4
  <2> QED BY <1>7, <2>2, <2>5, <2>6
<1>11. ASSUME NEW j \in Jobs, ProcessKeyValueCompaction(j) PROVE Goal
  <2>1. PICK enabled \in BOOLEAN : \E tables \in Tables(CompactionOutput(job[j], enabled)) :
           Produces(j, job[j], tables)
    BY <1>11, RunProduces
  <2>2. PICK tables \in Tables(CompactionOutput(job[j], enabled)) : Produces(j, job[j], tables)
    BY <2>1
  <2>3. \A o \in tables : IsTable(o)
    BY <1>7, <2>2, OutputTables, <1>11, RunProduces, Zenon
  <2> QED BY <1>1, <1>7, <2>2, <2>3 DEF Produces
<1>12. ASSUME NEW j \in Jobs, Install(j) PROVE Goal
  BY <1>12, InstallInstalls, <1>7, <1>1 DEF Installs
<1>13. Goal
  <2> HIDE DEF Goal
  <2> QED BY <1>8, <1>9, <1>10, <1>11, <1>12, OtherSteps, Zenon DEF Next
<1>14. Typed'
  <2>1. history' \in Seq(Row) /\ Len(history') \in Nat /\ Len(history') <= MaxWrites
    BY <1>3 DEF Longer
  <2>2. flushed' \in 0 .. Len(history')
    BY <1>4, <2>1
  <2> HIDE DEF Longer
  <2> QED BY <1>5, <1>13, <2>1, <2>2, Zenon DEF Typed
<1> QED BY <1>6, <1>14

----------------------------------------------------------------------------
(***************************************************************************)
(* What holds in every state.                                              *)
(***************************************************************************)

\* What holds at first.
LEMMA InitTyped == Init => Reserved /\ Typed
<1> SUFFICES ASSUME Init PROVE Reserved /\ Typed
  OBVIOUS
<1>1. history = <<>> /\ flushed = 0 /\ now = 0 /\ flawed = FALSE
  BY DEF Init
<1>2. flawed \in BOOLEAN
  BY <1>1, Zenon
<1>3. \A level \in Levels : version[level] = {}
  BY DEF Init
<1>4. \A j \in Jobs : job[j] = Idle
  BY DEF Init
<1>5. Running = {}
  BY <1>4 DEF Running, Idle
<1>6. Shape
  BY <1>4 DEF Init, Shape
<1>7. Reserved
  BY <1>5, <1>6, Zenon DEF Reserved, InputsReserved
<1>8. history \in Seq(Row) /\ Len(history) = 0
  BY <1>1
<1>9. Typed
  BY <1>1, <1>2, <1>3, <1>5, <1>8, LsmTreeAssumption DEF Typed
<1> QED BY <1>7, <1>9

\* The tables of every running compaction are in the current version and no
\* other compaction has them, so the consistency check of
\* InstallCompactionResults never fails.
THEOREM TablesStayReserved == Spec => []InputsReserved
<1>1. Reserved /\ [Next]_vars => Reserved'
  BY ReservedStep
<1>2. Init => Reserved
  BY InitTyped
<1>3. Reserved => InputsReserved
  BY DEF Reserved
<1> QED BY <1>1, <1>2, <1>3, PTL DEF Spec

============================================================================
