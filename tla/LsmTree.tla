------------------------------ MODULE LsmTree ------------------------------
(***************************************************************************)
(* The levels of files of one column family, the background compactions    *)
(* that rewrite them, and the reads that search them: the leveled          *)
(* compaction of rocksdb/db (compaction_picker.cc, compaction.cc,          *)
(* compaction_iterator.cc, compaction_job.cc, version_builder.cc, Get and  *)
(* NewIterator of db_impl.cc), with the compaction filter by which the     *)
(* replica server drops expired rows (key_ttl_compaction_filter.h).        *)
(*                                                                         *)
(* A write is known by its sequence number, its place in history, which    *)
(* also says what it wrote; the entry of a file keeps that number in       *)
(* `write` after a compaction has changed its sequence number or type.     *)
(* Sizes are left out: wherever the code compares one with a limit, both   *)
(* outcomes are allowed.  The server takes no rocksdb snapshot, so a table *)
(* holds one entry of a key at most, and a table is the function from its  *)
(* keys to their entries.                                                  *)
(***************************************************************************)
EXTENDS Integers, Sequences, FiniteSets, FiniteSetsExt

CONSTANTS Keys,          \* the raw keys, as numbers in the order of their bytes
          ExpireTs,      \* what a put may carry as expire_ts; 0 is no expiry
          NumLevels,     \* Options::num_levels
          Jobs,          \* the threads of background compactions
          MaxWrites,     \* bound on the writes
          MaxNow         \* bound on the clock

\* Keys and times are numbers, keys up to some largest one, and there is a level
\* under level 0.
ASSUME LsmTreeAssumption ==
    /\ Keys \subseteq Nat
    /\ Keys # {} => \E last \in Keys : \A k \in Keys : k <= last
    /\ ExpireTs \subseteq Nat
    /\ NumLevels \in Nat \ {0, 1}
    /\ MaxWrites \in Nat /\ MaxNow \in Nat

Levels == 0 .. NumLevels - 1
Deeper(level) == level + 1 .. NumLevels - 1
Writes == 1 .. MaxWrites
NotFound == 0                         \* the write a read without a row returns
Entry == [seq : 0 .. MaxWrites, type : {"value", "deletion"}, write : Writes]

VARIABLES
    history,     \* every write: its key, type and expire_ts
    flushed,     \* the writes up to this one are in files, the rest in memtables
    now,         \* epoch_now()
    version,     \* the current Version: the tables of each level
    job,         \* per thread: its compaction, or Idle
    bg_error,    \* DBImpl::bg_error_ is set
    flawed       \* some compaction was set up in one of the ways Flawed names

vars == <<history, flushed, now, version, job, bg_error, flawed>>
data == <<history, flushed, now>>

Idle == [phase |-> "idle"]

Init ==
    /\ history = <<>>
    /\ flushed = 0
    /\ now = 0
    /\ version = [level \in Levels |-> {}]
    /\ job = [j \in Jobs |-> Idle]
    /\ bg_error = FALSE
    /\ flawed = FALSE

----------------------------------------------------------------------------
(***************************************************************************)
(* Tables and their key ranges.                                            *)
(***************************************************************************)

KeysOf(tables) == UNION {DOMAIN f : f \in tables}
Smallest(f) == Min(DOMAIN f)
Largest(f) == Max(DOMAIN f)

\* The keys from the smallest to the largest, whatever the tables hold between.
KeyRange(tables) ==
    IF tables = {} THEN {} ELSE Min(KeysOf(tables)) .. Max(KeysOf(tables))

\* GetOverlappingInputs: the tables of a level whose range meets the range.
Overlapping(level, range) == {f \in version[level] : KeyRange({f}) \cap range # {}}

\* No table of the level that is left out shares a user key with the tables.
CleanCut(level, tables) == Overlapping(level, KeyRange(tables)) \subseteq tables

\* ExpandWhileOverlapping, and GetOverlappingInputs at level 0, start again with
\* the larger range until nothing is added.
Closure(level, tables) ==
    LET closed == {s \in SUBSET version[level] : tables \subseteq s /\ CleanCut(level, s)}
    IN {f \in version[level] : \A s \in closed : f \in s}

OverlappingInputs(level, range) ==
    IF level = 0 THEN Closure(0, Overlapping(0, range)) ELSE Overlapping(level, range)

\* Of one key, the entry with the larger sequence number comes first, and a
\* value before a deletion of the same number.
Precedes(a, b) == a.seq > b.seq \/ (a.seq = b.seq /\ a.type = "value" /\ b.type = "deletion")
FirstOf(entries) == CHOOSE a \in entries : \A b \in entries : ~Precedes(b, a)

\* The tables in the order of their internal keys: one may end and the next
\* begin with the same user key.
Before(f, g) ==
    \/ Largest(f) < Smallest(g)
    \/ Largest(f) = Smallest(g) /\ Precedes(f[Largest(f)], g[Smallest(g)])
BySmallestKey(f, g) ==
    \/ Smallest(f) < Smallest(g)
    \/ Smallest(f) = Smallest(g) /\ Precedes(f[Smallest(f)], g[Smallest(g)])
FirstTable(tables) == CHOOSE f \in tables : \A g \in tables : ~BySmallestKey(g, f)
Sorted(tables) == \A f, g \in tables : f = g \/ Before(f, g) \/ Before(g, f)

\* NewestFirstBySeqNo, for the tables of level 0.
SmallestSeqno(f) == Min({f[k].seq : k \in DOMAIN f})
NewestOf(tables) ==
    CHOOSE f \in tables : \A g \in tables : SmallestSeqno(g) <= SmallestSeqno(f)
OldestOf(tables) ==
    CHOOSE f \in tables : \A g \in tables : SmallestSeqno(f) <= SmallestSeqno(g)

----------------------------------------------------------------------------
(***************************************************************************)
(* Reads: the newest entry of a key up to a sequence number.               *)
(***************************************************************************)

Visible(tables, k, snapshot) ==
    {f \in tables : k \in DOMAIN f /\ f[k].seq <= snapshot}

\* The memtables hold every version of a key.
InMemory(k, snapshot) == {w \in flushed + 1 .. snapshot : history[w].key = k}

ValueOf(w) == IF history[w].type = "value" THEN w ELSE NotFound
Found(entry) == IF entry.type = "value" THEN entry.write ELSE NotFound

\* Version::Get: the first table that has the key, level by level, newest first
\* at level 0 and in the order of the internal keys at the others.
VersionGet(k, snapshot) ==
    LET hit == {level \in Levels : Visible(version[level], k, snapshot) # {}}
        tables == Visible(version[Min(hit)], k, snapshot)
    IN IF hit = {} THEN NotFound
       ELSE Found((IF Min(hit) = 0 THEN NewestOf(tables) ELSE FirstTable(tables))[k])

GetImpl(k, snapshot) ==
    IF InMemory(k, snapshot) # {} THEN ValueOf(Max(InMemory(k, snapshot)))
    ELSE VersionGet(k, snapshot)

\* An iterator merges the tables of all levels by sequence number instead.
Internal(k, snapshot) ==
    {f[k] : f \in Visible(UNION {version[level] : level \in Levels}, k, snapshot)}

IteratorGet(k, snapshot) ==
    IF InMemory(k, snapshot) # {} THEN ValueOf(Max(InMemory(k, snapshot)))
    ELSE IF Internal(k, snapshot) = {} THEN NotFound
    ELSE Found(FirstOf(Internal(k, snapshot)))

\* on_get, on_multi_get and the scans do not show a row that has expired.
Expired(expire_ts) == expire_ts > 0 /\ expire_ts <= now
Shown(w) == IF w = NotFound \/ Expired(history[w].expire_ts) THEN NotFound ELSE w

----------------------------------------------------------------------------
(***************************************************************************)
(* Writes and flushes (FlushPipeline has the steps of a flush).            *)
(***************************************************************************)

write(k, type, expire_ts) ==
    /\ ~bg_error
    /\ Len(history) < MaxWrites
    /\ history' = Append(history, [key |-> k, type |-> type, expire_ts |-> expire_ts])
    /\ UNCHANGED <<flushed, now, version, job, bg_error, flawed>>

\* The table has the newest entry of each key; the filter is not applied, and
\* deletions stay.
BuildTable ==
    LET rows == flushed + 1 .. Len(history) IN
    [k \in {history[w].key : w \in rows} |->
        LET w == Max({v \in rows : history[v].key = k})
        IN [seq |-> w, type |-> history[w].type, write |-> w]]

flush ==
    /\ ~bg_error
    /\ flushed < Len(history)
    /\ version' = [version EXCEPT ![0] = @ \cup {BuildTable}]
    /\ flushed' = Len(history)
    /\ UNCHANGED <<history, now, job, bg_error, flawed>>

\* A second passes.
tick ==
    /\ now < MaxNow
    /\ now' = now + 1
    /\ UNCHANGED <<history, flushed, version, job, bg_error, flawed>>

----------------------------------------------------------------------------
(***************************************************************************)
(* Picking a compaction, with the mutex held.                              *)
(***************************************************************************)

Running == {j \in Jobs : job[j].phase # "idle"}
FilesInCompaction(level, tables) ==
    \E j \in Running : \/ job[j].level = level /\ job[j].inputs \cap tables # {}
                       \/ job[j].level + 1 = level /\ job[j].others \cap tables # {}

\* PickCompactionBySize takes one table, and PickCompaction what it needs with it.
PickedInputs_alone(level, f) == {f}
PickedInputs(level, f) == Closure(level, {f})

CanPick_unreserved(level, f) ==
    /\ level = 0 => \A j \in Running : job[j].level # 0
    /\ ~FilesInCompaction(level, PickedInputs(level, f))

CanPick(level, f) ==
    /\ level = 0 => \A j \in Running : job[j].level # 0
    /\ ~FilesInCompaction(level, PickedInputs(level, f))
    /\ ~FilesInCompaction(level + 1, Overlapping(level + 1, KeyRange({f})))
    /\ ~FilesInCompaction(level + 1, Overlapping(level + 1, KeyRange(PickedInputs(level, f))))

\* SetupOtherInputs: the tables of the next level, and then perhaps more of
\* this one, if that brings in no more of the next.
OtherInputs(level, inputs) == Overlapping(level + 1, KeyRange(inputs))

Expanded(level, inputs) ==
    OverlappingInputs(level, KeyRange(inputs \cup OtherInputs(level, inputs)))

CanExpand(level, inputs) ==
    LET expanded == Expanded(level, inputs) IN
    /\ OtherInputs(level, inputs) # {}
    /\ Cardinality(expanded) > Cardinality(inputs)
    /\ ~FilesInCompaction(level, expanded)
    /\ level # 0 => CleanCut(level, expanded)            \* ~HasOverlappingUserKey
    /\ Cardinality(OtherInputs(level, expanded)) = Cardinality(OtherInputs(level, inputs))
    /\ ~FilesInCompaction(level + 1, OtherInputs(level, expanded))

\* GetBoundaryKeys: the smallest key of the first table and the largest of the
\* last one, of each input level.  At level 0 the tables are in the order of
\* their sequence numbers, the newest first.
GetBoundaryKeys(level, inputs, others) ==
    LET smallest == IF level = 0 THEN Smallest(NewestOf(inputs)) ELSE Min(KeysOf(inputs))
        largest == IF level = 0 THEN Largest(OldestOf(inputs)) ELSE Max(KeysOf(inputs))
    IN <<Min({smallest} \cup KeyRange(others)), Max({largest} \cup KeyRange(others))>>

\* OverlapInLevel, for all the levels under the output level.
NothingBelow(level, bounds) ==
    \A lower \in Deeper(level + 1) :
        ~\E f \in version[lower] : Largest(f) >= bounds[1] /\ Smallest(f) <= bounds[2]

IsBottommostLevel(level, inputs, others) ==
    /\ level = 0 => OldestOf(version[0]) \in inputs
    /\ NothingBelow(level, GetBoundaryKeys(level, inputs, others))

\* The keys for which KeyNotExistsBeyondOutputLevel is false.
Beyond(level) ==
    {k \in Keys : \E lower \in Deeper(level + 1) : Overlapping(lower, {k}) # {}}

\* IsTrivialMove.  With tables two levels down, their size decides as well.
TrivialMove_overlapping(level, inputs, others) == {others = {}}
TrivialMove(level, inputs, others) ==
    LET may == others = {} /\ (level = 0 => Sorted(version[0]))
        grandparents == IF level + 2 \in Levels THEN Overlapping(level + 2, KeyRange(inputs)) ELSE {}
    IN IF ~may THEN {FALSE} ELSE IF grandparents = {} THEN {TRUE} ELSE BOOLEAN

\* Two ways in which a compaction that rewrites its tables leaves behind older
\* entries that it does not know of: GetBoundaryKeys misses a range at level 0,
\* so that the output is wrongly taken for the bottommost level, and the tables
\* of the output level are not expanded to a clean cut.
Flawed(level, inputs, others) ==
    \/ /\ IsBottommostLevel(level, inputs, others)
       /\ \E lower \in Deeper(level + 1) :
             Overlapping(lower, KeyRange(inputs \cup others)) # {}
    \/ ~CleanCut(level + 1, others)

\* The Compaction, set up with what it will need to know of deeper levels.
Compaction(level, inputs, others, move) ==
    [phase |-> IF move THEN "install" ELSE "run",
     level |-> level, inputs |-> inputs, others |-> others,
     outputs |-> IF move THEN inputs ELSE {},
     bottommost |-> IsBottommostLevel(level, inputs, others),
     beyond |-> Beyond(level)]

SetUp(j, level, inputs, others) ==
    \E move \in TrivialMove(level, inputs, others) :
        /\ job' = [job EXCEPT ![j] = Compaction(level, inputs, others, move)]
        /\ flawed' = (flawed \/ (~move /\ Flawed(level, inputs, others)))

PickCompaction(j) ==
    /\ job[j] = Idle
    /\ ~bg_error
    /\ \E level \in 0 .. NumLevels - 2 : \E f \in version[level] :
         LET picked == PickedInputs(level, f)
             expanded == Expanded(level, picked)
         IN /\ CanPick(level, f)
            /\ \/ SetUp(j, level, picked, OtherInputs(level, picked))
               \/ /\ CanExpand(level, picked)
                  /\ SetUp(j, level, expanded, OtherInputs(level, expanded))
    /\ UNCHANGED <<data, version, bg_error>>

----------------------------------------------------------------------------
(***************************************************************************)
(* Running it, without the mutex, and installing the result.               *)
(***************************************************************************)

\* The first entry of the key in the merged input; the others are hidden.
Merged(c, k) == FirstOf({f[k] : f \in {g \in c.inputs \cup c.others : k \in DOMAIN g}})

\* KeyWithTTLCompactionFilter::Filter turns an expired value into a deletion,
\* once the server has enabled it.
Filtered(enabled, entry) ==
    IF enabled /\ entry.type = "value" /\ Expired(history[entry.write].expire_ts)
    THEN [entry EXCEPT !.type = "deletion"] ELSE entry

\* A deletion is dropped if its key can not be deeper.
Obsolete_anywhere(c, k, entry) == entry.type = "deletion"
Obsolete(c, k, entry) == entry.type = "deletion" /\ k \notin c.beyond

\* PrepareOutput: at the bottommost level the sequence number is zeroed, but
\* for that of the last write.
PrepareOutput_everywhere(c, entry) ==
    IF entry.seq < Len(history) THEN [entry EXCEPT !.seq = 0] ELSE entry
PrepareOutput(c, entry) ==
    IF c.bottommost /\ entry.seq < Len(history) THEN [entry EXCEPT !.seq = 0] ELSE entry

CompactionOutput(c, enabled) ==
    LET kept == {k \in KeysOf(c.inputs \cup c.others) :
                    ~Obsolete(c, k, Filtered(enabled, Merged(c, k)))}
    IN [k \in kept |-> PrepareOutput(c, Filtered(enabled, Merged(c, k)))]

\* A table ends where it is full or overlaps too much of the level below.
Restricted(f, keys) == [k \in DOMAIN f \cap keys |-> f[k]]
Cuts(f) == {{Restricted(f, {k \in Keys : \A c \in cut : (c <= k) = (c <= s)}) : s \in DOMAIN f} :
               cut \in SUBSET (DOMAIN f \ {Min(DOMAIN f)})}
Tables(f) == IF DOMAIN f = {} THEN {{}} ELSE Cuts(f)

\* The filter is enabled when the database has been opened, which may be later
\* than its first compactions.
ProcessKeyValueCompaction(j) ==
    /\ job[j].phase = "run"
    /\ \E enabled \in BOOLEAN : \E tables \in Tables(CompactionOutput(job[j], enabled)) :
         job' = [job EXCEPT ![j] = [@ EXCEPT !.phase = "install", !.outputs = tables]]
    /\ UNCHANGED <<data, version, bg_error, flawed>>

\* InstallCompactionResults, or the edit of a trivial move; LogAndApply, and
\* ReleaseCompactionFiles.
Install(j) ==
    /\ job[j].phase = "install"
    /\ version' = [version EXCEPT ![job[j].level] = @ \ job[j].inputs,
                                  ![job[j].level + 1] = (@ \ job[j].others) \cup job[j].outputs]
    /\ job' = [job EXCEPT ![j] = Idle]
    /\ UNCHANGED <<data, bg_error, flawed>>

\* A table or the manifest could not be written: the tables are given back.
Fail(j) ==
    /\ job[j].phase # "idle"
    /\ job' = [job EXCEPT ![j] = Idle]
    /\ bg_error' = TRUE
    /\ UNCHANGED <<data, version, flawed>>

\* The replica is closed and opened again: compactions end without a result,
\* and what the memtables held is flushed or replayed.
reopen ==
    /\ \E j \in Jobs : job[j].phase # "idle" \/ bg_error
    /\ job' = [j \in Jobs |-> Idle]
    /\ bg_error' = FALSE
    /\ UNCHANGED <<data, version, flawed>>

Next ==
    \/ \E k \in Keys : \/ \E e \in ExpireTs : write(k, "value", e)
                       \/ write(k, "deletion", 0)
    \/ flush
    \/ tick
    \/ \E j \in Jobs : \/ PickCompaction(j)
                       \/ ProcessKeyValueCompaction(j)
                       \/ Install(j)
                       \/ Fail(j)
    \/ reopen

Spec == Init /\ [][Next]_vars

----------------------------------------------------------------------------
(***************************************************************************)
(* Properties.                                                             *)
(***************************************************************************)

Table == UNION {[keys -> Entry] : keys \in SUBSET Keys \ {{}}}
CompactionType ==
    [phase : {"run", "install"}, level : 0 .. NumLevels - 2, inputs : SUBSET Table,
     others : SUBSET Table, outputs : SUBSET Table, bottommost : BOOLEAN,
     beyond : SUBSET Keys]

\* The variables have their types.
TypeOK ==
    /\ history \in Seq([key : Keys, type : {"value", "deletion"}, expire_ts : ExpireTs \cup {0}])
    /\ Len(history) <= MaxWrites
    /\ flushed \in 0 .. Len(history)
    /\ now \in 0 .. MaxNow
    /\ version \in [Levels -> SUBSET Table]
    /\ job \in [Jobs -> {Idle} \cup CompactionType]
    /\ bg_error \in BOOLEAN
    /\ flawed \in BOOLEAN

\* VersionBuilder::CheckConsistency: under level 0 the tables of a level are
\* sorted and do not overlap, although two compactions write to different levels
\* at once and flushes go on.
LevelsSorted == ~flawed => \A level \in Levels \ {0} : Sorted(version[level])

\* What lets Get stop at the first table that has the key: of each key, the
\* entries of a higher level, and of a newer table of level 0, are newer.
NewerAbove ==
    \A k \in Keys :
        /\ \A level \in Levels : \A lower \in Deeper(level) :
             \A f \in version[level], g \in version[lower] :
                 k \in DOMAIN f \cap DOMAIN g => f[k].write > g[k].write
        /\ \A f, g \in version[0] :
             k \in DOMAIN f \cap DOMAIN g /\ SmallestSeqno(f) > SmallestSeqno(g) =>
                 f[k].write > g[k].write

\* The last write of a key up to a sequence number.
Latest(k, snapshot) ==
    LET ws == {w \in 1 .. snapshot : history[w].key = k}
    IN IF ws = {} THEN NotFound ELSE ValueOf(Max(ws))

\* Whatever was flushed, compacted, filtered and dropped, Get and iterators
\* show of every key its last write, and nothing if that is a deletion or has
\* expired: no older row comes back.  A read takes the last sequence number
\* first and the SuperVersion after it, so its snapshot may be any number up to
\* the last; what it shows is right for the keys that nobody wrote in between.
NoRowComesBack ==
    \A k \in Keys : \A snapshot \in 0 .. Len(history) :
        (\A w \in snapshot + 1 .. Len(history) : history[w].key # k) =>
            /\ Shown(GetImpl(k, snapshot)) = Shown(Latest(k, snapshot))
            /\ Shown(IteratorGet(k, snapshot)) = Shown(Latest(k, snapshot))

\* It holds as long as no compaction was flawed.
ReadsShowLatest == ~flawed => NoRowComesBack

\* What a compaction works on stays until it is installed: its tables are in
\* the current version (VerifyCompactionFileConsistency) and no other compaction
\* has any of them, whatever is picked, expanded and installed in between.
InputsReserved ==
    \A j \in Running :
        /\ job[j].inputs \subseteq version[job[j].level]
        /\ job[j].others \subseteq version[job[j].level + 1]
        /\ \A i \in Running \ {j} :
             /\ job[i].level = job[j].level =>
                    job[i].inputs \cap job[j].inputs = {} /\ job[i].others \cap job[j].others = {}
             /\ job[i].level = job[j].level + 1 => job[i].inputs \cap job[j].others = {}

\* The output of a compaction has its place: nothing that others install gets
\* between the keys it works on at the level it writes to.
OutputsFit ==
    ~flawed => \A j \in Running :
        Overlapping(job[j].level + 1, KeyRange(job[j].inputs \cup job[j].others)) \subseteq job[j].others

\* The comment and the assertion of PrepareOutput: an entry whose sequence
\* number is zeroed is a value, and no older entry of its key is deeper.
OnlyBottomZeroed ==
    \A level \in Levels : \A f \in version[level] : \A k \in DOMAIN f :
        f[k].seq = 0 =>
            /\ f[k].type = "value"
            /\ \A lower \in Deeper(level) : k \notin KeysOf(version[lower])

\* It holds as long as no compaction was flawed: neither concurrent
\* compactions nor flushes put an older entry of the key under it.
ZeroedAtBottom == ~flawed => OnlyBottomZeroed

\* The deviation of the read path: a read sees the database as it was at its
\* sequence number, also when the key is written between that and taking the
\* SuperVersion.
ReadIsSnapshot ==
    ~flawed => \A k \in Keys : \A snapshot \in 0 .. Len(history) :
        Shown(GetImpl(k, snapshot)) = Shown(Latest(k, snapshot))
============================================================================
