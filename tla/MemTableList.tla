---------------------------- MODULE MemTableList ----------------------------
(***************************************************************************)
(* rocksdb's list of immutable memtables (rocksdb/db/memtable_list.cc) as  *)
(* operators on a value of the list.  The code keeps the newest memtable   *)
(* in front; here the oldest is the head of memlist.  A memtable is known  *)
(* by the decrees written into it: under Pegasus every write carries the   *)
(* decree of its mutation, and sequence numbers grow with decrees.         *)
(***************************************************************************)
EXTENDS Integers, Sequences, FiniteSets, FiniteSetsExt

\* A VersionEdit: the decrees in the table file it adds, and the decree that
\* UpdateLastFlushSeqDecree has raised it to.
NoEdit == [data |-> {}, flush |-> 0]

LastDecree(content) == Max(content \cup {0})

NewMemTable(n) ==
    [id |-> n, content |-> {}, in_progress |-> FALSE, completed |-> FALSE,
     file_number |-> 0, edit |-> NoEdit]

EmptyList ==
    [memlist |-> <<>>, num_flush_not_started |-> 0, commit_in_progress |-> FALSE]

Members(l) == {l.memlist[i] : i \in 1 .. Len(l.memlist)}

Contents(ms) == UNION {m.content : m \in ms}

\* min_write_buffer_number_to_merge is 1, so FlushRequested adds nothing.
IsFlushPending(l) == l.num_flush_not_started >= 1

Add(l, m) ==
    [l EXCEPT !.memlist = Append(@, m),
              !.num_flush_not_started = @ + 1]

Picked(l) == {m \in Members(l) : ~m.in_progress}

Update(l, ids, F(_)) ==
    [i \in 1 .. Len(l.memlist) |->
        IF l.memlist[i].id \in ids THEN F(l.memlist[i]) ELSE l.memlist[i]]

Ids(ms) == {m.id : m \in ms}

PickMemtablesToFlush(l) ==
    LET start(m) == [m EXCEPT !.in_progress = TRUE] IN
    [l EXCEPT !.memlist = Update(l, Ids(Picked(l)), start),
              !.num_flush_not_started = @ - Cardinality(Picked(l))]

\* FlushEdit if it took the decree of the newest memtable only.
FlushEdit_newest(ms) ==
    LET newest == CHOOSE m \in ms : \A n \in ms : n.id <= m.id IN
    [data |-> Contents(ms), flush |-> LastDecree(newest.content)]

\* The table file of a flush holds every memtable of the batch, and its edit
\* the last decree of any of them: a memtable of the batch may be empty.
FlushEdit(ms) ==
    [data |-> Contents(ms), flush |-> LastDecree(Contents(ms))]

Reset(m) ==
    [m EXCEPT !.in_progress = FALSE, !.completed = FALSE,
              !.file_number = 0, !.edit = NoEdit]

RollbackMemtableFlush(l, ids) ==
    [l EXCEPT !.memlist = Update(l, ids, Reset),
              !.num_flush_not_started = @ + Cardinality(ids)]

\* The first half of InstallMemtableFlushResults: the batch is completed, and
\* its oldest memtable has the edit of all of them.
Completed(l, ids, number) ==
    LET batch == {m \in Members(l) : m.id \in ids}
        complete(m) ==
            [m EXCEPT !.completed = TRUE, !.file_number = number,
                      !.edit = IF m.id = Min(ids) THEN FlushEdit(batch) ELSE @]
    IN [l EXCEPT !.memlist = Update(l, ids, complete)]

\* The oldest memtable is ready to be committed.
Committable(l) == l.memlist # <<>> /\ Head(l.memlist).completed

\* After a successful LogAndApply: the oldest memtable goes, and with it those
\* behind it that have the file number of the committing thread's own flush.
Committed(l, number) ==
    LET own(n) == \A i \in 2 .. n : l.memlist[i].file_number = number
        removed == Max({n \in 1 .. Len(l.memlist) : own(n)})
    IN [l EXCEPT !.memlist = SubSeq(@, removed + 1, Len(@))]

\* After a failed one: the oldest memtable can be flushed again.  Its file
\* number is 0 from here on, so the loop over the batch ends with it.
CommitFailed(l) ==
    [l EXCEPT !.memlist = Update(l, {Head(l.memlist).id}, Reset),
              !.num_flush_not_started = @ + 1]

=============================================================================
