---------------------------- MODULE FlushPipeline ----------------------------
(***************************************************************************)
(* The way of a write from the memtable to the manifest in the rocksdb     *)
(* that Pegasus embeds: the replica's apply thread (DBImpl::WriteImpl),    *)
(* callers of Flush, the destructor of the DB, background flushes and a    *)
(* compaction, which meet at the write queue, the db mutex, the list of    *)
(* immutable memtables and the queue of manifest writers.                  *)
(*                                                                         *)
(* What a thread does while it holds the db mutex is one action; an action *)
(* ends where the code unlocks, or waits on a condition variable.          *)
(***************************************************************************)
EXTENDS MemTableList

CONSTANTS
    Callers,                \* threads that call DB::Flush
    Flushers,               \* max_background_flushes threads
    MaxWriteBufferNumber,   \* options.max_write_buffer_number
    Paranoid,               \* options.paranoid_checks
    FirstDecree,            \* the decree the files hold when the DB is opened
    MaxDecree,              \* bound: the last decree written
    MaxFlushes,             \* bound: calls of Flush
    MaxCompactions,         \* bound: compactions
    MaxFaults,              \* bound: failed writes of a table or the manifest
    MaxReopens,             \* bound: crashes and closes
    MaxEvents               \* bound: all of the last four together

VARIABLES
    writers,                \* WriteThread: its linked list, the leader first
    mem,                    \* the active memtable
    imm,                    \* the list of immutable memtables
    flush_scheduled,        \* flush_scheduler_ holds the column family
    last_sequence,          \* the last decree visible to readers
    super_version,          \* what readers get
    version,                \* the current Version
    manifest,               \* what Recover reads from the manifest
    manifest_writers,       \* the queue of LogAndApply
    batch,                  \* the edits its leader is writing
    pending_flush,          \* the column family is in flush_queue_
    unscheduled_flushes,
    bg_error,
    shutting_down,
    pc,                     \* where each thread is
    flush_of,               \* each background flush: its memtables and file
    call_of,                \* each Flush: does it wait, and for which decree
    used                    \* how much of each bound is used up

mem_vars == <<writers, mem, imm, flush_scheduled, last_sequence, super_version>>
version_vars == <<version, manifest, manifest_writers, batch>>
sched_vars == <<pending_flush, unscheduled_flushes, bg_error, shutting_down>>
vars == <<mem_vars, version_vars, sched_vars, pc, flush_of, call_of, used>>

Applier == "apply"
Closer == "close"
Compactor == "compact"
FlushCallers == Callers \cup {Closer}
Threads == {Applier, Compactor} \cup FlushCallers \cup Flushers

NoFlush == [ids |-> {}, file |-> 0]
NoCall == [wait |-> FALSE, asked |-> 0]

\* The rare events, each within its bound and all together within MaxEvents.
Use(what, bound) ==
    /\ used[what] < bound
    /\ used.flushes + used.compactions + used.faults + used.reopens < MaxEvents
    /\ used' = [used EXCEPT ![what] = @ + 1]

Init ==
    /\ manifest = [data |-> 1 .. FirstDecree, flush |-> FirstDecree]
    /\ writers = <<>>
    /\ mem = NewMemTable(0)
    /\ imm = EmptyList
    /\ flush_scheduled = FALSE
    /\ last_sequence = manifest.flush
    /\ super_version = [imm |-> {}, data |-> manifest.data, stopped |-> FALSE]
    /\ version = manifest
    /\ manifest_writers = <<>>
    /\ batch = <<>>
    /\ pending_flush = FALSE
    /\ unscheduled_flushes = 0
    /\ bg_error = FALSE
    /\ shutting_down = FALSE
    /\ pc = [t \in Threads |-> "idle"]
    /\ flush_of = [f \in Flushers |-> NoFlush]
    /\ call_of = [c \in FlushCallers |-> NoCall]
    /\ used = [flushes |-> 0, compactions |-> 0, faults |-> 0, reopens |-> 0]

-----------------------------------------------------------------------------
(* WriteThread.  The compare-and-swap loop of LinkOne, and the load and the *)
(* compare-and-swap of ExitAsBatchGroupLeader, take effect at one instant.  *)
(* A writer without a batch is never taken into a group, and Pegasus writes *)
(* from one thread, so a leader leaves alone.                               *)

LinkOne(t) == writers' = Append(writers, t)

Leads(t) == writers # <<>> /\ Head(writers) = t

ExitAsBatchGroupLeader == writers' = Tail(writers)

-----------------------------------------------------------------------------
(* Scheduling, and the super version.  In both, l is the list of immutable  *)
(* memtables and pcs the place of each thread at the end of the action.     *)

MaybeScheduleFlushOrCompaction(unscheduled, pcs) ==
    LET free == {f \in Flushers : pcs[f] = "idle"}
        n == IF shutting_down THEN 0 ELSE Min({unscheduled, Cardinality(free)})
    IN \E fs \in kSubset(n, free) :
           /\ pc' = [t \in Threads |->
                        IF t \in fs THEN "scheduled" ELSE pcs[t]]
           /\ unscheduled_flushes' = unscheduled - n

SchedulePendingFlush(l, pcs) ==
    IF ~pending_flush /\ IsFlushPending(l)
    THEN /\ pending_flush' = TRUE
         /\ MaybeScheduleFlushOrCompaction(unscheduled_flushes + 1, pcs)
    ELSE /\ UNCHANGED pending_flush
         /\ MaybeScheduleFlushOrCompaction(unscheduled_flushes, pcs)

InstallSuperVersion(l, v) ==
    super_version' =
        [imm |-> Contents(Members(l)), data |-> v.data,
         stopped |-> Len(l.memlist) >= MaxWriteBufferNumber]

InstallSuperVersionAndScheduleWork(l, v, pcs) ==
    InstallSuperVersion(l, v) /\ SchedulePendingFlush(l, pcs)

\* SwitchMemtable if it left the super version to the next flush.
SwitchMemtable_unseen(pcs) ==
    LET name == Max(Ids(Members(imm)) \cup {0}) + 1
        l == Add(imm, [mem EXCEPT !.id = name])
    IN /\ imm' = l
       /\ mem' = NewMemTable(0)
       /\ SchedulePendingFlush(l, pcs)
       /\ UNCHANGED super_version

\* An immutable memtable is named when it enters the list.
SwitchMemtable(pcs) ==
    LET name == Max(Ids(Members(imm)) \cup {0}) + 1
        l == Add(imm, [mem EXCEPT !.id = name])
    IN /\ imm' = l
       /\ mem' = NewMemTable(0)
       /\ InstallSuperVersionAndScheduleWork(l, version, pcs)

-----------------------------------------------------------------------------
(* DBImpl::WriteImpl                                                        *)

write ==
    /\ pc[Applier] = "idle" /\ pc[Closer] = "idle"
    /\ last_sequence < MaxDecree
    /\ LinkOne(Applier)
    /\ pc' = [pc EXCEPT ![Applier] = "queued"]
    /\ UNCHANGED <<mem, imm, flush_scheduled, last_sequence, super_version,
                   version_vars, sched_vars, flush_of, call_of, used>>

\* The leader's first critical section: a background error ends the write, a
\* full memtable is switched, too many memtables make the write wait.
write_leads ==
    /\ pc[Applier] = "queued" /\ Leads(Applier)
    /\ pc' = [pc EXCEPT ![Applier] =
                 CASE bg_error -> "leave"
                   [] ~bg_error /\ flush_scheduled -> "switch"
                   [] ~bg_error /\ ~flush_scheduled /\ super_version.stopped -> "delay"
                   [] OTHER -> "insert"]
    /\ flush_scheduled' = (flush_scheduled /\ bg_error)
    /\ UNCHANGED <<writers, mem, imm, last_sequence, super_version,
                   version_vars, sched_vars, flush_of, call_of, used>>

write_switches ==
    /\ pc[Applier] = "switch"
    /\ SwitchMemtable([pc EXCEPT ![Applier] =
           IF Len(imm.memlist) + 1 < MaxWriteBufferNumber THEN "insert"
           ELSE IF bg_error THEN "leave" ELSE "delay"])
    /\ UNCHANGED <<writers, flush_scheduled, last_sequence, version_vars,
                   bg_error, shutting_down, flush_of, call_of, used>>

\* DelayWrite if it did not look at the background error.
DelayWrite_deaf ==
    /\ pc[Applier] = "delay"
    /\ ~super_version.stopped
    /\ pc' = [pc EXCEPT ![Applier] = "insert"]
    /\ UNCHANGED <<mem_vars, version_vars, sched_vars, flush_of, call_of, used>>

DelayWrite ==
    /\ pc[Applier] = "delay"
    /\ bg_error \/ ~super_version.stopped
    /\ pc' = [pc EXCEPT ![Applier] = IF bg_error THEN "leave" ELSE "insert"]
    /\ UNCHANGED <<mem_vars, version_vars, sched_vars, flush_of, call_of, used>>

\* WriteBatchInternal::InsertInto, without the mutex; CheckMemtableFull.
InsertInto ==
    /\ pc[Applier] = "insert"
    /\ mem' = [mem EXCEPT !.content = @ \cup {last_sequence + 1}]
    /\ flush_scheduled' \in {flush_scheduled, TRUE}
    /\ pc' = [pc EXCEPT ![Applier] = "finish"]
    /\ UNCHANGED <<writers, imm, last_sequence, super_version, version_vars,
                   sched_vars, flush_of, call_of, used>>

write_finishes ==
    /\ pc[Applier] = "finish"
    /\ last_sequence' = last_sequence + 1
    /\ pc' = [pc EXCEPT ![Applier] = "leave"]
    /\ UNCHANGED <<writers, mem, imm, flush_scheduled, super_version,
                   version_vars, sched_vars, flush_of, call_of, used>>

write_leaves ==
    /\ pc[Applier] = "leave"
    /\ ExitAsBatchGroupLeader
    /\ pc' = [pc EXCEPT ![Applier] = "idle"]
    /\ UNCHANGED <<mem, imm, flush_scheduled, last_sequence, super_version,
                   version_vars, sched_vars, flush_of, call_of, used>>

-----------------------------------------------------------------------------
(* DBImpl::FlushMemTable, and ~DBImpl, which calls it                       *)

\* With nothing to flush the answer is NoNeedOperate and nothing changes.
FlushMemTable(c, wait) ==
    /\ pc[c] = "idle"
    /\ mem.content # {} \/ imm.memlist # <<>>
    /\ call_of' = [call_of EXCEPT ![c] =
                      IF wait THEN [wait |-> TRUE, asked |-> last_sequence]
                      ELSE NoCall]
    /\ \/ /\ mem.content # {}
          /\ LinkOne(c)
          /\ pc' = [pc EXCEPT ![c] = "queued"]
          /\ UNCHANGED <<pending_flush, unscheduled_flushes>>
       \/ /\ mem.content = {}
          /\ SchedulePendingFlush(imm, [pc EXCEPT ![c] =
                 IF wait THEN "wait" ELSE "idle"])
          /\ UNCHANGED writers
    /\ UNCHANGED <<mem, imm, flush_scheduled, last_sequence, super_version,
                   version_vars, bg_error, shutting_down, flush_of>>

Flush(c) ==
    /\ pc[Closer] = "idle"
    /\ Use("flushes", MaxFlushes)
    /\ \E wait \in BOOLEAN : FlushMemTable(c, wait)

\* FlushMemTable if it relied on the mutex and not on the write queue.
flush_switches_unqueued(c) ==
    /\ pc[c] = "queued"
    /\ SwitchMemtable([pc EXCEPT ![c] =
           IF call_of[c].wait THEN "wait" ELSE "idle"])
    /\ writers' = SelectSeq(writers, LAMBDA t : t # c)
    /\ UNCHANGED <<flush_scheduled, last_sequence, version_vars, bg_error,
                   shutting_down, flush_of, call_of, used>>

\* mem may have been switched by a writer ahead of c, and be empty again.
flush_switches(c) ==
    /\ pc[c] = "queued" /\ Leads(c)
    /\ SwitchMemtable([pc EXCEPT ![c] =
           IF call_of[c].wait THEN "wait" ELSE "idle"])
    /\ ExitAsBatchGroupLeader
    /\ UNCHANGED <<flush_scheduled, last_sequence, version_vars, bg_error,
                   shutting_down, flush_of, call_of, used>>

\* WaitForFlushMemTable if it waited for the flushes to start only.
WaitForFlushMemTable_started(c) ==
    /\ pc[c] = "wait"
    /\ imm.num_flush_not_started = 0 \/ bg_error
    /\ pc' = [pc EXCEPT ![c] = IF c = Closer THEN "shutdown" ELSE "idle"]
    /\ call_of' = [call_of EXCEPT ![c] = NoCall]
    /\ UNCHANGED <<mem_vars, version_vars, sched_vars, flush_of, used>>

WaitForFlushMemTable(c) ==
    /\ pc[c] = "wait"
    /\ imm.memlist = <<>> \/ bg_error
    /\ pc' = [pc EXCEPT ![c] = IF c = Closer THEN "shutdown" ELSE "idle"]
    /\ call_of' = [call_of EXCEPT ![c] = NoCall]
    /\ UNCHANGED <<mem_vars, version_vars, sched_vars, flush_of, used>>

\* ~DBImpl: the memtable is flushed if it is not empty.
close ==
    /\ \A t \in {Applier} \cup FlushCallers : pc[t] = "idle"
    /\ Use("reopens", MaxReopens)
    /\ IF mem.content # {}
       THEN FlushMemTable(Closer, TRUE)
       ELSE /\ pc' = [pc EXCEPT ![Closer] = "shutdown"]
            /\ UNCHANGED <<mem_vars, version_vars, sched_vars, flush_of, call_of>>

CancelAllBackgroundWork ==
    /\ pc[Closer] = "shutdown"
    /\ shutting_down' = TRUE
    /\ pc' = [t \in Threads |->
                 CASE t = Closer -> "join"
                   [] pc[t] = "scheduled" -> "idle"
                   [] OTHER -> pc[t]]
    /\ UNCHANGED <<mem_vars, version_vars, pending_flush, unscheduled_flushes,
                   bg_error, flush_of, call_of, used>>

\* VersionSet::Recover: without a write-ahead log the sequence restarts at
\* the last flushed one.
Recover ==
    /\ UNCHANGED manifest
    /\ writers' = <<>>
    /\ mem' = NewMemTable(0)
    /\ imm' = EmptyList
    /\ flush_scheduled' = FALSE
    /\ last_sequence' = manifest.flush
    /\ super_version' = [imm |-> {}, data |-> manifest.data, stopped |-> FALSE]
    /\ version' = manifest
    /\ manifest_writers' = <<>>
    /\ batch' = <<>>
    /\ pending_flush' = FALSE
    /\ unscheduled_flushes' = 0
    /\ bg_error' = FALSE
    /\ shutting_down' = FALSE
    /\ pc' = [t \in Threads |-> "idle"]
    /\ flush_of' = [f \in Flushers |-> NoFlush]
    /\ call_of' = [c \in FlushCallers |-> NoCall]

closed ==
    /\ pc[Closer] = "join"
    /\ \A t \in Flushers \cup {Compactor} : pc[t] = "idle"
    /\ Recover
    /\ UNCHANGED used

crash ==
    /\ Use("reopens", MaxReopens)
    /\ Recover

-----------------------------------------------------------------------------
(* VersionSet::LogAndApply                                                  *)

\* LogAndApplyHelper: an edit carries at least the current flush decree, so
\* that a new manifest, which WriteSnapshot starts without it, has it too.
LogAndApplyHelper(e, v) == [e EXCEPT !.flush = Max({@, v.flush})]

Applied(v, es) ==
    [data |-> v.data \cup UNION {es[i].data : i \in 1 .. Len(es)},
     flush |-> Max({v.flush} \cup {es[i].flush : i \in 1 .. Len(es)})]

\* Thread t joins the queue q of manifest writers; v is the current version.
Enqueue(t, e, q, v, pcs) ==
    /\ manifest_writers' = Append(q, [thread |-> t, edit |-> e])
    /\ IF q = <<>>
       THEN /\ batch' = <<LogAndApplyHelper(e, v)>>
            /\ pc' = [pcs EXCEPT ![t] = "manifest"]
       ELSE /\ batch' = IF q = manifest_writers THEN batch ELSE <<>>
            /\ pc' = [pcs EXCEPT ![t] = "log"]

\* The front of the queue commits the edits of everyone in it.
lead(t) ==
    /\ pc[t] = "log"
    /\ Head(manifest_writers).thread = t
    /\ batch' = [i \in 1 .. Len(manifest_writers) |->
                    LogAndApplyHelper(manifest_writers[i].edit, version)]
    /\ pc' = [pc EXCEPT ![t] = "manifest"]
    /\ UNCHANGED <<mem_vars, version, manifest, manifest_writers, sched_vars,
                   flush_of, call_of, used>>

\* WriteSnapshot: the files of the current version, without the decree.
WriteSnapshot == [data |-> version.data, flush |-> 0]

\* The records are appended to the manifest, or to a new one that replaces
\* it.  When that fails a new manifest is deleted, and an old one may have
\* some of the records, but not all.
write_manifest(t) ==
    /\ pc[t] = "manifest"
    /\ \/ /\ manifest' \in {Applied(manifest, batch), Applied(WriteSnapshot, batch)}
          /\ pc' = [pc EXCEPT ![t] = "install"]
          /\ UNCHANGED used
       \/ /\ Use("faults", MaxFaults)
          /\ \E n \in 0 .. Len(batch) - 1 :
                 manifest' = Applied(manifest, SubSeq(batch, 1, n))
          /\ pc' = [pc EXCEPT ![t] = "drop"]
    /\ UNCHANGED <<mem_vars, version, manifest_writers, batch, sched_vars,
                   flush_of, call_of>>

\* InstallMemtableFlushResults goes round: l is the list so far, q the queue
\* of manifest writers and v the current version.
commit_loop(f, l, q, v, pcs) ==
    IF Committable(l)
    THEN /\ imm' = l
         /\ Enqueue(f, Head(l.memlist).edit, q, v, pcs)
         /\ UNCHANGED <<super_version, pending_flush, unscheduled_flushes>>
    ELSE LET done == [l EXCEPT !.commit_in_progress = FALSE] IN
         /\ imm' = done
         /\ manifest_writers' = q
         /\ batch' = IF q = manifest_writers THEN batch ELSE <<>>
         /\ InstallSuperVersionAndScheduleWork(done, v, [pcs EXCEPT ![f] = "end"])

\* What the caller of LogAndApply does when it returns, still holding the
\* mutex: InstallMemtableFlushResults, or the end of the compaction.
flush_logged(f, ok, q, v, pcs) ==
    IF ok
    THEN /\ commit_loop(f, Committed(imm, flush_of[f].file), q, v, pcs)
         /\ UNCHANGED bg_error
    ELSE /\ imm' = [CommitFailed(imm) EXCEPT !.commit_in_progress = FALSE]
         /\ manifest_writers' = q
         /\ batch' = IF q = manifest_writers THEN batch ELSE <<>>
         /\ bg_error' = (bg_error \/ Paranoid)
         /\ pc' = [pcs EXCEPT ![f] = "end"]
         /\ UNCHANGED <<super_version, pending_flush, unscheduled_flushes>>

compaction_logged(ok, q, v, pcs) ==
    /\ manifest_writers' = q
    /\ batch' = IF q = manifest_writers THEN batch ELSE <<>>
    /\ UNCHANGED imm
    /\ IF ok
       THEN /\ InstallSuperVersionAndScheduleWork(imm, v,
                   [pcs EXCEPT ![Compactor] = "end"])
            /\ UNCHANGED bg_error
       ELSE /\ bg_error' = (bg_error \/ Paranoid)
            /\ pc' = [pcs EXCEPT ![Compactor] = "end"]
            /\ UNCHANGED <<super_version, pending_flush, unscheduled_flushes>>

logged(t, ok, q, v, pcs) ==
    IF t = Compactor THEN compaction_logged(ok, q, v, pcs)
    ELSE flush_logged(t, ok, q, v, pcs)

\* The leader installs the version, or drops it, and wakes its followers.
install(t) ==
    /\ pc[t] \in {"install", "drop"}
    /\ LET ok == pc[t] = "install"
           v == IF ok THEN Applied(version, batch) ELSE version
           q == SubSeq(manifest_writers, Len(batch) + 1, Len(manifest_writers))
           followers == {manifest_writers[i].thread : i \in 2 .. Len(batch)}
           pcs == [x \in Threads |->
                      IF x \in followers THEN (IF ok THEN "logged" ELSE "failed")
                      ELSE pc[x]]
       IN version' = v /\ logged(t, ok, q, v, pcs)
    /\ UNCHANGED <<writers, mem, flush_scheduled, last_sequence, manifest,
                   shutting_down, flush_of, call_of, used>>

woken(t) ==
    /\ pc[t] \in {"logged", "failed"}
    /\ logged(t, pc[t] = "logged", manifest_writers, version, pc)
    /\ UNCHANGED <<writers, mem, flush_scheduled, last_sequence, version,
                   manifest, shutting_down, flush_of, call_of, used>>

-----------------------------------------------------------------------------
(* DBImpl::BackgroundCallFlush and FlushJob::Run                            *)

\* BackgroundFlush up to the unlock in WriteLevel0Table.  File numbers are
\* compared with each other only.
BackgroundFlush(f) ==
    /\ pc[f] = "scheduled"
    /\ IF bg_error
       THEN /\ pc' = [pc EXCEPT ![f] = "end"]
            /\ UNCHANGED <<imm, pending_flush, flush_of>>
       ELSE /\ pending_flush' = FALSE
            /\ IF pending_flush /\ IsFlushPending(imm)
               THEN LET taken == {m.file_number : m \in Members(imm)} \cup
                                 {flush_of[g].file : g \in Flushers}
                    IN /\ imm' = PickMemtablesToFlush(imm)
                       /\ flush_of' = [flush_of EXCEPT ![f] =
                              [ids |-> Ids(Picked(imm)), file |-> Max(taken) + 1]]
                       /\ pc' = [pc EXCEPT ![f] = "build"]
               ELSE /\ pc' = [pc EXCEPT ![f] = "end"]
                    /\ UNCHANGED <<imm, flush_of>>
    /\ UNCHANGED <<writers, mem, flush_scheduled, last_sequence, super_version,
                   version_vars, unscheduled_flushes, bg_error, shutting_down,
                   call_of, used>>

\* The table is built; if another thread is committing it commits this flush.
flush_built(f) ==
    /\ pc[f] = "build" /\ ~shutting_down
    /\ LET l == Completed(imm, flush_of[f].ids, flush_of[f].file) IN
       IF imm.commit_in_progress
       THEN /\ imm' = l
            /\ InstallSuperVersionAndScheduleWork(l, version,
                   [pc EXCEPT ![f] = "end"])
            /\ UNCHANGED <<manifest_writers, batch>>
       ELSE commit_loop(f, [l EXCEPT !.commit_in_progress = TRUE],
                        manifest_writers, version, pc)
    /\ UNCHANGED <<writers, mem, flush_scheduled, last_sequence, version,
                   manifest, bg_error, shutting_down, flush_of, call_of, used>>

flush_not_built(f) ==
    /\ pc[f] = "build"
    /\ \/ shutting_down /\ UNCHANGED <<bg_error, used>>
       \/ /\ Use("faults", MaxFaults)
          /\ bg_error' = (bg_error \/ Paranoid)
    /\ imm' = RollbackMemtableFlush(imm, flush_of[f].ids)
    /\ pc' = [pc EXCEPT ![f] = "end"]
    /\ UNCHANGED <<writers, mem, flush_scheduled, last_sequence, super_version,
                   version_vars, pending_flush, unscheduled_flushes,
                   shutting_down, flush_of, call_of>>

\* The end of BackgroundCallFlush.
flush_ends(f) ==
    /\ pc[f] = "end"
    /\ flush_of' = [flush_of EXCEPT ![f] = NoFlush]
    /\ MaybeScheduleFlushOrCompaction(unscheduled_flushes,
                                      [pc EXCEPT ![f] = "idle"])
    /\ UNCHANGED <<mem_vars, version_vars, pending_flush, bg_error,
                   shutting_down, call_of, used>>

\* A compaction: it rewrites files and leaves their decrees as they are.
BackgroundCompaction ==
    /\ pc[Compactor] = "idle"
    /\ ~bg_error /\ ~shutting_down
    /\ version.data # {}
    /\ Use("compactions", MaxCompactions)
    /\ pc' = [pc EXCEPT ![Compactor] = "compact"]
    /\ UNCHANGED <<mem_vars, version_vars, sched_vars, flush_of, call_of>>

compaction_done ==
    /\ pc[Compactor] = "compact"
    /\ IF shutting_down
       THEN /\ pc' = [pc EXCEPT ![Compactor] = "end"]
            /\ UNCHANGED <<manifest_writers, batch>>
       ELSE Enqueue(Compactor, NoEdit, manifest_writers, version, pc)
    /\ UNCHANGED <<mem_vars, version, manifest, sched_vars, flush_of, call_of, used>>

compaction_ends ==
    /\ pc[Compactor] = "end"
    /\ MaybeScheduleFlushOrCompaction(unscheduled_flushes,
                                      [pc EXCEPT ![Compactor] = "idle"])
    /\ UNCHANGED <<mem_vars, version_vars, pending_flush, bg_error,
                   shutting_down, flush_of, call_of, used>>

-----------------------------------------------------------------------------

WriteImpl ==
    \/ write_leads \/ write_switches \/ DelayWrite
    \/ InsertInto \/ write_finishes \/ write_leaves

flush_call(c) == flush_switches(c) \/ WaitForFlushMemTable(c)

LogAndApply(t) == lead(t) \/ write_manifest(t) \/ install(t) \/ woken(t)

BackgroundCallFlush(f) ==
    \/ BackgroundFlush(f) \/ flush_built(f) \/ flush_not_built(f)
    \/ flush_ends(f) \/ LogAndApply(f)

BackgroundCallCompaction ==
    compaction_done \/ compaction_ends \/ LogAndApply(Compactor)

background ==
    (\E f \in Flushers : BackgroundCallFlush(f)) \/ BackgroundCallCompaction

closing == flush_call(Closer) \/ CancelAllBackgroundWork \/ closed

Next ==
    \/ write \/ WriteImpl
    \/ \E c \in Callers : Flush(c)
    \/ \E c \in Callers : flush_call(c)
    \/ close \/ closing \/ crash
    \/ BackgroundCompaction \/ background

Spec == Init /\ [][Next]_vars

\* A thread inside rocksdb goes on, and so does some thread of the background
\* pools: the system runs them, and the condition variable one waits on is
\* signalled after every change of what it waits for.
Fairness ==
    /\ WF_vars(WriteImpl)
    /\ \A c \in Callers : WF_vars(flush_call(c))
    /\ WF_vars(closing)
    /\ WF_vars(background)

FairSpec == Spec /\ Fairness

-----------------------------------------------------------------------------
(* Properties *)

Decrees == 1 .. MaxDecree
EditType == [data : SUBSET Decrees, flush : 0 .. MaxDecree]
MemTableType ==
    [id : Nat, content : SUBSET Decrees, in_progress : BOOLEAN,
     completed : BOOLEAN, file_number : Nat, edit : EditType]

\* Every variable has its type, num_flush_not_started_ counts the memtables no
\* flush has picked (MemTableList::NumNotFlushed asserts a bound of it).
TypeOK ==
    /\ \A i \in 1 .. Len(writers) : writers[i] \in {Applier} \cup FlushCallers
    /\ mem \in MemTableType
    /\ Members(imm) \subseteq MemTableType
    /\ imm.num_flush_not_started = Cardinality(Picked(imm))
    /\ imm.commit_in_progress \in BOOLEAN
    /\ last_sequence \in 0 .. MaxDecree
    /\ version \in EditType /\ manifest \in EditType
    /\ unscheduled_flushes \in 0 .. 1
    /\ {flush_scheduled, pending_flush, bg_error, shutting_down} \subseteq BOOLEAN
    /\ \A i \in 1 .. Len(batch) : batch[i] \in EditType

\* The decree of a version and of the manifest tells exactly what their files
\* hold: every decree up to it and none above.  Flushes that finish out of
\* order, group commits with a compaction, a new manifest, failed commits and
\* crashes leave no gap (InstallMemtableFlushResults, LogAndApply, Recover).
FlushedIsPrefix ==
    /\ version.data = 1 .. version.flush
    /\ manifest.data = 1 .. manifest.flush

\* What a reader can see is never more durable in memory than on disk: the
\* manifest always has the files and the decree of the current version
\* (VersionSet::LogAndApply installs a version after it is logged).
ManifestFirst ==
    /\ version.data \subseteq manifest.data
    /\ version.flush <= manifest.flush

\* The super version and the active memtable together hold every visible
\* decree, whichever memtables are being switched, flushed, committed or
\* rolled back, and so do the lists a new super version would be made from.
ReadsSeeAll ==
    /\ 1 .. last_sequence \subseteq
           mem.content \cup super_version.imm \cup super_version.data
    /\ 1 .. last_sequence \subseteq
           mem.content \cup Contents(Members(imm)) \cup version.data

\* When a Flush that waits returns without an error, what was visible when it
\* was called is in the manifest.  CheckpointStore's checkpoints rest on it.
FlushIsDurable ==
    [][\A c \in Callers :
          WaitForFlushMemTable(c) /\ ~bg_error
              => call_of[c].asked <= manifest.flush]_vars

\* rocksdb keeps the promise of DurablePrefix.
Prefix == INSTANCE DurablePrefix WITH written <- last_sequence,
                                      flushed <- manifest.flush
ImplementsPrefix == Prefix!Spec

\* A write, a Flush and the destructor come to an end: a stalled write is
\* released by a flush or by a background error, a Flush that waits too.
CallsReturn ==
    \A t \in {Applier} \cup FlushCallers : pc[t] # "idle" ~> pc[t] = "idle"

=============================================================================
