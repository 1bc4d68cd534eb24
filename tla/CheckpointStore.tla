-------------------------- MODULE CheckpointStore --------------------------
(***************************************************************************)
(* The storage of one Pegasus replica: pegasus_server_impl's life cycle    *)
(* (start, stop, crash), the writes it gives to rocksdb, and everything    *)
(* that creates, installs, collects, serves or applies a checkpoint.       *)
(*                                                                         *)
(* Data are abstracted to decrees.  rocksdb receives the mutations of the  *)
(* replica in decree order, so its contents are given by the last decree   *)
(* written to it; the same holds of a checkpoint directory.  A decree is a *)
(* "write", or a "noop": a multi_put without values or a multi_remove      *)
(* without keys, which on_batched_write_requests answers with              *)
(* kInvalidArgument and never gives to rocksdb.                            *)
(*                                                                         *)
(* Three threads act: the replica's own thread (writes, sync_checkpoint,   *)
(* start, stop, apply_checkpoint), a long-running thread (async_checkpoint *)
(* and the gc_checkpoints at its end) and rocksdb's flush thread.  The     *)
(* process may crash between any two steps.                                *)
(***************************************************************************)
EXTENDS Integers, Sequences

CONSTANTS
    MaxDecree,    \* bound on the number of mutations of the log
    ReserveMin,   \* _checkpoint_reserve_min_count
    Requests,     \* the kinds of mutations clients send
    Calls,        \* the optional calls the replication framework makes
    Faults        \* the operations that may fail

ASSUME ConstantsAssumption ==
    /\ MaxDecree \in Nat
    /\ ReserveMin \in Nat \ {0}
    /\ Requests \subseteq {"write", "noop"}
    /\ Calls \subseteq {"sync", "async", "stop", "learn", "copy"}
    /\ Faults \subseteq {"write", "create", "fsync", "remove", "rename", "clear"}

VARIABLES
    log,                 \* the replica's mutation log, by decree (external)
    phase,               \* _is_open / _db, and where start or apply are
    applied,             \* the decree the framework has applied last
    written,             \* the last decree given to rocksdb
    imm,                 \* the last decree of a sealed memtable
    flushed,             \* rocksdb's GetLastFlushedDecree, on disk
    physical_error,      \* _physical_error: 0, or 1 for any error code
    dirs,                \* state of directory checkpoint.d, on disk
    content,             \* the last decree inside checkpoint.d
    checkpoints,         \* _checkpoints
    last_durable_decree, \* _last_durable_decree
    pc,                  \* where the holder of _is_checkpointing is
    caller,              \* which call holds it
    ci,                  \* the decree its directory is named after
    max_del_d,           \* gc_checkpoints: max_del_d
    to_delete_list,      \* gc_checkpoints: to_delete_list, not yet visited
    put_back_list,       \* gc_checkpoints: put_back_list
    learn_state,         \* apply_checkpoint: <<to_decree_included, content>>
    start_ret,           \* what start() returned last
    sync_ret,            \* what sync_checkpoint() returned last
    failed_assert        \* the dassert that aborted the process, if any

disk_vars == <<flushed, dirs, content>>
list_vars == <<checkpoints, last_durable_decree>>
token_vars == <<pc, caller, ci, max_del_d, to_delete_list, put_back_list>>
db_vars == <<applied, written, imm, physical_error>>
ret_vars == <<start_ret, sync_ret, failed_assert>>
vars == <<log, phase, learn_state, disk_vars, list_vars, token_vars, db_vars,
          ret_vars>>

Decree == 1 .. MaxDecree
DecreeOrZero == 0 .. MaxDecree
Phases == {"closed", "starting", "open", "clearing"}
Callers == {"none", "sync", "async", "start", "learn"}
Pcs == {"idle", "create", "install", "gc_scan", "gc_erase", "gc_remove",
        "return"}
Asserts == {"none", "sync_order", "async_order", "copy_order",
            "start_durable", "learn_durable"}
Codes == {"none", "ERR_OK", "ERR_NO_NEED_OPERATE", "ERR_LOCAL_APP_FAILURE",
          "ERR_FILE_OPERATION_FAILED"}

\* The decrees of the log up to n that are not in a database holding up to c
\* are all no-ops: the database has the effect of exactly the decrees <= n.
Covers(c, n) ==
    /\ c <= n
    /\ n <= Len(log)
    /\ \A d \in (c + 1) .. n : log[d] = "noop"

back == checkpoints[Len(checkpoints)]

----------------------------------------------------------------------------
Init ==
    /\ log = <<>>
    /\ phase = "closed"
    /\ applied = 0 /\ written = 0 /\ imm = 0 /\ physical_error = 0
    /\ flushed = 0
    /\ dirs = [d \in Decree |-> "absent"]
    /\ content = [d \in Decree |-> 0]
    /\ checkpoints = <<>> /\ last_durable_decree = 0
    /\ pc = "idle" /\ caller = "none" /\ ci = 0 /\ max_del_d = 0
    /\ to_delete_list = <<>> /\ put_back_list = <<>>
    /\ learn_state = <<0, 0>>
    /\ start_ret = "none" /\ sync_ret = "none" /\ failed_assert = "none"

----------------------------------------------------------------------------
(* Writes and rocksdb's memtables.                                         *)

\* The framework commits one more mutation to the log.
commit(r) ==
    /\ Len(log) < MaxDecree
    /\ log' = Append(log, r)
    /\ UNCHANGED <<phase, learn_state, disk_vars, list_vars, token_vars,
                   db_vars, ret_vars>>

\* The framework applies mutations on the replica's own thread, which
\* sync_checkpoint occupies while it runs, and not after a physical error.
replica_thread_free ==
    /\ phase = "open"
    /\ caller # "sync"

\* on_batched_write_requests(decree): an empty multi_put or multi_remove
\* returns before rocksdb sees its decree.
on_batched_write_requests ==
    /\ replica_thread_free
    /\ physical_error = 0
    /\ applied < Len(log)
    /\ \/ /\ applied' = applied + 1
          /\ written' = IF log[applied + 1] = "write" THEN applied + 1
                                                      ELSE written
          /\ UNCHANGED physical_error
       \/ /\ "write" \in Faults
          /\ log[applied + 1] = "write"
          /\ physical_error' = 1
          /\ UNCHANGED <<applied, written>>
    /\ UNCHANGED <<log, phase, learn_state, disk_vars, list_vars, token_vars,
                   imm, ret_vars>>

\* rocksdb seals the active memtable, because it is full or because an
\* emergency async_checkpoint asks for a flush.
switch_memtable ==
    /\ phase = "open"
    /\ imm < written
    /\ imm' = written
    /\ UNCHANGED <<log, phase, learn_state, disk_vars, list_vars, token_vars,
                   applied, written, physical_error, ret_vars>>

\* FlushJob: the sealed memtables reach the disk with their last decree.
flush_job ==
    /\ phase = "open"
    /\ flushed < imm
    /\ flushed' = imm
    /\ UNCHANGED <<log, phase, learn_state, dirs, content, list_vars,
                   token_vars, db_vars, ret_vars>>

----------------------------------------------------------------------------
(* The directories checkpoint.d.                                           *)

Existing == {d \in Decree : dirs[d] # "absent"}

\* What remove_path may leave of directory d when it fails.
Leftover(d) == {dirs[d], "partial"}

NoToken ==
    /\ pc' = "idle" /\ caller' = "none" /\ ci' = 0 /\ max_del_d' = 0
    /\ to_delete_list' = <<>> /\ put_back_list' = <<>>

\* The process is gone: what is not on disk is lost.
process_gone ==
    /\ phase' = "closed"
    /\ applied' = 0 /\ physical_error' = 0
    /\ checkpoints' = <<>> /\ last_durable_decree' = 0
    /\ learn_state' = <<0, 0>>
    /\ start_ret' = "none" /\ sync_ret' = "none"
    /\ NoToken

\* A dassert fails and aborts the process.
dassert_fails(a) ==
    /\ failed_assert' = a
    /\ written' = flushed /\ imm' = flushed
    /\ process_gone

----------------------------------------------------------------------------
(* sync_checkpoint, on the replica's thread.                               *)

\* Checkpoint::CreateCheckpoint flushes the memtables, links the files into
\* a private directory and renames it.  FlushMemTable fails with
\* NoNeedOperate when there is nothing to flush, and so does the checkpoint.
\* When only the last fsync fails the directory is there, the second try
\* fails because it exists, and it is removed again.
sync_checkpoint ==
    /\ "sync" \in Calls
    /\ replica_thread_free
    /\ pc = "idle"
    /\ last_durable_decree # applied
    /\ \/ \* the old directory cannot be removed
          /\ "remove" \in Faults
          /\ dirs[applied] # "absent"
          /\ \E left \in Leftover(applied) :
                 dirs' = [dirs EXCEPT ![applied] = left]
          /\ sync_ret' = "ERR_FILE_OPERATION_FAILED"
          /\ UNCHANGED <<flushed, content, imm, token_vars>>
       \/ \* both tries fail before the directory has its name
          /\ written = flushed \/ "create" \in Faults
          /\ dirs' = [dirs EXCEPT ![applied] = "absent"]
          /\ content' = [content EXCEPT ![applied] = 0]
          /\ sync_ret' = "ERR_LOCAL_APP_FAILURE"
          /\ \/ UNCHANGED <<flushed, imm>>
             \/ flushed' = written /\ imm' = written
          /\ UNCHANGED token_vars
       \/ \* the last fsync fails
          /\ "fsync" \in Faults
          /\ flushed < written
          /\ flushed' = written /\ imm' = written
          /\ sync_ret' = "ERR_LOCAL_APP_FAILURE"
          /\ \/ /\ dirs' = [dirs EXCEPT ![applied] = "absent"]
                /\ content' = [content EXCEPT ![applied] = 0]
             \/ /\ "remove" \in Faults
                /\ \E left \in {"whole", "partial"} :
                       dirs' = [dirs EXCEPT ![applied] = left]
                /\ content' = [content EXCEPT ![applied] = written]
          /\ UNCHANGED token_vars
       \/ \* the directory is created
          /\ flushed < written
          /\ flushed' = written /\ imm' = written
          /\ dirs' = [dirs EXCEPT ![applied] = "whole"]
          /\ content' = [content EXCEPT ![applied] = written]
          /\ pc' = "install" /\ caller' = "sync" /\ ci' = applied
          /\ UNCHANGED <<sync_ret, max_del_d, to_delete_list, put_back_list>>
    /\ UNCHANGED <<log, phase, learn_state, list_vars, applied, written,
                   physical_error, start_ret, failed_assert>>

----------------------------------------------------------------------------
(* async_checkpoint, on a long-running thread or inside start().           *)

\* The token is taken and rocksdb has flushed past the last checkpoint.
async_checkpoint ==
    /\ "async" \in Calls
    /\ phase = "open"
    /\ pc = "idle"
    /\ last_durable_decree # flushed
    /\ pc' = "create" /\ caller' = "async"
    /\ UNCHANGED <<log, phase, learn_state, disk_vars, list_vars, ci,
                   max_del_d, to_delete_list, put_back_list, db_vars,
                   ret_vars>>

\* An emergency that does not ask for a flush.
async_checkpoint_emergency_ignored == FALSE

\* async_checkpoint(is_emergency) with nothing newly flushed: the memtable
\* is sealed for a flush nobody waits for, and the caller must try again.
async_checkpoint_emergency ==
    /\ "async" \in Calls
    /\ pc = "idle"
    /\ last_durable_decree = flushed
    /\ switch_memtable

\* How async_checkpoint ends with an error; start() then closes the database.
async_checkpoint_fails(err) ==
    /\ NoToken
    /\ phase' = IF caller = "async" THEN phase ELSE "closed"
    /\ start_ret' = IF caller = "async" THEN start_ret ELSE err
    /\ learn_state' = <<0, 0>>
    /\ UNCHANGED <<log, flushed, list_vars, db_vars, sync_ret, failed_assert>>

\* The decree CreateCheckpointQuick returns: the last one in the files it
\* links, read together with their names under rocksdb's mutex.
quick_decree_of_memtable == written
quick_decree == flushed

\* CreateCheckpointQuick into a temporary directory, then the rename.
async_checkpoint_create ==
    /\ pc = "create"
    /\ \/ \* CreateCheckpointQuick: NoNeedOperate
          /\ quick_decree <= last_durable_decree
          /\ async_checkpoint_fails("ERR_NO_NEED_OPERATE")
          /\ UNCHANGED <<dirs, content>>
       \/ \* the temporary directory cannot be made
          /\ "create" \in Faults
          /\ last_durable_decree < quick_decree
          /\ async_checkpoint_fails("ERR_LOCAL_APP_FAILURE")
          /\ UNCHANGED <<dirs, content>>
       \/ \* an old directory of that name cannot be removed
          /\ "remove" \in Faults
          /\ last_durable_decree < quick_decree
          /\ dirs[quick_decree] # "absent"
          /\ \E left \in Leftover(quick_decree) :
                 dirs' = [dirs EXCEPT ![quick_decree] = left]
          /\ async_checkpoint_fails("ERR_FILE_OPERATION_FAILED")
          /\ UNCHANGED content
       \/ \* the temporary directory cannot be renamed
          /\ "rename" \in Faults
          /\ last_durable_decree < quick_decree
          /\ dirs' = [dirs EXCEPT ![quick_decree] = "absent"]
          /\ content' = [content EXCEPT ![quick_decree] = 0]
          /\ async_checkpoint_fails("ERR_FILE_OPERATION_FAILED")
       \/ \* checkpoint.<decree> is there
          /\ last_durable_decree < quick_decree
          /\ dirs' = [dirs EXCEPT ![quick_decree] = "whole"]
          /\ content' = [content EXCEPT ![quick_decree] = flushed]
          /\ pc' = "install" /\ ci' = quick_decree
          /\ UNCHANGED <<log, phase, learn_state, flushed, list_vars, caller,
                         max_del_d, to_delete_list, put_back_list, db_vars,
                         ret_vars>>

\* The last commit is recorded instead of the decree of the directory.
install_checkpoint_as_applied ==
    /\ pc = "install"
    /\ checkpoints' = Append(checkpoints, applied)
    /\ last_durable_decree' = applied
    /\ pc' = "gc_scan"
    /\ UNCHANGED <<phase, learn_state, db_vars, caller, ci, max_del_d,
                   to_delete_list, put_back_list, ret_vars, log, disk_vars>>

\* Under _checkpoints_lock: the asserts, push_back, set_last_durable_decree.
install_checkpoint ==
    /\ pc = "install"
    /\ \/ /\ ci > last_durable_decree
          /\ checkpoints # <<>> => ci > back
          /\ checkpoints' = Append(checkpoints, ci)
          /\ last_durable_decree' = ci
          /\ pc' = "gc_scan"
          /\ UNCHANGED <<phase, learn_state, db_vars, caller, ci, max_del_d,
                         to_delete_list, put_back_list, ret_vars>>
       \/ /\ ~(ci > last_durable_decree /\ (checkpoints # <<>> => ci > back))
          /\ dassert_fails(IF caller = "sync" THEN "sync_order"
                                              ELSE "async_order")
    /\ UNCHANGED <<log, disk_vars>>

----------------------------------------------------------------------------
(* gc_checkpoints, at the end of both.                                     *)

\* How many of the oldest entries of _checkpoints may be collected at all.
collectable_none_reserved == Len(checkpoints)
collectable_one_too_many == Len(checkpoints) - ReserveMin + 1
collectable == Len(checkpoints) - ReserveMin

\* The first pass: k is how many of the oldest checkpoints are expired or
\* have lost their CURRENT file; the pass stops at one that has neither.
gc_checkpoints_scan ==
    /\ pc = "gc_scan"
    /\ \/ /\ Len(checkpoints) <= ReserveMin
          /\ pc' = "return"
          /\ UNCHANGED max_del_d
       \/ /\ Len(checkpoints) > ReserveMin
          /\ \E k \in 0 .. collectable :
                /\ k < collectable => dirs[checkpoints[k + 1]] # "absent"
                /\ pc' = IF k = 0 THEN "return" ELSE "gc_erase"
                /\ max_del_d' = IF k = 0 THEN 0 ELSE checkpoints[k]
    /\ UNCHANGED <<log, phase, learn_state, disk_vars, list_vars, caller, ci,
                   to_delete_list, put_back_list, db_vars, ret_vars>>

\* The second pass takes the lock again.  The n oldest checkpoints are to be
\* deleted; they leave the list only if delete_max_index = n - 1 > 0.
gc_checkpoints_erase ==
    /\ pc = "gc_erase"
    /\ \E n \in 0 .. collectable :
          /\ \A i \in 1 .. n : checkpoints[i] <= max_del_d
          /\ n < collectable => checkpoints[n + 1] > max_del_d
          /\ to_delete_list' = SubSeq(checkpoints, 1, n)
          /\ checkpoints' = IF n - 1 > 0
                            THEN SubSeq(checkpoints, n + 1, Len(checkpoints))
                            ELSE checkpoints
    /\ pc' = "gc_remove"
    /\ UNCHANGED <<log, phase, learn_state, disk_vars, last_durable_decree,
                   caller, ci, max_del_d, put_back_list, db_vars, ret_vars>>

\* One directory of to_delete_list; a failed remove_path may be half done.
gc_checkpoints_remove ==
    /\ pc = "gc_remove"
    /\ to_delete_list # <<>>
    /\ LET del_d == Head(to_delete_list) IN
          \/ /\ dirs' = [dirs EXCEPT ![del_d] = "absent"]
             /\ content' = [content EXCEPT ![del_d] = 0]
             /\ UNCHANGED put_back_list
          \/ /\ "remove" \in Faults
             /\ dirs[del_d] # "absent"
             /\ \E left \in Leftover(del_d) :
                    dirs' = [dirs EXCEPT ![del_d] = left]
             /\ put_back_list' = Append(put_back_list, del_d)
             /\ UNCHANGED content
    /\ to_delete_list' = Tail(to_delete_list)
    /\ UNCHANGED <<log, phase, learn_state, flushed, list_vars, pc, caller,
                   ci, max_del_d, db_vars, ret_vars>>

\* The results of std::sort on s.
Sortings(s) ==
    LET n == Len(s)
        perms == {p \in [1 .. n -> 1 .. n] :
                     /\ \A i, j \in 1 .. n : p[i] = p[j] => i = j
                     /\ \A j \in 1 .. n : \E i \in 1 .. n : p[i] = j}
    IN  {t \in {[i \in 1 .. n |-> s[p[i]]] : p \in perms} :
            \A i, j \in 1 .. n : i < j => t[i] <= t[j]}

\* What could not be deleted goes back to the front of the list, which is
\* sorted again when that breaks the order.
gc_checkpoints_put_back ==
    /\ pc = "gc_remove"
    /\ to_delete_list = <<>>
    /\ LET inserted == put_back_list \o checkpoints
              ordered ==
                  put_back_list # <<>> /\ checkpoints # <<>> =>
                      put_back_list[Len(put_back_list)] < checkpoints[1] IN
          \/ ordered /\ checkpoints' = inserted
          \/ ~ordered /\ checkpoints' \in Sortings(inserted)
    /\ pc' = "return"
    /\ put_back_list' = <<>>
    /\ UNCHANGED <<log, phase, learn_state, disk_vars, last_durable_decree,
                   caller, ci, max_del_d, to_delete_list, db_vars, ret_vars>>

----------------------------------------------------------------------------
(* start, stop, crash.                                                     *)

\* The oldest directory is taken for the last durable one.
parse_checkpoints_front(on_disk) ==
    \E n \in DecreeOrZero : \E s \in [1 .. n -> on_disk] :
        /\ \A i, j \in 1 .. n : i < j => s[i] < s[j]
        /\ \A d \in on_disk : \E i \in 1 .. n : s[i] = d
        /\ checkpoints' = s
        /\ last_durable_decree' = IF on_disk = {} THEN 0 ELSE s[1]

\* parse_checkpoints: the directories with a valid name, in order.  Partly
\* removed ones count, temporary ones are removed.
parse_checkpoints(on_disk) ==
    \E n \in DecreeOrZero : \E s \in [1 .. n -> on_disk] :
        /\ \A i, j \in 1 .. n : i < j => s[i] < s[j]
        /\ \A d \in on_disk : \E i \in 1 .. n : s[i] = d
        /\ checkpoints' = s
        /\ last_durable_decree' = IF on_disk = {} THEN 0 ELSE s[n]

\* start(): open rocksdb, read the list of checkpoints, and unless the last
\* one is as new as the database make one (async_checkpoint).
start ==
    /\ phase = "closed"
    /\ phase' = "starting"
    /\ parse_checkpoints(Existing)
    /\ caller' = "start"
    /\ pc' = IF flushed = last_durable_decree' THEN "return" ELSE "create"
    /\ UNCHANGED <<log, learn_state, disk_vars, ci, max_del_d,
                   to_delete_list, put_back_list, db_vars, ret_vars>>

\* get_last_checkpoint_decree(), after which the framework resumes.
get_last_checkpoint_decree_off_by_one == last_durable_decree + 1
get_last_checkpoint_decree == last_durable_decree

\* sync_checkpoint and async_checkpoint return ERR_OK.  start() then checks
\* that the last checkpoint is the database's decree, apply_checkpoint that it
\* is the decree it was told; the framework goes on after that decree.
checkpoint_return ==
    /\ pc = "return"
    /\ \/ /\ caller \in {"sync", "async"}
          /\ NoToken
          /\ sync_ret' = IF caller = "sync" THEN "ERR_OK" ELSE sync_ret
          /\ UNCHANGED <<phase, learn_state, list_vars, db_vars, start_ret,
                         failed_assert>>
       \/ /\ caller \in {"start", "learn"}
          /\ flushed = last_durable_decree
          /\ caller = "learn" => learn_state[1] = last_durable_decree
          /\ NoToken
          /\ phase' = "open"
          /\ start_ret' = "ERR_OK"
          /\ applied' = get_last_checkpoint_decree
          /\ learn_state' = <<0, 0>>
          /\ UNCHANGED <<list_vars, written, imm, physical_error, sync_ret,
                         failed_assert>>
       \/ /\ caller \in {"start", "learn"}
          /\ flushed # last_durable_decree
          /\ dassert_fails("start_durable")
       \/ /\ caller = "learn"
          /\ flushed = last_durable_decree
          /\ learn_state[1] # last_durable_decree
          /\ dassert_fails("learn_durable")
    /\ UNCHANGED <<log, disk_vars>>

\* ~DBImpl flushes, and waits, if the active memtable is not empty; it does
\* not wait for sealed memtables alone.
close_rocksdb ==
    /\ flushed' = IF imm < written THEN written ELSE flushed
    /\ written' = flushed' /\ imm' = flushed'

\* stop(false), after which the framework destroys the app object.
stop ==
    /\ "stop" \in Calls
    /\ replica_thread_free
    /\ pc = "idle"
    /\ close_rocksdb
    /\ process_gone
    /\ UNCHANGED <<log, dirs, content, failed_assert>>

crash ==
    /\ phase \in {"starting", "open"}
    /\ written' = flushed /\ imm' = flushed
    /\ process_gone
    /\ UNCHANGED <<log, disk_vars, failed_assert>>

----------------------------------------------------------------------------
(* apply_checkpoint.                                                       *)

\* What get_checkpoint of another replica may hand out: decree n, with the
\* files of a database whose last decree is c.
Learnable(n, c) ==
    /\ Covers(c, n)
    /\ c > 0 => log[c] = "write"

\* DSN_CHKPT_LEARN closes the database and removes the data directory.
apply_checkpoint_learn ==
    /\ "learn" \in Calls
    /\ \/ replica_thread_free /\ physical_error = 0
       \/ phase = "closed"
    /\ pc = "idle"
    /\ \E n \in applied .. Len(log) : \E c \in 0 .. n :
          /\ Learnable(n, c)
          /\ learn_state' = <<n, c>>
    /\ phase' = "clearing"
    /\ applied' = 0
    /\ \/ phase = "closed" /\ UNCHANGED list_vars
       \/ phase = "open" /\ checkpoints' = <<>> /\ last_durable_decree' = 0
    /\ close_rocksdb
    /\ UNCHANGED <<log, dirs, content, token_vars, physical_error, ret_vars>>

NoDirs ==
    /\ dirs' = [d \in Decree |-> "absent"]
    /\ content' = [d \in Decree |-> 0]

\* The learned files become the database and start() opens it.
apply_checkpoint_reopen ==
    /\ phase = "clearing"
    /\ \/ \* the data directory cannot be removed
          /\ "remove" \in Faults
          /\ phase' = "closed"
          /\ learn_state' = <<0, 0>>
          /\ UNCHANGED <<disk_vars, list_vars, pc, caller, written, imm>>
       \/ \* the learned directory cannot be renamed
          /\ "rename" \in Faults
          /\ phase' = "closed"
          /\ learn_state' = <<0, 0>>
          /\ NoDirs
          /\ flushed' = 0 /\ written' = 0 /\ imm' = 0
          /\ UNCHANGED <<list_vars, pc, caller>>
       \/ /\ NoDirs
          /\ flushed' = learn_state[2]
          /\ written' = learn_state[2] /\ imm' = learn_state[2]
          /\ phase' = "starting"
          /\ parse_checkpoints({})
          /\ caller' = "learn"
          /\ pc' = IF learn_state[2] = 0 THEN "return" ELSE "create"
          /\ UNCHANGED learn_state
    /\ UNCHANGED <<log, applied, physical_error, ci, max_del_d,
                   to_delete_list, put_back_list, ret_vars>>

\* A crash while the data directory is being removed: the database and any of
\* the checkpoints may be left, whole or not.
crash_while_clearing ==
    /\ phase = "clearing"
    /\ "clear" \in Faults
    /\ \E kept \in SUBSET Existing : \E part \in SUBSET kept :
          /\ dirs' = [d \in Decree |-> IF d \in part THEN "partial"
                                       ELSE IF d \in kept THEN dirs[d]
                                       ELSE "absent"]
          /\ content' = [d \in Decree |-> IF d \in kept THEN content[d] ELSE 0]
    /\ flushed' \in {0, flushed}
    /\ written' = flushed' /\ imm' = flushed'
    /\ process_gone
    /\ UNCHANGED <<log, failed_assert>>

\* DSN_CHKPT_COPY does not take the token.  The decree is pushed before it is
\* compared with the last one of the list, which is then itself.
apply_checkpoint_copy ==
    /\ "copy" \in Calls
    /\ replica_thread_free
    /\ \E n \in (last_durable_decree + 1) .. Len(log) : \E c \in 0 .. n :
          /\ Learnable(n, c)
          /\ dirs[n] = "absent"
          /\ dirs' = [dirs EXCEPT ![n] = "whole"]
          /\ content' = [content EXCEPT ![n] = c]
    /\ dassert_fails("copy_order")
    /\ UNCHANGED <<log, flushed>>

----------------------------------------------------------------------------
gc_checkpoints ==
    \/ gc_checkpoints_scan
    \/ gc_checkpoints_erase
    \/ gc_checkpoints_remove
    \/ gc_checkpoints_put_back

Next ==
    \/ \E r \in Requests : commit(r)
    \/ on_batched_write_requests
    \/ switch_memtable
    \/ flush_job
    \/ sync_checkpoint
    \/ async_checkpoint
    \/ async_checkpoint_emergency
    \/ async_checkpoint_create
    \/ install_checkpoint
    \/ gc_checkpoints
    \/ checkpoint_return
    \/ start
    \/ stop
    \/ crash
    \/ apply_checkpoint_learn
    \/ apply_checkpoint_reopen
    \/ crash_while_clearing
    \/ apply_checkpoint_copy

Spec == Init /\ [][Next]_vars

\* The replica is restarted after a failure, the framework keeps applying
\* its log and keeps asking for checkpoints (a timer, as emergencies when the
\* last one is old), rocksdb runs scheduled flushes, and a thread that is in
\* a call goes on.
Fairness ==
    /\ WF_vars(start)
    /\ WF_vars(on_batched_write_requests)
    /\ WF_vars(flush_job)
    /\ WF_vars(async_checkpoint \/ async_checkpoint_emergency)
    /\ WF_vars(async_checkpoint_create)
    /\ WF_vars(install_checkpoint)
    /\ WF_vars(gc_checkpoints)
    /\ WF_vars(checkpoint_return)
    /\ WF_vars(apply_checkpoint_reopen)

FairSpec == Spec /\ Fairness

----------------------------------------------------------------------------
(* Properties.                                                             *)

ReplicaTypeOK ==
    /\ log \in Seq({"write", "noop"}) /\ Len(log) <= MaxDecree
    /\ phase \in Phases
    /\ applied \in DecreeOrZero /\ written \in DecreeOrZero
    /\ imm \in DecreeOrZero /\ flushed \in DecreeOrZero
    /\ physical_error \in {0, 1}
    /\ learn_state \in DecreeOrZero \X DecreeOrZero

CheckpointsTypeOK ==
    /\ dirs \in [Decree -> {"absent", "partial", "whole"}]
    /\ content \in [Decree -> DecreeOrZero]
    /\ checkpoints \in Seq(Decree)
    /\ last_durable_decree \in DecreeOrZero

TokenTypeOK ==
    /\ pc \in Pcs /\ caller \in Callers
    /\ ci \in DecreeOrZero /\ max_del_d \in DecreeOrZero
    /\ to_delete_list \in Seq(Decree) /\ put_back_list \in Seq(Decree)

ReturnTypeOK ==
    /\ start_ret \in Codes /\ sync_ret \in Codes
    /\ failed_assert \in Asserts

\* Every variable has its type; no decree is beyond the log's bound.
TypeOK == ReplicaTypeOK /\ CheckpointsTypeOK /\ TokenTypeOK /\ ReturnTypeOK

\* A directory checkpoint.n holds the effect of exactly the decrees up to n,
\* whichever call made it and whatever was written, flushed or crashed while
\* it was being made: what a learner is given is neither short nor ahead.
CheckpointExact ==
    \A n \in Decree : dirs[n] # "absent" => Covers(content[n], n)

\* The open database has the effect of every decree the framework counts as
\* applied: nothing that was in a lost memtable is skipped when the framework
\* goes on after last_durable_decree on restart, or after a learn.
RdbHoldsApplied ==
    phase = "open" => Covers(written, applied)

\* last_durable_decree() is the last entry of _checkpoints, which is newer
\* than all the others, so garbage collection never takes it away.
DurableIsLast ==
    IF checkpoints = <<>>
    THEN last_durable_decree = 0
    ELSE /\ last_durable_decree = back
         /\ \A i \in 1 .. (Len(checkpoints) - 1) : checkpoints[i] < back

\* get_checkpoint of an open replica finds the directory it lists, and it has
\* all its files: no garbage collection, failed removal or crash reached it.
DurableWhole ==
    phase = "open" /\ last_durable_decree > 0 =>
        dirs[last_durable_decree] = "whole"

\* The ReserveMin newest entries of _checkpoints are distinct and on disk
\* with all their files, also while older ones are being collected.
ReserveKept ==
    phase = "open" =>
        \A i \in 1 .. Len(checkpoints) :
            i + ReserveMin > Len(checkpoints) =>
                /\ dirs[checkpoints[i]] = "whole"
                /\ \A j \in 1 .. (i - 1) : checkpoints[j] < checkpoints[i]

\* No dassert of start, sync_checkpoint, async_checkpoint or apply_checkpoint
\* ever aborts the process.
NoAssertFails == failed_assert = "none"

\* While the replica stays open its durable decree never goes back, and a
\* step that moves it has put the directory of the new decree on disk before.
DurableAdvances ==
    [][phase = "open" /\ phase' = "open" =>
          \/ last_durable_decree' = last_durable_decree
          \/ /\ last_durable_decree' > last_durable_decree
             /\ dirs[last_durable_decree'] = "whole"]_vars

\* async_checkpoint fails although there is something new to take.
create_fails == pc = "create" /\ pc' = "idle" /\ flushed > last_durable_decree

\* If the process stops failing and is left to itself (no more restarts, learned
\* states or failed creations), every write that was committed is at last in a
\* checkpoint: through replay, memtable, flush and async_checkpoint.
EventuallyDurable ==
    <>[][~(crash \/ stop \/ apply_checkpoint_learn \/ create_fails)]_vars =>
        \A d \in Decree :
            (d <= Len(log) /\ log[d] = "write") ~> (last_durable_decree >= d)

----------------------------------------------------------------------------
(* What comments and assertions of the code say and the code does not do.  *)

\* start() returns only the codes its declaration lists.
StartReturnsDocumented ==
    start_ret \in {"none", "ERR_OK", "ERR_FILE_OPERATION_FAILED",
                   "ERR_LOCAL_APP_FAILURE"}

\* apply_checkpoint(DSN_CHKPT_LEARN) ends at the decree it was told: its last
\* dassert holds.
LearnedDecreeIsDurable == failed_assert # "learn_durable"

\* apply_checkpoint(DSN_CHKPT_COPY) appends a decree newer than the list: its
\* dassert holds.
CopiedDecreeIsNewer == failed_assert # "copy_order"

\* sync_checkpoint succeeds at the second try when no file operation fails.
SyncRetrySucceeds == sync_ret # "ERR_LOCAL_APP_FAILURE"

\* Between two calls, _checkpoints lists only directories that were not
\* deleted by garbage collection.
ListedNotDeleted ==
    phase = "open" /\ pc = "idle" =>
        \A i \in 1 .. Len(checkpoints) : dirs[checkpoints[i]] # "absent"

=============================================================================
