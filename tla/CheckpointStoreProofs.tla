----------------------- MODULE CheckpointStoreProofs -----------------------
(***************************************************************************)
(* What TLAPS proves of a replica's storage for every number of decrees,   *)
(* every reserve and every choice of requests, calls and faults: facts     *)
(* about the lists, type correctness, the inductive invariant with one     *)
(* case for each action, and the theorems.                                 *)
(***************************************************************************)
EXTENDS CheckpointStore, TLAPS

----------------------------------------------------------------------------
(* Facts about the lists.                                                  *)

\* An entry of _checkpoints, of the log or of a list to delete is of their kind.
LEMMA ElementOfSeq ==
    ASSUME NEW S, NEW s \in Seq(S), NEW i \in 1 .. Len(s)
    PROVE  s[i] \in S
OBVIOUS

\* A list that is not empty has a positive length.
LEMMA EmptySeq ==
    ASSUME NEW S
    PROVE  <<>> \in Seq(S) /\ Len(<<>>) = 0 /\ \A s \in Seq(S) : s = <<>> \/ Len(s) \in Nat \ {0}
OBVIOUS

\* What was erased and what is left, put back one after the other.
LEMMA ConcatProperties ==
    ASSUME NEW S, NEW s \in Seq(S), NEW t \in Seq(S)
    PROVE  /\ s \o t \in Seq(S) /\ Len(s \o t) = Len(s) + Len(t)
           /\ \A i \in 1 .. Len(s) : (s \o t)[i] = s[i]
           /\ \A i \in Len(s) + 1 .. Len(s) + Len(t) : (s \o t)[i] = t[i - Len(s)]
OBVIOUS

\* What the collection leaves or takes from a list.
LEMMA SubSeqProperties ==
    ASSUME NEW S, NEW s \in Seq(S), NEW m \in 1 .. Len(s) + 1, NEW n \in 0 .. Len(s)
    PROVE  /\ SubSeq(s, m, n) \in Seq(S)
           /\ Len(SubSeq(s, m, n)) = IF m <= n THEN n - m + 1 ELSE 0
           /\ \A i \in 1 .. n - m + 1 : SubSeq(s, m, n)[i] = s[m + i - 1]
OBVIOUS

\* The front of a list and what pop_front leaves.
LEMMA HeadTailProperties ==
    ASSUME NEW S, NEW s \in Seq(S), s # <<>>
    PROVE  /\ Head(s) \in S /\ Tail(s) \in Seq(S) /\ Len(Tail(s)) = Len(s) - 1
           /\ \A i \in 1 .. Len(s) - 1 : Tail(s)[i] = s[i + 1]
OBVIOUS

\* What push_back makes of a list.
LEMMA AppendProperties ==
    ASSUME NEW S, NEW s \in Seq(S), NEW e \in S
    PROVE  /\ Append(s, e) \in Seq(S) /\ Append(s, e) # <<>> /\ Len(Append(s, e)) = Len(s) + 1
           /\ \A i \in 1 .. Len(s) : Append(s, e)[i] = s[i]
           /\ Append(s, e)[Len(s) + 1] = e
OBVIOUS

\* parse_checkpoints makes a strictly increasing list of the directories and
\* the last of them, or 0, the durable decree.
LEMMA ParseResult ==
    ASSUME NEW E \in SUBSET Decree, parse_checkpoints(E)
    PROVE  /\ checkpoints' \in Seq(Decree)
           /\ checkpoints' = <<>> <=> E = {}
           /\ E = {} => last_durable_decree' = 0
           /\ E # {} => /\ last_durable_decree' \in E
                        /\ last_durable_decree' = checkpoints'[Len(checkpoints')]
           /\ \A i \in 1 .. (Len(checkpoints') - 1) :
                  checkpoints'[i] < checkpoints'[Len(checkpoints')]
           /\ \A d \in E : d <= last_durable_decree'
<1>1. PICK n \in DecreeOrZero : \E s \in [1 .. n -> E] :
          /\ \A i, j \in 1 .. n : i < j => s[i] < s[j]
          /\ \A d \in E : \E i \in 1 .. n : s[i] = d
          /\ checkpoints' = s
          /\ last_durable_decree' = IF E = {} THEN 0 ELSE s[n]
  BY Zenon DEF parse_checkpoints
<1>2. PICK s \in [1 .. n -> E] :
          /\ \A i, j \in 1 .. n : i < j => s[i] < s[j]
          /\ \A d \in E : \E i \in 1 .. n : s[i] = d
          /\ checkpoints' = s
          /\ last_durable_decree' = IF E = {} THEN 0 ELSE s[n]
  BY <1>1, Zenon
<1>3. n \in Nat /\ (E = {} <=> n = 0)
  BY <1>2, ConstantsAssumption DEF DecreeOrZero
<1>4. s \in Seq(Decree) /\ Len(s) = n
  BY <1>3
<1>5. s = <<>> <=> E = {}
  BY <1>3, <1>4
<1>6. ASSUME NEW d \in E PROVE d <= last_durable_decree'
  BY <1>2, <1>3, ConstantsAssumption DEF Decree
<1>7. \A i \in 1 .. (n - 1) : s[i] < s[n]
  BY <1>3, <1>2
<1> QED
  BY <1>3, <1>2, <1>4, <1>5, <1>6, <1>7

\* A result of std::sort has the length and the elements of its argument, in
\* order.
LEMMA SortingsResult ==
    ASSUME NEW S, NEW s \in Seq(S), NEW t \in Sortings(s)
    PROVE  /\ t \in Seq(S) /\ Len(t) = Len(s)
           /\ \A i, j \in 1 .. Len(s) : i < j => t[i] <= t[j]
<1> DEFINE n == Len(s)
<1>1. n \in Nat
  OBVIOUS
<1>2. PICK p \in [1 .. n -> 1 .. n] :
          /\ t = [i \in 1 .. n |-> s[p[i]]]
          /\ \A i, j \in 1 .. n : p[i] = p[j] => i = j
          /\ \A j \in 1 .. n : \E i \in 1 .. n : p[i] = j
  BY DEF Sortings
<1>3. \A i, j \in 1 .. n : i < j => t[i] <= t[j]
  BY Zenon DEF Sortings
<1>4. \A i \in 1 .. n : s[p[i]] \in S
  BY <1>2, ElementOfSeq
<1> HIDE DEF n
<1>5. t \in Seq(S) /\ Len(t) = n
  BY <1>1, <1>2, <1>4
<1> QED
  BY <1>2, <1>3, <1>5 DEF n

----------------------------------------------------------------------------
(* Type correctness.                                                       *)

\* Zero and every decree of the log are in the range of the variables.
LEMMA DecreeFacts ==
    /\ 0 \in DecreeOrZero /\ Decree \subseteq DecreeOrZero
    /\ DecreeOrZero \subseteq Nat
    /\ <<0, 0>> \in DecreeOrZero \X DecreeOrZero
    /\ <<>> \in Seq(Decree)
    /\ \A d \in DecreeOrZero, e \in DecreeOrZero : e < d => d \in Decree
    /\ \A d \in DecreeOrZero : 0 < d => d \in Decree
    /\ \A d \in Nat : d <= MaxDecree => d \in DecreeOrZero
    /\ \A d \in DecreeOrZero : d <= MaxDecree
BY ConstantsAssumption DEF Decree, DecreeOrZero

\* The decrees are numbers, also in a pair.
LEMMA DecreeNumbers ==
    /\ \A d \in DecreeOrZero : d \in Nat
    /\ \A d \in Decree : d \in Nat /\ d > 0
    /\ \A p \in DecreeOrZero \X DecreeOrZero : p[1] \in Nat /\ p[2] \in Nat
BY ConstantsAssumption DEF Decree, DecreeOrZero

\* The initial state of the replica has the right types.
LEMMA TypeInit == Init => TypeOK
BY ConstantsAssumption DEF Init, TypeOK, ReplicaTypeOK, CheckpointsTypeOK, TokenTypeOK,
   ReturnTypeOK, Decree, DecreeOrZero, Phases, Callers, Pcs, Asserts, Codes

\* Every step of the replica, of rocksdb and of the framework keeps the types.
LEMMA TypeNext == TypeOK /\ [Next]_vars => TypeOK'
<1> SUFFICES ASSUME ReplicaTypeOK, CheckpointsTypeOK, TokenTypeOK, ReturnTypeOK,
                    [Next]_vars
             PROVE  TypeOK'
  BY DEF TypeOK
<1> USE ConstantsAssumption, DecreeFacts DEF TypeOK
<1>1. CASE UNCHANGED vars
  BY <1>1 DEF ReplicaTypeOK, CheckpointsTypeOK, TokenTypeOK, ReturnTypeOK, vars, disk_vars,
     list_vars, token_vars, db_vars, ret_vars
<1>2. ASSUME NEW r \in Requests, commit(r) PROVE TypeOK'
  <2>1. TokenTypeOK'
    BY <1>2 DEF TokenTypeOK, commit, token_vars
  <2> QED
    BY <2>1, <1>2 DEF ReplicaTypeOK, commit, disk_vars, db_vars, CheckpointsTypeOK, list_vars,
       ReturnTypeOK, ret_vars
<1>3. CASE on_batched_write_requests
  <2>1. CheckpointsTypeOK'
    BY <1>3 DEF CheckpointsTypeOK, on_batched_write_requests, disk_vars, list_vars
  <2> QED
    BY <2>1, <1>3 DEF ReplicaTypeOK, on_batched_write_requests, disk_vars, TokenTypeOK,
       token_vars, ReturnTypeOK, ret_vars
<1>4. CASE switch_memtable
  BY <1>4 DEF TokenTypeOK, switch_memtable, token_vars, ReplicaTypeOK, disk_vars,
     CheckpointsTypeOK, list_vars, ReturnTypeOK, ret_vars
<1>5. CASE flush_job
  <2>1. TokenTypeOK'
    BY <1>5 DEF TokenTypeOK, flush_job, token_vars
  <2> QED
    BY <2>1, <1>5 DEF ReplicaTypeOK, flush_job, db_vars, CheckpointsTypeOK, list_vars,
       ReturnTypeOK, ret_vars
<1>6. CASE sync_checkpoint
  <2>1. CheckpointsTypeOK'
    <3>1. content' \in [Decree -> DecreeOrZero]
      BY <1>6 DEF CheckpointsTypeOK, ReplicaTypeOK, sync_checkpoint
    <3> QED
      BY <1>6, <3>1 DEF CheckpointsTypeOK, sync_checkpoint, list_vars, Leftover
  <2> QED
    BY <2>1, <1>6 DEF ReplicaTypeOK, sync_checkpoint, TokenTypeOK, token_vars, Pcs, Callers,
       ReturnTypeOK, Codes
<1>7. CASE async_checkpoint
  <2>1. TokenTypeOK'
    BY <1>7 DEF TokenTypeOK, async_checkpoint, Pcs, Callers
  <2> QED
    BY <2>1, <1>7 DEF ReplicaTypeOK, async_checkpoint, disk_vars, db_vars, CheckpointsTypeOK,
       list_vars, ReturnTypeOK, ret_vars
<1>8. CASE async_checkpoint_emergency
  BY <1>4, <1>8 DEF async_checkpoint_emergency
<1>9. CASE async_checkpoint_create
  <2>1. CheckpointsTypeOK'
    <3>1. content' \in [Decree -> DecreeOrZero]
      BY <1>9 DEF CheckpointsTypeOK, ReplicaTypeOK, async_checkpoint_create
    <3> QED
      BY <1>9, <3>1 DEF CheckpointsTypeOK, async_checkpoint_create, async_checkpoint_fails,
         list_vars, Leftover
  <2>2. TokenTypeOK'
    BY <1>9, Zenon DEF TokenTypeOK, async_checkpoint_create, async_checkpoint_fails, NoToken,
       quick_decree, Pcs, Callers, ReplicaTypeOK
  <2> QED
    BY <2>1, <2>2, <1>9 DEF ReplicaTypeOK, async_checkpoint_create, async_checkpoint_fails,
       Phases, db_vars, ReturnTypeOK, Codes, ret_vars
<1>10. CASE install_checkpoint
  <2>1. ci > last_durable_decree => Append(checkpoints, ci) \in Seq(Decree)
                                    /\ ci \in DecreeOrZero
    BY AppendProperties DEF CheckpointsTypeOK, TokenTypeOK
  <2>2. CheckpointsTypeOK'
    BY <1>10, <2>1, Zenon DEF CheckpointsTypeOK, install_checkpoint, dassert_fails, process_gone,
       disk_vars
  <2>3. TokenTypeOK'
    BY <1>10, Zenon DEF TokenTypeOK, install_checkpoint, dassert_fails, process_gone, NoToken, Pcs,
       Callers
  <2>4. ReturnTypeOK'
    BY <1>10 DEF ReturnTypeOK, install_checkpoint, dassert_fails, process_gone, Codes, Asserts,
       ret_vars
  <2> QED
    BY <2>2, <2>3, <2>4, <1>10 DEF ReplicaTypeOK, install_checkpoint, dassert_fails,
       process_gone, Phases, db_vars, disk_vars
<1>11. CASE gc_checkpoints_scan
  <2>1. ASSUME NEW k \in 0 .. collectable, k # 0
        PROVE  checkpoints[k] \in DecreeOrZero
    <3>1. checkpoints[k] \in Decree
      BY ElementOfSeq, <2>1 DEF CheckpointsTypeOK, collectable
    <3> QED
      BY <3>1, Zenon
  <2>2. TokenTypeOK'
    BY <1>11, <2>1 DEF TokenTypeOK, gc_checkpoints_scan, Pcs
  <2> QED
    BY <2>2, <1>11 DEF ReplicaTypeOK, gc_checkpoints_scan, disk_vars, db_vars,
       CheckpointsTypeOK, list_vars, ReturnTypeOK, ret_vars
<1>12. CASE gc_checkpoints_erase
  <2>1. PICK n \in 0 .. (Len(checkpoints) - ReserveMin) :
           /\ to_delete_list' = SubSeq(checkpoints, 1, n)
           /\ checkpoints' = IF n - 1 > 0
                             THEN SubSeq(checkpoints, n + 1, Len(checkpoints))
                             ELSE checkpoints
    BY <1>12 DEF gc_checkpoints_erase, collectable
  <2>2. CheckpointsTypeOK'
    BY <1>12, <2>1, SubSeqProperties DEF CheckpointsTypeOK, gc_checkpoints_erase, disk_vars
  <2>3. TokenTypeOK'
    BY <1>12, <2>1, SubSeqProperties DEF TokenTypeOK, gc_checkpoints_erase, Pcs,
       CheckpointsTypeOK
  <2> QED
    BY <2>2, <2>3, <1>12 DEF ReplicaTypeOK, gc_checkpoints_erase, disk_vars, db_vars,
       ReturnTypeOK, ret_vars
<1>13. CASE gc_checkpoints_remove
  <2>1. /\ Tail(to_delete_list) \in Seq(Decree)
        /\ Append(put_back_list, Head(to_delete_list)) \in Seq(Decree)
    BY <1>13, HeadTailProperties, AppendProperties DEF gc_checkpoints_remove, TokenTypeOK
  <2>2. CheckpointsTypeOK'
    <3>1. PICK d, left :
             /\ dirs' = [dirs EXCEPT ![d] = left]
             /\ left \in {dirs[d], "partial", "absent"}
      BY <1>13, Zenon DEF gc_checkpoints_remove, Leftover
    <3>2. dirs' \in [Decree -> {"absent", "partial", "whole"}]
      BY <3>1, Zenon DEF CheckpointsTypeOK
    <3>3. content' \in [Decree -> DecreeOrZero]
      BY <1>13 DEF CheckpointsTypeOK, gc_checkpoints_remove, DecreeOrZero
    <3> QED
      BY <3>2, <3>3, <1>13 DEF CheckpointsTypeOK, gc_checkpoints_remove, list_vars
  <2>3. TokenTypeOK'
    BY <1>13, <2>1, Zenon DEF TokenTypeOK, gc_checkpoints_remove
  <2> QED
    BY <2>2, <2>3, <1>13 DEF ReplicaTypeOK, gc_checkpoints_remove, db_vars, ReturnTypeOK,
       ret_vars
<1>14. CASE gc_checkpoints_put_back
  <2>1. put_back_list \o checkpoints \in Seq(Decree)
    BY ConcatProperties DEF CheckpointsTypeOK, TokenTypeOK
  <2>2. checkpoints' \in Seq(Decree)
    BY <1>14, <2>1, SortingsResult, Zenon DEF gc_checkpoints_put_back
  <2>3. CheckpointsTypeOK'
    BY <1>14, <2>2 DEF CheckpointsTypeOK, gc_checkpoints_put_back, disk_vars
  <2> QED
    BY <2>3, <1>14 DEF ReplicaTypeOK, gc_checkpoints_put_back, disk_vars, db_vars, TokenTypeOK,
       Pcs, ReturnTypeOK, ret_vars
<1>15. CASE checkpoint_return
  <2>1. CheckpointsTypeOK'
    BY <1>15, Zenon DEF CheckpointsTypeOK, checkpoint_return, dassert_fails, process_gone, disk_vars,
       list_vars
  <2>2. TokenTypeOK'
    BY <1>15, Zenon DEF TokenTypeOK, checkpoint_return, dassert_fails, process_gone, NoToken, Pcs,
       Callers
  <2>3. ReturnTypeOK'
    BY <1>15 DEF ReturnTypeOK, checkpoint_return, dassert_fails, process_gone, Codes, Asserts
  <2> QED
    BY <2>1, <2>2, <2>3, <1>15 DEF ReplicaTypeOK, checkpoint_return, get_last_checkpoint_decree,
       dassert_fails, process_gone, Phases, disk_vars, db_vars, CheckpointsTypeOK
<1>16. CASE start
  <2>1. Existing \in SUBSET Decree
    BY DEF Existing
  <2>2. checkpoints' \in Seq(Decree) /\ last_durable_decree' \in DecreeOrZero
    BY <1>16, <2>1, ParseResult, Zenon DEF start
  <2>3. TokenTypeOK'
    BY <1>16 DEF TokenTypeOK, start, Pcs, Callers
  <2> QED
    BY <2>3, <1>16, <2>2 DEF ReplicaTypeOK, start, disk_vars, db_vars, Phases,
       CheckpointsTypeOK, ReturnTypeOK, ret_vars
<1>17. CASE stop
  <2>1. TokenTypeOK'
    BY <1>17 DEF TokenTypeOK, stop, process_gone, NoToken, Pcs, Callers
  <2> QED
    BY <2>1, <1>17 DEF ReplicaTypeOK, stop, close_rocksdb, process_gone, Phases,
       CheckpointsTypeOK, ReturnTypeOK, Codes
<1>18. CASE crash
  <2>1. TokenTypeOK'
    BY <1>18 DEF TokenTypeOK, crash, process_gone, NoToken, Pcs, Callers
  <2> QED
    BY <2>1, <1>18 DEF ReplicaTypeOK, crash, process_gone, Phases, disk_vars, CheckpointsTypeOK,
       ReturnTypeOK, Codes
<1>19. CASE apply_checkpoint_learn
  <2>1. CheckpointsTypeOK'
    BY <1>19, Zenon DEF CheckpointsTypeOK, apply_checkpoint_learn, list_vars
  <2> QED
    BY <2>1, <1>19 DEF ReplicaTypeOK, apply_checkpoint_learn, close_rocksdb, Phases,
       TokenTypeOK, token_vars, ReturnTypeOK, ret_vars
<1>20. CASE apply_checkpoint_reopen
  <2>1. ASSUME parse_checkpoints({})
        PROVE  checkpoints' \in Seq(Decree) /\ last_durable_decree' = 0
    BY <2>1, ParseResult
  <2>2. TokenTypeOK'
    BY <1>20 DEF TokenTypeOK, apply_checkpoint_reopen, Pcs, Callers
  <2> QED
    BY <2>2, <1>20, <2>1 DEF ReplicaTypeOK, apply_checkpoint_reopen, Phases, disk_vars,
       CheckpointsTypeOK, NoDirs, list_vars, ReturnTypeOK, ret_vars
<1>21. CASE crash_while_clearing
  <2>1. TokenTypeOK'
    BY <1>21 DEF TokenTypeOK, crash_while_clearing, process_gone, NoToken, Pcs, Callers
  <2> QED
    BY <2>1, <1>21 DEF ReplicaTypeOK, crash_while_clearing, process_gone, Phases,
       CheckpointsTypeOK, Existing, ReturnTypeOK, Codes
<1>22. CASE apply_checkpoint_copy
  <2>1. TokenTypeOK'
    BY <1>22 DEF TokenTypeOK, apply_checkpoint_copy, dassert_fails, process_gone, NoToken, Pcs,
       Callers
  <2> QED
    BY <2>1, <1>22 DEF ReplicaTypeOK, apply_checkpoint_copy, dassert_fails, process_gone,
       Phases, CheckpointsTypeOK, ReturnTypeOK, Codes, Asserts
<1> QED
  BY <1>1, <1>2, <1>3, <1>4, <1>5, <1>6, <1>7, <1>8, <1>9, <1>10, <1>11, <1>12, <1>13, <1>14,
     <1>15, <1>16, <1>17, <1>18, <1>19, <1>20, <1>21, <1>22 DEF Next, gc_checkpoints

----------------------------------------------------------------------------
(* The inductive invariant.                                                *)

\* Who holds the checkpointing token, and when gc_checkpoints has work left.
ControlInv ==
    /\ pc = "idle" <=> caller = "none"
    /\ phase \in {"closed", "clearing"} => caller = "none"
    /\ phase = "starting" <=> caller \in {"start", "learn"}
    /\ caller = "sync" => pc # "create"
    /\ pc # "gc_remove" => to_delete_list = <<>> /\ put_back_list = <<>>

\* The disk is not ahead of the memtables, a closed database has none, and
\* what a learner was sent is exact.
DatabaseInv ==
    /\ flushed <= imm /\ imm <= written /\ written <= Len(log)
    /\ phase # "open" => written = flushed
    /\ Covers(learn_state[2], learn_state[1])

\* What gc_checkpoints is about to remove is older than the durable decree.
CollectedInv ==
    /\ pc \in {"gc_scan", "gc_erase", "gc_remove"} => checkpoints # <<>>
    /\ \A i \in 1 .. Len(to_delete_list) :
           to_delete_list[i] < last_durable_decree
    /\ \A i \in 1 .. Len(put_back_list) :
           put_back_list[i] < last_durable_decree

\* The directory about to be listed is whole and newer than the listed ones.
\* start() and apply_checkpoint make it of the database's own decree.
InstallInv ==
    /\ phase = "open" => last_durable_decree <= applied
    /\ pc = "install" => /\ ci \in Decree
                         /\ last_durable_decree < ci
                         /\ dirs[ci] = "whole"
                         /\ phase = "open" => ci <= applied
    /\ caller \in {"start", "learn"} =>
           /\ pc = "install" => ci = flushed
           /\ pc \in {"gc_scan", "gc_erase", "gc_remove", "return"} =>
                  last_durable_decree = flushed
    /\ caller = "learn" => flushed = learn_state[2]

\* The only assertions that ever fail.
AssertInv == failed_assert \in {"none", "copy_order", "learn_durable"}

\* Without empty requests the log has writes only.
WritesOnly == \A d \in 1 .. Len(log) : log[d] = "write"

\* No directory is newer than the durable decree, or than the one about to be
\* listed, and the newest directory is whole.
NewestInv ==
    /\ phase \in {"starting", "open"} =>
           /\ \A d \in Decree : dirs[d] # "absent" =>
                  d <= last_durable_decree \/ (pc = "install" /\ d = ci)
           /\ last_durable_decree > 0 => dirs[last_durable_decree] = "whole"
    /\ \A d \in Decree : dirs[d] = "partial" =>
           \E e \in Decree : d < e /\ dirs[e] = "whole"

----------------------------------------------------------------------------
(* The inductive invariant holds.                                          *)

\* The token is taken and given back as ControlInv says.
LEMMA ControlNext ==
    TypeOK /\ ControlInv /\ [Next]_vars => ControlInv'
<1> SUFFICES ASSUME phase \in Phases, caller \in Callers, ControlInv, [Next]_vars
             PROVE  ControlInv'
  BY DEF TypeOK, ReplicaTypeOK, TokenTypeOK
<1> USE DEF ControlInv, Phases, Callers
<1>1. CASE UNCHANGED vars
  BY <1>1 DEF vars, token_vars
<1>2. ASSUME NEW r \in Requests, commit(r) PROVE ControlInv'
  BY <1>2 DEF commit, token_vars
<1>3. CASE on_batched_write_requests
  BY <1>3 DEF on_batched_write_requests, replica_thread_free, token_vars
<1>4. CASE switch_memtable
  BY <1>4 DEF switch_memtable, token_vars
<1>5. CASE flush_job
  BY <1>5 DEF flush_job, token_vars
<1>6. CASE sync_checkpoint
  BY <1>6 DEF sync_checkpoint, replica_thread_free, token_vars
<1>7. CASE async_checkpoint
  BY <1>7 DEF async_checkpoint, token_vars
<1>8. CASE async_checkpoint_emergency
  BY <1>4, <1>8 DEF async_checkpoint_emergency
<1>9. CASE async_checkpoint_create
  BY <1>9 DEF async_checkpoint_create, async_checkpoint_fails, NoToken, token_vars
<1>10. CASE install_checkpoint
  BY <1>10 DEF install_checkpoint, dassert_fails, process_gone, NoToken, token_vars
<1>11. CASE gc_checkpoints_scan
  BY <1>11 DEF gc_checkpoints_scan, token_vars
<1>12. CASE gc_checkpoints_erase
  BY <1>12 DEF gc_checkpoints_erase, token_vars
<1>13. CASE gc_checkpoints_remove
  BY <1>13 DEF gc_checkpoints_remove, token_vars
<1>14. CASE gc_checkpoints_put_back
  BY <1>14 DEF gc_checkpoints_put_back, token_vars
<1>15. CASE checkpoint_return
  BY <1>15 DEF checkpoint_return, dassert_fails, process_gone, NoToken, token_vars
<1>16. CASE start
  BY <1>16 DEF start, token_vars
<1>17. CASE stop
  BY <1>17 DEF stop, process_gone, NoToken, replica_thread_free, token_vars
<1>18. CASE crash
  BY <1>18 DEF crash, process_gone, NoToken, token_vars
<1>19. CASE apply_checkpoint_learn
  BY <1>19 DEF apply_checkpoint_learn, replica_thread_free, token_vars
<1>20. CASE apply_checkpoint_reopen
  BY <1>20 DEF apply_checkpoint_reopen, token_vars
<1>21. CASE crash_while_clearing
  BY <1>21 DEF crash_while_clearing, process_gone, NoToken, token_vars
<1>22. CASE apply_checkpoint_copy
  BY <1>22 DEF apply_checkpoint_copy, dassert_fails, process_gone, NoToken, replica_thread_free,
     token_vars
<1> QED
  BY <1>1, <1>2, <1>3, <1>4, <1>5, <1>6, <1>7, <1>8, <1>9, <1>10, <1>11, <1>12, <1>13, <1>14,
     <1>15, <1>16, <1>17, <1>18, <1>19, <1>20, <1>21, <1>22 DEF Next, gc_checkpoints

\* The database, its memtables and what is learned stay in the order of the
\* log.
LEMMA DatabaseNext ==
    TypeOK /\ ControlInv /\ RdbHoldsApplied /\ DatabaseInv /\ [Next]_vars
        => DatabaseInv'
<1> SUFFICES ASSUME ReplicaTypeOK, caller \in Callers, ControlInv,
                    RdbHoldsApplied, DatabaseInv, [Next]_vars
             PROVE  DatabaseInv'
  BY DEF TypeOK, TokenTypeOK
<1>1. /\ Len(log) \in Nat /\ applied \in Nat /\ written \in Nat
      /\ imm \in Nat /\ flushed \in Nat
      /\ learn_state[1] \in Nat /\ learn_state[2] \in Nat
  BY DecreeNumbers DEF ReplicaTypeOK
<1> USE <1>1 DEF DatabaseInv
<1>2. CASE UNCHANGED vars
  BY <1>2 DEF Covers, vars, disk_vars, db_vars
<1>3. ASSUME NEW r \in Requests, commit(r) PROVE DatabaseInv'
  <2>1. /\ Len(log') = Len(log) + 1
        /\ \A d \in 1 .. Len(log) : log'[d] = log[d]
    BY <1>3, AppendProperties DEF commit, ReplicaTypeOK
  <2> QED
    BY <1>3, <2>1 DEF commit, Covers, disk_vars, db_vars
<1>4. CASE on_batched_write_requests
  BY <1>4 DEF Covers, on_batched_write_requests, replica_thread_free, RdbHoldsApplied,
     disk_vars, db_vars
<1>5. CASE switch_memtable
  BY <1>5 DEF Covers, switch_memtable, disk_vars, db_vars
<1>6. CASE flush_job
  BY <1>6 DEF Covers, flush_job, disk_vars, db_vars
<1>7. CASE sync_checkpoint
  BY <1>7 DEF Covers, sync_checkpoint, replica_thread_free, disk_vars, db_vars
<1>8. CASE async_checkpoint
  BY <1>8 DEF Covers, async_checkpoint, disk_vars, db_vars
<1>9. CASE async_checkpoint_emergency
  BY <1>5, <1>9 DEF async_checkpoint_emergency
<1>10. CASE async_checkpoint_create
  BY <1>10 DEF Covers, async_checkpoint_create, async_checkpoint_fails, NoToken, ControlInv,
     Callers, disk_vars, db_vars
<1>11. CASE install_checkpoint
  BY <1>11 DEF Covers, install_checkpoint, dassert_fails, process_gone, NoToken, ControlInv,
     disk_vars, db_vars
<1>12. CASE gc_checkpoints_scan
  BY <1>12 DEF Covers, gc_checkpoints_scan, disk_vars, db_vars
<1>13. CASE gc_checkpoints_erase
  BY <1>13 DEF Covers, gc_checkpoints_erase, disk_vars, db_vars
<1>14. CASE gc_checkpoints_remove
  BY <1>14 DEF Covers, gc_checkpoints_remove, disk_vars, db_vars
<1>15. CASE gc_checkpoints_put_back
  BY <1>15 DEF Covers, gc_checkpoints_put_back, disk_vars, db_vars
<1>16. CASE checkpoint_return
  BY <1>16 DEF Covers, checkpoint_return, dassert_fails, process_gone, NoToken, ControlInv,
     disk_vars, db_vars
<1>17. CASE start
  BY <1>17 DEF Covers, start, disk_vars, db_vars
<1>18. CASE stop
  BY <1>18 DEF Covers, stop, process_gone, NoToken, close_rocksdb, disk_vars, db_vars
<1>19. CASE crash
  BY <1>19 DEF Covers, crash, process_gone, NoToken, disk_vars, db_vars
<1>20. CASE apply_checkpoint_learn
  BY <1>20 DEF Covers, apply_checkpoint_learn, close_rocksdb, Learnable, replica_thread_free,
     disk_vars, db_vars
<1>21. CASE apply_checkpoint_reopen
  BY <1>21 DEF Covers, apply_checkpoint_reopen, disk_vars, db_vars
<1>22. CASE crash_while_clearing
  BY <1>22 DEF Covers, crash_while_clearing, process_gone, NoToken, disk_vars, db_vars
<1>23. CASE apply_checkpoint_copy
  BY <1>23 DEF Covers, apply_checkpoint_copy, dassert_fails, process_gone, NoToken, disk_vars,
     db_vars
<1> QED
  BY <1>2, <1>3, <1>4, <1>5, <1>6, <1>7, <1>8, <1>9, <1>10, <1>11, <1>12, <1>13, <1>14, <1>15,
     <1>16, <1>17, <1>18, <1>19, <1>20, <1>21, <1>22, <1>23 DEF Next, gc_checkpoints

\* The open database has the effect of what the framework applied.
LEMMA RdbNext ==
    TypeOK /\ ControlInv /\ DatabaseInv /\ RdbHoldsApplied /\ [Next]_vars
        => RdbHoldsApplied'
<1> SUFFICES ASSUME ReplicaTypeOK, ControlInv, DatabaseInv, RdbHoldsApplied,
                    [Next]_vars
             PROVE  RdbHoldsApplied'
  BY DEF TypeOK
<1>1. /\ Len(log) \in Nat /\ applied \in Nat /\ written \in Nat
      /\ flushed \in Nat
  BY DecreeNumbers DEF ReplicaTypeOK
<1> USE <1>1 DEF RdbHoldsApplied
<1>2. CASE UNCHANGED vars
  BY <1>2 DEF Covers, vars, db_vars
<1>3. ASSUME NEW r \in Requests, commit(r) PROVE RdbHoldsApplied'
  BY <1>3, AppendProperties DEF commit, ReplicaTypeOK, Covers, db_vars
<1>4. CASE on_batched_write_requests
  <2>1. log[applied + 1] \in {"write", "noop"}
    BY <1>4, ElementOfSeq DEF on_batched_write_requests, ReplicaTypeOK
  <2> QED
    BY <1>4, <2>1 DEF on_batched_write_requests, Covers
<1>5. CASE switch_memtable
  BY <1>5 DEF Covers, switch_memtable, db_vars
<1>6. CASE flush_job
  BY <1>6 DEF Covers, flush_job, db_vars
<1>7. CASE sync_checkpoint
  BY <1>7 DEF Covers, sync_checkpoint, db_vars
<1>8. CASE async_checkpoint
  BY <1>8 DEF Covers, async_checkpoint, db_vars
<1>9. CASE async_checkpoint_emergency
  BY <1>5, <1>9 DEF async_checkpoint_emergency
<1>10. CASE async_checkpoint_create
  BY <1>10 DEF Covers, async_checkpoint_create, async_checkpoint_fails, NoToken, ControlInv,
     db_vars
<1>11. CASE install_checkpoint
  BY <1>11 DEF Covers, install_checkpoint, dassert_fails, process_gone, NoToken, ControlInv,
     db_vars
<1>12. CASE gc_checkpoints_scan
  BY <1>12 DEF Covers, gc_checkpoints_scan, db_vars
<1>13. CASE gc_checkpoints_erase
  BY <1>13 DEF Covers, gc_checkpoints_erase, db_vars
<1>14. CASE gc_checkpoints_remove
  BY <1>14 DEF Covers, gc_checkpoints_remove, db_vars
<1>15. CASE gc_checkpoints_put_back
  BY <1>15 DEF Covers, gc_checkpoints_put_back, db_vars
<1>16. CASE checkpoint_return
  BY <1>16 DEF Covers, checkpoint_return, dassert_fails, process_gone, NoToken,
     get_last_checkpoint_decree, ControlInv, DatabaseInv, db_vars
<1>17. CASE start
  BY <1>17 DEF Covers, start, db_vars
<1>18. CASE stop
  BY <1>18 DEF Covers, stop, process_gone, NoToken, db_vars
<1>19. CASE crash
  BY <1>19 DEF Covers, crash, process_gone, NoToken, db_vars
<1>20. CASE apply_checkpoint_learn
  BY <1>20 DEF Covers, apply_checkpoint_learn, db_vars
<1>21. CASE apply_checkpoint_reopen
  BY <1>21 DEF Covers, apply_checkpoint_reopen, db_vars
<1>22. CASE crash_while_clearing
  BY <1>22 DEF Covers, crash_while_clearing, process_gone, NoToken, db_vars
<1>23. CASE apply_checkpoint_copy
  BY <1>23 DEF Covers, apply_checkpoint_copy, dassert_fails, process_gone, NoToken, db_vars
<1> QED
  BY <1>2, <1>3, <1>4, <1>5, <1>6, <1>7, <1>8, <1>9, <1>10, <1>11, <1>12, <1>13, <1>14, <1>15,
     <1>16, <1>17, <1>18, <1>19, <1>20, <1>21, <1>22, <1>23 DEF Next, gc_checkpoints

\* Every directory stays exact: the calls that make one name it after what is
\* in it, and the others only take directories away.
LEMMA ExactNext ==
    TypeOK /\ DatabaseInv /\ RdbHoldsApplied /\ CheckpointExact /\ [Next]_vars
        => CheckpointExact'
<1> SUFFICES ASSUME ReplicaTypeOK, CheckpointsTypeOK, DatabaseInv,
                    RdbHoldsApplied, CheckpointExact, [Next]_vars
             PROVE  CheckpointExact'
  BY DEF TypeOK
<1>1. /\ Len(log) \in Nat /\ applied \in Nat /\ written \in Nat
      /\ imm \in Nat /\ flushed \in Nat
      /\ \A d \in Decree : content[d] \in Nat /\ d \in Nat
  BY DecreeNumbers DEF ReplicaTypeOK, CheckpointsTypeOK
<1> USE <1>1 DEF CheckpointExact, CheckpointsTypeOK
<1>2. CASE UNCHANGED vars
  BY <1>2 DEF Covers, vars, disk_vars
<1>3. ASSUME NEW r \in Requests, commit(r) PROVE CheckpointExact'
  <2> QED
    BY <1>3, AppendProperties DEF commit, Covers, disk_vars, ReplicaTypeOK
<1>4. CASE on_batched_write_requests
  BY <1>4 DEF Covers, on_batched_write_requests, disk_vars
<1>5. CASE switch_memtable
  BY <1>5 DEF Covers, switch_memtable, disk_vars
<1>6. CASE flush_job
  BY <1>6 DEF Covers, flush_job, disk_vars
<1>7. CASE sync_checkpoint
  BY <1>7 DEF Covers, sync_checkpoint, replica_thread_free, RdbHoldsApplied, Leftover, disk_vars
<1>8. CASE async_checkpoint
  BY <1>8 DEF Covers, async_checkpoint, disk_vars
<1>9. CASE async_checkpoint_emergency
  BY <1>5, <1>9 DEF async_checkpoint_emergency
<1>10. CASE async_checkpoint_create
  <2>1. ASSUME NEW n \in Decree, dirs'[n] # "absent"
        PROVE  Covers(content'[n], n)
    <3>1. CASE n # flushed
      BY <1>10, <2>1, <3>1 DEF async_checkpoint_create, quick_decree, Covers
    <3>2. CASE n = flushed /\ content' = content
      BY <1>10, <2>1, <3>2 DEF async_checkpoint_create, quick_decree, DatabaseInv, Covers
    <3>3. CASE n = flushed /\ content' # content
      BY <1>10, <2>1, <3>3 DEF async_checkpoint_create, quick_decree, DatabaseInv, Covers
    <3> QED
      BY <3>1, <3>2, <3>3
  <2> QED
    BY <2>1, <1>10 DEF Covers, async_checkpoint_create, async_checkpoint_fails
<1>11. CASE install_checkpoint
  BY <1>11 DEF Covers, install_checkpoint, dassert_fails, process_gone, NoToken, disk_vars
<1>12. CASE gc_checkpoints_scan
  BY <1>12 DEF Covers, gc_checkpoints_scan, disk_vars
<1>13. CASE gc_checkpoints_erase
  BY <1>13, Zenon DEF Covers, gc_checkpoints_erase, disk_vars
<1>14. CASE gc_checkpoints_remove
  BY <1>14 DEF Covers, gc_checkpoints_remove, Leftover, disk_vars
<1>15. CASE gc_checkpoints_put_back
  BY <1>15 DEF Covers, gc_checkpoints_put_back, disk_vars
<1>16. CASE checkpoint_return
  BY <1>16 DEF Covers, checkpoint_return, dassert_fails, process_gone, NoToken, disk_vars
<1>17. CASE start
  BY <1>17 DEF Covers, start, disk_vars
<1>18. CASE stop
  BY <1>18 DEF Covers, stop, process_gone, NoToken, disk_vars
<1>19. CASE crash
  BY <1>19 DEF Covers, crash, process_gone, NoToken, disk_vars
<1>20. CASE apply_checkpoint_learn
  BY <1>20, Zenon DEF Covers, apply_checkpoint_learn, disk_vars
<1>21. CASE apply_checkpoint_reopen
  BY <1>21 DEF Covers, apply_checkpoint_reopen, NoDirs, disk_vars
<1>22. CASE crash_while_clearing
  BY <1>22 DEF Covers, crash_while_clearing, process_gone, NoToken, Existing, disk_vars
<1>23. CASE apply_checkpoint_copy
  BY <1>23, Zenon DEF Covers, apply_checkpoint_copy, dassert_fails, process_gone, NoToken, Learnable,
     disk_vars
<1> QED
  BY <1>2, <1>3, <1>4, <1>5, <1>6, <1>7, <1>8, <1>9, <1>10, <1>11, <1>12, <1>13, <1>14, <1>15,
     <1>16, <1>17, <1>18, <1>19, <1>20, <1>21, <1>22, <1>23 DEF Next, gc_checkpoints

\* Sorting a list whose last entry is newer than all others leaves it last.
LEMMA SortingsLast ==
    ASSUME NEW S, \A x \in S : x \in Int, NEW s \in Seq(S), Len(s) > 0,
           \A i \in 1 .. (Len(s) - 1) : s[i] < s[Len(s)],
           NEW t \in Sortings(s)
    PROVE  /\ t \in Seq(S) /\ Len(t) = Len(s)
           /\ t[Len(s)] = s[Len(s)]
           /\ \A i \in 1 .. (Len(s) - 1) : t[i] < s[Len(s)]
<1> DEFINE n == Len(s)
<1>1. /\ t \in Seq(S) /\ Len(t) = n
      /\ \A i, j \in 1 .. n : i < j => t[i] <= t[j]
  BY SortingsResult
<1>2. PICK p \in [1 .. n -> 1 .. n] :
         /\ t = [i \in 1 .. n |-> s[p[i]]]
         /\ \A i, j \in 1 .. n : p[i] = p[j] => i = j
         /\ \A j \in 1 .. n : \E i \in 1 .. n : p[i] = j
  BY Zenon DEF Sortings
<1>3. n \in Nat /\ n \in 1 .. n /\ s[n] \in Int
  BY ElementOfSeq
<1>4. \A i \in 1 .. n : i # n => s[i] < s[n]
  BY <1>3
<1> HIDE DEF n
<1>5. PICK k \in 1 .. n : p[k] = n
  BY <1>2, <1>3
<1>6. ASSUME NEW i \in 1 .. n, i # k PROVE t[i] < s[n]
  <2>1. p[i] \in 1 .. n /\ p[i] # n
    BY <1>2, <1>5, <1>6, Zenon
  <2> QED
    BY <1>2, <1>4, <2>1, Zenon
<1>7. t[k] = s[n]
  BY <1>2, <1>5
<1>8. k = n
  <2>1. SUFFICES ASSUME k # n PROVE FALSE
    OBVIOUS
  <2>2. t[k] <= t[n]
    BY <1>1, <1>3, <2>1
  <2>3. t[n] \in Int
    BY <1>1, <1>3, ElementOfSeq
  <2>4. \A x, y \in Int : ~(x <= y /\ y < x)
    OBVIOUS
  <2> QED
    BY <1>3, <1>7, <2>2, <2>3, <2>4, Zenon, <1>6, <2>1
<1>9. \A i \in 1 .. (n - 1) : t[i] < s[n]
  BY <1>3, <1>6, <1>8
<1> QED
  BY <1>1, <1>7, <1>8, <1>9 DEF n

\* The last entry of _checkpoints is the newest and stays the durable decree.
LEMMA ListNext ==
    TypeOK /\ ControlInv /\ DurableIsLast /\ CollectedInv /\ [Next]_vars
        => DurableIsLast' /\ CollectedInv'
<1> SUFFICES ASSUME CheckpointsTypeOK, TokenTypeOK, ControlInv, DurableIsLast,
                    CollectedInv, [Next]_vars
             PROVE  DurableIsLast' /\ CollectedInv'
  BY DEF TypeOK
<1>1. /\ Len(checkpoints) \in Nat
      /\ checkpoints = <<>> <=> Len(checkpoints) = 0
      /\ \A i \in 1 .. Len(checkpoints) : checkpoints[i] \in Nat
      /\ last_durable_decree \in Nat
      /\ Len(<<>>) = 0
  BY DecreeNumbers, EmptySeq, ElementOfSeq DEF CheckpointsTypeOK
<1>2. CASE UNCHANGED vars
  BY <1>2, <1>1 DEF DurableIsLast, CollectedInv, back, vars, list_vars, token_vars
<1>3. ASSUME NEW r \in Requests, commit(r) PROVE DurableIsLast' /\ CollectedInv'
  BY <1>3, <1>1 DEF DurableIsLast, CollectedInv, back, commit, list_vars, token_vars
<1>4. CASE on_batched_write_requests
  BY <1>4, <1>1 DEF DurableIsLast, CollectedInv, back, on_batched_write_requests, list_vars,
     token_vars
<1>5. CASE switch_memtable
  BY <1>5, <1>1 DEF DurableIsLast, CollectedInv, back, switch_memtable, list_vars, token_vars
<1>6. CASE flush_job
  BY <1>6, <1>1 DEF DurableIsLast, CollectedInv, back, flush_job, list_vars, token_vars
<1>7. CASE sync_checkpoint
  BY <1>7, <1>1 DEF DurableIsLast, CollectedInv, back, sync_checkpoint, ControlInv, list_vars,
     token_vars
<1>8. CASE async_checkpoint
  BY <1>8, <1>1 DEF DurableIsLast, CollectedInv, back, async_checkpoint, ControlInv, list_vars,
     token_vars
<1>9. CASE async_checkpoint_emergency
  BY <1>5, <1>9 DEF async_checkpoint_emergency
<1>10. CASE async_checkpoint_create
  BY <1>10, <1>1 DEF DurableIsLast, CollectedInv, back, async_checkpoint_create,
     async_checkpoint_fails, NoToken, ControlInv, list_vars, token_vars
<1>11. CASE install_checkpoint
  <2>1. CASE /\ ci > last_durable_decree
             /\ checkpoints' = Append(checkpoints, ci)
             /\ last_durable_decree' = ci
             /\ UNCHANGED <<to_delete_list, put_back_list>>
    <3>1. ci \in Decree
      BY <2>1, DecreeFacts DEF CheckpointsTypeOK, TokenTypeOK
    <3>2. /\ checkpoints' # <<>> /\ Len(checkpoints') = Len(checkpoints) + 1
          /\ checkpoints'[Len(checkpoints) + 1] = ci
          /\ \A i \in 1 .. Len(checkpoints) : checkpoints'[i] = checkpoints[i]
      BY <2>1, <3>1, AppendProperties DEF CheckpointsTypeOK
    <3>3. \A i \in 1 .. Len(checkpoints) : checkpoints[i] <= last_durable_decree
      BY <1>1 DEF DurableIsLast, back
    <3> QED
      BY <1>1, <2>1, <3>2, <3>1, <3>3, DecreeNumbers, <1>11 DEF CollectedInv, DurableIsLast,
         back, install_checkpoint, ControlInv
  <2>2. CASE process_gone
    BY <1>1, <2>2 DEF process_gone, NoToken, DurableIsLast, CollectedInv
  <2> QED
    BY <1>11, <2>1, <2>2 DEF install_checkpoint, dassert_fails
<1>12. CASE gc_checkpoints_scan
  BY <1>12, <1>1 DEF DurableIsLast, CollectedInv, back, gc_checkpoints_scan, list_vars,
     token_vars
<1>13. CASE gc_checkpoints_erase
  <2>1. PICK n \in 0 .. (Len(checkpoints) - ReserveMin) :
           /\ to_delete_list' = SubSeq(checkpoints, 1, n)
           /\ checkpoints' = IF n - 1 > 0
                             THEN SubSeq(checkpoints, n + 1, Len(checkpoints))
                             ELSE checkpoints
    BY <1>13 DEF gc_checkpoints_erase, collectable
  <2> DEFINE m == Len(checkpoints)
  <2>2. /\ m \in Nat /\ n \in Nat /\ n < m /\ checkpoints # <<>>
        /\ \A i \in 1 .. m : checkpoints[i] \in Decree
    BY <1>1, ElementOfSeq, ConstantsAssumption DEF CheckpointsTypeOK
  <2>3. /\ last_durable_decree = checkpoints[m]
        /\ \A i \in 1 .. (m - 1) : checkpoints[i] < checkpoints[m]
    BY <2>2 DEF DurableIsLast, back
  <2>4. /\ Len(SubSeq(checkpoints, 1, n)) = n
        /\ \A i \in 1 .. n : SubSeq(checkpoints, 1, n)[i] = checkpoints[i]
    BY <2>2, SubSeqProperties
  <2>5. /\ SubSeq(checkpoints, n + 1, m) \in Seq(Decree)
        /\ Len(SubSeq(checkpoints, n + 1, m)) = m - n
        /\ \A i \in 1 .. (m - n) :
               SubSeq(checkpoints, n + 1, m)[i] = checkpoints[n + i]
    BY <2>2, SubSeqProperties
  <2> HIDE DEF m
  <2>6. CASE checkpoints' = checkpoints
    <3>1. DurableIsLast'
      BY <1>13, <2>6, Zenon DEF gc_checkpoints_erase, DurableIsLast, back
    <3> QED
      BY <1>13, <1>1, <2>1, <2>2, <2>3, <2>4, <2>6, <3>1 DEF gc_checkpoints_erase, CollectedInv
  <2>7. CASE checkpoints' = SubSeq(checkpoints, n + 1, m)
    <3>1. /\ Len(checkpoints') = m - n /\ checkpoints' # <<>>
          /\ checkpoints'[m - n] = last_durable_decree
          /\ \A i \in 1 .. (m - n - 1) :
                 checkpoints'[i] < last_durable_decree
      BY <2>2, <2>3, <2>5, <2>7, EmptySeq
    <3>2. DurableIsLast'
      BY <3>1, <1>13 DEF DurableIsLast, back, gc_checkpoints_erase
    <3> QED
      BY <1>13, <1>1, <2>1, <2>2, <2>3, <2>4, <3>1, <3>2 DEF gc_checkpoints_erase, CollectedInv
  <2> QED
    BY <2>1, <2>6, <2>7 DEF m
<1>14. CASE gc_checkpoints_remove
  <2>1. /\ Head(to_delete_list) = to_delete_list[1]
        /\ Len(to_delete_list) \in Nat /\ Len(to_delete_list) > 0
        /\ Len(Tail(to_delete_list)) = Len(to_delete_list) - 1
        /\ \A i \in 1 .. Len(Tail(to_delete_list)) :
               Tail(to_delete_list)[i] = to_delete_list[i + 1]
        /\ to_delete_list[1] \in Decree
    BY <1>14, HeadTailProperties, EmptySeq, ElementOfSeq DEF gc_checkpoints_remove, TokenTypeOK
  <2> DEFINE p == Append(put_back_list, to_delete_list[1])
  <2>2. /\ Len(p) = Len(put_back_list) + 1 /\ Len(put_back_list) \in Nat
        /\ p[Len(put_back_list) + 1] = to_delete_list[1]
        /\ \A i \in 1 .. Len(put_back_list) : p[i] = put_back_list[i]
    BY <2>1, AppendProperties DEF TokenTypeOK
  <2>3. /\ put_back_list' = put_back_list \/ put_back_list' = p
        /\ to_delete_list' = Tail(to_delete_list)
        /\ UNCHANGED <<checkpoints, last_durable_decree, pc>>
    BY <1>14, <2>1 DEF gc_checkpoints_remove, list_vars
  <2> HIDE DEF p
  <2>4. \A i \in 1 .. Len(p) : p[i] < last_durable_decree
    BY <2>1, <2>2 DEF CollectedInv
  <2>5. \A i \in 1 .. Len(to_delete_list') :
            to_delete_list'[i] < last_durable_decree
    BY <2>1, <2>3 DEF CollectedInv
  <2>6. DurableIsLast'
    BY <2>3 DEF DurableIsLast, back
  <2> QED
    BY <2>3, <2>4, <2>5, <2>6 DEF CollectedInv
<1>15. CASE gc_checkpoints_put_back
  <2> DEFINE ins == put_back_list \o checkpoints
             a == Len(put_back_list)
             m == Len(checkpoints)
  <2>1. /\ m \in Nat /\ m > 0 /\ a \in Nat
        /\ last_durable_decree = checkpoints[m]
        /\ \A i \in 1 .. (m - 1) : checkpoints[i] < last_durable_decree
        /\ \A i \in 1 .. a : put_back_list[i] < last_durable_decree
    BY <1>15, <1>1 DEF gc_checkpoints_put_back, TokenTypeOK, DurableIsLast, CollectedInv, back
  <2>2. /\ ins \in Seq(Decree) /\ Len(ins) = a + m
        /\ \A i \in 1 .. a + m :
               ins[i] = IF i <= a THEN put_back_list[i] ELSE checkpoints[i - a]
    BY ConcatProperties DEF CheckpointsTypeOK, TokenTypeOK
  <2>3. /\ to_delete_list' = to_delete_list /\ to_delete_list = <<>>
        /\ put_back_list' = <<>> /\ pc' = "return"
        /\ last_durable_decree' = last_durable_decree
        /\ checkpoints' = ins \/ checkpoints' \in Sortings(ins)
    BY <1>15 DEF gc_checkpoints_put_back
  <2> HIDE DEF ins, a, m
  <2>4. /\ ins[a + m] = last_durable_decree
        /\ \A i \in 1 .. (a + m - 1) : ins[i] < last_durable_decree
    BY <2>1, <2>2
  <2>5. CASE checkpoints' = ins
    BY <1>1, <2>3, <2>1, <2>2, <2>5, EmptySeq, <2>4 DEF CollectedInv, DurableIsLast, back
  <2>6. CASE checkpoints' \in Sortings(ins)
    <3>1. a + m \in Nat /\ a + m > 0 /\ \A d \in Decree : d \in Int
      BY <2>1, DecreeNumbers
    <3>2. /\ checkpoints' \in Seq(Decree) /\ Len(checkpoints') = a + m
          /\ checkpoints'[a + m] = last_durable_decree
          /\ \A i \in 1 .. (a + m - 1) : checkpoints'[i] < last_durable_decree
      <4>1. /\ ins \in Seq(Decree) /\ Len(ins) = a + m /\ Len(ins) > 0
            /\ \A i \in 1 .. (Len(ins) - 1) : ins[i] < ins[Len(ins)]
        BY <2>1, <2>2, <2>4, <3>1
      <4>2. /\ checkpoints' \in Seq(Decree) /\ Len(checkpoints') = Len(ins)
            /\ checkpoints'[Len(ins)] = ins[Len(ins)]
            /\ \A i \in 1 .. (Len(ins) - 1) : checkpoints'[i] < ins[Len(ins)]
        BY <2>6, <3>1, <4>1, SortingsLast
      <4> QED
        BY <2>1, <2>4, <4>1, <4>2
    <3> QED
      BY <1>1, <2>3, <3>1, <3>2, EmptySeq, <2>1 DEF CollectedInv, DurableIsLast, back
  <2> QED
    BY <2>3, <2>5, <2>6
<1>16. CASE checkpoint_return
  BY <1>16, <1>1 DEF DurableIsLast, CollectedInv, back, checkpoint_return, dassert_fails,
     process_gone, NoToken, ControlInv, list_vars, token_vars
<1>17. CASE start
  BY <1>17, ParseResult, <1>1 DEF Existing, start, DurableIsLast, back, ControlInv, CollectedInv
<1>18. CASE stop
  BY <1>18, <1>1 DEF DurableIsLast, CollectedInv, back, stop, process_gone, NoToken, list_vars,
     token_vars
<1>19. CASE crash
  BY <1>19, <1>1 DEF DurableIsLast, CollectedInv, back, crash, process_gone, NoToken, list_vars,
     token_vars
<1>20. CASE apply_checkpoint_learn
  BY <1>20, <1>1 DEF DurableIsLast, CollectedInv, back, apply_checkpoint_learn, ControlInv,
     list_vars, token_vars
<1>21. CASE apply_checkpoint_reopen
  BY <1>21, <1>1, ParseResult DEF apply_checkpoint_reopen, ControlInv, list_vars, DurableIsLast,
     CollectedInv, back
<1>22. CASE crash_while_clearing
  BY <1>22, <1>1 DEF DurableIsLast, CollectedInv, back, crash_while_clearing, process_gone,
     NoToken, list_vars, token_vars
<1>23. CASE apply_checkpoint_copy
  BY <1>23, <1>1 DEF DurableIsLast, CollectedInv, back, apply_checkpoint_copy, dassert_fails,
     process_gone, NoToken, list_vars, token_vars
<1> QED
  BY <1>2, <1>3, <1>4, <1>5, <1>6, <1>7, <1>8, <1>9, <1>10, <1>11, <1>12, <1>13, <1>14, <1>15,
     <1>16, <1>17, <1>18, <1>19, <1>20, <1>21, <1>22, <1>23 DEF Next, gc_checkpoints

\* A checkpoint is installed only over older ones, from a whole directory.
LEMMA InstallNext ==
    /\ TypeOK /\ ControlInv /\ DatabaseInv /\ RdbHoldsApplied /\ InstallInv
    /\ [Next]_vars
    => InstallInv'
<1> SUFFICES ASSUME ReplicaTypeOK, CheckpointsTypeOK, TokenTypeOK, ControlInv,
                    DatabaseInv, RdbHoldsApplied, InstallInv, [Next]_vars
             PROVE  InstallInv'
  BY DEF TypeOK
<1>1. /\ applied \in Nat /\ written \in Nat /\ imm \in Nat
      /\ flushed \in Nat /\ last_durable_decree \in Nat
      /\ learn_state[2] \in Nat
  BY DecreeNumbers DEF ReplicaTypeOK, CheckpointsTypeOK
<1>2. /\ caller \in Callers
      /\ dirs \in [Decree -> {"absent", "partial", "whole"}]
  BY DEF TokenTypeOK, CheckpointsTypeOK
<1> USE <1>1, <1>2 DEF InstallInv, ControlInv, Callers
<1>3. CASE UNCHANGED vars
  BY <1>3 DEF vars, disk_vars, list_vars, token_vars, db_vars
<1>4. ASSUME NEW r \in Requests, commit(r) PROVE InstallInv'
  BY <1>4 DEF commit, disk_vars, list_vars, token_vars, db_vars
<1>5. CASE on_batched_write_requests
  BY <1>5, DecreeNumbers DEF on_batched_write_requests, disk_vars, list_vars, token_vars
<1>6. CASE switch_memtable
  BY <1>6 DEF switch_memtable, disk_vars, list_vars, token_vars, db_vars
<1>7. CASE flush_job
  BY <1>7 DEF flush_job, disk_vars, list_vars, token_vars, db_vars
<1>8. CASE sync_checkpoint
  BY <1>8, DecreeFacts DEF sync_checkpoint, replica_thread_free, list_vars, token_vars,
     ReplicaTypeOK, CheckpointsTypeOK
<1>9. CASE async_checkpoint
  BY <1>9 DEF async_checkpoint, disk_vars, list_vars, token_vars, db_vars
<1>10. CASE async_checkpoint_emergency
  BY <1>6, <1>10 DEF async_checkpoint_emergency
<1>11. CASE async_checkpoint_create
  <2>1. CASE pc' = "install"
    <3>1. phase = "open" => flushed <= applied
      BY DEF DatabaseInv, RdbHoldsApplied, Covers
    <3> QED
      BY <2>1, <3>1, <1>11, DecreeFacts, Zenon DEF async_checkpoint_create, async_checkpoint_fails,
         NoToken, quick_decree, list_vars, db_vars, ReplicaTypeOK, CheckpointsTypeOK
  <2>2. CASE pc' # "install"
    BY <1>11, <2>2, Zenon DEF async_checkpoint_create, async_checkpoint_fails, NoToken, list_vars,
       db_vars
  <2> QED
    BY <2>1, <2>2
<1>12. CASE install_checkpoint
  BY <1>12 DEF install_checkpoint, dassert_fails, process_gone, NoToken, disk_vars, list_vars,
     token_vars, db_vars
<1>13. CASE gc_checkpoints_scan
  BY <1>13 DEF gc_checkpoints_scan, disk_vars, list_vars, token_vars, db_vars
<1>14. CASE gc_checkpoints_erase
  BY <1>14 DEF gc_checkpoints_erase, disk_vars, list_vars, token_vars, db_vars
<1>15. CASE gc_checkpoints_remove
  BY <1>15 DEF gc_checkpoints_remove, disk_vars, list_vars, token_vars, db_vars
<1>16. CASE gc_checkpoints_put_back
  BY <1>16 DEF gc_checkpoints_put_back, disk_vars, list_vars, token_vars, db_vars
<1>17. CASE checkpoint_return
  BY <1>17 DEF checkpoint_return, dassert_fails, process_gone, NoToken,
     get_last_checkpoint_decree, disk_vars, list_vars, token_vars, db_vars
<1>18. CASE start
  BY <1>18, ParseResult DEF Existing, start, disk_vars, db_vars
<1>19. CASE stop
  BY <1>19 DEF stop, process_gone, NoToken, disk_vars, list_vars, token_vars, db_vars
<1>20. CASE crash
  BY <1>20 DEF crash, process_gone, NoToken, disk_vars, list_vars, token_vars, db_vars
<1>21. CASE apply_checkpoint_learn
  BY <1>21 DEF apply_checkpoint_learn, disk_vars, list_vars, token_vars, db_vars
<1>22. CASE apply_checkpoint_reopen
  BY <1>22, ParseResult DEF apply_checkpoint_reopen
<1>23. CASE crash_while_clearing
  BY <1>23 DEF crash_while_clearing, process_gone, NoToken, disk_vars, list_vars, token_vars,
     db_vars
<1>24. CASE apply_checkpoint_copy
  BY <1>24 DEF apply_checkpoint_copy, dassert_fails, process_gone, NoToken, disk_vars,
     list_vars, token_vars, db_vars
<1> QED
  BY <1>3, <1>4, <1>5, <1>6, <1>7, <1>8, <1>9, <1>10, <1>11, <1>12, <1>13, <1>14, <1>15, <1>16,
     <1>17, <1>18, <1>19, <1>20, <1>21, <1>22, <1>23, <1>24, Zenon DEF Next, gc_checkpoints

\* The assertions of sync_checkpoint, async_checkpoint and start() hold: only
\* the two of apply_checkpoint can fail.
LEMMA AssertNext ==
    /\ TypeOK /\ DurableIsLast /\ InstallInv /\ AssertInv /\ [Next]_vars
    => AssertInv'
<1> SUFFICES ASSUME CheckpointsTypeOK, DurableIsLast, InstallInv, AssertInv,
                    [Next]_vars
             PROVE  AssertInv'
  BY DEF TypeOK
<1> USE DEF AssertInv
<1>1. CASE UNCHANGED vars
  BY <1>1 DEF vars, ret_vars
<1>2. ASSUME NEW r \in Requests, commit(r) PROVE AssertInv'
  BY <1>2 DEF commit, ret_vars
<1>3. CASE on_batched_write_requests
  BY <1>3 DEF on_batched_write_requests, ret_vars
<1>4. CASE switch_memtable
  BY <1>4 DEF switch_memtable, ret_vars
<1>5. CASE flush_job
  BY <1>5 DEF flush_job, ret_vars
<1>6. CASE sync_checkpoint
  BY <1>6 DEF sync_checkpoint, ret_vars
<1>7. CASE async_checkpoint
  BY <1>7 DEF async_checkpoint, ret_vars
<1>8. CASE async_checkpoint_emergency
  BY <1>4, <1>8 DEF async_checkpoint_emergency
<1>9. CASE async_checkpoint_create
  BY <1>9 DEF async_checkpoint_create, async_checkpoint_fails, NoToken, ret_vars
<1>10. CASE install_checkpoint
  BY <1>10, DecreeNumbers, Zenon DEF install_checkpoint, InstallInv, CheckpointsTypeOK, DurableIsLast,
     ret_vars
<1>11. CASE gc_checkpoints_scan
  BY <1>11 DEF gc_checkpoints_scan, ret_vars
<1>12. CASE gc_checkpoints_erase
  BY <1>12 DEF gc_checkpoints_erase, ret_vars
<1>13. CASE gc_checkpoints_remove
  BY <1>13 DEF gc_checkpoints_remove, ret_vars
<1>14. CASE gc_checkpoints_put_back
  BY <1>14 DEF gc_checkpoints_put_back, ret_vars
<1>15. CASE checkpoint_return
  BY <1>15 DEF checkpoint_return, InstallInv, dassert_fails
<1>16. CASE start
  BY <1>16 DEF start, ret_vars
<1>17. CASE stop
  BY <1>17 DEF stop, process_gone, NoToken, ret_vars
<1>18. CASE crash
  BY <1>18 DEF crash, process_gone, NoToken, ret_vars
<1>19. CASE apply_checkpoint_learn
  BY <1>19 DEF apply_checkpoint_learn, ret_vars
<1>20. CASE apply_checkpoint_reopen
  BY <1>20 DEF apply_checkpoint_reopen, ret_vars
<1>21. CASE crash_while_clearing
  BY <1>21 DEF crash_while_clearing, process_gone, NoToken, ret_vars
<1>22. CASE apply_checkpoint_copy
  BY <1>22 DEF apply_checkpoint_copy, dassert_fails, process_gone, NoToken, ret_vars
<1> QED
  BY <1>1, <1>2, <1>3, <1>4, <1>5, <1>6, <1>7, <1>8, <1>9, <1>10, <1>11, <1>12, <1>13, <1>14,
     <1>15, <1>16, <1>17, <1>18, <1>19, <1>20, <1>21, <1>22 DEF Next, gc_checkpoints

\* Without empty requests the log stays free of them.
LEMMA WritesOnlyNext ==
    ASSUME "noop" \notin Requests, TypeOK, WritesOnly, [Next]_vars
    PROVE  WritesOnly'
<1> USE DEF WritesOnly
<1>1. CASE UNCHANGED vars
  BY <1>1 DEF vars
<1>2. ASSUME NEW r \in Requests, commit(r) PROVE WritesOnly'
  <2>1. log \in Seq({"write", "noop"}) /\ r = "write" /\ r \in {"write", "noop"}
    BY ConstantsAssumption DEF TypeOK, ReplicaTypeOK
  <2>2. log' = Append(log, r)
    BY <1>2 DEF commit
  <2>3. /\ Len(log') = Len(log) + 1 /\ \A d \in 1 .. Len(log) : log'[d] = log[d]
        /\ log'[Len(log) + 1] = r
    BY <2>1, <2>2, AppendProperties
  <2>4. Len(log) \in Nat
    BY <2>1
  <2> QED
    BY <2>1, <2>3, <2>4
<1>3. CASE on_batched_write_requests
  BY <1>3 DEF on_batched_write_requests
<1>4. CASE switch_memtable
  BY <1>4 DEF switch_memtable
<1>5. CASE flush_job
  BY <1>5 DEF flush_job
<1>6. CASE sync_checkpoint
  BY <1>6 DEF sync_checkpoint
<1>7. CASE async_checkpoint
  BY <1>7 DEF async_checkpoint
<1>8. CASE async_checkpoint_emergency
  BY <1>4, <1>8 DEF async_checkpoint_emergency
<1>9. CASE async_checkpoint_create
  BY <1>9 DEF async_checkpoint_create, async_checkpoint_fails, NoToken
<1>10. CASE install_checkpoint
  BY <1>10 DEF install_checkpoint, dassert_fails, process_gone, NoToken
<1>11. CASE gc_checkpoints_scan
  BY <1>11 DEF gc_checkpoints_scan
<1>12. CASE gc_checkpoints_erase
  BY <1>12 DEF gc_checkpoints_erase
<1>13. CASE gc_checkpoints_remove
  BY <1>13 DEF gc_checkpoints_remove
<1>14. CASE gc_checkpoints_put_back
  BY <1>14 DEF gc_checkpoints_put_back
<1>15. CASE checkpoint_return
  BY <1>15 DEF checkpoint_return, dassert_fails, process_gone, NoToken
<1>16. CASE start
  BY <1>16 DEF start
<1>17. CASE stop
  BY <1>17 DEF stop, process_gone, NoToken
<1>18. CASE crash
  BY <1>18 DEF crash, process_gone, NoToken
<1>19. CASE apply_checkpoint_learn
  BY <1>19 DEF apply_checkpoint_learn
<1>20. CASE apply_checkpoint_reopen
  BY <1>20 DEF apply_checkpoint_reopen
<1>21. CASE crash_while_clearing
  BY <1>21 DEF crash_while_clearing, process_gone, NoToken
<1>22. CASE apply_checkpoint_copy
  BY <1>22 DEF apply_checkpoint_copy, dassert_fails, process_gone, NoToken
<1> QED
  BY <1>1, <1>2, <1>3, <1>4, <1>5, <1>6, <1>7, <1>8, <1>9, <1>10, <1>11, <1>12, <1>13, <1>14,
     <1>15, <1>16, <1>17, <1>18, <1>19, <1>20, <1>21, <1>22 DEF Next, gc_checkpoints

\* Without empty requests and without DSN_CHKPT_COPY no assertion fails.
LEMMA NoAssertNext ==
    ASSUME "copy" \notin Calls, TypeOK, WritesOnly, DatabaseInv, DurableIsLast,
           InstallInv, NoAssertFails, [Next]_vars
    PROVE  NoAssertFails'
<1> USE DEF NoAssertFails
<1>1. CASE UNCHANGED vars
  BY <1>1 DEF vars, ret_vars
<1>2. ASSUME NEW r \in Requests, commit(r) PROVE NoAssertFails'
  BY <1>2 DEF commit, ret_vars
<1>3. CASE on_batched_write_requests
  BY <1>3 DEF on_batched_write_requests, ret_vars
<1>4. CASE switch_memtable
  BY <1>4 DEF switch_memtable, ret_vars
<1>5. CASE flush_job
  BY <1>5 DEF flush_job, ret_vars
<1>6. CASE sync_checkpoint
  BY <1>6 DEF sync_checkpoint, ret_vars
<1>7. CASE async_checkpoint
  BY <1>7 DEF async_checkpoint, ret_vars
<1>8. CASE async_checkpoint_emergency
  BY <1>4, <1>8 DEF async_checkpoint_emergency
<1>9. CASE async_checkpoint_create
  BY <1>9 DEF async_checkpoint_create, async_checkpoint_fails, NoToken, ret_vars
<1>10. CASE install_checkpoint
  BY <1>10, DecreeNumbers, Zenon DEF install_checkpoint, InstallInv, TypeOK, CheckpointsTypeOK,
     DurableIsLast, ret_vars
<1>11. CASE gc_checkpoints_scan
  BY <1>11 DEF gc_checkpoints_scan, ret_vars
<1>12. CASE gc_checkpoints_erase
  BY <1>12 DEF gc_checkpoints_erase, ret_vars
<1>13. CASE gc_checkpoints_remove
  BY <1>13 DEF gc_checkpoints_remove, ret_vars
<1>14. CASE gc_checkpoints_put_back
  BY <1>14 DEF gc_checkpoints_put_back, ret_vars
<1>15. CASE checkpoint_return
  BY DecreeNumbers, <1>15 DEF DatabaseInv, Covers, WritesOnly, TypeOK, ReplicaTypeOK,
     checkpoint_return, dassert_fails, InstallInv
<1>16. CASE start
  BY <1>16 DEF start, ret_vars
<1>17. CASE stop
  BY <1>17 DEF stop, process_gone, NoToken, ret_vars
<1>18. CASE crash
  BY <1>18 DEF crash, process_gone, NoToken, ret_vars
<1>19. CASE apply_checkpoint_learn
  BY <1>19 DEF apply_checkpoint_learn, ret_vars
<1>20. CASE apply_checkpoint_reopen
  BY <1>20 DEF apply_checkpoint_reopen, ret_vars
<1>21. CASE crash_while_clearing
  BY <1>21 DEF crash_while_clearing, process_gone, NoToken, ret_vars
<1>22. CASE apply_checkpoint_copy
  BY <1>22 DEF apply_checkpoint_copy, dassert_fails, process_gone, NoToken, ret_vars
<1> QED
  BY <1>1, <1>2, <1>3, <1>4, <1>5, <1>6, <1>7, <1>8, <1>9, <1>10, <1>11, <1>12, <1>13, <1>14,
     <1>15, <1>16, <1>17, <1>18, <1>19, <1>20, <1>21, <1>22 DEF Next, gc_checkpoints

\* Unless an fsync fails or a crash meets the clearing of the data directory,
\* the newest directory on disk is whole, so a restart finds it whole.
LEMMA NewestNext ==
    ASSUME "fsync" \notin Faults, "clear" \notin Faults, TypeOK, ControlInv,
           CollectedInv, InstallInv, NewestInv, [Next]_vars
    PROVE  NewestInv'
<1>1. /\ applied \in Nat /\ flushed \in Nat /\ last_durable_decree \in Nat
      /\ ci \in Nat
  BY DecreeNumbers DEF TypeOK, ReplicaTypeOK, CheckpointsTypeOK, TokenTypeOK
<1>2. /\ dirs \in [Decree -> {"absent", "partial", "whole"}]
      /\ caller \in Callers
      /\ phase \in Phases
  BY DEF TypeOK, ReplicaTypeOK, TokenTypeOK, CheckpointsTypeOK
<1>3. ASSUME NEW n \in Decree, phase \in {"starting", "open"},
             pc # "install", last_durable_decree < n
      PROVE  dirs[n] = "absent"
  BY <1>1, <1>3, DecreeNumbers DEF NewestInv
<1>4. ASSUME NEW n \in Decree, dirs[n] = "absent", NEW v \in {"absent", "whole"},
             dirs' = [dirs EXCEPT ![n] = v]
      PROVE  /\ \A d \in Decree : dirs'[d] = IF d = n THEN v ELSE dirs[d]
             /\ \A d \in Decree : dirs'[d] = "partial" =>
                   \E e \in Decree : d < e /\ dirs'[e] = "whole"
  BY <1>2, <1>4 DEF NewestInv
<1> USE DEF NewestInv
<1>5. CASE UNCHANGED vars
  BY <1>5 DEF vars, disk_vars, list_vars, token_vars
<1>6. ASSUME NEW r \in Requests, commit(r) PROVE NewestInv'
  BY <1>6 DEF commit, disk_vars, list_vars, token_vars
<1>7. CASE on_batched_write_requests
  BY <1>7 DEF on_batched_write_requests, replica_thread_free, disk_vars, list_vars, token_vars
<1>8. CASE switch_memtable
  BY <1>8 DEF switch_memtable, disk_vars, list_vars, token_vars
<1>9. CASE flush_job
  BY <1>9 DEF flush_job, disk_vars, list_vars, token_vars
<1>10. CASE sync_checkpoint
  <2>1. /\ phase = "open" /\ phase' = phase /\ pc = "idle"
        /\ last_durable_decree' = last_durable_decree
        /\ last_durable_decree # applied
    BY <1>10 DEF sync_checkpoint, replica_thread_free, list_vars
  <2>2. last_durable_decree < applied
    BY <1>1, <2>1 DEF InstallInv
  <2>3. applied \in Decree
    BY <1>1, <2>2, DecreeFacts DEF TypeOK, ReplicaTypeOK, CheckpointsTypeOK
  <2>4. dirs[applied] = "absent"
    BY <1>3, <2>1, <2>2, <2>3
  <2>5. CASE dirs' = [dirs EXCEPT ![applied] = "absent"] /\ UNCHANGED token_vars
    BY <1>1, <1>4, <2>1, <2>3, <2>4, <2>5, DecreeNumbers DEF token_vars
  <2>6. CASE /\ dirs' = [dirs EXCEPT ![applied] = "whole"]
             /\ pc' = "install" /\ ci' = applied
    BY <1>1, <1>4, <2>1, <2>2, <2>3, <2>4, <2>6, DecreeNumbers
  <2> QED
    BY <1>10, <2>4, <2>5, <2>6 DEF sync_checkpoint
<1>11. CASE async_checkpoint
  BY <1>11 DEF async_checkpoint, disk_vars, list_vars, token_vars
<1>12. CASE async_checkpoint_emergency
  BY <1>8, <1>12 DEF async_checkpoint_emergency
<1>13. CASE async_checkpoint_create
  <2>1. /\ pc = "create" /\ phase \in {"starting", "open"}
        /\ last_durable_decree' = last_durable_decree
    BY <1>2, <1>13 DEF async_checkpoint_create, async_checkpoint_fails, list_vars, ControlInv,
       Phases
  <2>2. CASE /\ phase' \in {phase, "closed"} /\ dirs' = dirs
    BY <1>1, <2>1, <2>2
  <2>3. CASE ~(phase' \in {phase, "closed"} /\ dirs' = dirs)
    <3>1. last_durable_decree < flushed
      BY <1>2, <1>13, <2>3 DEF async_checkpoint_create, async_checkpoint_fails, quick_decree
    <3>2. flushed \in Decree
      BY <1>1, <3>1, DecreeFacts DEF TypeOK, ReplicaTypeOK, CheckpointsTypeOK
    <3>3. dirs[flushed] = "absent"
      BY <1>3, <2>1, <3>1, <3>2
    <3>4. CASE /\ dirs' = [dirs EXCEPT ![flushed] = "absent"]
               /\ phase' \in {phase, "closed"}
      BY <1>1, <1>4, <2>1, <3>2, <3>3, <3>4, DecreeNumbers
    <3>5. CASE /\ dirs' = [dirs EXCEPT ![flushed] = "whole"]
               /\ pc' = "install" /\ ci' = flushed
      BY <1>1, <1>4, <2>1, <3>1, <3>2, <3>3, <3>5, DecreeNumbers
    <3> QED
      BY <1>13, <2>3, <3>3, <3>4, <3>5, Zenon DEF async_checkpoint_create, async_checkpoint_fails,
         quick_decree
  <2> QED
    BY <2>2, <2>3
<1>14. CASE install_checkpoint
  BY <1>14, <1>1, DecreeNumbers DEF install_checkpoint, disk_vars, dassert_fails, process_gone,
     InstallInv
<1>15. CASE gc_checkpoints_scan
  BY <1>15 DEF gc_checkpoints_scan, disk_vars, list_vars, token_vars
<1>16. CASE gc_checkpoints_erase
  BY <1>16 DEF gc_checkpoints_erase, disk_vars, list_vars, token_vars
<1>17. CASE gc_checkpoints_remove
  <2> DEFINE del_d == to_delete_list[1]
  <2>1. /\ to_delete_list \in Seq(Decree) /\ to_delete_list # <<>>
    BY <1>17 DEF gc_checkpoints_remove, TypeOK, TokenTypeOK
  <2>2. 1 \in 1 .. Len(to_delete_list) /\ del_d \in Decree
    BY <2>1
  <2>3. del_d < last_durable_decree
    BY <2>2 DEF CollectedInv
  <2>4. last_durable_decree \in Decree
    BY <1>1, <2>2, <2>3, DecreeFacts, DecreeNumbers, Zenon DEF TypeOK, CheckpointsTypeOK
  <2>5. /\ UNCHANGED <<phase, last_durable_decree, pc, ci>> /\ pc = "gc_remove"
        /\ \E v \in {"absent", "partial", dirs[del_d]} :
               dirs' = [dirs EXCEPT ![del_d] = v]
        /\ dirs' # dirs => dirs[del_d] # "absent"
    BY <2>1, <1>2, <2>2, <1>17 DEF gc_checkpoints_remove, list_vars, Leftover
  <2>6. phase \in {"starting", "open"}
    BY <1>2, <2>5 DEF ControlInv, Phases
  <2>7. ASSUME NEW d \in Decree
        PROVE  /\ d # del_d => dirs'[d] = dirs[d]
               /\ dirs'[d] # "absent" => dirs[d] # "absent"
    BY <1>2, <2>2, <2>5
  <2>8. dirs[last_durable_decree] = "whole" /\ dirs'[last_durable_decree] = "whole"
    BY <1>1, <2>2, <2>3, DecreeNumbers, <2>4, <2>7, <2>6
  <2>9. ASSUME NEW d \in Decree, dirs'[d] = "partial"
         PROVE  \E e \in Decree : d < e /\ dirs'[e] = "whole"
    BY <2>5, <2>6, <2>7, <2>9, <2>8, <1>1, DecreeNumbers, <2>4
  <2> QED
    BY <2>5, <2>6, <2>7, <2>8, <2>9
<1>18. CASE gc_checkpoints_put_back
  BY <1>18 DEF gc_checkpoints_put_back, disk_vars, list_vars, token_vars
<1>19. CASE checkpoint_return
  BY <1>19 DEF checkpoint_return, dassert_fails, process_gone, NoToken, ControlInv, disk_vars,
     list_vars, token_vars
<1>20. CASE start
  <2>1. Existing \in SUBSET Decree /\ dirs' = dirs /\ phase' = "starting"
    BY <1>20 DEF start, disk_vars, Existing
  <2>2. /\ Existing = {} => last_durable_decree' = 0
        /\ Existing # {} => /\ last_durable_decree' \in Existing
                           /\ \A d \in Existing : d <= last_durable_decree'
    BY <1>20, <2>1, ParseResult DEF start
  <2>3. ASSUME NEW d \in Decree, dirs[d] # "absent"
        PROVE  d <= last_durable_decree'
    BY <2>2, <2>3 DEF Existing
  <2>4. CASE Existing = {}
    BY <2>1, <2>2, <2>3, <2>4
  <2>5. CASE Existing # {}
    <3> DEFINE top == last_durable_decree'
    <3>1. top \in Decree /\ dirs[top] # "absent"
      BY <2>2, <2>5 DEF Existing
    <3>2. ASSUME dirs[top] = "partial" PROVE FALSE
      BY <3>1, <3>2, <2>3, DecreeNumbers
    <3>3. dirs[top] = "whole"
      BY <1>2, <3>1, <3>2
    <3> QED
      BY <2>1, <2>3, <3>3
  <2> QED
    BY <2>4, <2>5
<1>21. CASE stop
  BY <1>21 DEF stop, process_gone, NoToken, disk_vars, list_vars, token_vars
<1>22. CASE crash
  BY <1>22 DEF crash, process_gone, NoToken, ControlInv, disk_vars, list_vars, token_vars
<1>23. CASE apply_checkpoint_learn
  BY <1>23 DEF apply_checkpoint_learn, disk_vars, list_vars, token_vars
<1>24. CASE apply_checkpoint_reopen
  BY <1>24, ParseResult DEF NoDirs, apply_checkpoint_reopen, disk_vars
<1>25. CASE crash_while_clearing
  BY <1>25 DEF crash_while_clearing
<1>26. CASE apply_checkpoint_copy
  BY <1>26, <1>1, ConstantsAssumption, <1>4 DEF apply_checkpoint_copy, dassert_fails,
     process_gone, TypeOK, ReplicaTypeOK, Decree
<1> QED
  BY <1>5, <1>6, <1>7, <1>8, <1>9, <1>10, <1>11, <1>12, <1>13, <1>14, <1>15, <1>16, <1>17,
     <1>18, <1>19, <1>20, <1>21, <1>22, <1>23, <1>24, <1>25, <1>26, Zenon DEF Next, gc_checkpoints


----------------------------------------------------------------------------
(* The theorems.                                                           *)

\* The inductive invariant of the replica's storage.
StoreInv ==
    /\ TypeOK /\ ControlInv /\ DatabaseInv /\ RdbHoldsApplied
    /\ CheckpointExact /\ DurableIsLast /\ CollectedInv /\ InstallInv
    /\ AssertInv

\* A new replica, with an empty log and an empty data directory, satisfies it.
LEMMA StoreInit == Init => StoreInv /\ WritesOnly /\ NoAssertFails /\ NewestInv
<1> SUFFICES ASSUME Init PROVE StoreInv /\ WritesOnly /\ NoAssertFails /\ NewestInv
  OBVIOUS
<1>1. CheckpointExact /\ NewestInv
  BY DEF Init, CheckpointExact, NewestInv
<1>2. DurableIsLast /\ CollectedInv /\ WritesOnly
  BY DEF Init, DurableIsLast, CollectedInv, WritesOnly
<1> QED
  BY <1>1, <1>2, TypeInit DEF StoreInv, Init, ControlInv, AssertInv, NoAssertFails,
     RdbHoldsApplied, DatabaseInv, Covers, InstallInv

\* Every step keeps the inductive invariant.
LEMMA StoreNext == StoreInv /\ [Next]_vars => StoreInv'
BY TypeNext, ControlNext, DatabaseNext, RdbNext, ExactNext, ListNext, InstallNext, AssertNext
   DEF StoreInv

\* The inductive invariant is an invariant of the replica's storage.
LEMMA StoreInvariant == Spec => []StoreInv
<1>1. Init => StoreInv
  BY StoreInit
<1>2. StoreInv /\ [Next]_vars => StoreInv'
  BY StoreNext
<1> QED
  BY <1>1, <1>2, PTL DEF Spec

\* The variables keep their types; no decree is beyond the log.
THEOREM TypeCorrect == Spec => []TypeOK
BY StoreInvariant, PTL DEF StoreInv

\* Every directory checkpoint.n holds the effect of exactly the decrees up to
\* n, whatever fails.
THEOREM CheckpointsAreExact == Spec => []CheckpointExact
BY StoreInvariant, PTL DEF StoreInv

\* The open database never misses a decree that counts as applied.
THEOREM AppliedIsHeld == Spec => []RdbHoldsApplied
BY StoreInvariant, PTL DEF StoreInv

\* last_durable_decree() is the newest entry of _checkpoints.
THEOREM DurableIsNewestListed == Spec => []DurableIsLast
BY StoreInvariant, PTL DEF StoreInv

\* The asserts of sync_checkpoint, async_checkpoint and start() hold whatever
\* fails; only apply_checkpoint's can abort the process.
THEOREM OnlyApplyAsserts == Spec => []AssertInv
BY StoreInvariant, PTL DEF StoreInv

\* The durable decree of an open replica only advances, to a directory that
\* is on disk with all its files.
THEOREM DurableOnlyAdvances == Spec => DurableAdvances
<1>1. ASSUME StoreInv, [Next]_vars, phase = "open", phase' = "open"
      PROVE  \/ last_durable_decree' = last_durable_decree
             \/ /\ last_durable_decree' > last_durable_decree
                /\ dirs[last_durable_decree'] = "whole"
  <2>1. CASE last_durable_decree' = last_durable_decree
    BY <2>1
  <2>2. CASE install_checkpoint /\ last_durable_decree' # last_durable_decree
    BY <1>1, <2>2, DecreeNumbers DEF install_checkpoint, dassert_fails, process_gone, StoreInv,
       InstallInv, TypeOK, CheckpointsTypeOK, TokenTypeOK
  <2>3. install_checkpoint \/ last_durable_decree' = last_durable_decree
    <3>1. CASE UNCHANGED vars
      BY <3>1 DEF vars, list_vars
    <3>2. CASE gc_checkpoints
      BY <3>2 DEF gc_checkpoints, gc_checkpoints_scan, gc_checkpoints_erase,
         gc_checkpoints_remove, gc_checkpoints_put_back, list_vars
    <3>3. CASE \/ \E r \in Requests : commit(r)
               \/ on_batched_write_requests \/ switch_memtable \/ flush_job
               \/ sync_checkpoint \/ async_checkpoint
               \/ async_checkpoint_emergency
      BY <3>3, Zenon DEF commit, on_batched_write_requests, switch_memtable, flush_job,
         sync_checkpoint, async_checkpoint, async_checkpoint_emergency, list_vars
    <3>4. CASE async_checkpoint_create \/ checkpoint_return
      BY <1>1, <3>4, Zenon DEF async_checkpoint_create, async_checkpoint_fails, checkpoint_return,
         dassert_fails, process_gone, list_vars
    <3>5. CASE \/ start \/ stop \/ crash \/ apply_checkpoint_learn
               \/ apply_checkpoint_reopen \/ crash_while_clearing
               \/ apply_checkpoint_copy
      BY <1>1, <3>5, Zenon DEF start, stop, crash, apply_checkpoint_learn, apply_checkpoint_reopen,
         crash_while_clearing, apply_checkpoint_copy, dassert_fails, process_gone
    <3> QED
      BY <1>1, <3>1, <3>2, <3>3, <3>4, <3>5 DEF Next
  <2> QED
    BY <2>1, <2>2, <2>3
<1>2. StoreInv /\ [Next]_vars =>
          [phase = "open" /\ phase' = "open" =>
              \/ last_durable_decree' = last_durable_decree
              \/ /\ last_durable_decree' > last_durable_decree
                 /\ dirs[last_durable_decree'] = "whole"]_vars
  BY <1>1
<1> QED
  BY <1>2, StoreInvariant, PTL DEF Spec, DurableAdvances

\* If clients send no empty multi_put or multi_remove and the framework does
\* not use DSN_CHKPT_COPY, no dassert ever fails.
THEOREM NoAssertFailsWithoutEmptyWrites ==
    ASSUME "noop" \notin Requests, "copy" \notin Calls
    PROVE  Spec => []NoAssertFails
<1>1. Init => WritesOnly /\ NoAssertFails
  BY StoreInit
<1>2. StoreInv /\ WritesOnly /\ NoAssertFails /\ [Next]_vars =>
          WritesOnly' /\ NoAssertFails'
  BY WritesOnlyNext, NoAssertNext DEF StoreInv
<1> QED
  BY <1>1, <1>2, StoreInvariant, PTL DEF Spec

\* If no fsync fails and no crash meets the clearing of the data directory,
\* the directory of the durable decree of an open replica is on disk, whole.
THEOREM DurableIsWhole ==
    ASSUME "fsync" \notin Faults, "clear" \notin Faults
    PROVE  Spec => []DurableWhole
<1>1. Init => NewestInv
  BY StoreInit
<1>2. StoreInv /\ NewestInv /\ [Next]_vars => NewestInv'
  BY NewestNext DEF StoreInv
<1>3. NewestInv => DurableWhole
  BY DEF NewestInv, DurableWhole
<1> QED
  BY <1>1, <1>2, <1>3, StoreInvariant, PTL DEF Spec
=============================================================================
