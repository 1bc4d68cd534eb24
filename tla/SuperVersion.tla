---------------------------- MODULE SuperVersion ----------------------------
(***************************************************************************)
(* How readers find the memtables and files of a column family without     *)
(* taking the mutex of the database (rocksdb/db/column_family.cc,          *)
(* rocksdb/util/thread_local.cc, GetImpl and NewIterator of                *)
(* rocksdb/db/db_impl.cc).  What a reader needs, one memtable, one list of *)
(* immutable memtables and one version, is bundled in a reference-counted  *)
(* SuperVersion.  Each thread caches a pointer to one in thread-local      *)
(* storage; a writer, flush or compaction that installs a new one scrapes  *)
(* the stale pointers out of every thread.                                 *)
(*                                                                         *)
(* SuperVersions are known by their version_number, 1, 2, ...; every step  *)
(* is one atomic operation on shared memory, or one critical section of    *)
(* the mutex of the database.  Two mutexes matter: that one, and the one   *)
(* of ThreadLocalPtr::StaticMeta, taken by a scrape inside the first and   *)
(* held by an exiting thread that may have to take the first.              *)
(***************************************************************************)
EXTENDS Integers, FiniteSets

CONSTANTS Readers,       \* the threads that read
          MaxInstalls,   \* bound: how many SuperVersions replace the first
          MaxExits       \* bound: how many threads end and are replaced

\* The bounds are numbers and there are finitely many threads.
ASSUME SuperVersionAssumption ==
    MaxInstalls \in Nat /\ MaxExits \in Nat /\ IsFiniteSet(Readers)

None == 0                            \* no SuperVersion: nullptr
kSVObsolete == 0                     \* in thread-local storage: nullptr
kSVInUse == -1                       \* in thread-local storage: &dummy
SuperVersions == 1 .. MaxInstalls + 1

VARIABLES
    super_version,       \* ColumnFamilyData::super_version_ and its number
    refs,                \* SuperVersion::refs
    cleaned,             \* the SuperVersions on which Cleanup() has run
    local_sv,            \* per thread: the cached pointer, or a mark
    pc,                  \* per thread: where it is
    sv,                  \* per thread: its SuperVersion* sv
    iter,                \* per thread: the SuperVersion of its open iterator
    last,                \* per thread: the one its iterator was the last user of
    began,               \* per thread: the current one when its read began
    exits,               \* how many threads have ended
    install,             \* where the installing thread, holding the mutex, is
    old_superversion,    \* its old_superversion
    unscraped,           \* threads its Scrape has still to visit
    sv_ptrs              \* per thread: what Scrape took from it

vars == <<super_version, refs, cleaned, local_sv, pc, sv, iter, last, began,
          exits, install, old_superversion, unscraped, sv_ptrs>>
reader == <<pc, sv, began, exits>>
iterators == <<iter, last>>
installer == <<super_version, install, old_superversion, unscraped, sv_ptrs>>

\* The mutex of the database: only an installation spans several steps.
MutexFree == install = "idle"

\* StaticMeta::mutex_: a scrape and an exiting thread hold it.
MetaFree == install # "scrape" /\ \A t \in Readers : pc[t] \notin {"exit", "stuck"}

Init ==
    /\ super_version = 1
    /\ refs = [s \in SuperVersions |-> IF s = 1 THEN 1 ELSE 0]
    /\ cleaned = {}
    /\ local_sv = [t \in Readers |-> kSVObsolete]
    /\ pc = [t \in Readers |-> "idle"]
    /\ sv = [t \in Readers |-> None]
    /\ iter = [t \in Readers |-> None]
    /\ last = [t \in Readers |-> None]
    /\ began = [t \in Readers |-> None]
    /\ exits = 0
    /\ install = "idle"
    /\ old_superversion = None
    /\ unscraped = {}
    /\ sv_ptrs = [t \in Readers |-> None]

(***************************************************************************)
(* Reference counts.                                                       *)
(***************************************************************************)

Ref(s) == refs' = [refs EXCEPT ![s] = @ + 1]

Unref(s) == refs' = [refs EXCEPT ![s] = @ - 1]

\* Unref() returns true: this was the last reference.
WasLast(s) == refs[s] = 1

Cleanup(s) == cleaned' = cleaned \cup {s}

----------------------------------------------------------------------------
(***************************************************************************)
(* A read.  The snapshot is taken first (began); then the thread swaps its *)
(* cached pointer out, checks it, and falls back to the mutex.             *)
(***************************************************************************)

GetThreadLocalSuperVersion(t) ==
    /\ pc[t] = "idle"
    /\ began' = [began EXCEPT ![t] = super_version]
    /\ sv' = [sv EXCEPT ![t] = local_sv[t]]
    /\ local_sv' = [local_sv EXCEPT ![t] = kSVInUse]
    /\ pc' = [pc EXCEPT ![t] = IF local_sv[t] = kSVObsolete THEN "acquire"
                                                            ELSE "check"]
    /\ UNCHANGED <<refs, cleaned, exits, iterators, installer>>

check_unnumbered(t) ==
    /\ pc[t] = "check"
    /\ pc' = [pc EXCEPT ![t] = "use"]
    /\ UNCHANGED <<refs, cleaned, local_sv, sv, began, exits, iterators, installer>>

\* The window between the snapshot and the check is where an installation is
\* seen by its number only.
check(t) ==
    /\ pc[t] = "check"
    /\ pc' = [pc EXCEPT ![t] = IF sv[t] = super_version THEN "use" ELSE "stale"]
    /\ UNCHANGED <<refs, cleaned, local_sv, sv, began, exits, iterators, installer>>

\* sv && sv->Unref(), outside the mutex.
unref_stale(t) ==
    /\ pc[t] = "stale"
    /\ Unref(sv[t])
    /\ pc' = [pc EXCEPT ![t] = IF WasLast(sv[t]) THEN "reacquire" ELSE "acquire"]
    /\ sv' = [sv EXCEPT ![t] = IF WasLast(sv[t]) THEN @ ELSE None]
    /\ UNCHANGED <<cleaned, local_sv, began, exits, iterators, installer>>

\* Inside the mutex: clean up what was dropped, and Ref() the current one.
acquire(t) ==
    /\ pc[t] \in {"acquire", "reacquire"}
    /\ MutexFree
    /\ IF pc[t] = "reacquire" THEN Cleanup(sv[t]) ELSE UNCHANGED cleaned
    /\ Ref(super_version)
    /\ sv' = [sv EXCEPT ![t] = super_version]
    /\ pc' = [pc EXCEPT ![t] = "use"]
    /\ UNCHANGED <<local_sv, began, exits, iterators, installer>>

\* In GetReferencedSuperVersion() an iterator takes a reference of its own.
NewIterator(t) ==
    /\ pc[t] = "use"
    /\ iter[t] = None /\ last[t] = None
    /\ Ref(sv[t])
    /\ iter' = [iter EXCEPT ![t] = sv[t]]
    /\ pc' = [pc EXCEPT ![t] = "opened"]
    /\ UNCHANGED <<cleaned, local_sv, sv, last, began, exits, installer>>

\* CompareAndSwap: the mark kSVInUse says that no scrape came in between.
ReturnThreadLocalSuperVersion(t) ==
    /\ pc[t] \in {"use", "opened"}
    /\ \/ /\ local_sv[t] = kSVInUse
          /\ local_sv' = [local_sv EXCEPT ![t] = sv[t]]
          /\ sv' = [sv EXCEPT ![t] = None]
          /\ pc' = [pc EXCEPT ![t] = "idle"]
       \/ /\ local_sv[t] # kSVInUse
          /\ pc' = [pc EXCEPT ![t] = IF @ = "use" THEN "release" ELSE "unref"]
          /\ UNCHANGED <<local_sv, sv>>
    /\ UNCHANGED <<refs, cleaned, began, exits, iterators, installer>>

\* The iterator keeps its own reference: what this Unref() returns is ignored.
GetReferencedSuperVersion(t) ==
    /\ pc[t] = "unref"
    /\ Unref(sv[t])
    /\ sv' = [sv EXCEPT ![t] = None]
    /\ pc' = [pc EXCEPT ![t] = "idle"]
    /\ UNCHANGED <<cleaned, local_sv, began, exits, iterators, installer>>

ReturnAndCleanupSuperVersion_ignores(t) ==
    /\ pc[t] = "release"
    /\ Unref(sv[t])
    /\ pc' = [pc EXCEPT ![t] = "idle"]
    /\ sv' = [sv EXCEPT ![t] = None]
    /\ UNCHANGED <<cleaned, local_sv, began, exits, iterators, installer>>

ReturnAndCleanupSuperVersion(t) ==
    /\ pc[t] = "release"
    /\ Unref(sv[t])
    /\ pc' = [pc EXCEPT ![t] = IF WasLast(sv[t]) THEN "drop" ELSE "idle"]
    /\ sv' = [sv EXCEPT ![t] = IF WasLast(sv[t]) THEN @ ELSE None]
    /\ UNCHANGED <<cleaned, local_sv, began, exits, iterators, installer>>

drop(t) ==
    /\ pc[t] = "drop"
    /\ MutexFree
    /\ Cleanup(sv[t])
    /\ sv' = [sv EXCEPT ![t] = None]
    /\ pc' = [pc EXCEPT ![t] = "idle"]
    /\ UNCHANGED <<refs, local_sv, began, exits, iterators, installer>>

(***************************************************************************)
(* The destructor of an iterator, on whatever thread runs it once the      *)
(* iterator has been handed out.                                           *)
(***************************************************************************)

CleanupIteratorState_always(t) ==
    /\ iter[t] # None
    /\ pc[t] \notin {"opened", "unref"}
    /\ Unref(iter[t])
    /\ iter' = [iter EXCEPT ![t] = None]
    /\ last' = [last EXCEPT ![t] = iter[t]]
    /\ UNCHANGED <<cleaned, local_sv, reader, installer>>

CleanupIteratorState(t) ==
    /\ iter[t] # None
    /\ pc[t] \notin {"opened", "unref"}
    /\ Unref(iter[t])
    /\ iter' = [iter EXCEPT ![t] = None]
    /\ last' = [last EXCEPT ![t] = IF WasLast(iter[t]) THEN iter[t] ELSE None]
    /\ UNCHANGED <<cleaned, local_sv, reader, installer>>

cleanup_iterator(t) ==
    /\ last[t] # None
    /\ MutexFree
    /\ Cleanup(last[t])
    /\ last' = [last EXCEPT ![t] = None]
    /\ UNCHANGED <<refs, local_sv, iter, reader, installer>>

(***************************************************************************)
(* A thread ends.  OnThreadExit holds StaticMeta::mutex_ while it drops    *)
(* the cached pointer; "stuck" is the wait for the mutex of the database   *)
(* inside it, should that reference have been the last one.                *)
(***************************************************************************)

OnThreadExit(t) ==
    /\ pc[t] = "idle"
    /\ exits < MaxExits
    /\ MetaFree
    /\ exits' = exits + 1
    /\ pc' = [pc EXCEPT ![t] = "exit"]
    /\ UNCHANGED <<refs, cleaned, local_sv, sv, began, iterators, installer>>

\* SuperVersionUnrefHandle on the entry of the thread, whose data is deleted;
\* a new thread takes its place with a null pointer.
SuperVersionUnrefHandle(t) ==
    /\ pc[t] = "exit"
    /\ local_sv' = [local_sv EXCEPT ![t] = kSVObsolete]
    /\ IF local_sv[t] = kSVObsolete
         THEN /\ pc' = [pc EXCEPT ![t] = "idle"]
              /\ UNCHANGED <<refs, sv>>
         ELSE /\ Unref(local_sv[t])
              /\ sv' = [sv EXCEPT ![t] = IF WasLast(local_sv[t])
                                           THEN local_sv[t] ELSE None]
              /\ pc' = [pc EXCEPT ![t] = IF WasLast(local_sv[t])
                                           THEN "stuck" ELSE "idle"]
    /\ UNCHANGED <<cleaned, began, exits, iterators, installer>>

----------------------------------------------------------------------------
(***************************************************************************)
(* An installation, by a thread that holds the mutex throughout.           *)
(***************************************************************************)

InstallSuperVersion_early ==
    /\ MutexFree
    /\ super_version <= MaxInstalls
    /\ super_version' = super_version + 1
    /\ refs' = [refs EXCEPT ![super_version] = @ - 1, ![super_version + 1] = 1]
    /\ cleaned' = cleaned \cup {s \in {super_version} : WasLast(s)}
    /\ install' = "publish"
    /\ UNCHANGED <<local_sv, reader, iterators, old_superversion, unscraped,
                   sv_ptrs>>

\* Init() of the new SuperVersion, super_version_ and ++super_version_number_.
InstallSuperVersion ==
    /\ MutexFree
    /\ super_version <= MaxInstalls
    /\ old_superversion' = super_version
    /\ super_version' = super_version + 1
    /\ refs' = [refs EXCEPT ![super_version + 1] = 1]
    /\ install' = "publish"
    /\ UNCHANGED <<cleaned, local_sv, reader, iterators, unscraped, sv_ptrs>>

\* The lock at the top of Scrape().
lock_meta ==
    /\ install = "publish"
    /\ MetaFree
    /\ install' = "scrape"
    /\ unscraped' = Readers
    /\ UNCHANGED <<super_version, refs, cleaned, local_sv, reader, iterators,
                   old_superversion, sv_ptrs>>

Scrape(t) ==
    /\ install = "scrape"
    /\ t \in unscraped
    /\ unscraped' = unscraped \ {t}
    /\ local_sv' = [local_sv EXCEPT ![t] = kSVObsolete]
    /\ sv_ptrs' = [sv_ptrs EXCEPT ![t] = IF local_sv[t] = kSVInUse
                                           THEN None ELSE local_sv[t]]
    /\ UNCHANGED <<super_version, refs, cleaned, reader, iterators, install,
                   old_superversion>>

unlock_meta ==
    /\ install = "scrape"
    /\ unscraped = {}
    /\ install' = "reset"
    /\ UNCHANGED <<super_version, refs, cleaned, local_sv, reader, iterators,
                   old_superversion, unscraped, sv_ptrs>>

ResetThreadLocalSuperVersions_leaks(t) ==
    /\ install = "reset"
    /\ sv_ptrs[t] # None
    /\ sv_ptrs' = [sv_ptrs EXCEPT ![t] = None]
    /\ UNCHANGED <<super_version, refs, cleaned, local_sv, reader, iterators,
                   install, old_superversion, unscraped>>

ResetThreadLocalSuperVersions(t) ==
    /\ install = "reset"
    /\ sv_ptrs[t] # None
    /\ sv_ptrs' = [sv_ptrs EXCEPT ![t] = None]
    /\ Unref(sv_ptrs[t])
    /\ IF WasLast(sv_ptrs[t]) THEN Cleanup(sv_ptrs[t]) ELSE UNCHANGED cleaned
    /\ UNCHANGED <<super_version, local_sv, reader, iterators, install,
                   old_superversion, unscraped>>

release_old ==
    /\ install = "reset"
    /\ \A t \in Readers : sv_ptrs[t] = None
    /\ Unref(old_superversion)
    /\ IF WasLast(old_superversion) THEN Cleanup(old_superversion)
                                    ELSE UNCHANGED cleaned
    /\ old_superversion' = None
    /\ install' = "idle"
    /\ UNCHANGED <<super_version, local_sv, reader, iterators, unscraped, sv_ptrs>>

----------------------------------------------------------------------------
read(t) ==
    \/ GetThreadLocalSuperVersion(t)
    \/ check(t)
    \/ unref_stale(t)
    \/ acquire(t)
    \/ NewIterator(t)
    \/ ReturnThreadLocalSuperVersion(t)
    \/ GetReferencedSuperVersion(t)
    \/ ReturnAndCleanupSuperVersion(t)
    \/ drop(t)
    \/ OnThreadExit(t)
    \/ SuperVersionUnrefHandle(t)

\* What a thread that has begun to read, or to exit, does next.
finish(t) == pc[t] # "idle" /\ read(t)

close(t) == CleanupIteratorState(t) \/ cleanup_iterator(t)

installs ==
    \/ lock_meta
    \/ \E t \in Readers : Scrape(t) \/ ResetThreadLocalSuperVersions(t)
    \/ unlock_meta
    \/ release_old

Next ==
    \/ \E t \in Readers : read(t) \/ close(t)
    \/ InstallSuperVersion
    \/ installs

Spec == Init /\ [][Next]_vars

(***************************************************************************)
(* A thread inside a read or an exit keeps running, iterators are closed,  *)
(* and an installation that has begun goes on.                             *)
(***************************************************************************)
Fairness ==
    /\ \A t \in Readers : WF_vars(finish(t)) /\ WF_vars(close(t))
    /\ WF_vars(installs)

FairSpec == Spec /\ Fairness

----------------------------------------------------------------------------
(***************************************************************************)
(* Properties.                                                             *)
(***************************************************************************)

\* Where a reading thread may be.
Places == {"idle", "check", "stale", "acquire", "reacquire", "use", "opened",
           "unref", "release", "drop", "exit", "stuck"}

\* The variables have the types the code gives them.
TypeOK ==
    /\ super_version \in SuperVersions
    /\ refs \in [SuperVersions -> Nat]
    /\ cleaned \subseteq SuperVersions
    /\ local_sv \in [Readers -> SuperVersions \cup {kSVObsolete, kSVInUse}]
    /\ pc \in [Readers -> Places]
    /\ sv \in [Readers -> SuperVersions \cup {None}]
    /\ iter \in [Readers -> SuperVersions \cup {None}]
    /\ last \in [Readers -> SuperVersions \cup {None}]
    /\ began \in [Readers -> SuperVersions \cup {None}]
    /\ exits \in Nat
    /\ install \in {"idle", "publish", "scrape", "reset"}
    /\ old_superversion \in SuperVersions \cup {None}
    /\ unscraped \subseteq Readers
    /\ sv_ptrs \in [Readers -> SuperVersions \cup {None}]

\* The places that hold a counted reference: the column family, the installer,
\* and for each thread its cache, its read, its iterator and what a scrape took.
Count(b) == IF b THEN 1 ELSE 0

Caching(s) == {t \in Readers : local_sv[t] = s}

Reading(s) ==
    {t \in Readers : sv[t] = s /\ pc[t] \in {"check", "stale", "use", "opened",
                                             "unref", "release"}}

Iterating(s) == {t \in Readers : iter[t] = s}

Scraped(s) == {t \in Readers : sv_ptrs[t] = s}

References(s) ==
    Count(super_version = s) + Count(old_superversion = s)
      + Cardinality(Caching(s)) + Cardinality(Reading(s))
      + Cardinality(Iterating(s)) + Cardinality(Scraped(s))

\* The threads that dropped the last reference and wait for the mutex to
\* clean up, in a read or in the destructor of an iterator.
Dropping(s) == {t \in Readers : sv[t] = s /\ pc[t] \in {"reacquire", "drop", "stuck"}}

Ending(s) == {t \in Readers : last[t] = s}

\* A reference count is exactly the number of places that point to the
\* SuperVersion, through every interleaving of swaps, scrapes and returns:
\* none is dropped twice (an assertion of Unref) and none is forgotten.
RefsExact == \A s \in SuperVersions : refs[s] = References(s)

\* A SuperVersion is cleaned up once and only when nothing points to it: no
\* read, iterator, cache or installation ever follows a pointer to one that
\* Cleanup() has run on, and no two threads clean up the same one.
NoUseAfterFree ==
    /\ \A s \in cleaned : References(s) = 0 /\ Dropping(s) = {} /\ Ending(s) = {}
    /\ \A s \in SuperVersions : \A t, u \in Dropping(s) \cup Ending(s) :
          /\ t = u
          /\ ~ (t \in Dropping(s) /\ t \in Ending(s))

\* Only a thread that is not reading has a pointer in its cache (the assertion
\* of ReturnThreadLocalSuperVersion), and it is the current SuperVersion, or
\* the one just replaced until the scrape has visited the thread.
CachedIsCurrent ==
    \A t \in Readers : local_sv[t] \in SuperVersions =>
        /\ pc[t] \in {"idle", "exit"}
        /\ \/ local_sv[t] = super_version
           \/ /\ local_sv[t] = super_version - 1
              /\ \/ install = "publish"
                 \/ install = "scrape" /\ t \in unscraped

\* A read sees a SuperVersion at least as new as the one current when its
\* snapshot was taken, so that it misses nothing its snapshot covers.
ReadsAreFresh ==
    \A t \in Readers : pc[t] \in {"use", "opened"} => sv[t] >= began[t]

\* An exiting thread, which holds the mutex of the thread-local storage, never
\* has to take the mutex of the database, which a scrape holds while it waits
\* for the other one: the inverted lock order of SuperVersionUnrefHandle can
\* not deadlock.
ExitNeedsNoMutex == \A t \in Readers : pc[t] # "stuck"

\* A SuperVersion that was replaced is cleaned up in the end, and with it the
\* memtables and files that only it kept alive.
Reclaimed ==
    \A s \in SuperVersions : super_version > s ~> s \in cleaned

=============================================================================
