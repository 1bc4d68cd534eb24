------------------------- MODULE SuperVersionProofs -------------------------
(***************************************************************************)
(* The reference counts of SuperVersions are exact, nothing is used after  *)
(* its cleanup, and an exiting thread never needs the mutex of the         *)
(* database: for any set of threads and any number of installations. The   *)
(* inductive invariant, how the counts are counted, one lemma for each     *)
(* step of a read, of an iterator, of an exit and of an installation, and  *)
(* the theorems.                                                           *)
(***************************************************************************)
EXTENDS SuperVersion, FiniteSetTheorems, TLAPS

\* The replaced SuperVersion may still be cached by thread t.
Unvisited(t) == install = "publish" \/ (install = "scrape" /\ t \in unscraped)

\* A pointer that thread t may put back, or has put back, into its cache.
Cacheable(t, s) == s = super_version \/ (s = super_version - 1 /\ Unvisited(t))

\* What the marks in thread-local storage say about the thread.
MarksAt(t) ==
    /\ local_sv[t] = kSVInUse =>
          pc[t] \in {"check", "stale", "acquire", "reacquire", "use", "opened"}
    /\ local_sv[t] \in SuperVersions => pc[t] \in {"idle", "exit"}
    /\ local_sv[t] \in SuperVersions => Cacheable(t, local_sv[t])
    /\ pc[t] \in {"use", "opened"} /\ local_sv[t] = kSVInUse =>
          Cacheable(t, sv[t])
    /\ pc[t] \in {"check", "stale", "reacquire", "use", "opened", "unref",
                  "release", "drop"} => sv[t] \in SuperVersions
    /\ pc[t] = "exit" => install # "scrape"
    /\ pc[t] # "stuck"
    /\ last[t] # None => iter[t] = None

Marks == \A t \in Readers : MarksAt(t)

\* What the installer holds at each of its steps.
Installing ==
    /\ install = "idle" => old_superversion = None
    /\ install # "idle" => old_superversion = super_version - 1
                           /\ old_superversion \in SuperVersions
    /\ install \in {"idle", "publish"} => \A t \in Readers : sv_ptrs[t] = None
    /\ install = "scrape" => \A t \in unscraped : sv_ptrs[t] = None

\* A SuperVersion that was cleaned up, or is about to be, has no references,
\* and one that is not installed yet has none either.
FreedAt(s) ==
    /\ s \in cleaned \/ Dropping(s) # {} \/ Ending(s) # {} \/ s > super_version
         => refs[s] = 0
    /\ s \in cleaned \/ s > super_version => Dropping(s) = {} /\ Ending(s) = {}
    /\ s > super_version => s \notin cleaned
    /\ \A t, u \in Dropping(s) \cup Ending(s) :
          t = u /\ ~ (t \in Dropping(s) /\ t \in Ending(s))

Freed == \A s \in SuperVersions : FreedAt(s)

\* A read is as fresh as its snapshot.
Fresh ==
    \A t \in Readers :
        /\ began[t] <= super_version
        /\ pc[t] \in {"use", "opened"} => sv[t] >= began[t]

IInv == TypeOK /\ RefsExact /\ Marks /\ Installing /\ Freed /\ Fresh

----------------------------------------------------------------------------
(***************************************************************************)
(* Counting.                                                               *)
(***************************************************************************)

\* What thread t adds to the references of s.
Share(t, s) ==
    Count(t \in Caching(s)) + Count(t \in Reading(s))
      + Count(t \in Iterating(s)) + Count(t \in Scraped(s))

\* What the column family and the installer add.
Fixed(s) == Count(super_version = s) + Count(old_superversion = s)

\* Two sets of threads that agree except on t have sizes that differ by t.
LEMMA OneMember ==
    ASSUME NEW A \in SUBSET Readers, NEW B \in SUBSET Readers, NEW t \in Readers,
           A \ {t} = B \ {t}
    PROVE  /\ Cardinality(A) \in Nat /\ Cardinality(B) \in Nat
           /\ Cardinality(B) - Count(t \in B) = Cardinality(A) - Count(t \in A)
           /\ Cardinality(A) >= Count(t \in A)
<1>1. ASSUME NEW C \in {A, B}
      PROVE  Cardinality(C \ {t}) = Cardinality(C) - Count(t \in C)
  BY FS_RemoveElement, SuperVersionAssumption, FS_Subset, FS_CardinalityType, A \ {t} \subseteq
     A DEF Count
<1> QED
  BY <1>1, FS_Subset, FS_CardinalityType, A \ {t} \subseteq A, SuperVersionAssumption DEF Count

\* The references of s are at least those of any one thread and the fixed ones.
LEMMA AtLeastShare ==
    ASSUME NEW t \in Readers, NEW s
    PROVE  References(s) \in Nat /\ References(s) >= Fixed(s) + Share(t, s)
BY OneMember DEF Caching, Reading, Iterating, Scraped, References, Fixed, Share, Count

\* The references of s are a number even when there is no thread.
LEMMA ReferencesType ==
    ASSUME NEW s
    PROVE  References(s) \in Nat /\ References(s) >= Fixed(s)
<1>1. /\ IsFiniteSet(Caching(s)) /\ IsFiniteSet(Reading(s))
      /\ IsFiniteSet(Iterating(s)) /\ IsFiniteSet(Scraped(s))
  BY SuperVersionAssumption, FS_Subset DEF Caching, Reading, Iterating, Scraped
<1> QED
  BY <1>1, FS_CardinalityType DEF References, Fixed, Count

\* A step in which only thread t moves changes the references of s by what t
\* and the fixed places gain or lose.
LEMMA OneThreadMoves ==
    ASSUME NEW t \in Readers, NEW s,
           \A r \in Readers \ {t} :
               /\ local_sv'[r] = local_sv[r] /\ pc'[r] = pc[r] /\ sv'[r] = sv[r]
               /\ iter'[r] = iter[r] /\ sv_ptrs'[r] = sv_ptrs[r]
    PROVE  References(s)' - Fixed(s)' - Share(t, s)'
             = References(s) - Fixed(s) - Share(t, s)
<1>1. /\ Cardinality(Caching(s)) \in Nat /\ Cardinality(Caching(s)') \in Nat
      /\ Cardinality(Caching(s)') - Count(t \in Caching(s)')
           = Cardinality(Caching(s)) - Count(t \in Caching(s))
  BY OneMember DEF Caching
<1>2. /\ Cardinality(Reading(s)) \in Nat /\ Cardinality(Reading(s)') \in Nat
      /\ Cardinality(Reading(s)') - Count(t \in Reading(s)')
           = Cardinality(Reading(s)) - Count(t \in Reading(s))
  BY OneMember DEF Reading
<1>3. /\ Cardinality(Iterating(s)) \in Nat /\ Cardinality(Iterating(s)') \in Nat
      /\ Cardinality(Iterating(s)') - Count(t \in Iterating(s)')
           = Cardinality(Iterating(s)) - Count(t \in Iterating(s))
  BY OneMember DEF Iterating
<1>4. /\ Cardinality(Scraped(s)) \in Nat /\ Cardinality(Scraped(s)') \in Nat
      /\ Cardinality(Scraped(s)') - Count(t \in Scraped(s)')
           = Cardinality(Scraped(s)) - Count(t \in Scraped(s))
  BY OneMember DEF Scraped
<1> QED
  BY <1>1, <1>2, <1>3, <1>4 DEF References, Fixed, Share, Count

\* A step in which no thread moves changes only the fixed places.
LEMMA NoThreadMoves ==
    ASSUME NEW s, UNCHANGED <<local_sv, pc, sv, iter, sv_ptrs>>
    PROVE  /\ References(s)' \in Nat
           /\ References(s)' - Fixed(s)' = References(s) - Fixed(s)
<1>1. /\ Cardinality(Caching(s)') = Cardinality(Caching(s))
      /\ Cardinality(Reading(s)') = Cardinality(Reading(s))
      /\ Cardinality(Iterating(s)') = Cardinality(Iterating(s))
      /\ Cardinality(Scraped(s)') = Cardinality(Scraped(s))
  BY Zenon DEF Caching, Reading, Iterating, Scraped
<1>2. /\ Cardinality(Caching(s)) \in Nat /\ Cardinality(Reading(s)) \in Nat
      /\ Cardinality(Iterating(s)) \in Nat /\ Cardinality(Scraped(s)) \in Nat
  BY FS_CardinalityType, SuperVersionAssumption, FS_Subset DEF Caching, Reading, Iterating,
     Scraped
<1> QED
  BY <1>1, <1>2 DEF References, Fixed, Count

\* Only thread t moves, and the counts change by what it and the fixed places
\* gain or lose.
Moves(t) ==
    \A r \in Readers \ {t} :
        /\ local_sv'[r] = local_sv[r] /\ pc'[r] = pc[r] /\ sv'[r] = sv[r]
        /\ iter'[r] = iter[r] /\ sv_ptrs'[r] = sv_ptrs[r]

Balanced(t) ==
    \A s \in SuperVersions :
        refs'[s] - refs[s] = Fixed(s)' + Share(t, s)' - Fixed(s) - Share(t, s)

\* Such a step keeps the counts exact.
LEMMA Recount ==
    ASSUME IInv, NEW t \in Readers, refs' \in [SuperVersions -> Nat], Moves(t), Balanced(t)
    PROVE  RefsExact'
<1> SUFFICES ASSUME NEW s \in SuperVersions PROVE refs'[s] = References(s)'
  BY DEF RefsExact
<1> DEFINE f == refs'[s]
           e == refs[s]
           R == References(s)'
           p == Fixed(s)'
           q == Share(t, s)'
           m == Fixed(s)
           n == Share(t, s)
<1>1. f \in Int /\ e \in Int
  BY DEF IInv, TypeOK
<1>2. m \in Int /\ n \in Int /\ p \in Int /\ q \in Int
  BY DEF Fixed, Share, Count
<1>3. R \in Int
  <2>1. /\ IsFiniteSet(Caching(s)') /\ IsFiniteSet(Reading(s)')
        /\ IsFiniteSet(Iterating(s)') /\ IsFiniteSet(Scraped(s)')
    BY SuperVersionAssumption, FS_Subset DEF Caching, Reading, Iterating, Scraped
  <2> QED
    BY <2>1, FS_CardinalityType DEF References, Count
<1>4. R - p - q = e - m - n
  <2>1. e = References(s)
    BY DEF IInv, RefsExact
  <2>2. R - p - q = References(s) - m - n
    BY OneThreadMoves DEF Moves
  <2> HIDE DEF R, p, q, e, m, n
  <2> QED
    BY <2>1, <2>2
<1>5. f - e = p + q - m - n
  BY DEF Balanced
<1> HIDE DEF f, e, R, p, q, m, n
<1>6. f = R
  BY <1>1, <1>2, <1>3, <1>4, <1>5
<1> QED
  BY <1>6 DEF f, R

\* A step that moves no thread and no pointer of the column family or the
\* installer, and changes no count, keeps the counts exact.
LEMMA NoRecount ==
    ASSUME IInv,
           UNCHANGED <<refs, super_version, old_superversion, local_sv, pc, sv, iter, sv_ptrs>>
    PROVE  RefsExact'
BY DEF RefsExact, Caching, Reading, Iterating, Scraped, References, IInv

\* Every place that points to a SuperVersion keeps its count above zero, and a
\* cached one that the column family or the installer holds too is shared.
Counted ==
    /\ refs[super_version] >= 1
    /\ old_superversion # None => refs[old_superversion] >= 1
    /\ \A t \in Readers : \A s \in SuperVersions :
          /\ t \in Reading(s) => refs[s] >= 1
          /\ iter[t] = s => refs[s] >= 1
          /\ sv_ptrs[t] = s => refs[s] >= 1
          /\ sv_ptrs[t] = s /\ old_superversion = s => refs[s] >= 2
          /\ local_sv[t] = s => refs[s] >= 1
          /\ local_sv[t] = s /\ (super_version = s \/ old_superversion = s)
               => refs[s] >= 2
          /\ t \in Reading(s) /\ iter[t] = s => refs[s] >= 2

\* The counts are exact, so it follows from the number of places.
LEMMA Held ==
    ASSUME IInv
    PROVE  Counted
<1> TypeOK /\ RefsExact
  BY DEF IInv
<1>1. ASSUME NEW t \in Readers, NEW s \in SuperVersions
      PROVE  /\ t \in Reading(s) => refs[s] >= 1
             /\ iter[t] = s => refs[s] >= 1
             /\ sv_ptrs[t] = s => refs[s] >= 1
             /\ sv_ptrs[t] = s /\ old_superversion = s => refs[s] >= 2
             /\ local_sv[t] = s => refs[s] >= 1
             /\ local_sv[t] = s /\ (super_version = s \/ old_superversion = s)
                  => refs[s] >= 2
             /\ t \in Reading(s) /\ iter[t] = s => refs[s] >= 2
  BY AtLeastShare DEF Caching, Iterating, Scraped, Fixed, Share, Count, RefsExact
<1> QED
  BY <1>1, ReferencesType DEF Counted, Fixed, Count, TypeOK, RefsExact

----------------------------------------------------------------------------
(***************************************************************************)
(* The inductive invariant.                                                *)
(***************************************************************************)

\* It holds initially.
LEMMA InitIInv == Init => IInv
<1> SUFFICES ASSUME Init PROVE IInv
  OBVIOUS
<1> USE SuperVersionAssumption DEF None, kSVObsolete, kSVInUse, SuperVersions
<1>1. TypeOK
  BY DEF Init, TypeOK, Places
<1>2. RefsExact
  <2> SUFFICES ASSUME NEW s \in SuperVersions PROVE refs[s] = References(s)
    BY DEF RefsExact
  <2>1. Caching(s) = {} /\ Reading(s) = {} /\ Iterating(s) = {} /\ Scraped(s) = {}
    BY DEF Init, Caching, Reading, Iterating, Scraped
  <2> QED
    BY <2>1, FS_EmptySet DEF Init, References, Count
<1>3. Marks /\ Installing /\ Fresh
  BY DEF Init, Marks, MarksAt, Installing, Fresh, Cacheable, Unvisited
<1>4. Freed
  BY DEF Init, Freed, FreedAt, Dropping, Ending
<1> QED
  BY <1>1, <1>2, <1>3, <1>4, Zenon DEF IInv

----------------------------------------------------------------------------
(***************************************************************************)
(* What keeps Freed.                                                       *)
(***************************************************************************)

\* A step that drops no reference, or not the last one.
Keeps ==
    /\ UNCHANGED <<cleaned, super_version>>
    /\ \A s \in SuperVersions :
          /\ Dropping(s)' = Dropping(s) /\ Ending(s)' = Ending(s)
          /\ refs[s] = 0 => refs'[s] = 0

\* A step that keeps what is held frees nothing that somebody holds.
LEMMA FreedKept == ASSUME IInv, Keeps PROVE Freed'
BY DEF IInv, Freed, FreedAt, Keeps

\* Thread t drops a reference to s0, and waits for the mutex to clean it up if
\* that was the last one.
Drops(t, s0) ==
    /\ UNCHANGED <<cleaned, super_version>>
    /\ refs[s0] >= 1 /\ refs' = [refs EXCEPT ![s0] = @ - 1]
    /\ \A s \in SuperVersions \ {s0} : Dropping(s)' = Dropping(s) /\ Ending(s)' = Ending(s)
    /\ refs[s0] # 1 => Dropping(s0)' = Dropping(s0) /\ Ending(s0)' = Ending(s0)
    /\ refs[s0] = 1 => \/ Dropping(s0)' = Dropping(s0) \cup {t} /\ Ending(s0)' = Ending(s0)
                       \/ Dropping(s0)' = Dropping(s0) /\ Ending(s0)' = Ending(s0) \cup {t}

\* Nor does a step that drops one reference.
LEMMA FreedDropped ==
    ASSUME IInv, NEW t \in Readers, NEW s0 \in SuperVersions, Drops(t, s0)
    PROVE  Freed'
BY DEF Freed, IInv, TypeOK, Drops, FreedAt

\* Thread t has the mutex and cleans up s0, which it dropped last.
Cleans(t, s0) ==
    /\ UNCHANGED super_version
    /\ cleaned' = cleaned \cup {s0}
    /\ \A s \in SuperVersions : refs[s] = 0 => refs'[s] = 0
    /\ \A s \in SuperVersions \ {s0} : Dropping(s)' = Dropping(s) /\ Ending(s)' = Ending(s)
    /\ t \in Dropping(s0) \cup Ending(s0)
    /\ \/ Dropping(s0)' = Dropping(s0) \ {t} /\ Ending(s0)' = Ending(s0)
       \/ Dropping(s0)' = Dropping(s0) /\ Ending(s0)' = Ending(s0) \ {t}
    /\ t \notin Dropping(s0)' \cup Ending(s0)'

\* Nor does the clean-up that follows, with the mutex held.
LEMMA FreedCleaned ==
    ASSUME IInv, NEW t \in Readers, NEW s0 \in SuperVersions, Cleans(t, s0)
    PROVE  Freed'
BY DEF Freed, IInv, Cleans, FreedAt

\* The installer drops a reference to s0, and cleans it up if that was the last.
Releases(s0) ==
    /\ UNCHANGED super_version
    /\ refs[s0] >= 1 /\ refs' = [refs EXCEPT ![s0] = @ - 1]
    /\ cleaned' = IF refs[s0] = 1 THEN cleaned \cup {s0} ELSE cleaned
    /\ \A s \in SuperVersions : Dropping(s)' = Dropping(s) /\ Ending(s)' = Ending(s)

\* Nor does the installer, which does both at once.
LEMMA FreedReleased ==
    ASSUME IInv, NEW s0 \in SuperVersions, Releases(s0)
    PROVE  Freed'
BY DEF Freed, IInv, TypeOK, Releases, FreedAt

----------------------------------------------------------------------------
(***************************************************************************)
(* Each action preserves the invariant.                                    *)
(***************************************************************************)

\* GetThreadLocalSuperVersion preserves the invariant.
LEMMA GetThreadLocalSuperVersionStep ==
    ASSUME IInv, NEW t \in Readers, GetThreadLocalSuperVersion(t)
    PROVE  IInv'
<1> USE DEF None, kSVObsolete, kSVInUse, Unref, Ref, WasLast, Cleanup, reader, iterators,
            installer
<1> /\ TypeOK /\ RefsExact /\ Marks /\ Installing /\ Freed /\ Fresh /\ Counted
    /\ \A s \in SuperVersions : s \in Nat /\ s # 0
  BY Held DEF IInv, SuperVersions
<1> local_sv[t] \in SuperVersions \cup {None}
  BY DEF TypeOK, Marks, MarksAt, GetThreadLocalSuperVersion
<1>1. refs' \in [SuperVersions -> Nat]
  BY DEF TypeOK, GetThreadLocalSuperVersion
<1>2. RefsExact'
  <2>1. Balanced(t)
    BY DEF Balanced, Fixed, Share, Count, Caching, Reading, Iterating, Scraped, TypeOK,
       GetThreadLocalSuperVersion
  <2> QED
    BY <1>1, <2>1, Recount DEF Moves, TypeOK, GetThreadLocalSuperVersion
<1>3. Marks'
  BY DEF TypeOK, Marks, MarksAt, Cacheable, Unvisited, GetThreadLocalSuperVersion
<1>4. Installing'
  BY DEF TypeOK, Installing, MutexFree, GetThreadLocalSuperVersion
<1>5. Freed'
  BY FreedKept DEF Keeps, Dropping, Ending, TypeOK, GetThreadLocalSuperVersion
<1>6. Fresh'
  BY DEF TypeOK, Fresh, GetThreadLocalSuperVersion
<1>7. TypeOK'
  BY <1>1 DEF TypeOK, Places, GetThreadLocalSuperVersion
<1> QED
  BY <1>2, <1>3, <1>4, <1>5, <1>6, <1>7, Zenon DEF IInv

\* check preserves the invariant.
LEMMA checkStep ==
    ASSUME IInv, NEW t \in Readers, check(t)
    PROVE  IInv'
<1> USE DEF None, kSVObsolete, kSVInUse, Unref, Ref, WasLast, Cleanup, reader, iterators,
            installer
<1> /\ TypeOK /\ RefsExact /\ Marks /\ Installing /\ Freed /\ Fresh /\ Counted
    /\ \A s \in SuperVersions : s \in Nat /\ s # 0
  BY Held DEF IInv, SuperVersions
<1>1. refs' \in [SuperVersions -> Nat]
  BY DEF TypeOK, check
<1>2. RefsExact'
  <2>1. Balanced(t)
    BY DEF Balanced, Fixed, Share, Count, Caching, Reading, Iterating, Scraped, TypeOK, check
  <2> QED
    BY <1>1, <2>1, Recount DEF Moves, TypeOK, check
<1>3. Marks'
  BY DEF TypeOK, Marks, MarksAt, Cacheable, Unvisited, check
<1>4. Installing'
  BY DEF TypeOK, Installing, MutexFree, check
<1>5. Freed'
  BY FreedKept DEF Keeps, Dropping, Ending, TypeOK, check
<1>6. Fresh'
  BY DEF TypeOK, Fresh, check
<1>7. TypeOK'
  BY <1>1 DEF TypeOK, Places, check
<1> QED
  BY <1>2, <1>3, <1>4, <1>5, <1>6, <1>7, Zenon DEF IInv

\* unref_stale preserves the invariant.
LEMMA unref_staleStep ==
    ASSUME IInv, NEW t \in Readers, unref_stale(t)
    PROVE  IInv'
<1> USE DEF None, kSVObsolete, kSVInUse, Unref, Ref, WasLast, Cleanup, reader, iterators,
            installer
<1> /\ TypeOK /\ RefsExact /\ Marks /\ Installing /\ Freed /\ Fresh /\ Counted
    /\ \A s \in SuperVersions : s \in Nat /\ s # 0
  BY Held DEF IInv, SuperVersions
<1> sv[t] \in SuperVersions /\ refs[sv[t]] >= 1
  BY DEF TypeOK, Marks, MarksAt, Counted, Reading, unref_stale
<1>1. refs' \in [SuperVersions -> Nat]
  BY DEF TypeOK, unref_stale
<1>2. RefsExact'
  <2>1. Balanced(t)
    BY DEF Balanced, Fixed, Share, Count, Caching, Reading, Iterating, Scraped, TypeOK,
       unref_stale
  <2> QED
    BY <1>1, <2>1, Recount DEF Moves, TypeOK, unref_stale
<1>3. Marks'
  BY DEF TypeOK, Marks, MarksAt, Cacheable, Unvisited, unref_stale
<1>4. Installing'
  BY DEF TypeOK, Installing, MutexFree, unref_stale
<1>5. Freed'
  <2> PICK s0 \in SuperVersions : s0 = sv[t]
    OBVIOUS
  <2> refs' = [refs EXCEPT ![s0] = @ - 1] /\ UNCHANGED <<cleaned, super_version>>
    BY DEF unref_stale
  <2>1. CASE refs[s0] # 1
    <3>1. Drops(t, s0)
      BY <2>1 DEF Drops, Ending, unref_stale, Dropping, TypeOK
    <3> QED
      BY <3>1, FreedDropped
  <2>2. CASE refs[s0] = 1
    <3>1. Drops(t, s0)
      BY <2>2 DEF Drops, Ending, unref_stale, Dropping, TypeOK
    <3> QED
      BY <3>1, FreedDropped
  <2> QED
    BY <2>1, <2>2
<1>6. Fresh'
  BY DEF TypeOK, Fresh, unref_stale
<1>7. TypeOK'
  BY <1>1 DEF TypeOK, Places, unref_stale
<1> QED
  BY <1>2, <1>3, <1>4, <1>5, <1>6, <1>7, Zenon DEF IInv

\* acquire preserves the invariant.
LEMMA acquireStep ==
    ASSUME IInv, NEW t \in Readers, acquire(t)
    PROVE  IInv'
<1> USE DEF None, kSVObsolete, kSVInUse, Unref, Ref, WasLast, Cleanup, reader, iterators,
            installer
<1> /\ TypeOK /\ RefsExact /\ Marks /\ Installing /\ Freed /\ Fresh /\ Counted
    /\ \A s \in SuperVersions : s \in Nat /\ s # 0
  BY Held DEF IInv, SuperVersions
<1> /\ refs[super_version] >= 1
    /\ pc[t] = "reacquire" => sv[t] \in SuperVersions /\ t \in Dropping(sv[t])
  BY DEF TypeOK, Marks, MarksAt, Counted, Dropping
<1>1. refs' \in [SuperVersions -> Nat]
  BY DEF TypeOK, acquire
<1>2. RefsExact'
  <2>1. Balanced(t)
    BY DEF Balanced, Fixed, Share, Count, Caching, Reading, Iterating, Scraped, TypeOK, acquire
  <2> QED
    BY <1>1, <2>1, Recount DEF Moves, TypeOK, acquire
<1>3. Marks'
  BY DEF TypeOK, Marks, MarksAt, Cacheable, Unvisited, acquire
<1>4. Installing'
  BY DEF TypeOK, Installing, MutexFree, acquire
<1>5. Freed'
  BY FreedKept, FreedCleaned DEF Keeps, Dropping, Ending, TypeOK, acquire, Freed, FreedAt,
     Cleans
<1>6. Fresh'
  BY DEF TypeOK, Fresh, acquire
<1>7. TypeOK'
  BY <1>1 DEF TypeOK, Places, acquire
<1> QED
  BY <1>2, <1>3, <1>4, <1>5, <1>6, <1>7, Zenon DEF IInv

\* NewIterator preserves the invariant.
LEMMA NewIteratorStep ==
    ASSUME IInv, NEW t \in Readers, NewIterator(t)
    PROVE  IInv'
<1> USE DEF None, kSVObsolete, kSVInUse, Unref, Ref, WasLast, Cleanup, reader, iterators,
            installer
<1> /\ TypeOK /\ RefsExact /\ Marks /\ Installing /\ Freed /\ Fresh /\ Counted
    /\ \A s \in SuperVersions : s \in Nat /\ s # 0
  BY Held DEF IInv, SuperVersions
<1> sv[t] \in SuperVersions /\ refs[sv[t]] >= 1
  BY DEF TypeOK, Marks, MarksAt, Counted, Reading, NewIterator
<1>1. refs' \in [SuperVersions -> Nat]
  BY DEF TypeOK, NewIterator
<1>2. RefsExact'
  <2>1. Balanced(t)
    BY DEF Balanced, Fixed, Share, Count, Caching, Reading, Iterating, Scraped, TypeOK,
       NewIterator
  <2> QED
    BY <1>1, <2>1, Recount DEF Moves, TypeOK, NewIterator
<1>3. Marks'
  BY DEF TypeOK, Marks, MarksAt, Cacheable, Unvisited, NewIterator
<1>4. Installing'
  BY DEF TypeOK, Installing, MutexFree, NewIterator
<1>5. Freed'
  BY FreedKept DEF Keeps, Dropping, Ending, TypeOK, NewIterator
<1>6. Fresh'
  BY DEF TypeOK, Fresh, NewIterator
<1>7. TypeOK'
  BY <1>1 DEF TypeOK, Places, NewIterator
<1> QED
  BY <1>2, <1>3, <1>4, <1>5, <1>6, <1>7, Zenon DEF IInv

\* ReturnThreadLocalSuperVersion preserves the invariant.
LEMMA ReturnThreadLocalSuperVersionStep ==
    ASSUME IInv, NEW t \in Readers, ReturnThreadLocalSuperVersion(t)
    PROVE  IInv'
<1> USE DEF None, kSVObsolete, kSVInUse, Unref, Ref, WasLast, Cleanup, reader, iterators,
            installer
<1> /\ TypeOK /\ RefsExact /\ Marks /\ Installing /\ Freed /\ Fresh /\ Counted
    /\ \A s \in SuperVersions : s \in Nat /\ s # 0
  BY Held DEF IInv, SuperVersions
<1> sv[t] \in SuperVersions
  BY DEF Marks, MarksAt, ReturnThreadLocalSuperVersion
<1>1. refs' \in [SuperVersions -> Nat]
  BY DEF TypeOK, ReturnThreadLocalSuperVersion
<1>2. RefsExact'
  <2>1. Balanced(t)
    BY DEF Balanced, Fixed, Share, Count, Caching, Reading, Iterating, Scraped, TypeOK,
       ReturnThreadLocalSuperVersion
  <2> QED
    BY <1>1, <2>1, Recount DEF Moves, TypeOK, ReturnThreadLocalSuperVersion
<1>3. Marks'
  BY DEF TypeOK, Marks, MarksAt, Cacheable, Unvisited, ReturnThreadLocalSuperVersion
<1>4. Installing'
  BY DEF TypeOK, Installing, MutexFree, ReturnThreadLocalSuperVersion
<1>5. Freed'
  BY FreedKept DEF Keeps, Dropping, Ending, TypeOK, ReturnThreadLocalSuperVersion
<1>6. Fresh'
  BY DEF TypeOK, Fresh, ReturnThreadLocalSuperVersion
<1>7. TypeOK'
  BY <1>1 DEF TypeOK, Places, ReturnThreadLocalSuperVersion
<1> QED
  BY <1>2, <1>3, <1>4, <1>5, <1>6, <1>7, Zenon DEF IInv

\* GetReferencedSuperVersion preserves the invariant.
LEMMA GetReferencedSuperVersionStep ==
    ASSUME IInv, NEW t \in Readers, GetReferencedSuperVersion(t)
    PROVE  IInv'
<1> USE DEF None, kSVObsolete, kSVInUse, Unref, Ref, WasLast, Cleanup, reader, iterators,
            installer
<1> /\ TypeOK /\ RefsExact /\ Marks /\ Installing /\ Freed /\ Fresh /\ Counted
    /\ \A s \in SuperVersions : s \in Nat /\ s # 0
  BY Held DEF IInv, SuperVersions
<1> sv[t] \in SuperVersions /\ refs[sv[t]] >= 1
  BY DEF TypeOK, Marks, MarksAt, Counted, Reading, GetReferencedSuperVersion
<1>1. refs' \in [SuperVersions -> Nat]
  BY DEF TypeOK, GetReferencedSuperVersion
<1>2. RefsExact'
  <2>1. Balanced(t)
    BY DEF Balanced, Fixed, Share, Count, Caching, Reading, Iterating, Scraped, TypeOK,
       GetReferencedSuperVersion
  <2> QED
    BY <1>1, <2>1, Recount DEF Moves, TypeOK, GetReferencedSuperVersion
<1>3. Marks'
  BY DEF TypeOK, Marks, MarksAt, Cacheable, Unvisited, GetReferencedSuperVersion
<1>4. Installing'
  BY DEF TypeOK, Installing, MutexFree, GetReferencedSuperVersion
<1>5. Freed'
  BY FreedKept DEF Keeps, Dropping, Ending, TypeOK, GetReferencedSuperVersion
<1>6. Fresh'
  BY DEF TypeOK, Fresh, GetReferencedSuperVersion
<1>7. TypeOK'
  BY <1>1 DEF TypeOK, Places, GetReferencedSuperVersion
<1> QED
  BY <1>2, <1>3, <1>4, <1>5, <1>6, <1>7, Zenon DEF IInv

\* ReturnAndCleanupSuperVersion preserves the invariant.
LEMMA ReturnAndCleanupSuperVersionStep ==
    ASSUME IInv, NEW t \in Readers, ReturnAndCleanupSuperVersion(t)
    PROVE  IInv'
<1> USE DEF None, kSVObsolete, kSVInUse, Unref, Ref, WasLast, Cleanup, reader, iterators,
            installer
<1> /\ TypeOK /\ RefsExact /\ Marks /\ Installing /\ Freed /\ Fresh /\ Counted
    /\ \A s \in SuperVersions : s \in Nat /\ s # 0
  BY Held DEF IInv, SuperVersions
<1> sv[t] \in SuperVersions /\ refs[sv[t]] >= 1
  BY DEF TypeOK, Marks, MarksAt, Counted, Reading, ReturnAndCleanupSuperVersion
<1>1. refs' \in [SuperVersions -> Nat]
  BY DEF TypeOK, ReturnAndCleanupSuperVersion
<1>2. RefsExact'
  <2>1. Balanced(t)
    BY DEF Balanced, Fixed, Share, Count, Caching, Reading, Iterating, Scraped, TypeOK,
       ReturnAndCleanupSuperVersion
  <2> QED
    BY <1>1, <2>1, Recount DEF Moves, TypeOK, ReturnAndCleanupSuperVersion
<1>3. Marks'
  BY DEF TypeOK, Marks, MarksAt, Cacheable, Unvisited, ReturnAndCleanupSuperVersion
<1>4. Installing'
  BY DEF TypeOK, Installing, MutexFree, ReturnAndCleanupSuperVersion
<1>5. Freed'
  <2> PICK s0 \in SuperVersions : s0 = sv[t]
    OBVIOUS
  <2> refs' = [refs EXCEPT ![s0] = @ - 1] /\ UNCHANGED <<cleaned, super_version>>
    BY DEF ReturnAndCleanupSuperVersion
  <2>1. CASE refs[s0] # 1
    <3>1. Drops(t, s0)
      BY <2>1 DEF Drops, Ending, ReturnAndCleanupSuperVersion, Dropping, TypeOK
    <3> QED
      BY <3>1, FreedDropped
  <2>2. CASE refs[s0] = 1
    <3>1. Drops(t, s0)
      BY <2>2 DEF Drops, Ending, ReturnAndCleanupSuperVersion, Dropping, TypeOK
    <3> QED
      BY <3>1, FreedDropped
  <2> QED
    BY <2>1, <2>2
<1>6. Fresh'
  BY DEF TypeOK, Fresh, ReturnAndCleanupSuperVersion
<1>7. TypeOK'
  BY <1>1 DEF TypeOK, Places, ReturnAndCleanupSuperVersion
<1> QED
  BY <1>2, <1>3, <1>4, <1>5, <1>6, <1>7, Zenon DEF IInv

\* drop preserves the invariant.
LEMMA dropStep ==
    ASSUME IInv, NEW t \in Readers, drop(t)
    PROVE  IInv'
<1> PICK s0 : s0 = sv[t]
  OBVIOUS
<1> USE DEF None, kSVObsolete, kSVInUse, Unref, Ref, WasLast, Cleanup, reader, iterators,
            installer
<1> /\ TypeOK /\ RefsExact /\ Marks /\ Installing /\ Freed /\ Fresh /\ Counted
    /\ \A s \in SuperVersions : s \in Nat /\ s # 0
  BY Held DEF IInv, SuperVersions
<1> sv[t] \in SuperVersions /\ s0 \in SuperVersions
  BY DEF Marks, MarksAt, drop
<1>1. refs' \in [SuperVersions -> Nat]
  BY DEF TypeOK, drop
<1>2. RefsExact'
  <2>1. Balanced(t)
    BY DEF Balanced, Fixed, Share, Count, Caching, Reading, Iterating, Scraped, TypeOK, drop
  <2> QED
    BY <1>1, <2>1, Recount DEF Moves, TypeOK, drop
<1>3. Marks'
  BY DEF TypeOK, Marks, MarksAt, Cacheable, Unvisited, drop
<1>4. Installing'
  BY DEF TypeOK, Installing, MutexFree, drop
<1>5. Freed'
  <2>1. \A s \in SuperVersions : Ending(s)' = Ending(s)
    BY DEF Ending, drop
  <2>2. /\ \A s \in SuperVersions \ {s0} : Dropping(s)' = Dropping(s)
        /\ t \in Dropping(s0) /\ Dropping(s0)' = Dropping(s0) \ {t}
    BY DEF Dropping, drop, TypeOK
  <2>3. t \notin Ending(s0)
    BY <2>2 DEF Freed, FreedAt
  <2>4. Cleans(t, s0)
    BY <2>1, <2>2, <2>3 DEF Cleans, drop
  <2> QED
    BY <2>4, FreedCleaned, Zenon
<1>6. Fresh'
  BY DEF TypeOK, Fresh, drop
<1>7. TypeOK'
  BY <1>1 DEF TypeOK, Places, drop
<1> QED
  BY <1>2, <1>3, <1>4, <1>5, <1>6, <1>7, Zenon DEF IInv

\* OnThreadExit preserves the invariant.
LEMMA OnThreadExitStep ==
    ASSUME IInv, NEW t \in Readers, OnThreadExit(t)
    PROVE  IInv'
<1> USE DEF None, kSVObsolete, kSVInUse, Unref, Ref, WasLast, Cleanup, reader, iterators,
            installer
<1> /\ TypeOK /\ RefsExact /\ Marks /\ Installing /\ Freed /\ Fresh /\ Counted
    /\ \A s \in SuperVersions : s \in Nat /\ s # 0
  BY Held DEF IInv, SuperVersions
<1>1. refs' \in [SuperVersions -> Nat]
  BY DEF TypeOK, OnThreadExit
<1>2. RefsExact'
  <2>1. Balanced(t)
    BY DEF Balanced, Fixed, Share, Count, Caching, Reading, Iterating, Scraped, TypeOK,
       OnThreadExit
  <2> QED
    BY <1>1, <2>1, Recount DEF Moves, TypeOK, OnThreadExit
<1>3. Marks'
  BY DEF TypeOK, Marks, MarksAt, Cacheable, Unvisited, OnThreadExit, MetaFree
<1>4. Installing'
  BY DEF TypeOK, Installing, MutexFree, OnThreadExit
<1>5. Freed'
  BY FreedKept DEF Keeps, Dropping, Ending, TypeOK, OnThreadExit
<1>6. Fresh'
  BY DEF TypeOK, Fresh, OnThreadExit
<1>7. TypeOK'
  BY <1>1 DEF TypeOK, Places, OnThreadExit
<1> QED
  BY <1>2, <1>3, <1>4, <1>5, <1>6, <1>7, Zenon DEF IInv

\* SuperVersionUnrefHandle preserves the invariant.
LEMMA SuperVersionUnrefHandleStep ==
    ASSUME IInv, NEW t \in Readers, SuperVersionUnrefHandle(t)
    PROVE  IInv'
<1> USE DEF None, kSVObsolete, kSVInUse, Unref, Ref, WasLast, Cleanup, reader, iterators,
            installer
<1> /\ TypeOK /\ RefsExact /\ Marks /\ Installing /\ Freed /\ Fresh /\ Counted
    /\ \A s \in SuperVersions : s \in Nat /\ s # 0
  BY Held DEF IInv, SuperVersions
<1> local_sv[t] \in SuperVersions \cup {None}
    /\ (local_sv[t] # None => refs[local_sv[t]] >= 2)
  BY DEF TypeOK, Marks, MarksAt, Counted, Cacheable, Unvisited, Installing,
     SuperVersionUnrefHandle
<1>1. refs' \in [SuperVersions -> Nat]
  BY DEF TypeOK, SuperVersionUnrefHandle
<1>2. RefsExact'
  <2>1. Balanced(t)
    BY DEF Balanced, Fixed, Share, Count, Caching, Reading, Iterating, Scraped, TypeOK,
       SuperVersionUnrefHandle
  <2> QED
    BY <1>1, <2>1, Recount DEF Moves, TypeOK, SuperVersionUnrefHandle
<1>3. Marks'
  BY DEF TypeOK, Marks, MarksAt, Cacheable, Unvisited, SuperVersionUnrefHandle
<1>4. Installing'
  BY DEF TypeOK, Installing, MutexFree, SuperVersionUnrefHandle
<1>5. Freed'
  BY FreedKept DEF Keeps, Dropping, Ending, TypeOK, SuperVersionUnrefHandle
<1>6. Fresh'
  BY DEF TypeOK, Fresh, SuperVersionUnrefHandle
<1>7. TypeOK'
  BY <1>1 DEF TypeOK, Places, SuperVersionUnrefHandle
<1> QED
  BY <1>2, <1>3, <1>4, <1>5, <1>6, <1>7, Zenon DEF IInv

\* CleanupIteratorState preserves the invariant.
LEMMA CleanupIteratorStateStep ==
    ASSUME IInv, NEW t \in Readers, CleanupIteratorState(t)
    PROVE  IInv'
<1> USE DEF None, kSVObsolete, kSVInUse, Unref, Ref, WasLast, Cleanup, reader, iterators,
            installer
<1> /\ TypeOK /\ RefsExact /\ Marks /\ Installing /\ Freed /\ Fresh /\ Counted
    /\ \A s \in SuperVersions : s \in Nat /\ s # 0
  BY Held DEF IInv, SuperVersions
<1> iter[t] \in SuperVersions /\ refs[iter[t]] >= 1 /\ last[t] = None
  BY DEF TypeOK, Counted, Marks, MarksAt, CleanupIteratorState
<1>1. refs' \in [SuperVersions -> Nat]
  BY DEF TypeOK, CleanupIteratorState
<1>2. RefsExact'
  <2>1. Balanced(t)
    BY DEF Balanced, Fixed, Share, Count, Caching, Reading, Iterating, Scraped, TypeOK,
       CleanupIteratorState
  <2> QED
    BY <1>1, <2>1, Recount DEF Moves, TypeOK, CleanupIteratorState
<1>3. Marks'
  BY DEF TypeOK, Marks, MarksAt, Cacheable, Unvisited, CleanupIteratorState
<1>4. Installing'
  BY DEF TypeOK, Installing, MutexFree, CleanupIteratorState
<1>5. Freed'
  <2> PICK s0 \in SuperVersions : s0 = iter[t]
    OBVIOUS
  <2> refs' = [refs EXCEPT ![s0] = @ - 1] /\ UNCHANGED <<cleaned, super_version>>
    BY DEF CleanupIteratorState
  <2>1. CASE refs[s0] # 1
    <3>1. Drops(t, s0)
      BY <2>1 DEF Drops, Dropping, CleanupIteratorState, Ending, TypeOK
    <3> QED
      BY <3>1, FreedDropped
  <2>2. CASE refs[s0] = 1
    <3>1. Drops(t, s0)
      BY <2>2 DEF Drops, Dropping, CleanupIteratorState, Ending, TypeOK
    <3> QED
      BY <3>1, FreedDropped
  <2> QED
    BY <2>1, <2>2
<1>6. Fresh'
  BY DEF TypeOK, Fresh, CleanupIteratorState
<1>7. TypeOK'
  BY <1>1 DEF TypeOK, Places, CleanupIteratorState
<1> QED
  BY <1>2, <1>3, <1>4, <1>5, <1>6, <1>7, Zenon DEF IInv

\* cleanup_iterator preserves the invariant.
LEMMA cleanup_iteratorStep ==
    ASSUME IInv, NEW t \in Readers, cleanup_iterator(t)
    PROVE  IInv'
<1> PICK s0 : s0 = last[t]
  OBVIOUS
<1> USE DEF None, kSVObsolete, kSVInUse, Unref, Ref, WasLast, Cleanup, reader, iterators,
            installer
<1> /\ TypeOK /\ RefsExact /\ Marks /\ Installing /\ Freed /\ Fresh /\ Counted
    /\ \A s \in SuperVersions : s \in Nat /\ s # 0
  BY Held DEF IInv, SuperVersions
<1> last[t] \in SuperVersions /\ s0 \in SuperVersions
  BY DEF TypeOK, cleanup_iterator
<1>1. RefsExact'
  BY NoRecount DEF cleanup_iterator
<1>2. Marks'
  BY DEF TypeOK, Marks, MarksAt, Cacheable, Unvisited, cleanup_iterator
<1>3. Installing'
  BY DEF TypeOK, Installing, MutexFree, cleanup_iterator
<1>4. Freed'
  <2>1. \A s \in SuperVersions : Dropping(s)' = Dropping(s)
    BY DEF Dropping, cleanup_iterator
  <2>2. /\ \A s \in SuperVersions \ {s0} : Ending(s)' = Ending(s)
        /\ t \in Ending(s0) /\ Ending(s0)' = Ending(s0) \ {t}
    BY DEF Ending, cleanup_iterator, TypeOK
  <2>3. t \notin Dropping(s0)
    BY <2>2 DEF Freed, FreedAt
  <2>4. Cleans(t, s0)
    BY <2>1, <2>2, <2>3 DEF Cleans, cleanup_iterator
  <2> QED
    BY <2>4, FreedCleaned, Zenon
<1>5. Fresh'
  BY DEF TypeOK, Fresh, cleanup_iterator
<1>6. refs' \in [SuperVersions -> Nat] /\ TypeOK'
  BY DEF TypeOK, Places, cleanup_iterator
<1> QED
  BY <1>1, <1>2, <1>3, <1>4, <1>5, <1>6, Zenon DEF IInv

\* Scrape preserves the invariant.
LEMMA ScrapeStep ==
    ASSUME IInv, NEW t \in Readers, Scrape(t)
    PROVE  IInv'
<1> USE DEF None, kSVObsolete, kSVInUse, Unref, Ref, WasLast, Cleanup, reader, iterators,
            installer
<1> /\ TypeOK /\ RefsExact /\ Marks /\ Installing /\ Freed /\ Fresh /\ Counted
    /\ \A s \in SuperVersions : s \in Nat /\ s # 0
  BY Held DEF IInv, SuperVersions
<1> sv_ptrs[t] = None /\ local_sv[t] \in SuperVersions \cup {kSVObsolete, kSVInUse}
  BY DEF TypeOK, Installing, Scrape
<1>1. refs' \in [SuperVersions -> Nat]
  BY DEF TypeOK, Scrape
<1>2. RefsExact'
  <2>1. Balanced(t)
    BY DEF Balanced, Fixed, Share, Count, Caching, Reading, Iterating, Scraped, TypeOK, Scrape
  <2> QED
    BY <1>1, <2>1, Recount DEF Moves, TypeOK, Scrape
<1>3. Marks'
  BY DEF TypeOK, Marks, MarksAt, Cacheable, Unvisited, Scrape
<1>4. Installing'
  BY DEF TypeOK, Installing, MutexFree, Scrape
<1>5. Freed'
  BY FreedKept DEF Keeps, Dropping, Ending, TypeOK, Scrape
<1>6. Fresh'
  BY DEF TypeOK, Fresh, Scrape
<1>7. TypeOK'
  BY <1>1 DEF TypeOK, Places, Scrape
<1> QED
  BY <1>2, <1>3, <1>4, <1>5, <1>6, <1>7, Zenon DEF IInv

\* ResetThreadLocalSuperVersions preserves the invariant.
LEMMA ResetThreadLocalSuperVersionsStep ==
    ASSUME IInv, NEW t \in Readers, ResetThreadLocalSuperVersions(t)
    PROVE  IInv'
<1> PICK s0 : s0 = sv_ptrs[t]
  OBVIOUS
<1> USE DEF None, kSVObsolete, kSVInUse, Unref, Ref, WasLast, Cleanup, reader, iterators,
            installer
<1> /\ TypeOK /\ RefsExact /\ Marks /\ Installing /\ Freed /\ Fresh /\ Counted
    /\ \A s \in SuperVersions : s \in Nat /\ s # 0
  BY Held DEF IInv, SuperVersions
<1> sv_ptrs[t] \in SuperVersions /\ s0 \in SuperVersions /\ refs[sv_ptrs[t]] >= 1
  BY DEF TypeOK, Counted, ResetThreadLocalSuperVersions
<1>1. refs' \in [SuperVersions -> Nat]
  BY DEF TypeOK, ResetThreadLocalSuperVersions
<1>2. RefsExact'
  <2>1. Balanced(t)
    BY DEF Balanced, Fixed, Share, Count, Caching, Reading, Iterating, Scraped, TypeOK,
       ResetThreadLocalSuperVersions
  <2> QED
    BY <1>1, <2>1, Recount DEF Moves, TypeOK, ResetThreadLocalSuperVersions
<1>3. Marks'
  BY DEF TypeOK, Marks, MarksAt, Cacheable, Unvisited, ResetThreadLocalSuperVersions
<1>4. Installing'
  BY DEF TypeOK, Installing, MutexFree, ResetThreadLocalSuperVersions
<1>5. Freed'
  <2>1. Releases(s0)
    BY DEF Releases, Dropping, Ending, ResetThreadLocalSuperVersions
  <2> QED
    BY <2>1, FreedReleased, Zenon
<1>6. Fresh'
  BY DEF TypeOK, Fresh, ResetThreadLocalSuperVersions
<1>7. TypeOK'
  BY <1>1 DEF TypeOK, Places, ResetThreadLocalSuperVersions
<1> QED
  BY <1>2, <1>3, <1>4, <1>5, <1>6, <1>7, Zenon DEF IInv

\* InstallSuperVersion preserves the invariant.
LEMMA InstallSuperVersionStep ==
    ASSUME IInv, InstallSuperVersion
    PROVE  IInv'
<1> USE DEF None, kSVObsolete, kSVInUse, Unref, Ref, WasLast, Cleanup, reader, iterators,
            installer
<1> /\ TypeOK /\ RefsExact /\ Marks /\ Installing /\ Freed /\ Fresh /\ Counted
    /\ \A s \in SuperVersions : s \in Nat /\ s # 0
  BY Held DEF IInv, SuperVersions
<1> /\ super_version + 1 \in SuperVersions /\ super_version \in SuperVersions
    /\ refs[super_version + 1] = 0 /\ refs[super_version] >= 1
  BY SuperVersionAssumption DEF TypeOK, Counted, Freed, FreedAt, InstallSuperVersion,
     SuperVersions
<1>1. refs' \in [SuperVersions -> Nat]
  BY DEF TypeOK, InstallSuperVersion
<1>2. RefsExact'
  <2> SUFFICES ASSUME NEW s \in SuperVersions PROVE refs'[s] = References(s)'
    BY DEF RefsExact
  <2>1. References(s)' \in Nat /\ References(s)' - Fixed(s)' = References(s) - Fixed(s)
    BY NoThreadMoves DEF InstallSuperVersion
  <2>2. refs[s] = References(s) /\ Fixed(s) \in Nat /\ Fixed(s)' \in Nat
    BY DEF RefsExact, Fixed, Count
  <2>3. refs'[s] - refs[s] = Fixed(s)' - Fixed(s) /\ refs[s] \in Nat /\ refs'[s] \in Nat
    BY <1>1 DEF InstallSuperVersion, TypeOK, Installing, MutexFree, Fixed, Count
  <2> QED
    BY <2>1, <2>2, <2>3
<1>3. Marks'
  <2> SUFFICES ASSUME NEW t \in Readers PROVE MarksAt(t)'
    BY DEF Marks
  <2>1. MarksAt(t)
    BY DEF Marks
  <2> QED
    BY <2>1 DEF MarksAt, Cacheable, Unvisited, TypeOK, InstallSuperVersion, MutexFree
<1>4. Installing'
  BY DEF TypeOK, Installing, MutexFree, InstallSuperVersion
<1>5. Freed'
  BY DEF Freed, Dropping, Ending, InstallSuperVersion, TypeOK, FreedAt
<1>6. Fresh'
  BY DEF TypeOK, Fresh, InstallSuperVersion
<1>7. TypeOK'
  BY <1>1 DEF TypeOK, Places, InstallSuperVersion
<1> QED
  BY <1>2, <1>3, <1>4, <1>5, <1>6, <1>7, Zenon DEF IInv

\* lock_meta preserves the invariant.
LEMMA lock_metaStep ==
    ASSUME IInv, lock_meta
    PROVE  IInv'
<1> USE DEF None, kSVObsolete, kSVInUse, Unref, Ref, WasLast, Cleanup, reader, iterators,
            installer
<1> /\ TypeOK /\ RefsExact /\ Marks /\ Installing /\ Freed /\ Fresh /\ Counted
    /\ \A s \in SuperVersions : s \in Nat /\ s # 0
  BY Held DEF IInv, SuperVersions
<1>1. RefsExact'
  BY NoRecount DEF lock_meta
<1>2. Marks'
  BY DEF TypeOK, Marks, MarksAt, Cacheable, Unvisited, lock_meta, MetaFree
<1>3. Installing'
  BY DEF TypeOK, Installing, MutexFree, lock_meta
<1>4. Freed'
  BY FreedKept DEF Keeps, Dropping, Ending, TypeOK, lock_meta
<1>5. Fresh'
  BY DEF TypeOK, Fresh, lock_meta
<1>6. refs' \in [SuperVersions -> Nat] /\ TypeOK'
  BY DEF TypeOK, Places, lock_meta
<1> QED
  BY <1>1, <1>2, <1>3, <1>4, <1>5, <1>6, Zenon DEF IInv

\* unlock_meta preserves the invariant.
LEMMA unlock_metaStep ==
    ASSUME IInv, unlock_meta
    PROVE  IInv'
<1> USE DEF None, kSVObsolete, kSVInUse, Unref, Ref, WasLast, Cleanup, reader, iterators,
            installer
<1> /\ TypeOK /\ RefsExact /\ Marks /\ Installing /\ Freed /\ Fresh /\ Counted
    /\ \A s \in SuperVersions : s \in Nat /\ s # 0
  BY Held DEF IInv, SuperVersions
<1>1. RefsExact'
  BY NoRecount DEF unlock_meta
<1>2. Marks'
  BY DEF TypeOK, Marks, MarksAt, Cacheable, Unvisited, unlock_meta
<1>3. Installing'
  BY DEF TypeOK, Installing, MutexFree, unlock_meta
<1>4. Freed'
  BY FreedKept DEF Keeps, Dropping, Ending, TypeOK, unlock_meta
<1>5. Fresh'
  BY DEF TypeOK, Fresh, unlock_meta
<1>6. refs' \in [SuperVersions -> Nat] /\ TypeOK'
  BY DEF TypeOK, Places, unlock_meta
<1> QED
  BY <1>1, <1>2, <1>3, <1>4, <1>5, <1>6, Zenon DEF IInv

\* release_old preserves the invariant.
LEMMA release_oldStep ==
    ASSUME IInv, release_old
    PROVE  IInv'
<1> PICK s0 : s0 = old_superversion
  OBVIOUS
<1> USE DEF None, kSVObsolete, kSVInUse, Unref, Ref, WasLast, Cleanup, reader, iterators,
            installer
<1> /\ TypeOK /\ RefsExact /\ Marks /\ Installing /\ Freed /\ Fresh /\ Counted
    /\ \A s \in SuperVersions : s \in Nat /\ s # 0
  BY Held DEF IInv, SuperVersions
<1> old_superversion \in SuperVersions /\ s0 \in SuperVersions /\ refs[old_superversion] >= 1
  BY Zenon DEF Installing, Counted, release_old
<1>1. refs' \in [SuperVersions -> Nat]
  BY DEF TypeOK, release_old
<1>2. RefsExact'
  <2> SUFFICES ASSUME NEW s \in SuperVersions PROVE refs'[s] = References(s)'
    BY DEF RefsExact
  <2>1. References(s)' \in Nat /\ References(s)' - Fixed(s)' = References(s) - Fixed(s)
    BY NoThreadMoves DEF release_old
  <2>2. refs[s] = References(s) /\ Fixed(s) \in Nat /\ Fixed(s)' \in Nat
    BY DEF RefsExact, Fixed, Count
  <2>3. refs'[s] - refs[s] = Fixed(s)' - Fixed(s) /\ refs[s] \in Nat /\ refs'[s] \in Nat
    BY <1>1 DEF release_old, TypeOK, Installing, MutexFree, Fixed, Count
  <2> QED
    BY <2>1, <2>2, <2>3
<1>3. Marks'
  BY DEF TypeOK, Marks, MarksAt, Cacheable, Unvisited, release_old
<1>4. Installing'
  BY DEF TypeOK, Installing, MutexFree, release_old
<1>5. Freed'
  <2>1. Releases(s0)
    BY DEF Releases, Dropping, Ending, release_old
  <2> QED
    BY <2>1, FreedReleased, Zenon
<1>6. Fresh'
  BY DEF TypeOK, Fresh, release_old
<1>7. TypeOK'
  BY <1>1 DEF TypeOK, Places, release_old
<1> QED
  BY <1>2, <1>3, <1>4, <1>5, <1>6, <1>7, Zenon DEF IInv

\* It is inductive: one case for each action.
LEMMA NextIInv == IInv /\ [Next]_vars => IInv'
<1> SUFFICES ASSUME IInv, [Next]_vars PROVE IInv'
  OBVIOUS
<1>1. ASSUME NEW t \in Readers, read(t) PROVE IInv'
  BY <1>1, GetThreadLocalSuperVersionStep, checkStep, unref_staleStep, acquireStep,
     NewIteratorStep, ReturnThreadLocalSuperVersionStep, GetReferencedSuperVersionStep,
     ReturnAndCleanupSuperVersionStep, dropStep, OnThreadExitStep, SuperVersionUnrefHandleStep,
     Zenon DEF read
<1>2. ASSUME NEW t \in Readers, close(t) PROVE IInv'
  BY <1>2, CleanupIteratorStateStep, cleanup_iteratorStep, Zenon DEF close
<1>3. CASE InstallSuperVersion
  BY <1>3, InstallSuperVersionStep
<1>4. CASE installs
  <2>1. ASSUME NEW t \in Readers, Scrape(t) \/ ResetThreadLocalSuperVersions(t) PROVE IInv'
    BY <2>1, ScrapeStep, ResetThreadLocalSuperVersionsStep, Zenon
  <2> QED
    BY <1>4, <2>1, lock_metaStep, unlock_metaStep, release_oldStep, Zenon DEF installs
<1>5. CASE UNCHANGED vars
  <2>1. RefsExact'
    BY <1>5, NoRecount DEF vars
  <2>2. Freed'
    BY <1>5 DEF IInv, Freed, FreedAt, Dropping, Ending, vars
  <2>3. Marks' /\ Installing'
    BY <1>5 DEF IInv, Marks, MarksAt, Installing, Cacheable, Unvisited, vars
  <2>4. TypeOK' /\ Fresh'
    BY <1>5 DEF IInv, TypeOK, Fresh, vars
  <2> QED
    BY <2>1, <2>2, <2>3, <2>4 DEF IInv
<1> QED
  BY <1>1, <1>2, <1>3, <1>4, <1>5, Zenon DEF Next

\* Every reachable state satisfies it.
LEMMA Inductive == Spec => []IInv
BY InitIInv, NextIInv, PTL DEF Spec

----------------------------------------------------------------------------
(***************************************************************************)
(* The theorems.                                                           *)
(***************************************************************************)

\* A reference count is the number of places that point to the SuperVersion:
\* no Ref() or Unref() of column_family.cc is missing or repeated, however
\* swaps, scrapes, returns and exits of any number of threads interleave.
THEOREM RefsAreExact == Spec => [](TypeOK /\ RefsExact)
<1>1. IInv => TypeOK /\ RefsExact
  BY DEF IInv
<1> QED
  BY <1>1, Inductive, PTL

\* No read, iterator, cache or installation points to a SuperVersion on which
\* Cleanup() has run, and no two threads clean up the same one.
THEOREM NothingUsedAfterFree == Spec => []NoUseAfterFree
<1>1. IInv => NoUseAfterFree
  BY DEF IInv, TypeOK, Freed, RefsExact, FreedAt, NoUseAfterFree
<1> QED
  BY <1>1, Inductive, PTL

\* A thread's cache holds the current SuperVersion, or the one just replaced
\* until the scrape visits it; and a read never uses one older than the one
\* current when its snapshot was taken.
THEOREM CachesAreFresh == Spec => [](CachedIsCurrent /\ ReadsAreFresh)
<1>1. IInv => CachedIsCurrent /\ ReadsAreFresh
  BY DEF IInv, Marks, MarksAt, Fresh, Cacheable, Unvisited, CachedIsCurrent, ReadsAreFresh
<1> QED
  BY <1>1, Inductive, PTL

\* A thread that exits while it holds the mutex of the thread-local storage
\* never waits for the mutex of the database, the order inverse to a scrape's.
THEOREM ExitTakesNoMutex == Spec => []ExitNeedsNoMutex
<1>1. IInv => ExitNeedsNoMutex
  BY DEF IInv, Marks, MarksAt, ExitNeedsNoMutex
<1> QED
  BY <1>1, Inductive, PTL
=============================================================================
