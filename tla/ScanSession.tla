----------------------------- MODULE ScanSession -----------------------------
(***************************************************************************)
(* A scan: pegasus_scanner_impl of the C++ client, the handlers            *)
(* on_get_scanner, on_scan and on_clear_scanner of the replicas it talks   *)
(* to, and their caches of scan contexts (pegasus_context_cache).          *)
(*                                                                         *)
(* Keys are numbers and values are left out.  A rocksdb iterator is the    *)
(* set of the keys it still has ahead.  _kvs and _p are two sets, the rows *)
(* of the last batch and those of them not yet handed out.  The callbacks  *)
(* of _queue are counted; those called with PERR_SCAN_COMPLETE or an error *)
(* are called in the step that empties the queue.                          *)
(*                                                                         *)
(* A request may reach the replica after its caller has timed out, a reply *)
(* may be lost, a context may expire, and a replica may lose its contexts  *)
(* (restart, or another primary) between any two steps.                    *)
(***************************************************************************)
EXTENDS Integers, Sequences, FiniteSets, FiniteSetsExt

\* The scans to check, records with the fields below.
CONSTANT Scans

SCAN_CONTEXT_ID_COMPLETED == -1
SCAN_CONTEXT_ID_NOT_EXIST == -2

VARIABLES
    scan,        \* the scan: it does not change
    present,     \* the keys in the database of each partition
    expired,     \* those of them that are expired
    counter,     \* _counter of each replica's context cache
    map,         \* _map: contexts, a handle and what the iterator has ahead
    wire,        \* requests on their way
    replies,     \* replies on their way
    kvs,         \* _kvs
    left,        \* the rows of _kvs after _p
    context,     \* _context
    splits_hash, \* _splits_hash, the partitions not yet begun (a set)
    hash,        \* _hash, the partition being scanned
    queue,       \* how many callbacks _queue holds
    pc,          \* "idle", "callback" (running one) or "rpc" (_rpc_started)
    alive,       \* "yes" until the scanner is deleted
    sent,        \* number of requests sent; the last one is waited for
    calls,       \* number of calls of async_next
    losses,      \* number of timeouts and restarts
    delivered,   \* the rows handed to the user
    complete     \* "yes" once PERR_SCAN_COMPLETE was reported

Partitions == scan.partitions          \* a set of numbers
Keys == 1 .. scan.keys
StartKey == scan.start                 \* the range to scan
StopKey == scan.stop
StartInclusive == scan.start_inclusive
StopInclusive == scan.stop_inclusive
BatchSize == scan.batch_size           \* scan_options::batch_size
Mutable == scan.mutable                \* keys that are written and removed
Expiring == scan.expiring              \* keys whose time to live may end
IteratorErrors == scan.iterator_errors \* rocksdb iterators may fail
MaxCalls == scan.max_calls             \* bound on calls of async_next
MaxLosses == scan.max_losses           \* bound on timeouts and restarts

InRange(k) ==
    /\ k > StartKey \/ (StartInclusive /\ k = StartKey)
    /\ k < StopKey \/ (StopInclusive /\ k = StopKey)

\* The keys in range that every partition has all the time.
Stable == {k \in Keys : InRange(k)} \ (Mutable \cup Expiring)

ASSUME ScanAssumption ==
    \A c \in Scans :
        /\ c.partitions \subseteq Nat /\ IsFiniteSet(c.partitions)
        /\ c.keys \in Nat /\ c.batch_size \in Nat \ {0}
        /\ c.start \in Nat /\ c.stop \in Nat /\ c.start < c.stop
        /\ c.start_inclusive \in BOOLEAN /\ c.stop_inclusive \in BOOLEAN
        /\ c.mutable \subseteq 1 .. c.keys /\ c.expiring \subseteq 1 .. c.keys
        /\ c.max_calls \in Nat /\ c.max_losses \in Nat
        /\ c.iterator_errors \in BOOLEAN

db_vars == <<scan, present, expired>>
server_vars == <<counter, map>>
scanner_vars == <<kvs, left, context, splits_hash, hash, queue, pc>>
user_vars == <<alive, calls, delivered, complete>>
vars == <<db_vars, server_vars, wire, replies, scanner_vars, user_vars, sent,
          losses>>

Init ==
    /\ scan \in Scans
    /\ present = [q \in Partitions |-> Keys]
    /\ expired = [q \in Partitions |-> {}]
    /\ counter = [q \in Partitions |-> 0]
    /\ map = [q \in Partitions |-> {}]
    /\ wire = {} /\ replies = {}
    /\ kvs = {} /\ left = {} /\ context = SCAN_CONTEXT_ID_COMPLETED
    /\ splits_hash = Partitions /\ hash = Min(Partitions)
    /\ queue = 0 /\ pc = "idle" /\ alive = "yes"
    /\ sent = 0 /\ calls = 0 /\ losses = 0
    /\ delivered = <<>> /\ complete = "no"

----------------------------------------------------------------------------
(* The replicas.                                                           *)

\* A client writes or removes a row; the time to live of a row ends.
write_row(q, k) ==
    /\ \/ k \in Mutable /\ present' = [present EXCEPT ![q] = @ \cup {k}]
                        /\ expired' = [expired EXCEPT ![q] = @ \ {k}]
       \/ k \in Mutable /\ present' = [present EXCEPT ![q] = @ \ {k}]
                        /\ UNCHANGED expired
       \/ k \in Expiring /\ expired' = [expired EXCEPT ![q] = @ \cup {k}]
                         /\ UNCHANGED present
    /\ UNCHANGED <<scan, server_vars, wire, replies, scanner_vars, user_vars, sent,
                   losses>>

\* The keys the loop of a handler steps over: BatchSize keys before the stop
\* key, or what is left and then maybe the stop key itself.
Before(rest) == {k \in rest : k < StopKey}
Completes(rest) == Cardinality(Before(rest)) < BatchSize
Taken(rest) ==
    IF Completes(rest)
    THEN Before(rest) \cup {k \in rest : StopInclusive /\ k = StopKey}
    ELSE {k \in Before(rest) :
             Cardinality({j \in Before(rest) : j < k}) < BatchSize}

\* append_key_value_for_scan leaves expired rows out.
append_key_value_for_scan(q, taken) == taken \ expired[q]

\* _context_cache.fetch: the contexts left when one of these is taken out.
fetch(q, contexts) == map[q] \ contexts

\* _context_cache.put, under a handle that was not used before.  The counter
\* of a new process starts at the time << 20, above all handles of old ones.
put(q, rest, others) ==
    /\ map' = [map EXCEPT ![q] = others \cup {[handle |-> counter[q],
                                               rest |-> rest]}]
    /\ counter' = [counter EXCEPT ![q] = @ + 1]

\* A handler answers request r with rows; the scan goes on with the iterator
\* rest under a new handle, or is complete.
answer(r, rows, rest, others, completed) ==
    /\ IF completed
       THEN map' = [map EXCEPT ![r.q] = others] /\ UNCHANGED counter
       ELSE put(r.q, rest, others)
    /\ replies' = replies \cup
           {[id |-> r.id, error |-> "ok", kvs |-> rows,
             context |-> IF completed THEN SCAN_CONTEXT_ID_COMPLETED
                                      ELSE counter[r.q]]}

\* The caller of a scan whose context is gone is not answered.
answer_error_silent(r, err) == UNCHANGED replies

answer_error(r, err) ==
    replies' = replies \cup
        {[id |-> r.id, error |-> err, kvs |-> {}, context |-> 0]}

\* Where Seek(start) puts the iterator; an exclusive start key is skipped, but
\* only if it is before the stop key.
first_keys(r) ==
    {k \in present[r.q] :
        \/ k > r.start
        \/ k = r.start /\ (r.inclusive \/ k >= StopKey)}

on_get_scanner(r) ==
    /\ r.type = "get_scanner"
    /\ wire' = wire \ {r}
    /\ LET rest  == first_keys(r)
           taken == Taken(rest) IN
       \/ answer(r, append_key_value_for_scan(r.q, taken), rest \ taken,
                 map[r.q], Completes(rest))
       \/ \* the iterator fails
          /\ IteratorErrors
          /\ answer_error(r, "corruption")
          /\ UNCHANGED server_vars
    /\ UNCHANGED <<db_vars, scanner_vars, user_vars, sent, losses>>

\* on_scan reports an iterator that fails as the end of the scan.
on_scan(r) ==
    /\ r.type = "scan"
    /\ wire' = wire \ {r}
    /\ LET found == {c \in map[r.q] : c.handle = r.context} IN
       \/ /\ found = {}
          /\ answer_error(r, "not_found")
          /\ UNCHANGED server_vars
       \/ \E c \in found :
             LET taken == Taken(c.rest) IN
             \/ answer(r, append_key_value_for_scan(r.q, taken),
                       c.rest \ taken, fetch(r.q, {c}), Completes(c.rest))
             \/ \* the iterator fails at some row
                /\ IteratorErrors
                /\ \E e \in taken :
                      answer(r, append_key_value_for_scan(r.q,
                                    {k \in taken : k < e}),
                             {}, fetch(r.q, {c}), TRUE)
    /\ UNCHANGED <<db_vars, scanner_vars, user_vars, sent, losses>>

on_clear_scanner(r) ==
    /\ r.type = "clear_scanner"
    /\ wire' = wire \ {r}
    /\ map' = [map EXCEPT ![r.q] =
                  fetch(r.q, {c \in map[r.q] : c.handle = r.context})]
    /\ UNCHANGED <<db_vars, counter, replies, scanner_vars, user_vars, sent,
                   losses>>

\* The delayed task that was enqueued when context c was put.
expire_context(q) ==
    /\ \E c \in map[q] : map' = [map EXCEPT ![q] = fetch(q, {c})]
    /\ UNCHANGED <<db_vars, counter, wire, replies, scanner_vars, user_vars,
                   sent, losses>>

\* Another client begins a scan of the whole partition.
other_scan(q) ==
    /\ losses < MaxLosses
    /\ losses' = losses + 1
    /\ put(q, present[q], map[q])
    /\ UNCHANGED <<db_vars, wire, replies, scanner_vars, user_vars, sent>>

\* The replica restarts, or another one becomes the primary.
restart(q) ==
    /\ losses < MaxLosses
    /\ map[q] # {}
    /\ losses' = losses + 1
    /\ map' = [map EXCEPT ![q] = {}]
    /\ UNCHANGED <<db_vars, counter, wire, replies, scanner_vars, user_vars,
                   sent>>

----------------------------------------------------------------------------
(* The scanner.                                                            *)

send(request) ==
    /\ sent' = sent + 1
    /\ wire' = wire \cup {request}
    /\ pc' = "rpc"

\* _start_scan with the first key again after a lost context.
_start_scan_over(q, rows) ==
    send([id |-> sent + 1, type |-> "get_scanner", q |-> q, context |-> 0,
          start |-> StartKey, inclusive |-> StartInclusive])

\* _start_scan: from the start key, or after the last row of the last batch.
_start_scan(q, rows) ==
    send([id |-> sent + 1, type |-> "get_scanner", q |-> q, context |-> 0,
          start |-> IF rows = {} THEN StartKey ELSE Max(rows),
          inclusive |-> IF rows = {} THEN StartInclusive ELSE FALSE])

_next_batch(q, handle) ==
    send([id |-> sent + 1, type |-> "scan", q |-> q, context |-> handle,
          start |-> 0, inclusive |-> FALSE])

\* _async_next_internal with n callbacks in the queue, up to where it gives
\* up the lock: to run a callback, to send a request, or because the scan is
\* complete.
_async_next_internal(n, rows, unread, ctx) ==
    /\ \/ \* the next row of the batch
          /\ unread # {}
          /\ pc' = "callback" /\ queue' = n
          /\ kvs' = rows /\ left' = unread \ {Min(unread)} /\ context' = ctx
          /\ delivered' = Append(delivered, <<hash, Min(unread)>>)
          /\ UNCHANGED <<splits_hash, hash, complete, sent, wire>>
       \/ \* all partitions are completed
          /\ unread = {} /\ ctx = SCAN_CONTEXT_ID_COMPLETED
          /\ splits_hash = {}
          /\ pc' = "idle" /\ queue' = 0 /\ complete' = "yes"
          /\ kvs' = rows /\ left' = {} /\ context' = ctx
          /\ UNCHANGED <<splits_hash, hash, delivered, sent, wire>>
       \/ \* the next partition: _split_reset
          /\ unread = {} /\ ctx = SCAN_CONTEXT_ID_COMPLETED
          /\ splits_hash # {}
          /\ hash' = Min(splits_hash)
          /\ splits_hash' = splits_hash \ {Min(splits_hash)}
          /\ kvs' = {} /\ left' = {} /\ context' = SCAN_CONTEXT_ID_NOT_EXIST
          /\ queue' = n
          /\ _start_scan(Min(splits_hash), {})
          /\ UNCHANGED <<delivered, complete>>
       \/ \* the context is lost, or was never there
          /\ unread = {} /\ ctx = SCAN_CONTEXT_ID_NOT_EXIST
          /\ kvs' = rows /\ left' = {} /\ context' = ctx /\ queue' = n
          /\ _start_scan(hash, rows)
          /\ UNCHANGED <<splits_hash, hash, delivered, complete>>
       \/ /\ unread = {} /\ ctx >= 0
          /\ kvs' = rows /\ left' = {} /\ context' = ctx /\ queue' = n
          /\ _next_batch(hash, ctx)
          /\ UNCHANGED <<splits_hash, hash, delivered, complete>>
    /\ UNCHANGED <<db_vars, server_vars, alive>>

\* async_next: a call that finds the queue empty goes on with the scan itself.
async_next ==
    /\ alive = "yes"
    /\ calls < MaxCalls
    /\ calls' = calls + 1
    /\ \/ /\ queue = 0
          /\ _async_next_internal(1, kvs, left, context)
       \/ /\ queue > 0
          /\ queue' = queue + 1
          /\ UNCHANGED <<db_vars, server_vars, wire, kvs, left, context,
                         splits_hash, hash, pc, alive, delivered, complete,
                         sent>>
    /\ UNCHANGED <<replies, losses>>

\* The callback returns.  It was kept in the queue while it ran.
callback_returns ==
    /\ pc = "callback"
    /\ \/ /\ queue = 1
          /\ queue' = 0 /\ pc' = "idle"
          /\ UNCHANGED <<db_vars, server_vars, wire, kvs, left, context,
                         splits_hash, hash, alive, delivered, complete, sent>>
       \/ /\ queue > 1
          /\ _async_next_internal(queue - 1, kvs, left, context)
    /\ UNCHANGED <<calls, replies, losses>>

\* Only the first callback of the queue is called with the error.
_on_scan_error_first_only ==
    /\ queue' = queue - 1 /\ pc' = "idle"
    /\ UNCHANGED <<db_vars, server_vars, wire, kvs, left, context,
                   splits_hash, hash, user_vars, sent>>

\* Every callback of the queue is called with an error.
_on_scan_error ==
    /\ queue' = 0 /\ pc' = "idle"
    /\ UNCHANGED <<db_vars, server_vars, wire, kvs, left, context,
                   splits_hash, hash, user_vars, sent>>

_on_scan_response(r) ==
    /\ pc = "rpc" /\ r.id = sent
    /\ replies' = replies \ {r}
    /\ \/ /\ r.error = "ok"
          /\ _async_next_internal(queue, r.kvs, r.kvs, r.context)
          /\ UNCHANGED calls
       \/ /\ r.error = "not_found"
          /\ _async_next_internal(queue, kvs, left, SCAN_CONTEXT_ID_NOT_EXIST)
          /\ UNCHANGED calls
       \/ /\ r.error = "corruption"
          /\ _on_scan_error
    /\ UNCHANGED losses

\* The request or its reply is lost or late: a late reply finds nobody.
rpc_timeout ==
    /\ pc = "rpc"
    /\ losses < MaxLosses
    /\ losses' = losses + 1
    /\ _on_scan_error
    /\ replies' = {r \in replies : r.id # sent}

drop_late_reply ==
    /\ \E r \in replies : /\ ~(pc = "rpc" /\ r.id = sent)
                          /\ replies' = replies \ {r}
    /\ UNCHANGED <<db_vars, server_vars, wire, scanner_vars, user_vars, sent,
                   losses>>

\* The user deletes the scanner, as safe_destructible() allows.
delete_scanner ==
    /\ alive = "yes"
    /\ queue = 0
    /\ alive' = "no"
    /\ IF context >= 0
       THEN wire' = wire \cup {[id |-> 0, type |-> "clear_scanner", q |-> hash,
                                context |-> context, start |-> 0,
                                inclusive |-> FALSE]}
       ELSE UNCHANGED wire
    /\ UNCHANGED <<db_vars, server_vars, replies, scanner_vars, calls,
                   delivered, complete, sent, losses>>

----------------------------------------------------------------------------
serve ==
    \E r \in wire : on_get_scanner(r) \/ on_scan(r) \/ on_clear_scanner(r)

Next ==
    \/ \E q \in Partitions, k \in Keys : write_row(q, k)
    \/ serve
    \/ \E q \in Partitions : expire_context(q)
    \/ \E q \in Partitions : other_scan(q)
    \/ \E q \in Partitions : restart(q)
    \/ async_next
    \/ callback_returns
    \/ \E r \in replies : _on_scan_response(r)
    \/ rpc_timeout
    \/ drop_late_reply
    \/ delete_scanner

Spec == Init /\ [][Next]_vars

\* A replica answers the request that is waited for and user callbacks return.
Fairness ==
    /\ WF_vars(\E r \in wire : r.id = sent /\ (on_get_scanner(r) \/ on_scan(r)))
    /\ WF_vars(\E r \in replies : _on_scan_response(r))
    /\ WF_vars(callback_returns)

FairSpec == Spec /\ Fairness

----------------------------------------------------------------------------
(* Properties.                                                             *)

\* Every variable has its type.
TypeOK ==
    /\ present \in [Partitions -> SUBSET Keys]
    /\ expired \in [Partitions -> SUBSET Keys]
    /\ counter \in [Partitions -> Nat]
    /\ \A q \in Partitions : \A c \in map[q] :
           c.handle \in 0 .. (counter[q] - 1) /\ c.rest \subseteq Keys
    /\ \A r \in wire : r.id \in 0 .. sent /\ r.q \in Partitions
    /\ \A r \in replies : r.id \in 1 .. sent /\ r.kvs \subseteq Keys
    /\ kvs \subseteq Keys /\ left \subseteq kvs
    /\ context \in Int /\ context >= SCAN_CONTEXT_ID_NOT_EXIST
    /\ splits_hash \subseteq Partitions /\ hash \in Partitions
    /\ queue \in 0 .. MaxCalls /\ pc \in {"idle", "callback", "rpc"}
    /\ alive \in {"yes", "no"} /\ complete \in {"yes", "no"}
    /\ delivered \in Seq(Partitions \X Keys)

\* safe_destructible() tells the truth: with an empty queue no callback runs
\* and no request is waited for; and a call that waits in the queue has a
\* callback or a request ahead of it that will come back to it.
SafeToDelete == queue = 0 <=> pc = "idle"

\* Where no row expires and no iterator fails.
Sound == Expiring = {} /\ ~IteratorErrors

\* Whatever is lost or restarted, the scanner keeps a cursor's promise: rows
\* in order, none twice, none skipped.  (Expired batches and failed iterators
\* break it: DeliveredInOrder and CompleteMeansAll.)
Cursor == INSTANCE ScanCursor
    WITH Rows <- UNION {c.partitions \X (1 .. c.keys) : c \in Scans},
         wanted <- IF Sound THEN Partitions \X Stable ELSE {},
         delivered <- IF Sound THEN delivered ELSE <<>>,
         complete <- IF Sound THEN complete ELSE "no"
ImplementsCursor == Cursor!Spec

\* Every call of async_next is answered.
AllAnswered == queue > 0 ~> queue = 0

\* No row comes twice or out of order.
DeliveredInOrder ==
    \A i, j \in 1 .. Len(delivered) :
        i < j /\ delivered[i][1] = delivered[j][1] =>
            delivered[i][2] < delivered[j][2]

\* PERR_SCAN_COMPLETE means that every row that was there has come.
CompleteMeansAll ==
    complete = "yes" =>
        \A q \in Partitions, k \in Stable :
            \E i \in 1 .. Len(delivered) : delivered[i] = <<q, k>>

=============================================================================
