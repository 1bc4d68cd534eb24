----------------------------- MODULE TableHandler -----------------------------
(***************************************************************************)
(* The Java client's TableHandler: rounds of calls of one partition, with  *)
(* retries until the operation's timeout, and the table's configuration,   *)
(* which is asked for again when the replica does not serve the partition. *)
(*                                                                         *)
(* A session answers a call once, with a timeout at the latest when the    *)
(* timeout of the operation has passed since the call (ReplicaSession).    *)
(* Replies, retries and the answer of the meta server run on different     *)
(* threads; the steps of tryQueryMeta are separate actions.                *)
(*                                                                         *)
(* Time passes in units of which IntMax make 2^31 nanoseconds, so that a   *)
(* product of milliseconds and 1000000 in an int is the number of units    *)
(* modulo 2 * IntMax.                                                      *)
(***************************************************************************)
EXTENDS Integers, FiniteSets

CONSTANTS
    Rounds,        \* the calls of asyncOperate
    Timeout,       \* timeoutMs, for the rounds and for the table
    IntMax,        \* 2^31 nanoseconds
    MaxTime        \* bound on the time

ASSUME TimeAssumption == Timeout \in Nat \ {0} /\ IntMax \in Nat \ {0} /\ MaxTime \in Nat

VARIABLES
    now,
    pc,            \* round -> where it is
    due,           \* round -> when the session's timeout or the retry is due
    created,       \* round -> createNanoTime
    expire,        \* round -> expireNanoTime
    errno,         \* round -> rpc_error.errno of its operator
    cached,        \* round -> the version of the configuration it used
    config,        \* tableConfig_: its version, and the session or "null"
    inQuerying_,   \* "yes" or "no"
    lastQueryTime_,
    queries,       \* the queries to the meta server that have not ended
    ended          \* round -> when thisRoundCompletion ran

round_vars == <<due, created, expire, errno, cached, ended>>
table_vars == <<config, inQuerying_, lastQueryTime_, queries>>
vars == <<now, pc, round_vars, table_vars>>

\* The product of an int of milliseconds and 1000000, as an int.
int_nanos(ms) == ((ms + IntMax) % (2 * IntMax)) - IntMax

getRetryDelay == IF Timeout < 3 THEN 1 ELSE Timeout \div 3

Init ==
    /\ now = getRetryDelay
    /\ pc = [r \in Rounds |-> "new"]
    /\ due = [r \in Rounds |-> 0]
    /\ created = [r \in Rounds |-> 0]
    /\ expire = [r \in Rounds |-> 0]
    /\ errno = [r \in Rounds |-> "ERR_UNKNOWN"]
    /\ cached = [r \in Rounds |-> 0]
    /\ config \in [version : {1}, session : {"primary", "null"}]
    /\ inQuerying_ = "no" /\ lastQueryTime_ = 0
    /\ queries = {}
    /\ ended = [r \in Rounds |-> 0]

Go(r, where) == pc' = [pc EXCEPT ![r] = where]

----------------------------------------------------------------------------
(* The rounds.                                                             *)

asyncOperate(r) ==
    /\ pc[r] = "new"
    /\ created' = [created EXCEPT ![r] = now]
    /\ expire' = [expire EXCEPT ![r] = now + int_nanos(Timeout)]
    /\ Go(r, "call")
    /\ UNCHANGED <<now, due, errno, cached, ended, table_vars>>

\* call: to the session of the configuration, or a query without one.
call(r) ==
    /\ pc[r] = "call"
    /\ cached' = [cached EXCEPT ![r] = config.version]
    /\ IF config.session # "null"
       THEN Go(r, "sent") /\ due' = [due EXCEPT ![r] = now + Timeout]
       ELSE Go(r, "query") /\ UNCHANGED due
    /\ UNCHANGED <<now, created, expire, errno, ended, table_vars>>

thisRoundCompletion(r) ==
    /\ Go(r, "done")
    /\ ended' = [ended EXCEPT ![r] = now]

\* onRpcReply.  A session may fail a write with ERR_TIMEOUT before it is due.
onRpcReply_ok(r) ==
    /\ pc[r] = "sent"
    /\ errno' = [errno EXCEPT ![r] = "ERR_OK"]
    /\ thisRoundCompletion(r)
    /\ UNCHANGED <<now, due, created, expire, cached, table_vars>>

\* ERR_TIMEOUT, ERR_NOT_ENOUGH_MEMBER, ERR_CAPACITY_EXCEEDED.
onRpcReply_retry(r) ==
    /\ pc[r] = "sent"
    /\ errno' = [errno EXCEPT ![r] = "ERR_TIMEOUT"]
    /\ Go(r, "delay")
    /\ UNCHANGED <<now, due, created, expire, cached, ended, table_vars>>

\* ERR_SESSION_RESET, ERR_OBJECT_NOT_FOUND, ERR_INVALID_STATE.
onRpcReply_moved(r) ==
    /\ pc[r] = "sent"
    /\ errno' = [errno EXCEPT ![r] = "ERR_SESSION_RESET"]
    /\ Go(r, "query")
    /\ UNCHANGED <<now, due, created, expire, cached, ended, table_vars>>

nanoDelay == int_nanos(getRetryDelay)

\* Gives up a delay too early.
retries_late(r) == expire[r] - now > 2 * nanoDelay

\* Retries also after the time of the round.
retries_always(r) == TRUE
retries(r) == expire[r] - now > nanoDelay

tryDelayCall(r) ==
    /\ pc[r] = "delay"
    /\ IF retries(r)
       THEN /\ Go(r, "wait")
            /\ due' = [due EXCEPT ![r] = now + nanoDelay]
            /\ UNCHANGED <<errno, ended>>
       ELSE /\ errno' = [errno EXCEPT ![r] = IF @ = "ERR_UNKNOWN" THEN "ERR_TIMEOUT" ELSE @]
            /\ thisRoundCompletion(r)
            /\ UNCHANGED due
    /\ UNCHANGED <<now, created, expire, cached, table_vars>>

retry(r) ==
    /\ pc[r] = "wait" /\ due[r] <= now
    /\ Go(r, "call")
    /\ UNCHANGED <<now, round_vars, table_vars>>

----------------------------------------------------------------------------
(* tryQueryMeta and onUpdateConfiguration.                                 *)

query_cas(r) ==
    /\ pc[r] = "query"
    /\ inQuerying_' = "yes"
    /\ Go(r, IF inQuerying_ = "no" THEN "check" ELSE "delay")
    /\ UNCHANGED <<now, round_vars, config, lastQueryTime_, queries>>

\* Asks again whatever the round used.
too_soon_unversioned(r) == now - lastQueryTime_ < getRetryDelay

\* The table was asked for too recently, or changed since the round used it.
too_soon(r) == now - lastQueryTime_ < getRetryDelay \/ config.version > cached[r]

query_refused(r) ==
    /\ pc[r] = "check"
    /\ too_soon(r)
    /\ inQuerying_' = "no"
    /\ Go(r, "delay")
    /\ UNCHANGED <<now, round_vars, config, lastQueryTime_, queries>>

query_start(r) ==
    /\ pc[r] = "check"
    /\ ~too_soon(r)
    /\ inQuerying_' = "yes"
    /\ lastQueryTime_' = now
    /\ queries' = queries \cup {[by |-> r, did |-> "asked"]}
    /\ Go(r, "delay")
    /\ UNCHANGED <<now, round_vars, config>>

\* initTableConfiguration: the session of the primary the answer names.
update(q, session) ==
    /\ q \in queries /\ q.did = "asked"
    /\ config' = [version |-> config.version + 1, session |-> session]
    /\ queries' = (queries \ {q}) \cup {[q EXCEPT !.did = "updated"]}
    /\ UNCHANGED <<now, pc, round_vars, inQuerying_, lastQueryTime_>>

\* After an error, too, the next query is allowed.
update_end(q) ==
    /\ q \in queries
    /\ inQuerying_' = "no"
    /\ queries' = queries \ {q}
    /\ UNCHANGED <<now, pc, round_vars, config, lastQueryTime_>>

\* Time passes when no thread can run and nothing is due.
tick ==
    /\ now < MaxTime
    /\ \A r \in Rounds : pc[r] \in {"new", "done"} \/ (pc[r] \in {"sent", "wait"} /\ due[r] > now)
    /\ now' = now + 1
    /\ UNCHANGED <<pc, round_vars, table_vars>>

Next ==
    \/ \E r \in Rounds :
          \/ asyncOperate(r) \/ call(r) \/ onRpcReply_ok(r) \/ onRpcReply_retry(r)
          \/ onRpcReply_moved(r) \/ tryDelayCall(r) \/ retry(r)
          \/ query_cas(r) \/ query_refused(r) \/ query_start(r)
    \/ \E q \in queries : update_end(q) \/ \E s \in {"primary", "null"} : update(q, s)
    \/ tick

Spec == Init /\ [][Next]_vars

----------------------------------------------------------------------------
(* Properties.                                                             *)

(* The variables have their types.                                         *)
TypeOK ==
    /\ now \in Nat
    /\ \A r \in Rounds :
          /\ pc[r] \in {"new", "call", "sent", "query", "check", "delay", "wait", "done"}
          /\ due[r] \in Int /\ expire[r] \in Int /\ created[r] \in Nat
          /\ cached[r] \in 0 .. config.version
          /\ pc[r] = "done" => errno[r] # "ERR_UNKNOWN"
    /\ config.version \in Nat \ {0}
    /\ inQuerying_ \in {"yes", "no"}

(* The table is asked for by one query at a time, however many rounds fail *)
(* together, and never while the answer of one is being installed: the     *)
(* flag is taken by one thread and is given back after the update.         *)
OneQuery ==
    /\ Cardinality(queries) + Cardinality({r \in Rounds : pc[r] = "check"}) <= 1
    /\ inQuerying_ = "no" => queries = {} /\ \A r \in Rounds : pc[r] # "check"

(* Each query is made at least a retry delay after the one before it, and  *)
(* by a round that used the newest configuration.                          *)
QueriesNeeded ==
    [][\A q \in queries' \ queries : q.did = "asked" =>
          /\ now - lastQueryTime_ >= getRetryDelay
          /\ cached[q.by] = config'.version]_vars

(* A round that ends without an answer has used its time: there was not    *)
(* enough left for another try after the delay.                            *)
NotGivenUpEarly ==
    \A r \in Rounds : pc[r] = "done" /\ errno[r] # "ERR_OK" =>
        ended[r] + getRetryDelay >= created[r] + Timeout

(* A round ends within twice its timeout: the last try starts before the   *)
(* round expires and has the whole timeout for itself.                     *)
EndsWithinTwice ==
    \A r \in Rounds : pc[r] \notin {"new", "done"} => now < created[r] + 2 * Timeout

(* PegasusTableInterface says of the parameter that it is "how long will   *)
(* the operation timeout in milliseconds".                                 *)
EndsWithinTimeout ==
    \A r \in Rounds : pc[r] \notin {"new", "done"} => now <= created[r] + Timeout

(* A comment of tryDelayCall says that a round that ends with ERR_UNKNOWN, *)
(* having called no replica, ends so "when we can't initialize a null      *)
(* replica session for a long time": some time has passed when             *)
(* tryDelayCall does not retry it.                                         *)
NullSessionLong ==
    \A r \in Rounds : pc[r] = "delay" /\ errno[r] = "ERR_UNKNOWN" /\ ~retries(r) =>
        now > created[r]

=============================================================================
