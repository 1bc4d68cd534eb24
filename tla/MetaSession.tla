------------------------------ MODULE MetaSession ------------------------------
(***************************************************************************)
(* The Java client's MetaSession: queries that look for the leader among   *)
(* the meta servers.  All queries share curLeader; a query that fails at   *)
(* the server curLeader names moves it to the next one.                    *)
(*                                                                         *)
(* External: the meta servers.  One of them is the leader and answers; the *)
(* others forward.  Any of them may fail (no answer, connection reset),    *)
(* and the leader may be inactive or lose its place.  What a server        *)
(* answers is decided when it is asked and may be handled much later.      *)
(* A session answers each call once (ReplicaSession).                      *)
(***************************************************************************)
EXTENDS Integers

CONSTANTS
    Rounds,        \* the calls of asyncQuery
    MetaCount,     \* metaList.size()
    MaxQueryCount, \* how often a round asks
    MaxFaults      \* bound on the failures of leaders and their changes

ASSUME MetaAssumption ==
    MetaCount \in Nat \ {0} /\ MaxQueryCount \in Nat \ {0} /\ MaxFaults \in Nat

VARIABLES
    curLeader,
    pc,            \* round -> "new", "call", "answered" or "done"
    lastSession,   \* round -> the server it asks
    left,          \* round -> its maxQueryCount
    answer,        \* round -> the error of its operator
    leader,        \* the meta server that is the leader
    faults,        \* failures of leaders and changes so far
    steady         \* rounds for which the leader was there all the time

vars == <<curLeader, pc, lastSession, left, answer, leader, faults, steady>>
environment == <<leader, faults>>

Metas == 0 .. MetaCount - 1

\* What the leader answers: the table, or that there is none.
Final == {"ERR_OK", "ERR_OBJECT_NOT_FOUND"}

Init ==
    /\ curLeader = 0
    /\ pc = [r \in Rounds |-> "new"]
    /\ lastSession = [r \in Rounds |-> 0]
    /\ left = [r \in Rounds |-> MaxQueryCount]
    /\ answer = [r \in Rounds |-> "ERR_UNKNOWN"]
    /\ leader \in Metas
    /\ faults = 0
    /\ steady = {}

asyncQuery(r) ==
    /\ pc[r] = "new"
    /\ pc' = [pc EXCEPT ![r] = "call"]
    /\ lastSession' = [lastSession EXCEPT ![r] = curLeader]
    /\ steady' = steady \cup {r}
    /\ UNCHANGED <<curLeader, left, answer, environment>>

\* The server, or the session in its place, answers a call.
Answered(r, err) ==
    /\ pc[r] = "call"
    /\ pc' = [pc EXCEPT ![r] = "answered"]
    /\ answer' = [answer EXCEPT ![r] = err]
    /\ UNCHANGED <<curLeader, lastSession, left>>

leader_answers(r) ==
    /\ lastSession[r] = leader
    /\ \E err \in Final : Answered(r, err)
    /\ UNCHANGED <<environment, steady>>

other_answers(r) ==
    /\ lastSession[r] # leader
    /\ \E err \in {"ERR_FORWARD_TO_OTHERS", "ERR_TIMEOUT"} : Answered(r, err)
    /\ UNCHANGED <<environment, steady>>

leader_fails(r) ==
    /\ lastSession[r] = leader /\ faults < MaxFaults
    /\ \E err \in {"ERR_SERVICE_NOT_ACTIVE", "ERR_TIMEOUT"} : Answered(r, err)
    /\ faults' = faults + 1
    /\ steady' = {}
    /\ UNCHANGED leader

\* An error of the rpc that onFinishQueryMeta does not know, from any server.
server_breaks(r) ==
    /\ faults < MaxFaults
    /\ Answered(r, "ERR_INVALID_DATA")
    /\ faults' = faults + 1
    /\ steady' = {}
    /\ UNCHANGED leader

leader_changes ==
    /\ faults < MaxFaults
    /\ leader' \in Metas \ {leader}
    /\ faults' = faults + 1
    /\ steady' = {}
    /\ UNCHANGED <<curLeader, pc, lastSession, left, answer>>

needSwitchLeader(r) == answer[r] \in {"ERR_FORWARD_TO_OTHERS", "ERR_TIMEOUT"}

\* Moves on whatever the leader of the moment is.
next_leader_unchecked(r) ==
    IF needSwitchLeader(r) THEN (curLeader + 1) % MetaCount ELSE curLeader

next_leader(r) ==
    IF needSwitchLeader(r) /\ curLeader = lastSession[r]
    THEN (curLeader + 1) % MetaCount ELSE curLeader

\* What the leader has to say of a table, or an unknown error of the rpc.
finished(r) == answer[r] \in Final \cup {"ERR_INVALID_DATA"}

spent(r) == [left EXCEPT ![r] = @ - 1]

\* The callback does not run after the last try.
onFinishQueryMeta_silent(r) ==
    /\ pc[r] = "answered" /\ finished(r)
    /\ left' = spent(r)
    /\ pc' = [pc EXCEPT ![r] = "done"]
    /\ UNCHANGED <<curLeader, lastSession, answer, environment, steady>>

\* onFinishQueryMeta: the last try, or an answer, ends the round.
onFinishQueryMeta_end(r) ==
    /\ pc[r] = "answered"
    /\ left' = spent(r)
    /\ left'[r] = 0 \/ finished(r)
    /\ pc' = [pc EXCEPT ![r] = "done"]
    /\ UNCHANGED <<curLeader, lastSession, answer, environment, steady>>

\* A failure at the leader, after which curLeader names another server, is
\* a disturbance of the other rounds too, also when the answer is an old one.
onFinishQueryMeta_again(r) ==
    /\ pc[r] = "answered"
    /\ left' = spent(r)
    /\ left'[r] # 0 /\ ~finished(r)
    /\ curLeader' = next_leader(r)
    /\ lastSession' = [lastSession EXCEPT ![r] = curLeader']
    /\ pc' = [pc EXCEPT ![r] = "call"]
    /\ steady' = IF needSwitchLeader(r) /\ lastSession[r] = leader THEN {} ELSE steady
    /\ UNCHANGED <<answer, environment>>

Step(r) ==
    \/ asyncQuery(r) \/ leader_answers(r) \/ other_answers(r) \/ leader_fails(r)
    \/ server_breaks(r) \/ onFinishQueryMeta_end(r) \/ onFinishQueryMeta_again(r)

Next == leader_changes \/ \E r \in Rounds : Step(r)

Spec == Init /\ [][Next]_vars

\* Sessions answer or time out, and the event loop runs what is scheduled.
FairSpec == Spec /\ \A r \in Rounds : WF_vars(Step(r))

----------------------------------------------------------------------------
(* The variables have their types; curLeader and every lastSession name a  *)
(* server of metaList, and a round that goes on has tries left.            *)
TypeOK ==
    /\ curLeader \in Metas /\ leader \in Metas
    /\ faults \in 0 .. MaxFaults /\ steady \subseteq Rounds
    /\ \A r \in Rounds :
          /\ pc[r] \in {"new", "call", "answered", "done"}
          /\ lastSession[r] \in Metas
          /\ left[r] \in 0 .. MaxQueryCount
          /\ pc[r] \in {"call", "answered"} => left[r] > 0

(* A query gets the leader's answer if the leader is the same and answers  *)
(* from the query's start to its end, however many other queries fail at   *)
(* the other servers and move curLeader at the same time: it has no more   *)
(* failures than there are other servers.                                  *)
SteadyAnswered ==
    \A r \in Rounds : pc[r] = "done" /\ r \in steady => answer[r] \in Final

(* Every query ends, with an answer or after its last try, so that its     *)
(* callback runs and the table may be asked for again.                     *)
QueriesEnd == \A r \in Rounds : <>(pc[r] = "done")

=============================================================================
