---------------------------- MODULE RedisPipeline ----------------------------
(***************************************************************************)
(* The reply side of redis_parser, and the life of its session in          *)
(* proxy_stub.  The thread that parses the stream puts each request into   *)
(* pending_response (handle_command) and either replies to it at once, for *)
(* a command it refuses, or sends a request to the table, whose callback   *)
(* replies.  The callbacks run on the threads of a pool without            *)
(* partitions, so several threads may be in reply_message and              *)
(* reply_all_ready at a time; _rlock protects the queue and nothing else.  *)
(* When the client disconnects, a task of its own resets the session while *)
(* all of these go on.                                                     *)
(*                                                                         *)
(* An entry of the queue is the number of its request (the code's          *)
(* sequence_id is never read).  What a reply says is the outcome of the    *)
(* call, except that its form depends on the command (callback_reply).     *)
(* A message of the client is some whole commands (RedisParser has the     *)
(* bytes), and the reset meets the parser between two commands.            *)
(***************************************************************************)
EXTENDS Integers, Sequences, FiniteSets, FiniteSetsExt

CONSTANTS
    Commands,      \* the sequences of commands a client may send
    Threads        \* the threads of the pool, beside "parser" and "remover"

\* A client sends a sequence of commands; the parser's thread and the task that
\* removes the session are not threads of the pool.
ASSUME RedisAssumption ==
    /\ Commands \subseteq Seq([name : STRING, valid : {"yes", "no"}])
    /\ "parser" \notin Threads /\ "remover" \notin Threads

VARIABLES
    commands,          \* what the client sends
    mapped,            \* proxy_stub::_sessions has the session
    status,            \* redis_parser::status: "removed", or "open" for the others
    unread,            \* total_length, in commands
    handled,           \* the number of requests handled
    pending_response,  \* the queue
    response,          \* request -> its reply or "null"
    calls,             \* the requests whose call is not answered
    pc,                \* thread -> where it is
    at,                \* thread -> the entry it works on
    refs,              \* reply -> its references
    sent,              \* the replies in the order they were sent
    cleared,           \* the requests whose entries reset() has freed
    stray              \* those that were replied to after that

vars == <<commands, mapped, status, unread, handled, pending_response, response,
          calls, pc, at, refs, sent, cleared, stray>>
client == <<commands, mapped>>
parse == <<unread, handled>>
entries == <<pending_response, response, refs, cleared, stray>>

AllThreads == Threads \cup {"parser"}
Requests == 1 .. Len(commands)

Init ==
    /\ commands \in Commands
    /\ mapped = TRUE
    /\ status = "open"
    /\ unread = 0
    /\ handled = 0
    /\ pending_response = <<>>
    /\ response = [i \in Requests |-> "null"]
    /\ calls = {}
    /\ pc = [t \in AllThreads \cup {"remover"} |-> "idle"]
    /\ at = [t \in AllThreads \cup {"remover"} |-> 0]
    /\ refs = [i \in Requests |-> 0]
    /\ sent = <<>>
    /\ cleared = {}
    /\ stray = {}

----------------------------------------------------------------------------
(* The commands and their replies.  A command has a handler, and arguments *)
(* that are valid or not; its call ends with an error of the call (a       *)
(* timeout is one), an error of the table, not found, or ok.               *)

\* get_handler's table.
s_dispatcher == {"set", "setex", "get", "del", "ttl", "pttl"}

\* The number of arguments and, for setex, the ttl are right.
calls_table(command) == command.name \in s_dispatcher /\ command.valid = "yes"

Results == {"rpc_error", "error", "not_found", "ok"}

\* The reply of the callback of a command.
callback_reply(command, result) ==
    CASE result = "ok" /\ command.name \in {"set", "setex"} -> "OK"
      [] result = "ok" /\ command.name = "get" -> "value"
      [] result = "ok" /\ command.name = "del" -> "1"
      [] result = "ok" /\ command.name = "ttl" -> "seconds"
      [] result = "ok" /\ command.name = "pttl" -> "milliseconds"
      [] result = "not_found" /\ command.name = "get" -> "nil"
      [] result = "not_found" /\ command.name \in {"ttl", "pttl"} -> "-2"
      [] OTHER -> "error"

Go(t, where, entry) ==
    /\ pc' = [pc EXCEPT ![t] = where]
    /\ at' = [at EXCEPT ![t] = entry]

\* A thread is done with an entry.  The parser returns from handle_command to
\* append_current_bulk_string, which sets the status, and parses on.
Return(t) ==
    /\ Go(t, IF t = "parser" THEN "parse" ELSE "idle", 0)
    /\ status' = IF t = "parser" THEN "open" ELSE status

----------------------------------------------------------------------------
(* A message.                                                              *)

\* The session of the client is found in the map; it is a new one, with nothing
\* in common with this, if this one is no longer there.
on_rpc_request ==
    /\ pc["parser"] = "idle"
    /\ mapped
    /\ handled < Len(commands)
    /\ Go("parser", "recv", 0)
    /\ UNCHANGED <<client, status, parse, entries, calls, sent>>

\* append_message, with _lock.
append_message ==
    /\ pc["parser"] = "recv"
    /\ \E n \in 1 .. Len(commands) - handled : unread' = n
    /\ Go("parser", "parse", 0)
    /\ UNCHANGED <<client, status, handled, entries, calls, sent>>

\* handle_command puts the request into the queue and goes to its handler.  In
\* the status removed parse_stream turns without end.
handle_command ==
    LET i == handled + 1 IN
    /\ pc["parser"] = "parse"
    /\ unread > 0
    /\ status # "removed"
    /\ unread' = unread - 1
    /\ handled' = i
    /\ pending_response' = Append(pending_response, i)
    /\ Go("parser", "handler", i)
    /\ UNCHANGED <<client, status, response, calls, refs, sent, cleared, stray>>

parse_return ==
    /\ pc["parser"] = "parse"
    /\ unread = 0
    /\ Go("parser", "idle", 0)
    /\ UNCHANGED <<client, status, parse, entries, calls, sent>>

\* set, setex, get, del, ttl: the call.
handler_calls ==
    /\ pc["parser"] = "handler"
    /\ calls_table(commands[at["parser"]])
    /\ calls' = calls \cup {at["parser"]}
    /\ Return("parser")
    /\ UNCHANGED <<client, parse, entries, sent>>

\* reply_message up to the store of the reply in the entry, which has no effect
\* on the queue if the entry is freed.
set_response(t, i, reply) ==
    /\ response' = [response EXCEPT ![i] = reply]
    /\ stray' = stray \cup ({i} \cap cleared)
    /\ Go(t, "add_ref", i)

\* A refused command gets no reply.
handler_refuses_silent ==
    /\ pc["parser"] = "handler"
    /\ ~calls_table(commands[at["parser"]])
    /\ Return("parser")
    /\ UNCHANGED <<client, parse, entries, calls, sent>>

\* A command that is unknown or has wrong arguments.
handler_refuses ==
    /\ pc["parser"] = "handler"
    /\ ~calls_table(commands[at["parser"]])
    /\ set_response("parser", at["parser"], "error")
    /\ UNCHANGED <<client, status, parse, pending_response, refs, cleared, calls, sent>>

----------------------------------------------------------------------------
(* The callback of a call, on a thread of the pool.                        *)

\* if (status == removed) return;
on_reply(t, i) ==
    /\ pc[t] = "idle"
    /\ i \in calls
    /\ calls' = calls \ {i}
    /\ IF status = "removed" THEN UNCHANGED <<pc, at>> ELSE Go(t, "callback", i)
    /\ UNCHANGED <<client, status, parse, entries, sent>>

callback(t, result) ==
    /\ pc[t] = "callback"
    /\ set_response(t, at[t], callback_reply(commands[at[t]], result))
    /\ UNCHANGED <<client, status, parse, pending_response, refs, cleared, calls, sent>>

----------------------------------------------------------------------------
(* reply_message after the store, and reply_all_ready.                     *)

add_ref(t) ==
    /\ pc[t] = "add_ref"
    /\ refs' = [refs EXCEPT ![at[t]] = @ + 1]
    /\ Go(t, "reply_all_ready", 0)
    /\ UNCHANGED <<client, status, parse, pending_response, response, cleared, stray, calls, sent>>

front_ready ==
    pending_response # <<>> /\ response[Head(pending_response)] # "null"

\* An entry that leaves the queue after its reply was sent.
dequeue_late(t) ==
    /\ pc[t] = "reply_all_ready"
    /\ front_ready
    /\ Go(t, "reply", Head(pending_response))
    /\ pending_response' = IF at[t] = Head(pending_response)
                           THEN Tail(pending_response) ELSE pending_response
    /\ UNCHANGED <<client, status, parse, response, refs, cleared, stray, calls, sent>>

\* Any entry with a reply leaves the queue.
dequeue_any(t) ==
    /\ pc[t] = "reply_all_ready"
    /\ \E k \in DOMAIN pending_response :
          /\ response[pending_response[k]] # "null"
          /\ pending_response' = SubSeq(pending_response, 1, k - 1)
                  \o SubSeq(pending_response, k + 1, Len(pending_response))
          /\ Go(t, "reply", pending_response[k])
    /\ UNCHANGED <<client, status, parse, response, refs, cleared, stray, calls, sent>>

\* Under _rlock: the first entry leaves the queue if its reply is there.
dequeue(t) ==
    /\ pc[t] = "reply_all_ready"
    /\ front_ready
    /\ pending_response' = Tail(pending_response)
    /\ Go(t, "reply", Head(pending_response))
    /\ UNCHANGED <<client, status, parse, response, refs, cleared, stray, calls, sent>>

\* reply_all_ready that replies to one entry.
reply_one(t) ==
    /\ pc[t] = "reply"
    /\ sent' = Append(sent, at[t])
    /\ refs' = [refs EXCEPT ![at[t]] = @ - 1]
    /\ Return(t)
    /\ UNCHANGED <<client, parse, pending_response, response, cleared, stray, calls>>

\* After the unlock: dsn_rpc_reply and the release of the reply.
reply(t) ==
    /\ pc[t] = "reply"
    /\ sent' = Append(sent, at[t])
    /\ refs' = [refs EXCEPT ![at[t]] = @ - 1]
    /\ Go(t, "reply_all_ready", 0)
    /\ UNCHANGED <<client, status, parse, pending_response, response, cleared, stray, calls>>

return(t) ==
    /\ pc[t] = "reply_all_ready"
    /\ ~front_ready
    /\ Return(t)
    /\ UNCHANGED <<client, parse, entries, calls, sent>>

----------------------------------------------------------------------------
(* The client disconnects.                                                 *)

\* The session leaves the map and its task is enqueued.
on_recv_remove_session_request ==
    /\ mapped
    /\ mapped' = FALSE
    /\ Go("remover", "reset", 0)
    /\ UNCHANGED <<commands, status, parse, entries, calls, sent>>

\* The replies in the queue are dropped with their references.
reset_unreleased ==
    /\ pc["remover"] = "reset"
    /\ cleared' = cleared \cup Range(pending_response)
    /\ pending_response' = <<>>
    /\ unread' = 0
    /\ Go("remover", "removed", 0)
    /\ UNCHANGED <<client, status, handled, response, refs, stray, calls, sent>>

reset ==
    /\ pc["remover"] = "reset"
    /\ refs' = [i \in Requests |->
                  refs[i] - IF i \in Range(pending_response) /\ response[i] # "null" THEN 1 ELSE 0]
    /\ cleared' = cleared \cup Range(pending_response)
    /\ pending_response' = <<>>
    /\ unread' = 0
    /\ Go("remover", "removed", 0)
    /\ UNCHANGED <<client, status, handled, response, stray, calls, sent>>

on_remove_session ==
    /\ pc["remover"] = "removed"
    /\ status' = "removed"
    /\ Go("remover", "idle", 0)
    /\ UNCHANGED <<client, parse, entries, calls, sent>>

Parser ==
    \/ append_message
    \/ handle_command
    \/ parse_return
    \/ handler_calls
    \/ handler_refuses

Remover == reset \/ on_remove_session

Step(t) ==
    \/ \E r \in Results : callback(t, r)
    \/ add_ref(t)
    \/ dequeue(t)
    \/ reply(t)
    \/ return(t)

Next ==
    \/ on_rpc_request
    \/ Parser
    \/ \E t \in Threads, i \in Requests : on_reply(t, i)
    \/ \E t \in AllThreads : Step(t)
    \/ on_recv_remove_session_request
    \/ Remover

Spec == Init /\ [][Next]_vars

(* Every call ends, by its timeout at the latest, so its callback runs on  *)
(* some thread; a thread or task that runs goes on.  The client need not   *)
(* send, nor disconnect.                                                   *)
Fairness ==
    /\ WF_vars(Parser) /\ WF_vars(Remover)
    /\ WF_vars(\E t \in Threads, i \in Requests : on_reply(t, i))
    /\ \A t \in AllThreads : WF_vars(Step(t))

FairSpec == Spec /\ Fairness

----------------------------------------------------------------------------
(* Properties.                                                             *)

\* The variables have their types and a thread works on a request that was
\* handled.
TypeOK ==
    /\ {mapped} \subseteq BOOLEAN /\ status \in {"open", "removed"}
    /\ handled \in 0 .. Len(commands) /\ unread \in 0 .. Len(commands) - handled
    /\ Range(pending_response) \cup calls \cup cleared \cup stray \subseteq 1 .. handled
    /\ \A t \in AllThreads :
          /\ pc[t] \in {"idle", "recv", "parse", "handler", "callback", "add_ref",
                        "reply_all_ready", "reply"}
          /\ at[t] \in 0 .. handled
          /\ pc[t] \in {"handler", "callback", "add_ref", "reply"} => at[t] # 0

Replying(t) == pc[t] \in {"callback", "add_ref", "reply_all_ready", "reply"}

\* No reply is sent twice, none before its request has an outcome, and none
\* that reset() has dropped.
SentOnce ==
    /\ IsInjective(sent)
    /\ \A i \in Range(sent) : response[i] # "null" /\ i \notin calls \cup cleared

\* The flag that reply_all_ready polls is set without the lock, and yet no
\* wake-up is lost: when no thread is in reply_message or reply_all_ready
\* the first entry of the queue still waits for its call.
NoneLeftReady == (\A t \in AllThreads : ~Replying(t)) => ~front_ready

\* What _rlock does guarantee of the order: a reply overtakes an earlier one
\* only while another thread, which has dequeued the earlier one, is about to
\* send it, or when the removal of the session has dropped the earlier one.
\* Nothing overtakes a request that is still queued.
OvertakesOnlyDequeued ==
    \A j \in Range(sent) : \A i \in 1 .. j - 1 :
        \/ i \in Range(sent) \cup cleared
        \/ \E t \in AllThreads : pc[t] = "reply" /\ at[t] = i

\* However the callbacks meet the removal of the session, the reference that
\* reply_message takes is given back, by reply_all_ready or by reset, and only
\* once; but for a callback that was past its check of the status when reset
\* freed its entry.
RepliesReleased ==
    LET waiting == {i \in Range(pending_response) : response[i] # "null"} IN
    (\A t \in AllThreads : ~Replying(t)) =>
        \A i \in Requests : refs[i] = IF i \in waiting \cup stray THEN 1 ELSE 0

\* Every request that was handled is replied to in the end, unless the client
\* disconnects.
AllReplied ==
    \A i \in 1 .. Max({Len(c) : c \in Commands}) :
        handled >= i ~> i \in Range(sent) \/ ~mapped

\* The tests of the proxy expect the replies of a pipeline in the order of its
\* requests; redis_parser.h keeps a "queue for pipeline the response".
RepliesInOrder ==
    \A k \in 1 .. Len(sent) - 1 : sent[k] < sent[k + 1]

\* redis_parser.h says of the reference add_ref takes that it is "released
\* when dequeue fro the pending_response queue": a release has its add_ref
\* before it.
ReleasedAfterAdded == \A i \in Requests : refs[i] >= 0

\* The callbacks hold the session "with a reference to prevent the object from
\* being destoryed" (redis_parser.cpp:330): what a callback works on is there.
CallbackEntryLives == \A t \in AllThreads : pc[t] = "callback" => at[t] \notin cleared

\* A message that found the session is parsed to its end, also when the session
\* is removed before it gets the lock.
MessagesEnd == pc["parser"] = "recv" ~> pc["parser"] = "idle"

=============================================================================
