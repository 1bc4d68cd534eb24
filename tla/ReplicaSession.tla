---------------------------- MODULE ReplicaSession ----------------------------
(***************************************************************************)
(* The Java client's ReplicaSession: one TCP connection to a server, made  *)
(* when a request needs it, and the requests that are waiting for it or    *)
(* for their responses.                                                    *)
(*                                                                         *)
(* asyncSend runs on the threads of its callers, one per request here.     *)
(* What happens on the connection is handled by an event loop of netty: it *)
(* connects, writes, reads responses and runs markSessionConnected and     *)
(* markSessionDisconnect.  Timers run on other loops.  pendingResponse is  *)
(* a concurrent map; pendingSend and the writes of fields are protected by *)
(* the lock of pendingSend, which markSessionDisconnect holds while it     *)
(* notifies the requests one by one.                                       *)
(***************************************************************************)
EXTENDS Integers, Sequences, FiniteSets

CONSTANTS
    Requests,      \* the calls of asyncSend
    MaxConnects    \* bound on the connections that are made

ASSUME ConnectsAssumption == MaxConnects \in Nat

Channels == 1 .. MaxConnects

VARIABLES
    pc,              \* request -> where its asyncSend is
    timer,           \* request -> "none", "armed" or "over"
    timeoutTask,     \* request -> "null" or "set"
    pendingResponse, \* the requests that may still be answered
    pendingSend,     \* the requests that wait for the connection
    fields,          \* the state of the session and its channel, 0 for null
    channel,         \* channel -> "none", "connecting", "active" or "closed"
    connects,        \* the number of connections made
    outbox,          \* the writes the event loop has not done: request, channel
    wire,            \* the requests that the server got
    loop,            \* what markSessionDisconnect is doing, and for which requests
    written,         \* request -> how often it was sent to the server
    runs             \* request -> how often its callback ran

vars == <<pc, timer, timeoutTask, pendingResponse, pendingSend, fields, channel,
          connects, outbox, wire, loop, written, runs>>

idle == [at |-> "idle", todo |-> {}]
disconnected == [state |-> "DISCONNECTED", nettyChannel |-> 0]
connecting == [state |-> "CONNECTING", nettyChannel |-> 0]

Init ==
    /\ pc = [r \in Requests |-> "new"]
    /\ timer = [r \in Requests |-> "none"]
    /\ timeoutTask = [r \in Requests |-> "null"]
    /\ pendingResponse = {}
    /\ pendingSend = <<>>
    /\ fields = disconnected
    /\ channel = [c \in Channels |-> "none"]
    /\ connects = 0
    /\ outbox = {} /\ wire = {}
    /\ loop = idle
    /\ written = [r \in Requests |-> 0]
    /\ runs = [r \in Requests |-> 0]

connection_vars == <<fields, channel, connects>>
write_vars == <<outbox, wire, written>>
answer_vars == <<pendingResponse, timer, runs>>

Go(r, where) == pc' = [pc EXCEPT ![r] = where]

----------------------------------------------------------------------------
(* asyncSend.                                                              *)

put(r) ==
    /\ pc[r] = "new"
    /\ pendingResponse' = pendingResponse \cup {r}
    /\ Go(r, "put")
    /\ UNCHANGED <<timer, timeoutTask, pendingSend, connection_vars, write_vars, loop, runs>>

\* The timer is running before its handle is in the entry.
addTimer(r) ==
    /\ pc[r] = "put"
    /\ timer' = [timer EXCEPT ![r] = "armed"]
    /\ Go(r, "armed")
    /\ UNCHANGED <<timeoutTask, pendingResponse, pendingSend, connection_vars, write_vars,
                   loop, runs>>

set_timeoutTask(r) ==
    /\ pc[r] = "armed"
    /\ timeoutTask' = [timeoutTask EXCEPT ![r] = "set"]
    /\ Go(r, "timed")
    /\ UNCHANGED <<timer, pendingResponse, pendingSend, connection_vars, write_vars, loop, runs>>

\* writeAndFlush hands the entry to the event loop of the channel.
write(r, c) == outbox' = outbox \cup {<<r, c>>}

\* The look at fields without the lock.
send_connected(r) ==
    /\ pc[r] = "timed"
    /\ fields.state = "CONNECTED"
    /\ write(r, fields.nettyChannel)
    /\ Go(r, "done")
    /\ UNCHANGED <<timer, timeoutTask, pendingResponse, pendingSend, connection_vars,
                   wire, written, loop, runs>>

send_unconnected(r) ==
    /\ pc[r] = "timed"
    /\ fields.state # "CONNECTED"
    /\ Go(r, "lock")
    /\ UNCHANGED <<timer, timeoutTask, pendingResponse, pendingSend, connection_vars,
                   write_vars, loop, runs>>

\* The same look with the lock held.
locked_connected(r) ==
    /\ pc[r] = "lock" /\ loop.at = "idle"
    /\ fields.state = "CONNECTED"
    /\ write(r, fields.nettyChannel)
    /\ Go(r, "done")
    /\ UNCHANGED <<timer, timeoutTask, pendingResponse, pendingSend, connection_vars,
                   wire, written, loop, runs>>

\* asyncSend that goes by what it saw without the lock.
locked_queue_unchecked(r) ==
    /\ pc[r] = "lock" /\ loop.at = "idle"
    /\ pendingSend' = Append(pendingSend, r)
    /\ IF fields.state = "DISCONNECTED"
       THEN fields' = connecting /\ Go(r, "connect")
       ELSE UNCHANGED fields /\ Go(r, "done")
    /\ UNCHANGED <<timer, timeoutTask, pendingResponse, channel, connects, write_vars,
                   loop, runs>>

locked_queue(r) ==
    /\ pc[r] = "lock" /\ loop.at = "idle"
    /\ fields.state # "CONNECTED"
    /\ pendingSend' = Append(pendingSend, r)
    /\ IF fields.state = "DISCONNECTED"
       THEN fields' = connecting /\ Go(r, "connect")
       ELSE UNCHANGED fields /\ Go(r, "done")
    /\ UNCHANGED <<timer, timeoutTask, pendingResponse, channel, connects, write_vars,
                   loop, runs>>

doConnect(r) ==
    /\ pc[r] = "connect"
    /\ connects < MaxConnects
    /\ connects' = connects + 1
    /\ channel' = [channel EXCEPT ![connects + 1] = "connecting"]
    /\ Go(r, "done")
    /\ UNCHANGED <<timer, timeoutTask, pendingResponse, pendingSend, fields, write_vars,
                   loop, runs>>

----------------------------------------------------------------------------
(* tryNotifyWithSequenceID and the response decoder: whoever removes the   *)
(* entry of a request cancels its timer and runs its callback.             *)

waiting(r) == r \in pendingResponse

\* The entry has no timer to cancel yet: a NullPointerException, after the
\* entry was removed and before its callback ran.
throws(r) == waiting(r) /\ timeoutTask[r] = "null"

\* An answer that leaves the entry to the others.
tryNotify_kept(r) ==
    /\ runs' = IF waiting(r) THEN [runs EXCEPT ![r] = @ + 1] ELSE runs
    /\ timer' = IF waiting(r) THEN [timer EXCEPT ![r] = "over"] ELSE timer
    /\ UNCHANGED pendingResponse

\* An answer without its callback.
tryNotify_silent(r) ==
    /\ pendingResponse' = pendingResponse \ {r}
    /\ timer' = IF waiting(r) THEN [timer EXCEPT ![r] = "over"] ELSE timer
    /\ UNCHANGED runs

\* For every caller but the timer.
tryNotify(r) ==
    /\ pendingResponse' = pendingResponse \ {r}
    /\ runs' = IF waiting(r) /\ ~throws(r) THEN [runs EXCEPT ![r] = @ + 1] ELSE runs
    /\ timer' = IF waiting(r) /\ ~throws(r) THEN [timer EXCEPT ![r] = "over"] ELSE timer

\* The timer's own call does not touch the handle.
timer_fires(r) ==
    /\ timer[r] = "armed"
    /\ timer' = [timer EXCEPT ![r] = "over"]
    /\ pendingResponse' = pendingResponse \ {r}
    /\ runs' = IF waiting(r) THEN [runs EXCEPT ![r] = @ + 1] ELSE runs
    /\ UNCHANGED <<pc, timeoutTask, pendingSend, connection_vars, write_vars, loop>>

----------------------------------------------------------------------------
(* The event loop.                                                         *)

\* The write of an entry: to the server, or to a closed channel, and then the
\* listener of the write notifies the request.
flush_sends(r, c) ==
    /\ loop.at = "idle"
    /\ <<r, c>> \in outbox /\ channel[c] = "active"
    /\ outbox' = outbox \ {<<r, c>>}
    /\ wire' = wire \cup {<<r, c>>}
    /\ written' = [written EXCEPT ![r] = @ + 1]
    /\ UNCHANGED <<pc, answer_vars, timeoutTask, pendingSend, connection_vars, loop>>

flush_fails(r, c) ==
    /\ loop.at = "idle"
    /\ <<r, c>> \in outbox /\ channel[c] = "closed"
    /\ outbox' = outbox \ {<<r, c>>}
    /\ tryNotify(r)
    /\ UNCHANGED <<pc, timeoutTask, pendingSend, connection_vars, wire, written, loop>>

\* A response: the decoder removes the entry, and the handler runs its callback.
channelRead(r, c) ==
    /\ loop.at = "idle"
    /\ <<r, c>> \in wire /\ channel[c] = "active"
    /\ wire' = wire \ {<<r, c>>}
    /\ tryNotify(r)
    /\ UNCHANGED <<pc, timeoutTask, pendingSend, connection_vars, outbox, written, loop>>

\* markSessionConnected: the requests that wait and have not timed out are
\* written, and then the session is connected.
channelActive(c) ==
    /\ loop.at = "idle"
    /\ channel[c] = "connecting"
    /\ channel' = [channel EXCEPT ![c] = "active"]
    /\ outbox' = outbox \cup {<<r, c>> : r \in
                    {q \in pendingResponse : \E k \in DOMAIN pendingSend : pendingSend[k] = q}}
    /\ pendingSend' = <<>>
    /\ fields' = [state |-> "CONNECTED", nettyChannel |-> c]
    /\ UNCHANGED <<pc, answer_vars, timeoutTask, connects, wire, written, loop>>

\* connect fails or channelInactive: the channel is closed and
\* markSessionDisconnect takes the lock, unless the session is disconnected.
channelClosed(c) ==
    /\ loop.at = "idle"
    /\ channel[c] \in {"connecting", "active"}
    /\ channel' = [channel EXCEPT ![c] = "closed"]
    /\ loop' = IF fields.state # "DISCONNECTED" THEN [idle EXCEPT !.at = "pendingSend"] ELSE loop
    /\ UNCHANGED <<pc, answer_vars, timeoutTask, pendingSend, fields, connects, write_vars>>

\* Its first loop notifies the requests that wait for the connection.
drain(r) ==
    /\ loop.at = "pendingSend"
    /\ pendingSend # <<>> /\ r = Head(pendingSend)
    /\ pendingSend' = Tail(pendingSend)
    /\ tryNotify(r)
    /\ loop' = IF throws(r) THEN idle ELSE loop
    /\ UNCHANGED <<pc, timeoutTask, connection_vars, write_vars>>

\* The entries of pendingResponse are copied.
copy ==
    /\ loop.at = "pendingSend"
    /\ pendingSend = <<>>
    /\ loop' = [at |-> "pendingResponse", todo |-> pendingResponse]
    /\ UNCHANGED <<pc, answer_vars, timeoutTask, pendingSend, connection_vars, write_vars>>

\* Its second loop notifies them.  An exception ends markSessionDisconnect.
notify(r) ==
    /\ loop.at = "pendingResponse"
    /\ r \in loop.todo
    /\ tryNotify(r)
    /\ loop' = IF throws(r) THEN idle ELSE [loop EXCEPT !.todo = @ \ {r}]
    /\ UNCHANGED <<pc, timeoutTask, pendingSend, connection_vars, write_vars>>

finish ==
    /\ loop.at = "pendingResponse"
    /\ loop.todo = {}
    /\ fields' = disconnected
    /\ loop' = idle
    /\ UNCHANGED <<pc, answer_vars, timeoutTask, pendingSend, channel, connects, write_vars>>

----------------------------------------------------------------------------
asyncSend(r) ==
    \/ put(r) \/ addTimer(r) \/ set_timeoutTask(r)
    \/ send_connected(r) \/ send_unconnected(r)
    \/ locked_connected(r) \/ locked_queue(r) \/ doConnect(r)

markSessionDisconnect ==
    \/ \E r \in Requests : drain(r) \/ notify(r)
    \/ copy
    \/ finish

Next ==
    \/ \E r \in Requests : asyncSend(r)
    \/ \E r \in Requests : timer_fires(r)
    \/ \E r \in Requests, c \in Channels :
          flush_sends(r, c) \/ flush_fails(r, c) \/ channelRead(r, c)
    \/ \E c \in Channels : channelActive(c) \/ channelClosed(c)
    \/ markSessionDisconnect

Spec == Init /\ [][Next]_vars

(* A call of asyncSend and markSessionDisconnect go on once they run; the  *)
(* event loop makes its writes; timers fire.  A server need not answer, a  *)
(* connection need neither come about nor break.                           *)
Fairness ==
    /\ \A r \in Requests :
          /\ WF_vars(pc[r] # "new" /\ asyncSend(r))
          /\ WF_vars(timer_fires(r))
          /\ \A c \in Channels : WF_vars(flush_sends(r, c) \/ flush_fails(r, c))
    /\ WF_vars(markSessionDisconnect)

FairSpec == Spec /\ Fairness

----------------------------------------------------------------------------
(* Properties.                                                             *)

Fields ==
    {disconnected, connecting} \cup [state : {"CONNECTED"}, nettyChannel : Channels]

(* The variables have their types; a connected session has a channel.      *)
TypeOK ==
    /\ pc \in [Requests -> {"new", "put", "armed", "timed", "lock", "connect", "done"}]
    /\ timer \in [Requests -> {"none", "armed", "over"}]
    /\ timeoutTask \in [Requests -> {"null", "set"}]
    /\ pendingResponse \subseteq Requests
    /\ pendingSend \in Seq(Requests)
    /\ fields \in Fields
    /\ channel \in [Channels -> {"none", "connecting", "active", "closed"}]
    /\ connects \in 0 .. MaxConnects
    /\ outbox \subseteq Requests \X Channels /\ wire \subseteq Requests \X Channels
    /\ loop \in [at : {"idle", "pendingSend", "pendingResponse"}, todo : SUBSET Requests]
    /\ written \in [Requests -> Nat]
    /\ runs \in [Requests -> Nat]

(* A callback runs at most once, whatever of the response, the timer, the  *)
(* failed write and the reset of the connection come together, and never   *)
(* while its request may still be answered.                                *)
CallbackOnce ==
    \A r \in Requests : runs[r] <= 1 /\ (runs[r] = 1 => ~waiting(r))

(* A request reaches the server at most once: asyncSend never sends again  *)
(* what it or markSessionConnected has already written.                    *)
WrittenOnce == \A r \in Requests : written[r] <= 1

(* The session has at most one connection at a time: while one is being    *)
(* made or is active no other is asked for.                                *)
SingleConnection ==
    /\ \A c, d \in Channels :
          channel[c] \in {"connecting", "active"} /\ channel[d] \in {"connecting", "active"}
              => c = d
    /\ \A r \in Requests : pc[r] = "connect" =>
          \A c \in Channels : channel[c] \notin {"connecting", "active"}

(* No request is left in the queue of a connected session, where nobody    *)
(* would look for it: asyncSend decides under the lock again.              *)
NothingStranded ==
    fields.state = "CONNECTED" /\ loop.at = "idle" => pendingSend = <<>>

(* A request that has its timer and is not answered is answered in the end *)
(* by the server, by the reset of the connection or by the timer.          *)
TimedAnswered ==
    \A r \in Requests : (waiting(r) /\ timeoutTask[r] = "set") ~> (runs[r] = 1)

(* The comment in markSessionDisconnect says of the requests it does not   *)
(* reach that "we are relying on the timeout task": every call of          *)
(* asyncSend gets its callback.                                            *)
EveryCallAnswered ==
    \A r \in Requests : (pc[r] # "new") ~> (runs[r] = 1)

(* A failed write leaves the connection alone, "this should be the duty of *)
(* ChannelHandler": a session whose channel is closed is disconnected in   *)
(* the end, so that the next request connects again.                       *)
ClosedIsNoticed ==
    \A c \in Channels :
        (channel[c] = "closed") ~>
            ~(fields.state = "CONNECTED" /\ fields.nettyChannel = c)

=============================================================================
