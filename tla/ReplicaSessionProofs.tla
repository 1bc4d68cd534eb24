------------------------- MODULE ReplicaSessionProofs -------------------------
(***************************************************************************)
(* Proofs about ReplicaSession for any set of requests and any number of   *)
(* connections.  Each safety property has an inductive invariant that says *)
(* where a request, or the lock of pendingSend, can be:                    *)
(*                                                                         *)
(*   AnswerInv      a request is not answered before it is put, nor while  *)
(*                  it is in pendingResponse;                              *)
(*   PlaceInv       a request is with its caller, in pendingSend, in the   *)
(*                  outbox or written, and in one of these places only;    *)
(*   ConnectionInv  whoever asked for a connection is alone, and while the *)
(*                  session is disconnected, or being disconnected, there  *)
(*                  is none;                                               *)
(*   QueueInv       nothing is queued while the session is connected.      *)
(***************************************************************************)
EXTENDS ReplicaSession, SequenceTheorems, TLAPS

live(c) == channel[c] \in {"connecting", "active"}
queued(r) == \E k \in DOMAIN pendingSend : pendingSend[k] = r
early(r) == pc[r] \in {"new", "put", "armed"}
unsent(r) == pc[r] \in {"new", "put", "armed", "timed", "lock"}

AnswerInv ==
    \A r \in Requests :
        /\ runs[r] <= 1
        /\ runs[r] = 1 => r \notin pendingResponse
        /\ pc[r] = "new" => runs[r] = 0 /\ r \notin pendingResponse

PlaceInv ==
    \A r \in Requests :
        /\ written[r] <= 1
        /\ unsent(r) => written[r] = 0 /\ ~queued(r) /\ \A c \in Channels : <<r, c>> \notin outbox
        /\ queued(r) => written[r] = 0 /\ \A c \in Channels : <<r, c>> \notin outbox
        /\ \A c, d \in Channels : <<r, c>> \in outbox /\ <<r, d>> \in outbox => c = d
        /\ \A c \in Channels : <<r, c>> \in outbox => written[r] = 0

ConnectionInv ==
    /\ \A c, d \in Channels : live(c) /\ live(d) => c = d
    /\ \A r \in Requests : pc[r] = "connect" => fields.state = "CONNECTING" /\ \A c \in Channels : ~live(c)
    /\ \A r, q \in Requests : pc[r] = "connect" /\ pc[q] = "connect" => r = q
    /\ fields.state = "DISCONNECTED" \/ loop.at # "idle" =>
          /\ \A c \in Channels : ~live(c)
          /\ \A r \in Requests : pc[r] # "connect"
    /\ \A c \in Channels : c > connects => channel[c] = "none"

QueueInv ==
    /\ fields.state = "CONNECTED" /\ loop.at = "idle" => pendingSend = <<>>
    /\ loop.at = "pendingResponse" => pendingSend = <<>>
    /\ \A k \in DOMAIN pendingSend : timeoutTask[pendingSend[k]] = "set"
    /\ \A r \in Requests : ~early(r) => timeoutTask[r] = "set"

----------------------------------------------------------------------------
(* Sequences: what Append and Tail hold.                                   *)

(* Append adds one element and no other: asyncSend's offer.                *)
LEMMA AppendHolds ==
    ASSUME NEW s \in Seq(Requests), NEW e \in Requests
    PROVE  /\ Append(s, e) \in Seq(Requests)
           /\ \A k \in DOMAIN Append(s, e) :
                 Append(s, e)[k] = e \/ \E j \in DOMAIN s : s[j] = Append(s, e)[k]
OBVIOUS

(* Tail holds nothing new: the poll of markSessionDisconnect.              *)
LEMMA TailHolds ==
    ASSUME NEW s \in Seq(Requests), s # <<>>
    PROVE  /\ Tail(s) \in Seq(Requests)
           /\ Head(s) \in Requests
           /\ \A k \in DOMAIN Tail(s) : \E j \in DOMAIN s : s[j] = Tail(s)[k]
<1>1. Tail(s) \in Seq(Requests) /\ Head(s) \in Requests
      OBVIOUS
<1>2. ASSUME NEW k \in DOMAIN Tail(s) PROVE k + 1 \in DOMAIN s /\ s[k + 1] = Tail(s)[k]
      BY <1>2
<1> QED BY <1>1, <1>2

----------------------------------------------------------------------------
(* The first states satisfy the type invariant.                            *)
LEMMA TypeInit == Init => TypeOK
BY ConnectsAssumption DEF Init, TypeOK, idle, disconnected, Channels, Fields

(* The types of what belongs to the requests, and of the rest.             *)
CallTypes ==
    /\ pc \in [Requests -> {"new", "put", "armed", "timed", "lock", "connect", "done"}]
    /\ timer \in [Requests -> {"none", "armed", "over"}]
    /\ timeoutTask \in [Requests -> {"null", "set"}]
    /\ pendingResponse \subseteq Requests
    /\ written \in [Requests -> Nat]
    /\ runs \in [Requests -> Nat]

LinkTypes ==
    /\ pendingSend \in Seq(Requests)
    /\ fields \in Fields
    /\ channel \in [Channels -> {"none", "connecting", "active", "closed"}]
    /\ connects \in 0 .. MaxConnects
    /\ outbox \subseteq Requests \X Channels /\ wire \subseteq Requests \X Channels
    /\ loop \in [at : {"idle", "pendingSend", "pendingResponse"}, todo : SUBSET Requests]

(* Together they are the type invariant.                                   *)
LEMMA TypesSplit == TypeOK <=> CallTypes /\ LinkTypes
BY Zenon DEF TypeOK, CallTypes, LinkTypes

(* Whoever answers a request keeps the types of what the answer changes.   *)
LEMMA NotifyTypes ==
    ASSUME CallTypes, NEW r \in Requests, tryNotify(r), UNCHANGED <<pc, timeoutTask, written>>
    PROVE  CallTypes'
<1>1. pendingResponse' \subseteq Requests BY DEF tryNotify, CallTypes
<1>2. timer' \in [Requests -> {"none", "armed", "over"}] BY DEF tryNotify, CallTypes
<1>3. runs' \in [Requests -> Nat] BY DEF tryNotify, CallTypes
<1> QED BY <1>1, <1>2, <1>3 DEF CallTypes

(* Every step of the session keeps the types of the requests.              *)
LEMMA CallTypesNext == CallTypes /\ [Next]_vars => CallTypes'
<1> SUFFICES ASSUME CallTypes, [Next]_vars PROVE CallTypes'
    OBVIOUS
<1> USE DEF vars, connection_vars, write_vars, answer_vars
<1>1. ASSUME NEW r \in Requests, asyncSend(r) PROVE CallTypes'
  <2>1. CASE put(r)
        BY <2>1 DEF put, Go, CallTypes
  <2>2. CASE addTimer(r)
        BY <2>2 DEF addTimer, Go, CallTypes
  <2>3. CASE set_timeoutTask(r)
        BY <2>3 DEF set_timeoutTask, Go, CallTypes
  <2>4. CASE send_connected(r)
        BY <2>4 DEF send_connected, Go, CallTypes
  <2>5. CASE send_unconnected(r)
        BY <2>5 DEF send_unconnected, Go, CallTypes
  <2>6. CASE locked_connected(r)
        BY <2>6 DEF locked_connected, Go, CallTypes
  <2>7. CASE locked_queue(r)
        BY <2>7, Zenon DEF locked_queue, Go, CallTypes
  <2>8. CASE doConnect(r)
        BY <2>8 DEF doConnect, Go, CallTypes
  <2> QED BY <1>1, <2>1, <2>2, <2>3, <2>4, <2>5, <2>6, <2>7, <2>8 DEF asyncSend
<1>2. ASSUME NEW r \in Requests, timer_fires(r) PROVE CallTypes'
      BY <1>2 DEF timer_fires, CallTypes
<1>3. ASSUME NEW r \in Requests, NEW c \in Channels, flush_sends(r, c) PROVE CallTypes'
      BY <1>3 DEF flush_sends, CallTypes
<1>4. ASSUME NEW r \in Requests, NEW c \in Channels, flush_fails(r, c) PROVE CallTypes'
      BY <1>4, NotifyTypes DEF flush_fails
<1>5. ASSUME NEW r \in Requests, NEW c \in Channels, channelRead(r, c) PROVE CallTypes'
      BY <1>5, NotifyTypes DEF channelRead
<1>6. ASSUME NEW c \in Channels, channelActive(c) PROVE CallTypes'
      BY <1>6 DEF channelActive, CallTypes
<1>7. ASSUME NEW c \in Channels, channelClosed(c) PROVE CallTypes'
      BY <1>7 DEF channelClosed, CallTypes
<1>8. ASSUME NEW r \in Requests, drain(r) PROVE CallTypes'
      BY <1>8, NotifyTypes DEF drain
<1>9. ASSUME NEW r \in Requests, notify(r) PROVE CallTypes'
      BY <1>9, NotifyTypes DEF notify
<1>10. CASE copy
      BY <1>10 DEF copy, CallTypes
<1>11. CASE finish
      BY <1>11 DEF finish, CallTypes
<1>12. CASE UNCHANGED vars
      BY <1>12 DEF CallTypes
<1> QED BY <1>1, <1>2, <1>3, <1>4, <1>5, <1>6, <1>7, <1>8, <1>9, <1>10, <1>11, <1>12 DEF Next, markSessionDisconnect

(* Every step of the session keeps the types of the rest.                  *)
LEMMA LinkTypesNext == CallTypes /\ LinkTypes /\ [Next]_vars => LinkTypes'
<1> SUFFICES ASSUME CallTypes, LinkTypes, [Next]_vars PROVE LinkTypes'
    OBVIOUS
<1> USE DEF vars, connection_vars, write_vars
<1>1. ASSUME NEW r \in Requests, asyncSend(r) PROVE LinkTypes'
  <2>1. CASE put(r)
        BY <2>1 DEF put, LinkTypes
  <2>2. CASE addTimer(r)
        BY <2>2 DEF addTimer, LinkTypes
  <2>3. CASE set_timeoutTask(r)
        BY <2>3 DEF set_timeoutTask, LinkTypes
  <2>4. CASE send_connected(r)
    <3>1. fields.nettyChannel \in Channels
          BY <2>4 DEF send_connected, LinkTypes, Fields, disconnected, connecting
    <3> QED BY <2>4, <3>1 DEF send_connected, write, LinkTypes
  <2>5. CASE send_unconnected(r)
        BY <2>5 DEF send_unconnected, LinkTypes
  <2>6. CASE locked_connected(r)
    <3>1. fields.nettyChannel \in Channels
          BY <2>6 DEF locked_connected, LinkTypes, Fields, disconnected, connecting
    <3> QED BY <2>6, <3>1 DEF locked_connected, write, LinkTypes
  <2>7. CASE locked_queue(r)
    <3>1. pendingSend' = Append(pendingSend, r) /\ pendingSend \in Seq(Requests)
          BY <2>7 DEF locked_queue, LinkTypes
    <3>2. pendingSend' \in Seq(Requests) BY <3>1, AppendHolds
    <3>3. fields' \in Fields BY <2>7 DEF locked_queue, LinkTypes, Fields
    <3> QED BY <2>7, <3>2, <3>3 DEF locked_queue, LinkTypes
  <2>8. CASE doConnect(r)
    <3>1. connects + 1 \in Channels /\ connects' \in 0 .. MaxConnects
          BY <2>8, ConnectsAssumption DEF doConnect, LinkTypes, Channels
    <3>2. channel' \in [Channels -> {"none", "connecting", "active", "closed"}]
          BY <2>8, <3>1 DEF doConnect, LinkTypes
    <3> QED BY <2>8, <3>1, <3>2 DEF doConnect, LinkTypes
  <2> QED BY <1>1, <2>1, <2>2, <2>3, <2>4, <2>5, <2>6, <2>7, <2>8 DEF asyncSend
<1>2. ASSUME NEW r \in Requests, timer_fires(r) PROVE LinkTypes'
      BY <1>2 DEF timer_fires, LinkTypes
<1>3. ASSUME NEW r \in Requests, NEW c \in Channels, flush_sends(r, c) PROVE LinkTypes'
      BY <1>3 DEF flush_sends, LinkTypes
<1>4. ASSUME NEW r \in Requests, NEW c \in Channels, flush_fails(r, c) PROVE LinkTypes'
      BY <1>4 DEF flush_fails, LinkTypes
<1>5. ASSUME NEW r \in Requests, NEW c \in Channels, channelRead(r, c) PROVE LinkTypes'
      BY <1>5 DEF channelRead, LinkTypes
<1>6. ASSUME NEW c \in Channels, channelActive(c) PROVE LinkTypes'
  <2>1. fields' \in Fields BY <1>6 DEF channelActive, Fields
  <2>2. pendingSend' \in Seq(Requests) BY <1>6 DEF channelActive
  <2>3. outbox' \subseteq Requests \X Channels BY <1>6 DEF channelActive, CallTypes, LinkTypes
  <2> QED BY <1>6, <2>1, <2>2, <2>3 DEF channelActive, LinkTypes
<1>7. ASSUME NEW c \in Channels, channelClosed(c) PROVE LinkTypes'
      BY <1>7 DEF channelClosed, idle, LinkTypes
<1>8. ASSUME NEW r \in Requests, drain(r) PROVE LinkTypes'
  <2>1. pendingSend' \in Seq(Requests) BY <1>8, TailHolds DEF drain, LinkTypes
  <2>2. loop' \in [at : {"idle", "pendingSend", "pendingResponse"}, todo : SUBSET Requests]
        BY <1>8 DEF drain, LinkTypes, idle
  <2> QED BY <1>8, <2>1, <2>2 DEF drain, LinkTypes
<1>9. ASSUME NEW r \in Requests, notify(r) PROVE LinkTypes'
  <2>1. loop' \in [at : {"idle", "pendingSend", "pendingResponse"}, todo : SUBSET Requests]
        BY <1>9 DEF notify, LinkTypes, idle
  <2> QED BY <1>9, <2>1 DEF notify, LinkTypes
<1>10. CASE copy
      BY <1>10 DEF copy, CallTypes, LinkTypes
<1>11. CASE finish
      BY <1>11 DEF finish, idle, LinkTypes, Fields
<1>12. CASE UNCHANGED vars
      BY <1>12 DEF LinkTypes
<1> QED BY <1>1, <1>2, <1>3, <1>4, <1>5, <1>6, <1>7, <1>8, <1>9, <1>10, <1>11, <1>12 DEF Next, markSessionDisconnect

(* Every step of the session keeps the types.                               *)
LEMMA TypeNext == TypeOK /\ [Next]_vars => TypeOK'
<1>1. TypeOK' <=> CallTypes' /\ LinkTypes' BY Zenon DEF TypeOK, CallTypes, LinkTypes
<1> QED BY <1>1, TypesSplit, CallTypesNext, LinkTypesNext

(* Whoever answers a request keeps AnswerInv.                              *)
LEMMA NotifyAnswers ==
    ASSUME CallTypes, AnswerInv, NEW r \in Requests, tryNotify(r), UNCHANGED pc
    PROVE  AnswerInv'
<1> SUFFICES ASSUME NEW q \in Requests
             PROVE  /\ runs'[q] <= 1
                    /\ runs'[q] = 1 => q \notin pendingResponse'
                    /\ pc'[q] = "new" => runs'[q] = 0 /\ q \notin pendingResponse'
    BY DEF AnswerInv
<1>1. CASE q = r BY <1>1 DEF tryNotify, waiting, CallTypes, AnswerInv
<1>2. CASE q # r BY <1>2 DEF tryNotify, CallTypes, AnswerInv
<1> QED BY <1>1, <1>2

(* Every step keeps AnswerInv.                                             *)
LEMMA AnswerNext == CallTypes /\ AnswerInv /\ [Next]_vars => AnswerInv'
<1> SUFFICES ASSUME CallTypes, AnswerInv, [Next]_vars PROVE AnswerInv'
    OBVIOUS
<1> USE DEF vars, connection_vars, write_vars, answer_vars
<1>1. ASSUME NEW r \in Requests, asyncSend(r) PROVE AnswerInv'
  <2>1. CASE put(r)
        BY <2>1 DEF put, Go, CallTypes, AnswerInv
  <2>2. CASE addTimer(r)
        BY <2>2 DEF addTimer, Go, CallTypes, AnswerInv
  <2>3. CASE set_timeoutTask(r)
        BY <2>3 DEF set_timeoutTask, Go, CallTypes, AnswerInv
  <2>4. CASE send_connected(r)
        BY <2>4 DEF send_connected, Go, write, CallTypes, AnswerInv
  <2>5. CASE send_unconnected(r)
        BY <2>5 DEF send_unconnected, Go, CallTypes, AnswerInv
  <2>6. CASE locked_connected(r)
        BY <2>6 DEF locked_connected, Go, write, CallTypes, AnswerInv
  <2>7. CASE locked_queue(r)
        BY <2>7 DEF locked_queue, Go, connecting, CallTypes, AnswerInv
  <2>8. CASE doConnect(r)
        BY <2>8 DEF doConnect, Go, CallTypes, AnswerInv
  <2> QED BY <1>1, <2>1, <2>2, <2>3, <2>4, <2>5, <2>6, <2>7, <2>8 DEF asyncSend
<1>2. ASSUME NEW r \in Requests, timer_fires(r) PROVE AnswerInv'
      <2> SUFFICES ASSUME NEW q \in Requests
               PROVE  /\ runs'[q] <= 1
                      /\ runs'[q] = 1 => q \notin pendingResponse'
                      /\ pc'[q] = "new" => runs'[q] = 0 /\ q \notin pendingResponse'
      BY DEF AnswerInv
  <2>1. CASE q = r BY <1>2, <2>1 DEF timer_fires, waiting, CallTypes, AnswerInv
  <2>2. CASE q # r BY <1>2, <2>2 DEF timer_fires, CallTypes, AnswerInv
  <2> QED BY <2>1, <2>2
<1>3. ASSUME NEW r \in Requests, NEW c \in Channels, flush_sends(r, c) PROVE AnswerInv'
      BY <1>3 DEF flush_sends, CallTypes, AnswerInv
<1>4. ASSUME NEW r \in Requests, NEW c \in Channels, flush_fails(r, c) PROVE AnswerInv'
      BY <1>4, NotifyAnswers DEF flush_fails
<1>5. ASSUME NEW r \in Requests, NEW c \in Channels, channelRead(r, c) PROVE AnswerInv'
      BY <1>5, NotifyAnswers DEF channelRead
<1>6. ASSUME NEW c \in Channels, channelActive(c) PROVE AnswerInv'
      BY <1>6 DEF channelActive, CallTypes, AnswerInv
<1>7. ASSUME NEW c \in Channels, channelClosed(c) PROVE AnswerInv'
      BY <1>7 DEF channelClosed, idle, CallTypes, AnswerInv
<1>8. ASSUME NEW r \in Requests, drain(r) PROVE AnswerInv'
      BY <1>8, NotifyAnswers DEF drain
<1>9. ASSUME NEW r \in Requests, notify(r) PROVE AnswerInv'
      BY <1>9, NotifyAnswers DEF notify
<1>10. CASE copy
      BY <1>10 DEF copy, CallTypes, AnswerInv
<1>11. CASE finish
      BY <1>11 DEF finish, idle, disconnected, CallTypes, AnswerInv
<1>12. CASE UNCHANGED vars
      BY <1>12 DEF CallTypes, AnswerInv
<1> QED BY <1>1, <1>2, <1>3, <1>4, <1>5, <1>6, <1>7, <1>8, <1>9, <1>10, <1>11, <1>12 DEF Next, markSessionDisconnect

(* Every step keeps ConnectionInv.                                         *)
LEMMA ConnectionNext == TypeOK /\ ConnectionInv /\ [Next]_vars => ConnectionInv'
<1> SUFFICES ASSUME TypeOK, ConnectionInv, [Next]_vars PROVE ConnectionInv'
    OBVIOUS
<1> USE ConnectsAssumption DEF Channels, vars, connection_vars, write_vars, answer_vars
<1> USE DEF Fields, disconnected, connecting
<1>1. ASSUME NEW r \in Requests, asyncSend(r) PROVE ConnectionInv'
  <2>1. CASE put(r)
        BY <2>1 DEF put, Go, TypeOK, ConnectionInv, live
  <2>2. CASE addTimer(r)
        BY <2>2 DEF addTimer, Go, TypeOK, ConnectionInv, live
  <2>3. CASE set_timeoutTask(r)
        BY <2>3 DEF set_timeoutTask, Go, TypeOK, ConnectionInv, live
  <2>4. CASE send_connected(r)
        BY <2>4 DEF send_connected, Go, write, TypeOK, ConnectionInv, live
  <2>5. CASE send_unconnected(r)
        BY <2>5 DEF send_unconnected, Go, TypeOK, ConnectionInv, live
  <2>6. CASE locked_connected(r)
        BY <2>6 DEF locked_connected, Go, write, TypeOK, ConnectionInv, live
  <2>7. CASE locked_queue(r)
    <3>1. CASE fields.state = "DISCONNECTED"
      BY <2>7, <3>1 DEF locked_queue, Go, connecting, TypeOK, ConnectionInv, live
    <3>2. CASE fields.state # "DISCONNECTED"
      BY <2>7, <3>2 DEF locked_queue, Go, TypeOK, ConnectionInv, live
    <3> QED BY <3>1, <3>2
  <2>8. CASE doConnect(r)
        BY <2>8 DEF doConnect, Go, TypeOK, ConnectionInv, live
  <2> QED BY <1>1, <2>1, <2>2, <2>3, <2>4, <2>5, <2>6, <2>7, <2>8 DEF asyncSend
<1>2. ASSUME NEW r \in Requests, timer_fires(r) PROVE ConnectionInv'
      BY <1>2 DEF timer_fires, waiting, TypeOK, ConnectionInv, live
<1>3. ASSUME NEW r \in Requests, NEW c \in Channels, flush_sends(r, c) PROVE ConnectionInv'
      BY <1>3 DEF flush_sends, TypeOK, ConnectionInv, live
<1>4. ASSUME NEW r \in Requests, NEW c \in Channels, flush_fails(r, c) PROVE ConnectionInv'
      BY <1>4 DEF flush_fails, TypeOK, ConnectionInv, live
<1>5. ASSUME NEW r \in Requests, NEW c \in Channels, channelRead(r, c) PROVE ConnectionInv'
      BY <1>5 DEF channelRead, TypeOK, ConnectionInv, live
<1>6. ASSUME NEW c \in Channels, channelActive(c) PROVE ConnectionInv'
      BY <1>6 DEF channelActive, TypeOK, ConnectionInv, live
<1>7. ASSUME NEW c \in Channels, channelClosed(c) PROVE ConnectionInv'
      BY <1>7 DEF channelClosed, idle, TypeOK, ConnectionInv, live
<1>8. ASSUME NEW r \in Requests, drain(r) PROVE ConnectionInv'
      BY <1>8 DEF drain, idle, TypeOK, ConnectionInv, live
<1>9. ASSUME NEW r \in Requests, notify(r) PROVE ConnectionInv'
      BY <1>9 DEF notify, idle, TypeOK, ConnectionInv, live
<1>10. CASE copy
      BY <1>10 DEF copy, TypeOK, ConnectionInv, live
<1>11. CASE finish
      BY <1>11 DEF finish, idle, disconnected, TypeOK, ConnectionInv, live
<1>12. CASE UNCHANGED vars
      BY <1>12, Zenon DEF ConnectionInv, live
<1> QED BY <1>1, <1>2, <1>3, <1>4, <1>5, <1>6, <1>7, <1>8, <1>9, <1>10, <1>11, <1>12 DEF Next, markSessionDisconnect

(* Every step keeps QueueInv.                                              *)
LEMMA QueueNext == TypeOK /\ QueueInv /\ [Next]_vars => QueueInv'
<1> SUFFICES ASSUME TypeOK, QueueInv, [Next]_vars PROVE QueueInv'
    OBVIOUS
<1> USE DEF vars, connection_vars, write_vars, answer_vars
<1>1. ASSUME NEW r \in Requests, asyncSend(r) PROVE QueueInv'
  <2>1. CASE put(r)
        BY <2>1 DEF put, Go, TypeOK, QueueInv, early
  <2>2. CASE addTimer(r)
        BY <2>2 DEF addTimer, Go, TypeOK, QueueInv, early
  <2>3. CASE set_timeoutTask(r)
        BY <2>3 DEF set_timeoutTask, Go, TypeOK, QueueInv, early
  <2>4. CASE send_connected(r)
        BY <2>4 DEF send_connected, Go, write, TypeOK, QueueInv, early
  <2>5. CASE send_unconnected(r)
        BY <2>5 DEF send_unconnected, Go, TypeOK, QueueInv, early
  <2>6. CASE locked_connected(r)
        BY <2>6 DEF locked_connected, Go, write, TypeOK, QueueInv, early
  <2>7. CASE locked_queue(r)
    <3>1. timeoutTask[r] = "set" BY <2>7 DEF locked_queue, QueueInv, early
    <3>2. \A k \in DOMAIN pendingSend' : timeoutTask[pendingSend'[k]] = "set"
      <4>1. pendingSend' = Append(pendingSend, r) /\ pendingSend \in Seq(Requests)
            BY <2>7 DEF locked_queue, TypeOK
      <4> QED BY <3>1, <4>1, AppendHolds DEF QueueInv
    <3>3. fields'.state # "CONNECTED" BY <2>7 DEF locked_queue, connecting
    <3>4. \A q \in Requests : ~early(q)' => timeoutTask[q] = "set"
      <4>1. \A q \in Requests : early(q)' = early(q) BY <2>7 DEF locked_queue, Go, TypeOK, early
      <4> QED BY <4>1 DEF QueueInv
    <3> QED BY <2>7, <3>2, <3>3, <3>4 DEF locked_queue, QueueInv, early
  <2>8. CASE doConnect(r)
        BY <2>8 DEF doConnect, Go, TypeOK, QueueInv, early
  <2> QED BY <1>1, <2>1, <2>2, <2>3, <2>4, <2>5, <2>6, <2>7, <2>8 DEF asyncSend
<1>2. ASSUME NEW r \in Requests, timer_fires(r) PROVE QueueInv'
      BY <1>2 DEF timer_fires, waiting, TypeOK, QueueInv, early
<1>3. ASSUME NEW r \in Requests, NEW c \in Channels, flush_sends(r, c) PROVE QueueInv'
      BY <1>3 DEF flush_sends, TypeOK, QueueInv, early
<1>4. ASSUME NEW r \in Requests, NEW c \in Channels, flush_fails(r, c) PROVE QueueInv'
      BY <1>4 DEF flush_fails, tryNotify, waiting, throws, TypeOK, QueueInv, early
<1>5. ASSUME NEW r \in Requests, NEW c \in Channels, channelRead(r, c) PROVE QueueInv'
      BY <1>5 DEF channelRead, tryNotify, waiting, throws, TypeOK, QueueInv, early
<1>6. ASSUME NEW c \in Channels, channelActive(c) PROVE QueueInv'
      BY <1>6 DEF channelActive, TypeOK, QueueInv, early
<1>7. ASSUME NEW c \in Channels, channelClosed(c) PROVE QueueInv'
      BY <1>7 DEF channelClosed, idle, TypeOK, QueueInv, early
<1>8. ASSUME NEW r \in Requests, drain(r) PROVE QueueInv'
  <2>1. pendingSend' = Tail(pendingSend) /\ pendingSend # <<>> /\ pendingSend \in Seq(Requests)
        BY <1>8 DEF drain, TypeOK
  <2>2. \A k \in DOMAIN Tail(pendingSend) :
           \E j \in DOMAIN pendingSend : pendingSend[j] = Tail(pendingSend)[k]
        BY <2>1, TailHolds
  <2>3. UNCHANGED <<pc, timeoutTask, fields>> BY <1>8 DEF drain
  <2>4. \A k \in DOMAIN pendingSend' : timeoutTask'[pendingSend'[k]] = "set"
        BY <2>1, <2>2, <2>3 DEF QueueInv
  <2>5. r = pendingSend[1] /\ 1 \in DOMAIN pendingSend BY <1>8, <2>1 DEF drain
  <2>6. ~throws(r) BY <2>5 DEF throws, QueueInv
  <2>7. loop'.at = "pendingSend" BY <1>8, <2>6 DEF drain
  <2> QED BY <2>3, <2>4, <2>7 DEF QueueInv, early
<1>9. ASSUME NEW r \in Requests, notify(r) PROVE QueueInv'
      BY <1>9 DEF notify, tryNotify, waiting, throws, idle, TypeOK, QueueInv, early
<1>10. CASE copy
      BY <1>10 DEF copy, TypeOK, QueueInv, early
<1>11. CASE finish
      BY <1>11 DEF finish, idle, disconnected, TypeOK, QueueInv, early
<1>12. CASE UNCHANGED vars
      BY <1>12, Zenon DEF QueueInv, early
<1> QED BY <1>1, <1>2, <1>3, <1>4, <1>5, <1>6, <1>7, <1>8, <1>9, <1>10, <1>11, <1>12 DEF Next, markSessionDisconnect

(* A step that leaves the queue, the outbox and what was written alone,    *)
(* and takes no request back to its caller, keeps PlaceInv.                *)
LEMMA PlaceKept ==
    ASSUME PlaceInv, UNCHANGED <<pendingSend, outbox, written>>,
           \A r \in Requests : unsent(r)' => unsent(r)
    PROVE  PlaceInv'
BY DEF PlaceInv, queued

(* A caller that moves on, or writes to the channel, leaves no trace of    *)
(* its request elsewhere.                                                  *)
LEMMA PlaceWritten ==
    ASSUME TypeOK, PlaceInv, NEW r \in Requests, NEW c \in Channels, unsent(r),
           Go(r, "done"), write(r, c), UNCHANGED <<pendingSend, written>>
    PROVE  PlaceInv'
<1>1. \A q \in Requests : unsent(q)' => q # r /\ unsent(q)
      BY DEF Go, TypeOK, unsent
<1>2. \A q \in Requests, d \in Channels : <<q, d>> \in outbox' <=> <<q, d>> \in outbox \/ (q = r /\ d = c)
      BY DEF write
<1>3. \A q \in Requests : queued(q)' = queued(q)
      BY Zenon DEF queued
<1> QED BY <1>1, <1>2, <1>3 DEF PlaceInv

(* Every step keeps PlaceInv.                                              *)
LEMMA PlaceNext == TypeOK /\ PlaceInv /\ [Next]_vars => PlaceInv'
<1> SUFFICES ASSUME TypeOK, PlaceInv, [Next]_vars PROVE PlaceInv'
    OBVIOUS
<1> USE DEF vars, connection_vars, write_vars, answer_vars
<1>1. ASSUME NEW r \in Requests, asyncSend(r) PROVE PlaceInv'
  <2>1. CASE put(r)
        BY <2>1, PlaceKept DEF put, Go, TypeOK, unsent
  <2>2. CASE addTimer(r)
        BY <2>2, PlaceKept DEF addTimer, Go, TypeOK, unsent
  <2>3. CASE set_timeoutTask(r)
        BY <2>3, PlaceKept DEF set_timeoutTask, Go, TypeOK, unsent
  <2>4. CASE send_connected(r)
    <3>1. fields.nettyChannel \in Channels
          BY <2>4 DEF send_connected, TypeOK, Fields, disconnected, connecting
    <3> QED BY <2>4, <3>1, PlaceWritten DEF send_connected, unsent
  <2>5. CASE send_unconnected(r)
        BY <2>5, PlaceKept DEF send_unconnected, Go, TypeOK, unsent
  <2>6. CASE locked_connected(r)
    <3>1. fields.nettyChannel \in Channels
          BY <2>6 DEF locked_connected, TypeOK, Fields, disconnected, connecting
    <3> QED BY <2>6, <3>1, PlaceWritten DEF locked_connected, unsent
  <2>7. CASE locked_queue(r)
    <3>1. unsent(r) BY <2>7 DEF locked_queue, unsent
    <3>2. \A q \in Requests : unsent(q)' => q # r /\ unsent(q)
          BY <2>7 DEF locked_queue, Go, TypeOK, unsent
    <3>3. \A q \in Requests : queued(q)' => q = r \/ queued(q)
      <4>1. pendingSend' = Append(pendingSend, r) /\ pendingSend \in Seq(Requests)
            BY <2>7 DEF locked_queue, TypeOK
      <4> QED BY <4>1, AppendHolds DEF queued
    <3>4. UNCHANGED <<outbox, written>> BY <2>7 DEF locked_queue
    <3> QED BY <3>1, <3>2, <3>3, <3>4 DEF PlaceInv
  <2>8. CASE doConnect(r)
        BY <2>8, PlaceKept DEF doConnect, Go, TypeOK, unsent
  <2> QED BY <1>1, <2>1, <2>2, <2>3, <2>4, <2>5, <2>6, <2>7, <2>8 DEF asyncSend
<1>2. ASSUME NEW r \in Requests, timer_fires(r) PROVE PlaceInv'
      BY <1>2, PlaceKept DEF timer_fires, unsent
<1>3. ASSUME NEW r \in Requests, NEW c \in Channels, flush_sends(r, c) PROVE PlaceInv'
  <2>1. /\ <<r, c>> \in outbox
        /\ written' = [written EXCEPT ![r] = @ + 1]
        BY <1>3 DEF flush_sends
  <2>2. \A q \in Requests, d \in Channels :
           <<q, d>> \in outbox' <=> <<q, d>> \in outbox /\ ~(q = r /\ d = c)
        BY <1>3 DEF flush_sends
  <2>3. \A q \in Requests : unsent(q)' = unsent(q) /\ queued(q)' = queued(q)
        BY <1>3 DEF flush_sends, unsent, queued
  <2> QED BY <2>1, <2>2, <2>3 DEF PlaceInv, TypeOK
<1>4. ASSUME NEW r \in Requests, NEW c \in Channels, flush_fails(r, c) PROVE PlaceInv'
  <2>1. outbox' \subseteq outbox /\ written' = written
        BY <1>4 DEF flush_fails
  <2>2. \A q \in Requests : unsent(q)' = unsent(q) /\ queued(q)' = queued(q)
        BY <1>4 DEF flush_fails, unsent, queued
  <2> QED BY <2>1, <2>2 DEF PlaceInv
<1>5. ASSUME NEW r \in Requests, NEW c \in Channels, channelRead(r, c) PROVE PlaceInv'
      BY <1>5, PlaceKept DEF channelRead, unsent
<1>6. ASSUME NEW c \in Channels, channelActive(c) PROVE PlaceInv'
  <2>1. /\ \A q \in Requests : ~queued(q)' /\ unsent(q)' = unsent(q)
        /\ written' = written
        BY <1>6 DEF channelActive, queued, unsent
  <2>2. \A q \in Requests, d \in Channels :
           <<q, d>> \in outbox' => <<q, d>> \in outbox \/ (queued(q) /\ d = c)
        BY <1>6 DEF channelActive, queued
  <2> QED BY <2>1, <2>2 DEF PlaceInv
<1>7. ASSUME NEW c \in Channels, channelClosed(c) PROVE PlaceInv'
      BY <1>7, PlaceKept DEF channelClosed, unsent
<1>8. ASSUME NEW r \in Requests, drain(r) PROVE PlaceInv'
  <2>1. pendingSend' = Tail(pendingSend) /\ pendingSend # <<>> /\ pendingSend \in Seq(Requests)
        BY <1>8 DEF drain, TypeOK
  <2>2. \A q \in Requests : queued(q)' => queued(q) BY <2>1, TailHolds DEF queued
  <2>3. UNCHANGED <<outbox, written, pc>> BY <1>8 DEF drain
  <2> QED BY <2>2, <2>3 DEF PlaceInv, unsent
<1>9. ASSUME NEW r \in Requests, notify(r) PROVE PlaceInv'
      BY <1>9, PlaceKept DEF notify, unsent
<1>10. CASE copy
      BY <1>10, PlaceKept DEF copy, unsent
<1>11. CASE finish
      BY <1>11, PlaceKept DEF finish, unsent
<1>12. CASE UNCHANGED vars
      BY <1>12, PlaceKept DEF unsent
<1> QED BY <1>1, <1>2, <1>3, <1>4, <1>5, <1>6, <1>7, <1>8, <1>9, <1>10, <1>11, <1>12 DEF Next, markSessionDisconnect

----------------------------------------------------------------------------
SessionInv == TypeOK /\ AnswerInv /\ ConnectionInv /\ QueueInv /\ PlaceInv

(* The four invariants and the types hold in the first states.             *)
LEMMA SessionInit == Init => SessionInv
<1> SUFFICES ASSUME Init PROVE SessionInv
    OBVIOUS
<1>1. TypeOK BY TypeInit
<1>2. AnswerInv BY DEF Init, AnswerInv
<1>3. ConnectionInv BY ConnectsAssumption DEF Init, ConnectionInv, live, idle, disconnected, Channels
<1>4. QueueInv BY DEF Init, QueueInv, early, idle, disconnected
<1>5. PlaceInv BY DEF Init, PlaceInv, unsent, queued
<1> QED BY <1>1, <1>2, <1>3, <1>4, <1>5 DEF SessionInv

(* They hold of every behaviour.                                           *)
LEMMA SessionInvariant == Spec => []SessionInv
<1>1. SessionInv /\ [Next]_vars => SessionInv'
      BY TypeNext, TypesSplit, AnswerNext, ConnectionNext, QueueNext, PlaceNext DEF SessionInv
<1> QED BY <1>1, SessionInit, PTL DEF Spec

(* The types of the session's variables hold for any requests and bound.   *)
THEOREM SessionTypes == Spec => []TypeOK
<1>1. SessionInv => TypeOK BY DEF SessionInv
<1> QED BY <1>1, SessionInvariant, PTL

(* A callback given to asyncSend runs at most once, and not before its     *)
(* request has left pendingResponse.                                       *)
THEOREM SessionCallbackOnce == Spec => []CallbackOnce
<1>1. SessionInv => CallbackOnce BY DEF SessionInv, AnswerInv, CallbackOnce, waiting
<1> QED BY <1>1, SessionInvariant, PTL

(* A request is written to a server at most once.                          *)
THEOREM SessionWrittenOnce == Spec => []WrittenOnce
<1>1. SessionInv => WrittenOnce BY DEF SessionInv, PlaceInv, WrittenOnce
<1> QED BY <1>1, SessionInvariant, PTL

(* The session has at most one connection that is not closed.              *)
THEOREM SessionSingleConnection == Spec => []SingleConnection
<1>1. SessionInv => SingleConnection
      BY DEF SessionInv, ConnectionInv, SingleConnection, live
<1> QED BY <1>1, SessionInvariant, PTL

(* Nothing waits in pendingSend while the session is connected.            *)
THEOREM SessionNothingStranded == Spec => []NothingStranded
<1>1. SessionInv => NothingStranded BY DEF SessionInv, QueueInv, NothingStranded
<1> QED BY <1>1, SessionInvariant, PTL

=============================================================================
