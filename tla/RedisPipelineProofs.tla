------------------------ MODULE RedisPipelineProofs ------------------------
(***************************************************************************)
(* The replies of a pipeline, for any number of commands and of threads:   *)
(* each is sent at most once, none that is ready is left in the queue, one *)
(* overtakes another only between its dequeuing and its sending, and the   *)
(* references on replies are given back.  The queue always holds the       *)
(* newest requests in order, so that the ones that have left it are an     *)
(* initial segment of the numbers; the inductive invariant says where      *)
(* each request is on its two ways, to its reply and out of the queue.     *)
(***************************************************************************)
EXTENDS RedisPipeline, TLAPS

Everyone == AllThreads \cup {"remover"}

Places == {"idle", "recv", "parse", "handler", "callback", "add_ref",
           "reply_all_ready", "reply", "reset", "removed"}

\* What an entry of the queue holds: no reply yet, or a reply.
Replies == {"null", "OK", "value", "1", "seconds", "milliseconds", "nil", "-2", "error"}

\* The requests 1 .. Left have left the queue.
Left == handled - Len(pending_response)

\* The types, and how far the parser may go.
Typed ==
    /\ commands \in Commands
    /\ handled \in 0 .. Len(commands) /\ unread \in 0 .. Len(commands) - handled
    /\ response \in [Requests -> Replies] /\ refs \in [Requests -> Int]
    /\ pc \in [Everyone -> Places] /\ at \in [Everyone -> Nat]
    /\ calls \subseteq 1 .. handled

\* The queue is the numbers from Left + 1 to handled.
Queue ==
    /\ pending_response \in Seq(Nat)
    /\ Len(pending_response) <= handled
    /\ \A k \in 1 .. Len(pending_response) : pending_response[k] = Left + k

\* A request gets its reply once: its handler, its call or its callback is on
\* the way to it while there is none, and one thread takes its reference.
Preparing(t) == pc[t] \in {"handler", "callback"}

Answering ==
    /\ \A t \in AllThreads :
          /\ Preparing(t) => /\ at[t] \in 1 .. handled \ calls
                             /\ response[at[t]] = "null"
          /\ pc[t] = "add_ref" => at[t] \in 1 .. handled /\ response[at[t]] # "null"
    /\ \A t, u \in AllThreads :
          /\ Preparing(t) /\ Preparing(u) /\ at[t] = at[u] => t = u
          /\ pc[t] = "add_ref" /\ pc[u] = "add_ref" /\ at[t] = at[u] => t = u
    /\ \A i \in calls : response[i] = "null"
    /\ \A i \in Requests : i > handled => response[i] = "null"

\* A request leaves the queue once: into the hands of a thread, which sends its
\* reply, or dropped by reset.
InHand ==
    /\ \A t \in AllThreads : pc[t] = "reply" =>
          /\ at[t] \in 1 .. Left /\ response[at[t]] # "null"
          /\ at[t] \notin Range(sent) /\ at[t] \notin cleared
    /\ \A t, u \in AllThreads :
          pc[t] = "reply" /\ pc[u] = "reply" /\ at[t] = at[u] => t = u

Gone ==
    /\ sent \in Seq(Nat) /\ IsInjective(sent)
    /\ \A i \in Range(sent) :
          i \in 1 .. Left /\ i \notin cleared /\ response[i] # "null"
    /\ \A i \in cleared : i \in 1 .. Left

Covered ==
    \A i \in 1 .. Left : \/ i \in Range(sent) \/ i \in cleared
                         \/ \E t \in AllThreads : pc[t] = "reply" /\ at[t] = i

\* The reference on the reply of i has been taken, and has been given back.
Added(i) ==
    IF response[i] # "null" /\ \A t \in AllThreads : ~ (pc[t] = "add_ref" /\ at[t] = i)
    THEN 1 ELSE 0

Released(i) ==
    IF i \in Range(sent) \/ (i \in cleared \ stray /\ response[i] # "null")
    THEN 1 ELSE 0

Counting ==
    /\ \A i \in Requests : refs[i] = Added(i) - Released(i)
    /\ \A i \in stray : i \in cleared /\ response[i] # "null"

\* Whoever stores a reply, or has sent one, looks at the queue again.
Woken ==
    front_ready => \E t \in AllThreads : pc[t] \in {"add_ref", "reply_all_ready", "reply"}

IInv == Typed /\ Queue /\ Answering /\ InHand /\ Gone /\ Covered /\ Counting /\ Woken

----------------------------------------------------------------------------
(***************************************************************************)
(* Sequences.                                                              *)
(***************************************************************************)

\* What sending a reply adds to the set of those sent.
LEMMA RangeAppend ==
    ASSUME NEW s \in Seq(Nat), NEW e \in Nat
    PROVE  /\ Append(s, e) \in Seq(Nat)
           /\ Range(Append(s, e)) = Range(s) \cup {e}
           /\ IsInjective(s) /\ e \notin Range(s) => IsInjective(Append(s, e))
<1> DEFINE n == Len(s)
           r == Append(s, e)
<1>1. /\ n \in Nat /\ r \in Seq(Nat) /\ Len(r) = n + 1
      /\ r[n + 1] = e /\ \A i \in 1 .. n : r[i] = s[i]
  OBVIOUS
<1>2. DOMAIN s = 1 .. n /\ DOMAIN r = 1 .. n + 1
  BY <1>1
<1> HIDE DEF n, r
<1>3. \A i \in 1 .. n + 1 : i \in 1 .. n \/ i = n + 1
  BY <1>1
<1>4. Range(r) = Range(s) \cup {e}
  BY <1>1, <1>2, <1>3 DEF Range
<1>5. IsInjective(s) /\ e \notin Range(s) => IsInjective(r)
  BY <1>1, <1>2, <1>3 DEF Range, IsInjective
<1> QED
  BY <1>1, <1>4, <1>5 DEF r

\* The queue holds the numbers after Left.
LEMMA QueueRange ==
    ASSUME Typed, Queue
    PROVE  /\ Left \in Nat /\ Left <= handled /\ handled \in Nat
           /\ Range(pending_response) = Left + 1 .. handled
           /\ pending_response # <<>> => /\ Head(pending_response) = Left + 1
                                         /\ Left + 1 <= handled
<1> DEFINE n == Len(pending_response)
<1>1. /\ handled \in Nat /\ n \in Nat /\ n <= handled /\ DOMAIN pending_response = 1 .. n
      /\ \A k \in 1 .. n : pending_response[k] = handled - n + k
  BY DEF Typed, Queue, Left
<1>2. Left = handled - n
  BY DEF Left
<1>3. pending_response # <<>> => n >= 1 /\ Head(pending_response) = pending_response[1]
  BY DEF Queue
<1> HIDE DEF n
<1>4. ASSUME NEW i \in Left + 1 .. handled PROVE i \in Range(pending_response)
  <2>1. i - Left \in 1 .. n /\ pending_response[i - Left] = i
    BY <1>1, <1>2
  <2> QED
    BY <1>1, <2>1 DEF Range
<1>5. ASSUME NEW i \in Range(pending_response) PROVE i \in Left + 1 .. handled
  BY <1>1, <1>2 DEF Range
<1>6. Range(pending_response) = Left + 1 .. handled
  BY <1>4, <1>5, Zenon
<1> QED
  BY <1>1, <1>2, <1>3, <1>6

\* A callback makes a reply.
LEMMA CallbackReplies ==
    ASSUME NEW command, NEW result
    PROVE  callback_reply(command, result) \in Replies \ {"null"}
  BY DEF callback_reply, Replies

----------------------------------------------------------------------------
(***************************************************************************)
(* The invariant is inductive.                                             *)
(***************************************************************************)

\* What every step keeps and what the invariant says of its numbers.
Given ==
    /\ Typed /\ Queue /\ Answering /\ InHand /\ Gone /\ Covered /\ Counting /\ Woken
    /\ 1 .. handled \subseteq Requests /\ handled \in Nat
    /\ AllThreads \subseteq Everyone /\ "remover" \in Everyone
    /\ "remover" \notin AllThreads /\ "parser" \in AllThreads

\* They follow from the inductive invariant.
LEMMA Facts == IInv => Given
<1> SUFFICES ASSUME IInv PROVE Given
  OBVIOUS
<1>1. Typed
  BY DEF IInv
<1>2. Len(commands) \in Nat
  BY <1>1, RedisAssumption DEF Typed
<1>3. 1 .. handled \subseteq Requests /\ handled \in Nat
  BY <1>1, <1>2 DEF Typed, Requests
<1> QED
  BY <1>3, RedisAssumption DEF Given, IInv, Everyone, AllThreads

\* on_rpc_request preserves the invariant.
LEMMA on_rpc_requestStep ==
    ASSUME IInv, on_rpc_request
    PROVE  IInv'
<1> USE DEF Go, Return, client, parse, entries
<1> /\ Typed /\ Queue /\ Answering /\ InHand /\ Gone /\ Covered
    /\ Counting /\ Woken
    /\ 1 .. handled \subseteq Requests /\ handled \in Nat
    /\ AllThreads \subseteq Everyone /\ "remover" \in Everyone
    /\ "remover" \notin AllThreads /\ "parser" \in AllThreads
  BY Facts DEF Given
<1> /\ \A u \in AllThreads \ {"parser"} : pc'[u] = pc[u] /\ at'[u] = at[u]
    /\ pc["parser"] \in {"idle"} /\ pc'["parser"] \in {"recv"}
  BY DEF Typed, on_rpc_request
<1> UNCHANGED <<Requests, Left, commands, handled, calls, sent, pending_response,
                response, refs, cleared, stray>>
  BY DEF Requests, Left, on_rpc_request
<1>1. Typed'
  BY DEF Typed, Places, on_rpc_request
<1>2. Queue'
  BY DEF Queue
<1>3. Answering'
  BY DEF Answering, Preparing
<1>4. InHand'
  BY DEF InHand
<1>5. Gone'
  BY DEF Gone
<1>6. Covered'
  BY DEF Covered
<1>7. Counting'
  BY DEF Counting, Added, Released
<1>8. Woken'
  BY DEF Woken, front_ready
<1> QED
  BY <1>1, <1>2, <1>3, <1>4, <1>5, <1>6, <1>7, <1>8 DEF IInv

\* append_message preserves the invariant.
LEMMA append_messageStep ==
    ASSUME IInv, append_message
    PROVE  IInv'
<1> USE DEF Go, Return, client, parse, entries
<1> /\ Typed /\ Queue /\ Answering /\ InHand /\ Gone /\ Covered
    /\ Counting /\ Woken
    /\ 1 .. handled \subseteq Requests /\ handled \in Nat
    /\ AllThreads \subseteq Everyone /\ "remover" \in Everyone
    /\ "remover" \notin AllThreads /\ "parser" \in AllThreads
  BY Facts DEF Given
<1> /\ \A u \in AllThreads \ {"parser"} : pc'[u] = pc[u] /\ at'[u] = at[u]
    /\ pc["parser"] \in {"recv"} /\ pc'["parser"] \in {"parse"}
  BY DEF Typed, append_message
<1> UNCHANGED <<Requests, Left, commands, handled, calls, sent, pending_response,
                response, refs, cleared, stray>>
  BY DEF Requests, Left, append_message
<1>1. Typed'
  BY DEF Typed, Places, append_message
<1>2. Queue'
  BY DEF Queue
<1>3. Answering'
  BY DEF Answering, Preparing
<1>4. InHand'
  BY DEF InHand
<1>5. Gone'
  BY DEF Gone
<1>6. Covered'
  BY DEF Covered
<1>7. Counting'
  BY DEF Counting, Added, Released
<1>8. Woken'
  BY DEF Woken, front_ready
<1> QED
  BY <1>1, <1>2, <1>3, <1>4, <1>5, <1>6, <1>7, <1>8 DEF IInv

\* handle_command preserves the invariant.
LEMMA handle_commandStep ==
    ASSUME IInv, handle_command
    PROVE  IInv'
<1> USE DEF Go, Return, client, parse, entries
<1> /\ Typed /\ Queue /\ Answering /\ InHand /\ Gone /\ Covered
    /\ Counting /\ Woken
    /\ 1 .. handled \subseteq Requests /\ handled \in Nat
    /\ AllThreads \subseteq Everyone /\ "remover" \in Everyone
    /\ "remover" \notin AllThreads /\ "parser" \in AllThreads
  BY Facts DEF Given
<1> /\ \A u \in AllThreads \ {"parser"} : pc'[u] = pc[u] /\ at'[u] = at[u]
    /\ pc["parser"] = "parse" /\ pc'["parser"] = "handler" /\ at'["parser"] = handled + 1
  BY DEF Typed, handle_command
<1> UNCHANGED <<Requests, commands, calls, sent, response, refs, cleared, stray>>
  BY DEF Requests, handle_command
<1> /\ handled' = handled + 1 /\ handled + 1 \in Requests
  BY RedisAssumption DEF Typed, Requests, handle_command
<1> /\ Queue' /\ Left' = Left /\ Left \in Nat /\ Left <= handled
    /\ Head(pending_response') = IF pending_response = <<>> THEN handled + 1
                                                           ELSE Head(pending_response)
  <2> DEFINE n == Len(pending_response)
  <2>1. /\ pending_response' = Append(pending_response, handled + 1)
        /\ pending_response \in Seq(Nat) /\ n <= handled
        /\ \A k \in 1 .. n : pending_response[k] = Left + k
    BY DEF Queue, handle_command
  <2>2. /\ n \in Nat /\ Len(pending_response') = n + 1 /\ pending_response' \in Seq(Nat)
        /\ \A k \in 1 .. n : pending_response'[k] = pending_response[k]
        /\ pending_response'[n + 1] = handled + 1
    BY <2>1
  <2> HIDE DEF n
  <2>3. Left = handled - n /\ Left' = Left
    BY <2>2 DEF Left, n
  <2>4. ASSUME NEW k \in 1 .. n + 1 PROVE pending_response'[k] = Left + k
    <3>1. CASE k \in 1 .. n
      BY <2>1, <2>2, <3>1
    <3>2. CASE k = n + 1
      BY <2>2, <2>3, <3>2
    <3> QED
      BY <2>2, <3>1, <3>2
  <2>5. Head(pending_response') = IF pending_response = <<>> THEN handled + 1
                                                             ELSE Head(pending_response)
    BY <2>1, <2>2 DEF n
  <2> QED
    BY <2>1, <2>2, <2>3, <2>4, <2>5 DEF Queue
<1> response[handled + 1] = "null" /\ handled + 1 \notin calls
  BY DEF Answering, Typed
<1>1. Typed'
  BY DEF Typed, Places, handle_command
<1>2. Queue'
  OBVIOUS
<1>3. Answering'
  <2>1. \A u \in AllThreads : Preparing(u)' =>
           (Preparing(u) /\ at'[u] = at[u]) \/ (u = "parser" /\ at'[u] = handled + 1)
    BY DEF Preparing
  <2>2. \A u \in AllThreads : pc'[u] = "add_ref" => pc[u] = "add_ref" /\ at'[u] = at[u]
    OBVIOUS
  <2>3. /\ \A j \in 1 .. handled : j \in 1 .. handled' /\ j # handled + 1
        /\ handled + 1 \in 1 .. handled'
        /\ \A j \in Requests : j > handled' => j > handled
    BY DEF Requests
  <2> QED
    BY <2>1, <2>2, <2>3 DEF Answering
<1>4. InHand'
  BY DEF InHand
<1>5. Gone'
  BY DEF Gone
<1>6. Covered'
  BY DEF Covered
<1>7. Counting'
  <2>1. \A i \in Requests : Added(i)' = Added(i) /\ Released(i)' = Released(i)
    BY DEF Added, Released
  <2> QED
    BY <2>1 DEF Counting
<1>8. Woken'
  BY DEF Woken, front_ready
<1> QED
  BY <1>1, <1>2, <1>3, <1>4, <1>5, <1>6, <1>7, <1>8 DEF IInv

\* parse_return preserves the invariant.
LEMMA parse_returnStep ==
    ASSUME IInv, parse_return
    PROVE  IInv'
<1> USE DEF Go, Return, client, parse, entries
<1> /\ Typed /\ Queue /\ Answering /\ InHand /\ Gone /\ Covered
    /\ Counting /\ Woken
    /\ 1 .. handled \subseteq Requests /\ handled \in Nat
    /\ AllThreads \subseteq Everyone /\ "remover" \in Everyone
    /\ "remover" \notin AllThreads /\ "parser" \in AllThreads
  BY Facts DEF Given
<1> /\ \A u \in AllThreads \ {"parser"} : pc'[u] = pc[u] /\ at'[u] = at[u]
    /\ pc["parser"] \in {"parse"} /\ pc'["parser"] \in {"idle"}
  BY DEF Typed, parse_return
<1> UNCHANGED <<Requests, Left, commands, handled, calls, sent, pending_response,
                response, refs, cleared, stray>>
  BY DEF Requests, Left, parse_return
<1>1. Typed'
  BY DEF Typed, Places, parse_return
<1>2. Queue'
  BY DEF Queue
<1>3. Answering'
  BY DEF Answering, Preparing
<1>4. InHand'
  BY DEF InHand
<1>5. Gone'
  BY DEF Gone
<1>6. Covered'
  BY DEF Covered
<1>7. Counting'
  BY DEF Counting, Added, Released
<1>8. Woken'
  BY DEF Woken, front_ready
<1> QED
  BY <1>1, <1>2, <1>3, <1>4, <1>5, <1>6, <1>7, <1>8 DEF IInv

\* handler_calls preserves the invariant.
LEMMA handler_callsStep ==
    ASSUME IInv, handler_calls
    PROVE  IInv'
<1> USE DEF Go, Return, client, parse, entries
<1> /\ Typed /\ Queue /\ Answering /\ InHand /\ Gone /\ Covered
    /\ Counting /\ Woken
    /\ 1 .. handled \subseteq Requests /\ handled \in Nat
    /\ AllThreads \subseteq Everyone /\ "remover" \in Everyone
    /\ "remover" \notin AllThreads /\ "parser" \in AllThreads
  BY Facts DEF Given
<1> /\ \A u \in AllThreads \ {"parser"} : pc'[u] = pc[u] /\ at'[u] = at[u]
    /\ pc["parser"] = "handler" /\ pc'["parser"] = "parse"
  BY DEF Typed, handler_calls
<1> UNCHANGED <<Requests, Left, commands, handled, sent, pending_response, response,
                refs, cleared, stray>>
  BY DEF Requests, Left, handler_calls
<1> calls' = calls \cup {at["parser"]}
  BY DEF handler_calls
<1> at["parser"] \in 1 .. handled /\ response[at["parser"]] = "null"
  BY DEF Answering, Preparing
<1>1. Typed'
  <2>1. calls' \subseteq 1 .. handled
    BY Zenon DEF Typed
  <2>2. pc' \in [Everyone -> Places] /\ at' \in [Everyone -> Nat]
    BY DEF Typed, Places, handler_calls
  <2> QED
    BY <2>1, <2>2 DEF Typed, handler_calls
<1>2. Queue'
  BY DEF Queue
<1>3. Answering'
  BY DEF Answering, Preparing
<1>4. InHand'
  BY DEF InHand
<1>5. Gone'
  BY DEF Gone
<1>6. Covered'
  BY DEF Covered
<1>7. Counting'
  BY DEF Counting, Added, Released
<1>8. Woken'
  BY DEF Woken, front_ready
<1> QED
  BY <1>1, <1>2, <1>3, <1>4, <1>5, <1>6, <1>7, <1>8 DEF IInv

\* handler_refuses preserves the invariant.
LEMMA handler_refusesStep ==
    ASSUME IInv, handler_refuses
    PROVE  IInv'
<1> USE DEF Go, Return, client, parse, entries
<1> /\ Typed /\ Queue /\ Answering /\ InHand /\ Gone /\ Covered
    /\ Counting /\ Woken
    /\ 1 .. handled \subseteq Requests /\ handled \in Nat
    /\ AllThreads \subseteq Everyone /\ "remover" \in Everyone
    /\ "remover" \notin AllThreads /\ "parser" \in AllThreads
  BY Facts DEF Given
<1> /\ \A u \in AllThreads \ {"parser"} : pc'[u] = pc[u] /\ at'[u] = at[u]
    /\ pc["parser"] = "handler" /\ pc'["parser"] = "add_ref" /\ at'["parser"] = at["parser"]
  BY DEF Typed, handler_refuses, set_response
<1> UNCHANGED <<Requests, Left, commands, handled, calls, sent, pending_response,
                refs, cleared>>
  BY DEF Requests, Left, handler_refuses
<1> PICK i \in 1 .. handled : i = at["parser"] /\ response[i] = "null" /\ i \notin calls
  BY DEF Answering, Preparing
<1> PICK a \in Replies \ {"null"} : response' = [response EXCEPT ![i] = a]
  BY Zenon DEF handler_refuses, set_response, Replies
<1> stray' = stray \cup ({i} \cap cleared)
  BY DEF handler_refuses, set_response
<1> response \in [Requests -> Replies] /\ i \in Requests
  BY DEF Typed
<1> response'[i] = a /\ \A j \in Requests : j # i => response'[j] = response[j]
  OBVIOUS
<1>1. Typed'
  <2>1. pc' \in [Everyone -> Places] /\ at' \in [Everyone -> Nat]
    BY DEF Typed, Places, handler_refuses, set_response
  <2>2. response' \in [Requests -> Replies]
    OBVIOUS
  <2> QED
    BY <2>1, <2>2, Zenon DEF Typed, handler_refuses
<1>2. Queue'
  BY DEF Queue
<1>3. Answering'
  BY DEF Answering, Preparing
<1>4. InHand'
  BY DEF InHand
<1>5. Gone'
  BY DEF Gone
<1>6. Covered'
  BY DEF Covered
<1>7. Counting'
  BY DEF Counting, Added, Released
<1>8. Woken'
  BY DEF Woken, front_ready
<1> QED
  BY <1>1, <1>2, <1>3, <1>4, <1>5, <1>6, <1>7, <1>8 DEF IInv

\* on_reply preserves the invariant.
LEMMA on_replyStep ==
    ASSUME IInv, NEW t \in Threads, NEW i \in Requests, on_reply(t, i)
    PROVE  IInv'
<1> USE DEF Go, Return, client, parse, entries
<1> /\ Typed /\ Queue /\ Answering /\ InHand /\ Gone /\ Covered
    /\ Counting /\ Woken
    /\ 1 .. handled \subseteq Requests /\ handled \in Nat
    /\ AllThreads \subseteq Everyone /\ "remover" \in Everyone
    /\ "remover" \notin AllThreads /\ "parser" \in AllThreads
  BY Facts DEF Given
<1> t \in AllThreads
  BY DEF AllThreads
<1> /\ \A u \in AllThreads \ {t} : pc'[u] = pc[u] /\ at'[u] = at[u]
    /\ \/ pc'[t] = pc[t] /\ at'[t] = at[t]
       \/ pc'[t] = "callback" /\ at'[t] = i
  BY DEF Typed, on_reply
<1> UNCHANGED <<Requests, Left, commands, handled, sent, pending_response, response,
                refs, cleared, stray>>
  BY DEF Requests, Left, on_reply
<1> pc[t] = "idle" /\ i \in calls /\ calls' = calls \ {i}
  BY DEF on_reply
<1> i \in 1 .. handled /\ response[i] = "null"
  BY DEF Answering, Typed
<1>1. Typed'
  <2>1. CASE status = "removed"
    BY <2>1 DEF Typed, on_reply
  <2>2. CASE status # "removed"
    <3>1. pc' = [pc EXCEPT ![t] = "callback"] /\ at' = [at EXCEPT ![t] = i] /\ i \in Nat
      BY <2>2 DEF on_reply
    <3>2. pc' \in [Everyone -> Places] /\ at' \in [Everyone -> Nat]
      BY <3>1 DEF Typed, Places
    <3> QED
      BY <3>2, Zenon DEF Typed, on_reply
  <2> QED
    BY <2>1, <2>2
<1>2. Queue'
  BY DEF Queue
<1>3. Answering'
  <2>1. \A u \in AllThreads : Preparing(u)' =>
           (Preparing(u) /\ at'[u] = at[u]) \/ (u = t /\ at'[u] = i)
    BY DEF Preparing
  <2>2. \A u \in AllThreads : pc'[u] = "add_ref" => pc[u] = "add_ref" /\ at'[u] = at[u]
    OBVIOUS
  <2>3. \A u \in AllThreads : Preparing(u) => at[u] # i
    BY DEF Answering
  <2>4. \A u \in AllThreads : Preparing(u)' => /\ at'[u] \in 1 .. handled \ calls'
                                               /\ response[at'[u]] = "null"
    BY <2>1 DEF Answering
  <2>5. \A u, v \in AllThreads : Preparing(u)' /\ Preparing(v)' /\ at'[u] = at'[v] => u = v
    BY <2>1, <2>3 DEF Answering
  <2>6. \A u \in AllThreads : pc'[u] = "add_ref" => at'[u] \in 1 .. handled /\ response[at'[u]] # "null"
    BY <2>2 DEF Answering
  <2>7. \A u, v \in AllThreads : pc'[u] = "add_ref" /\ pc'[v] = "add_ref" /\ at'[u] = at'[v] => u = v
    BY <2>2 DEF Answering
  <2>8. /\ \A j \in calls' : response[j] = "null"
        /\ \A j \in Requests : j > handled => response[j] = "null"
    BY Zenon DEF Answering
  <2> QED
    BY <2>4, <2>5, <2>6, <2>7, <2>8, Zenon DEF Answering
<1>4. InHand'
  BY DEF InHand
<1>5. Gone'
  BY DEF Gone
<1>6. Covered'
  BY DEF Covered
<1>7. Counting'
  <2>1. \A u \in AllThreads, j \in Requests :
           (pc'[u] = "add_ref" /\ at'[u] = j) = (pc[u] = "add_ref" /\ at[u] = j)
    OBVIOUS
  <2>2. \A j \in Requests : Added(j)' = Added(j) /\ Released(j)' = Released(j)
    BY <2>1 DEF Added, Released
  <2> QED
    BY <2>2, Zenon DEF Counting
<1>8. Woken'
  BY DEF Woken, front_ready
<1> QED
  BY <1>1, <1>2, <1>3, <1>4, <1>5, <1>6, <1>7, <1>8 DEF IInv

\* callback preserves the invariant.
LEMMA callbackStep ==
    ASSUME IInv, NEW t \in AllThreads, NEW r \in Results, callback(t, r)
    PROVE  IInv'
<1> USE DEF Go, Return, client, parse, entries
<1> /\ Typed /\ Queue /\ Answering /\ InHand /\ Gone /\ Covered
    /\ Counting /\ Woken
    /\ 1 .. handled \subseteq Requests /\ handled \in Nat
    /\ AllThreads \subseteq Everyone /\ "remover" \in Everyone
    /\ "remover" \notin AllThreads /\ "parser" \in AllThreads
  BY Facts DEF Given
<1> /\ \A u \in AllThreads \ {t} : pc'[u] = pc[u] /\ at'[u] = at[u]
    /\ pc[t] = "callback" /\ pc'[t] = "add_ref" /\ at'[t] = at[t]
  BY DEF Typed, callback, set_response
<1> UNCHANGED <<Requests, Left, commands, handled, calls, sent, pending_response,
                refs, cleared>>
  BY DEF Requests, Left, callback
<1> PICK i \in 1 .. handled : i = at[t] /\ response[i] = "null" /\ i \notin calls
  BY DEF Answering, Preparing
<1> PICK a \in Replies \ {"null"} : response' = [response EXCEPT ![i] = a]
  BY CallbackReplies, Zenon DEF callback, set_response
<1> stray' = stray \cup ({i} \cap cleared)
  BY DEF callback, set_response
<1> response \in [Requests -> Replies] /\ i \in Requests
  BY DEF Typed
<1> response'[i] = a /\ \A j \in Requests : j # i => response'[j] = response[j]
  OBVIOUS
<1>1. Typed'
  <2>1. pc' \in [Everyone -> Places] /\ at' \in [Everyone -> Nat]
    BY DEF Typed, Places, callback, set_response
  <2>2. response' \in [Requests -> Replies]
    OBVIOUS
  <2> QED
    BY <2>1, <2>2, Zenon DEF Typed, callback
<1>2. Queue'
  BY DEF Queue
<1>3. Answering'
  BY DEF Answering, Preparing
<1>4. InHand'
  BY DEF InHand
<1>5. Gone'
  BY DEF Gone
<1>6. Covered'
  BY DEF Covered
<1>7. Counting'
  BY DEF Counting, Added, Released
<1>8. Woken'
  BY DEF Woken, front_ready
<1> QED
  BY <1>1, <1>2, <1>3, <1>4, <1>5, <1>6, <1>7, <1>8 DEF IInv

\* add_ref preserves the invariant.
LEMMA add_refStep ==
    ASSUME IInv, NEW t \in AllThreads, add_ref(t)
    PROVE  IInv'
<1> USE DEF Go, Return, client, parse, entries
<1> /\ Typed /\ Queue /\ Answering /\ InHand /\ Gone /\ Covered
    /\ Counting /\ Woken
    /\ 1 .. handled \subseteq Requests /\ handled \in Nat
    /\ AllThreads \subseteq Everyone /\ "remover" \in Everyone
    /\ "remover" \notin AllThreads /\ "parser" \in AllThreads
  BY Facts DEF Given
<1> /\ \A u \in AllThreads \ {t} : pc'[u] = pc[u] /\ at'[u] = at[u]
    /\ pc[t] = "add_ref" /\ pc'[t] = "reply_all_ready"
  BY DEF Typed, add_ref
<1> UNCHANGED <<Requests, Left, commands, handled, calls, sent, pending_response,
                response, cleared, stray>>
  BY DEF Requests, Left, add_ref
<1>1. Queue'
  BY DEF Queue
<1>2. InHand'
  BY DEF InHand
<1>3. Gone'
  BY DEF Gone
<1>4. Covered'
  <2>1. \A u \in AllThreads : pc[u] = "reply" => pc'[u] = "reply" /\ at'[u] = at[u]
    OBVIOUS
  <2> QED
    BY <2>1 DEF Covered
<1>5. Woken'
  BY DEF Woken, front_ready
<1> PICK i \in 1 .. handled : i = at[t] /\ response[i] # "null"
  BY DEF Answering
<1> refs' = [refs EXCEPT ![i] = @ + 1] /\ refs \in [Requests -> Int]
  BY DEF add_ref, Typed
<1>6. Typed'
  <2>1. pc' \in [Everyone -> Places] /\ at' \in [Everyone -> Nat]
    BY DEF Typed, Places, add_ref
  <2>2. refs' \in [Requests -> Int]
    OBVIOUS
  <2> QED
    BY <2>1, <2>2, Zenon DEF Typed, add_ref
<1>7. Answering'
  BY DEF Answering, Preparing
<1>8. Counting'
  <2>1. \A j \in Requests : Released(j)' = Released(j)
    BY DEF Released
  <2>2. \A j \in Requests \ {i} : Added(j)' = Added(j)
    BY DEF Added
  <2>3. Added(i) = 0 /\ Added(i)' = 1
    BY DEF Added, Answering
  <2>4. Released(i) \in Int /\ refs'[i] = refs[i] + 1 /\ \A j \in Requests \ {i} : refs'[j] = refs[j]
    BY DEF Released
  <2> QED
    BY <2>1, <2>2, <2>3, <2>4 DEF Counting
<1> QED
  BY <1>1, <1>2, <1>3, <1>4, <1>5, <1>6, <1>7, <1>8 DEF IInv

\* dequeue preserves the invariant.
LEMMA dequeueStep ==
    ASSUME IInv, NEW t \in AllThreads, dequeue(t)
    PROVE  IInv'
<1> USE DEF Go, Return, client, parse, entries
<1> /\ Typed /\ Queue /\ Answering /\ InHand /\ Gone /\ Covered
    /\ Counting /\ Woken
    /\ 1 .. handled \subseteq Requests /\ handled \in Nat
    /\ AllThreads \subseteq Everyone /\ "remover" \in Everyone
    /\ "remover" \notin AllThreads /\ "parser" \in AllThreads
  BY Facts DEF Given
<1> /\ \A u \in AllThreads \ {t} : pc'[u] = pc[u] /\ at'[u] = at[u]
    /\ pc[t] = "reply_all_ready" /\ pc'[t] = "reply" /\ at'[t] = Left + 1
  BY QueueRange DEF Typed, dequeue, front_ready
<1> UNCHANGED <<Requests, commands, handled, calls, sent, response, refs, cleared,
                stray>>
  BY DEF Requests, dequeue
<1> /\ Left \in Nat /\ Left + 1 \in 1 .. handled /\ response[Left + 1] # "null"
  BY QueueRange DEF dequeue, front_ready
<1> Queue' /\ Left' = Left + 1
  <2> DEFINE n == Len(pending_response)
  <2>1. /\ pending_response' = Tail(pending_response) /\ pending_response # <<>>
        /\ pending_response \in Seq(Nat) /\ n <= handled
        /\ \A k \in 1 .. n : pending_response[k] = Left + k
    BY DEF Queue, dequeue, front_ready
  <2>2. /\ n \in Nat /\ Len(pending_response') = n - 1 /\ pending_response' \in Seq(Nat)
        /\ n >= 1 /\ \A k \in 1 .. n - 1 : pending_response'[k] = pending_response[k + 1]
    BY <2>1
  <2> HIDE DEF n
  <2>3. Left = handled - n /\ Left' = Left + 1
    BY <2>2 DEF Left, n
  <2>4. \A k \in 1 .. n - 1 : pending_response'[k] = Left' + k
    BY <2>1, <2>2, <2>3
  <2> QED
    BY <2>1, <2>2, <2>3, <2>4 DEF Queue
<1>1. Typed'
  <2>1. at' \in [Everyone -> Nat]
    BY QueueRange DEF Typed, dequeue, front_ready
  <2> QED
    BY <2>1 DEF Typed, Places, dequeue
<1>2. Queue'
  OBVIOUS
<1>3. Answering'
  BY DEF Answering, Preparing
<1>4. InHand'
  <2>1. Left + 1 \notin Range(sent) /\ Left + 1 \notin cleared
    BY DEF Gone
  <2> QED
    BY <2>1 DEF InHand
<1>5. Gone'
  BY DEF Gone
<1>6. Covered'
  <2>1. \A u \in AllThreads : pc[u] = "reply" => pc'[u] = "reply" /\ at'[u] = at[u]
    OBVIOUS
  <2>2. \A j \in 1 .. Left + 1 : j \in 1 .. Left \/ j = Left + 1
    OBVIOUS
  <2> QED
    BY <2>1, <2>2 DEF Covered
<1>7. Counting'
  BY DEF Counting, Added, Released
<1>8. Woken'
  BY DEF Woken
<1> QED
  BY <1>1, <1>2, <1>3, <1>4, <1>5, <1>6, <1>7, <1>8 DEF IInv

\* reply preserves the invariant.
LEMMA replyStep ==
    ASSUME IInv, NEW t \in AllThreads, reply(t)
    PROVE  IInv'
<1> USE DEF Go, Return, client, parse, entries
<1> /\ Typed /\ Queue /\ Answering /\ InHand /\ Gone /\ Covered
    /\ Counting /\ Woken
    /\ 1 .. handled \subseteq Requests /\ handled \in Nat
    /\ AllThreads \subseteq Everyone /\ "remover" \in Everyone
    /\ "remover" \notin AllThreads /\ "parser" \in AllThreads
  BY Facts DEF Given
<1> /\ \A u \in AllThreads \ {t} : pc'[u] = pc[u] /\ at'[u] = at[u]
    /\ pc[t] = "reply" /\ pc'[t] = "reply_all_ready"
  BY DEF Typed, reply
<1> UNCHANGED <<Requests, Left, commands, handled, calls, pending_response, response,
                cleared, stray>>
  BY DEF Requests, Left, reply
<1>1. Queue'
  BY DEF Queue
<1>2. Answering'
  BY DEF Answering, Preparing
<1>3. Woken'
  BY DEF Woken, front_ready
<1> PICK i \in 1 .. Left : /\ i = at[t] /\ response[i] # "null" /\ i \notin Range(sent) /\ i \notin cleared
                      /\ i \in Requests
  BY QueueRange DEF InHand
<1> refs' = [refs EXCEPT ![i] = @ - 1] /\ refs \in [Requests -> Int]
  BY DEF reply, Typed
<1> sent' \in Seq(Nat) /\ IsInjective(sent') /\ Range(sent') = Range(sent) \cup {i}
  <2>1. sent' = Append(sent, i) /\ sent \in Seq(Nat) /\ IsInjective(sent) /\ i \in Nat
    BY QueueRange DEF reply, Gone
  <2> QED
    BY <2>1, RangeAppend
<1>4. Typed'
  <2>1. pc' \in [Everyone -> Places] /\ at' \in [Everyone -> Nat]
    BY DEF Typed, Places, reply
  <2>2. refs' \in [Requests -> Int]
    OBVIOUS
  <2> QED
    BY <2>1, <2>2, Zenon DEF Typed, reply
<1>5. InHand'
  <2>1. \A u \in AllThreads : pc'[u] = "reply" => pc[u] = "reply" /\ at'[u] = at[u] /\ u # t
    OBVIOUS
  <2> QED
    BY <2>1 DEF InHand
<1>6. Gone'
  BY DEF Gone
<1>7. Covered'
  <2>1. \A u \in AllThreads : pc[u] = "reply" => (pc'[u] = "reply" /\ at'[u] = at[u]) \/ at[u] = i
    OBVIOUS
  <2> QED
    BY <2>1 DEF Covered
<1>8. Counting'
  <2>1. \A j \in Requests : Added(j)' = Added(j)
    BY DEF Added
  <2>2. \A j \in Requests \ {i} : Released(j)' = Released(j)
    BY DEF Released
  <2>3. Released(i) = 0 /\ Released(i)' = 1
    BY DEF Released
  <2>4. Added(i) \in Int /\ refs'[i] = refs[i] - 1 /\ \A j \in Requests \ {i} : refs'[j] = refs[j]
    BY DEF Added
  <2> QED
    BY <2>1, <2>2, <2>3, <2>4 DEF Counting
<1> QED
  BY <1>1, <1>2, <1>3, <1>4, <1>5, <1>6, <1>7, <1>8 DEF IInv

\* return preserves the invariant.
LEMMA returnStep ==
    ASSUME IInv, NEW t \in AllThreads, return(t)
    PROVE  IInv'
<1> USE DEF Go, Return, client, parse, entries
<1> /\ Typed /\ Queue /\ Answering /\ InHand /\ Gone /\ Covered
    /\ Counting /\ Woken
    /\ 1 .. handled \subseteq Requests /\ handled \in Nat
    /\ AllThreads \subseteq Everyone /\ "remover" \in Everyone
    /\ "remover" \notin AllThreads /\ "parser" \in AllThreads
  BY Facts DEF Given
<1> /\ \A u \in AllThreads \ {t} : pc'[u] = pc[u] /\ at'[u] = at[u]
    /\ pc[t] \in {"reply_all_ready"} /\ pc'[t] \in {"idle", "parse"}
  BY DEF Typed, return
<1> UNCHANGED <<Requests, Left, commands, handled, calls, sent, pending_response,
                response, refs, cleared, stray>>
  BY DEF Requests, Left, return
<1>1. Typed'
  BY DEF Typed, Places, return
<1>2. Queue'
  BY DEF Queue
<1>3. Answering'
  BY DEF Answering, Preparing
<1>4. InHand'
  BY DEF InHand
<1>5. Gone'
  BY DEF Gone
<1>6. Covered'
  BY DEF Covered
<1>7. Counting'
  BY DEF Counting, Added, Released
<1>8. Woken'
  BY DEF Woken, front_ready, return
<1> QED
  BY <1>1, <1>2, <1>3, <1>4, <1>5, <1>6, <1>7, <1>8 DEF IInv

\* on_recv_remove_session_request preserves the invariant.
LEMMA on_recv_remove_session_requestStep ==
    ASSUME IInv, on_recv_remove_session_request
    PROVE  IInv'
<1> USE DEF Go, Return, client, parse, entries
<1> /\ Typed /\ Queue /\ Answering /\ InHand /\ Gone /\ Covered
    /\ Counting /\ Woken
    /\ 1 .. handled \subseteq Requests /\ handled \in Nat
    /\ AllThreads \subseteq Everyone /\ "remover" \in Everyone
    /\ "remover" \notin AllThreads /\ "parser" \in AllThreads
  BY Facts DEF Given
<1> \A u \in AllThreads : pc'[u] = pc[u] /\ at'[u] = at[u]
  BY DEF Typed, on_recv_remove_session_request
<1> UNCHANGED <<Requests, Left, commands, handled, calls, sent, pending_response,
                response, refs, cleared, stray>>
  BY DEF Requests, Left, on_recv_remove_session_request
<1>1. Typed'
  BY DEF Typed, Places, on_recv_remove_session_request
<1>2. Queue'
  BY DEF Queue
<1>3. Answering'
  BY DEF Answering, Preparing
<1>4. InHand'
  BY DEF InHand
<1>5. Gone'
  BY DEF Gone
<1>6. Covered'
  BY DEF Covered
<1>7. Counting'
  BY DEF Counting, Added, Released
<1>8. Woken'
  BY DEF Woken, front_ready
<1> QED
  BY <1>1, <1>2, <1>3, <1>4, <1>5, <1>6, <1>7, <1>8 DEF IInv

\* reset preserves the invariant.
LEMMA resetStep ==
    ASSUME IInv, reset
    PROVE  IInv'
<1> USE DEF Go, Return, client, parse, entries
<1> /\ Typed /\ Queue /\ Answering /\ InHand /\ Gone /\ Covered
    /\ Counting /\ Woken
    /\ 1 .. handled \subseteq Requests /\ handled \in Nat
    /\ AllThreads \subseteq Everyone /\ "remover" \in Everyone
    /\ "remover" \notin AllThreads /\ "parser" \in AllThreads
  BY Facts DEF Given
<1> \A u \in AllThreads : pc'[u] = pc[u] /\ at'[u] = at[u]
  BY DEF Typed, reset
<1> UNCHANGED <<Requests, commands, handled, calls, sent, response, stray>>
  BY DEF Requests, reset
<1> Queue' /\ Left' = handled /\ Left \in Nat /\ Left <= handled /\ pending_response' = <<>>
  BY QueueRange DEF Queue, Left, reset
<1> cleared' = cleared \cup (Left + 1 .. handled)
  BY QueueRange DEF reset
<1> \A i \in Requests :
       refs'[i] = refs[i] - IF i \in Left + 1 .. handled /\ response[i] # "null" THEN 1 ELSE 0
  BY QueueRange DEF reset
<1>1. Typed'
  BY DEF Typed, Places, reset
<1>2. Queue'
  OBVIOUS
<1>3. Answering'
  BY DEF Answering, Preparing
<1>4. InHand'
  <2>1. \A u \in AllThreads : at[u] \in 1 .. Left => at[u] \in 1 .. handled /\ at[u] \notin Left + 1 .. handled
    OBVIOUS
  <2>2. \A u \in AllThreads : pc[u] = "reply" =>
           /\ at[u] \in 1 .. handled /\ response[at[u]] # "null"
           /\ at[u] \notin Range(sent) /\ at[u] \notin cleared'
    BY <2>1 DEF InHand
  <2>3. \A u, v \in AllThreads :
           pc[u] = "reply" /\ pc[v] = "reply" /\ at[u] = at[v] => u = v
    BY Zenon DEF InHand
  <2> QED
    BY <2>2, <2>3 DEF InHand
<1>5. Gone'
  BY DEF Gone
<1>6. Covered'
  <2>1. \A i \in 1 .. handled : i \in 1 .. Left \/ i \in Left + 1 .. handled
    OBVIOUS
  <2>2. \A i \in 1 .. Left : i \in 1 .. handled /\ i \notin Left + 1 .. handled
    OBVIOUS
  <2> QED
    BY <2>1, <2>2 DEF Covered
<1>7. Counting'
  <2> SUFFICES ASSUME NEW i \in Requests
               PROVE  refs'[i] = Added(i)' - Released(i)'
    BY DEF Counting
  <2>1. Added(i)' = Added(i) /\ Added(i) \in Int /\ Released(i) \in Int
    BY DEF Added, Released
  <2>2. refs[i] = Added(i) - Released(i)
    BY DEF Counting
  <2>3. CASE i \in Left + 1 .. handled /\ response[i] # "null"
    <3>1. Released(i) = 0 /\ Released(i)' = 1
      BY <2>3 DEF Released, Gone, Counting
    <3> QED
      BY <2>1, <2>2, <2>3, <3>1
  <2>4. CASE ~ (i \in Left + 1 .. handled /\ response[i] # "null")
    <3>1. Released(i) = Released(i)'
      BY <2>4 DEF Released
    <3> QED
      BY <2>1, <2>2, <2>4, <3>1
  <2> QED
    BY <2>3, <2>4
<1>8. Woken'
  BY DEF Woken, front_ready
<1> QED
  BY <1>1, <1>2, <1>3, <1>4, <1>5, <1>6, <1>7, <1>8 DEF IInv

\* on_remove_session preserves the invariant.
LEMMA on_remove_sessionStep ==
    ASSUME IInv, on_remove_session
    PROVE  IInv'
<1> USE DEF Go, Return, client, parse, entries
<1> /\ Typed /\ Queue /\ Answering /\ InHand /\ Gone /\ Covered
    /\ Counting /\ Woken
    /\ 1 .. handled \subseteq Requests /\ handled \in Nat
    /\ AllThreads \subseteq Everyone /\ "remover" \in Everyone
    /\ "remover" \notin AllThreads /\ "parser" \in AllThreads
  BY Facts DEF Given
<1> \A u \in AllThreads : pc'[u] = pc[u] /\ at'[u] = at[u]
  BY DEF Typed, on_remove_session
<1> UNCHANGED <<Requests, Left, commands, handled, calls, sent, pending_response,
                response, refs, cleared, stray>>
  BY DEF Requests, Left, on_remove_session
<1>1. Typed'
  BY DEF Typed, Places, on_remove_session
<1>2. Queue'
  BY DEF Queue
<1>3. Answering'
  BY DEF Answering, Preparing
<1>4. InHand'
  BY DEF InHand
<1>5. Gone'
  BY DEF Gone
<1>6. Covered'
  BY DEF Covered
<1>7. Counting'
  BY DEF Counting, Added, Released
<1>8. Woken'
  BY DEF Woken, front_ready
<1> QED
  BY <1>1, <1>2, <1>3, <1>4, <1>5, <1>6, <1>7, <1>8 DEF IInv

\* It holds initially.
LEMMA InitIInv == Init => IInv
<1> SUFFICES ASSUME Init PROVE IInv
  OBVIOUS
<1>1. Len(commands) \in Nat /\ handled = 0
  BY RedisAssumption DEF Init
<1>2. /\ pending_response = <<>> /\ sent = <<>> /\ Left = 0
      /\ Range(sent) = {} /\ cleared = {} /\ stray = {} /\ calls = {}
  <2>1. pending_response = <<>> /\ sent = <<>> /\ cleared = {} /\ stray = {} /\ calls = {}
    BY DEF Init
  <2>2. Len(pending_response) = 0 /\ DOMAIN sent = {}
    BY <2>1
  <2>3. Left = 0
    BY <1>1, <2>2 DEF Left
  <2>4. Range(sent) = {}
    BY <2>2 DEF Range
  <2> QED
    BY <2>1, <2>3, <2>4
<1>3. \A t \in AllThreads : pc[t] = "idle"
  BY DEF Init
<1>4. Typed
  BY <1>1 DEF Init, Typed, Everyone, Places, Replies
<1>5. Queue /\ Woken
  BY <1>1, <1>2 DEF Queue, Woken, front_ready
<1>6. Answering
  BY <1>1, <1>2, <1>3 DEF Init, Answering, Preparing
<1>7. InHand /\ Gone /\ Covered
  BY <1>2, <1>3 DEF InHand, Gone, Covered, IsInjective
<1>8. Counting
  BY <1>2 DEF Init, Counting, Added, Released
<1> QED
  BY <1>4, <1>5, <1>6, <1>7, <1>8 DEF IInv

\* A step that changes nothing preserves it.
LEMMA StutterIInv ==
    ASSUME IInv, UNCHANGED vars
    PROVE  IInv'
<1>1. /\ UNCHANGED <<commands, unread, handled, pending_response, response, calls, pc,
                     at, refs, sent, cleared, stray>>
      /\ Requests' = Requests /\ Left' = Left
  BY DEF vars, Requests, Left
<1>2. Typed' /\ Queue' /\ Answering' /\ Woken'
  BY <1>1 DEF IInv, Typed, Queue, Answering, Preparing, Woken, front_ready
<1>3. InHand' /\ Gone' /\ Covered'
  BY <1>1, Zenon DEF IInv, InHand, Gone, Covered
<1>4. Counting'
  <2>1. \A i \in Requests : Added(i)' = Added(i) /\ Released(i)' = Released(i)
    BY <1>1 DEF Added, Released
  <2> QED
    BY <1>1, <2>1, Zenon DEF IInv, Counting
<1> QED
  BY <1>2, <1>3, <1>4 DEF IInv

\* Every step preserves it.
LEMMA NextIInv == IInv /\ [Next]_vars => IInv'
<1> SUFFICES ASSUME IInv, [Next]_vars PROVE IInv'
  OBVIOUS
<1>1. CASE on_rpc_request
  BY <1>1, on_rpc_requestStep
<1>2. CASE Parser
  BY <1>2, append_messageStep, handle_commandStep, parse_returnStep, handler_callsStep,
     handler_refusesStep, Zenon DEF Parser
<1>3. ASSUME NEW t \in Threads, NEW i \in Requests, on_reply(t, i) PROVE IInv'
  BY <1>3, on_replyStep
<1>4. ASSUME NEW t \in AllThreads, Step(t) PROVE IInv'
  BY <1>4, callbackStep, add_refStep, dequeueStep, replyStep, returnStep, Zenon DEF Step
<1>5. CASE on_recv_remove_session_request
  BY <1>5, on_recv_remove_session_requestStep
<1>6. CASE Remover
  BY <1>6, resetStep, on_remove_sessionStep, Zenon DEF Remover
<1>7. CASE UNCHANGED vars
  BY <1>7, StutterIInv
<1> QED
  BY <1>1, <1>2, <1>3, <1>4, <1>5, <1>6, <1>7, Zenon DEF Next

\* Every reachable state satisfies it.
LEMMA Inductive == Spec => []IInv
  BY InitIInv, NextIInv, PTL DEF Spec

----------------------------------------------------------------------------
(***************************************************************************)
(* The theorems.                                                           *)
(***************************************************************************)

\* reply_all_ready sends no reply twice, none before its request has an
\* outcome, and none that reset() has dropped, with any number of threads in
\* it and wherever the removal of the session falls.
THEOREM RepliesSentOnce == Spec => []SentOnce
<1>1. IInv => SentOnce
  BY DEF IInv, Gone, Answering, SentOnce
<1> QED
  BY <1>1, Inductive, PTL

\* No wake-up is lost although reply_message stores the reply without _rlock:
\* with no thread left in it the first entry of the queue has no reply.
THEOREM NoReplyLeftReady == Spec => []NoneLeftReady
<1>1. IInv => NoneLeftReady
  BY DEF IInv, Woken, NoneLeftReady, Replying
<1> QED
  BY <1>1, Inductive, PTL

\* A reply overtakes an earlier one only if a thread has dequeued the earlier
\* one and is about to send it, or the removal of the session dropped it.
THEOREM OvertakenWasDequeued == Spec => []OvertakesOnlyDequeued
<1>1. IInv => OvertakesOnlyDequeued
  <2> SUFFICES ASSUME IInv, NEW j \in Range(sent), NEW i \in 1 .. j - 1
               PROVE  \/ i \in Range(sent) \cup cleared
                      \/ \E t \in AllThreads : pc[t] = "reply" /\ at[t] = i
    BY DEF OvertakesOnlyDequeued
  <2>1. Left \in Nat
    BY QueueRange DEF IInv
  <2>2. j \in 1 .. Left
    BY DEF IInv, Gone
  <2>3. i \in 1 .. Left
    BY <2>1, <2>2
  <2> QED
    BY <2>3 DEF IInv, Covered
<1> QED
  BY <1>1, Inductive, PTL

\* Once no thread is in reply_message or reply_all_ready, the references held
\* are those of the replies that wait in the queue, and of those that a
\* callback stored in an entry reset() had freed: the reference of every other
\* reply has been given back exactly once.
THEOREM ReferencesGivenBack == Spec => []RepliesReleased
<1>1. IInv => RepliesReleased
  <2> DEFINE waiting == {i \in Range(pending_response) : response[i] # "null"}
  <2> SUFFICES ASSUME IInv, \A t \in AllThreads : ~Replying(t), NEW i \in Requests
               PROVE  refs[i] = IF i \in waiting \cup stray THEN 1 ELSE 0
    BY DEF RepliesReleased
  <2>1. /\ Left \in Nat /\ Left <= handled /\ handled \in Nat
        /\ Range(pending_response) = Left + 1 .. handled
    BY QueueRange DEF IInv
  <2>2. Added(i) = IF response[i] # "null" THEN 1 ELSE 0
    BY DEF Added, Replying
  <2>3. refs[i] = Added(i) - Released(i)
    BY DEF IInv, Counting
  <2>4. i \in Nat /\ i >= 1
    BY RedisAssumption DEF Requests, IInv, Typed
  <2>5. CASE response[i] = "null"
    <3>1. i \notin Range(sent) /\ i \notin stray /\ i \notin waiting
      BY <2>5 DEF IInv, Gone, Counting
    <3>2. Added(i) = 0 /\ Released(i) = 0
      BY <2>2, <2>5, <3>1 DEF Released
    <3> HIDE DEF waiting
    <3> QED
      BY <2>3, <3>1, <3>2
  <2>6. CASE response[i] # "null" /\ i > Left
    <3>1. i <= handled
      BY <2>1, <2>4, <2>6 DEF IInv, Answering
    <3>2. i \in waiting
      BY <2>1, <2>4, <2>6, <3>1
    <3>3. i \notin Range(sent) /\ i \notin cleared
      BY <2>1, <2>4, <2>6 DEF IInv, Gone
    <3> QED
      BY <2>2, <2>3, <2>6, <3>2, <3>3 DEF Released
  <2>7. CASE response[i] # "null" /\ ~ (i > Left)
    <3>1. i \in Range(sent) \/ i \in cleared
      BY <2>1, <2>4, <2>7 DEF IInv, Covered, Replying
    <3>2. i \notin waiting
      BY <2>1, <2>4, <2>7
    <3>3. i \in stray => i \notin Range(sent)
      BY DEF IInv, Gone, Counting
    <3> QED
      BY <2>2, <2>3, <2>7, <3>1, <3>2, <3>3 DEF Released
  <2> QED
    BY <2>5, <2>6, <2>7
<1> QED
  BY <1>1, Inductive, PTL

=============================================================================
