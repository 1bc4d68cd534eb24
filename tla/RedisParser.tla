----------------------------- MODULE RedisParser -----------------------------
(***************************************************************************)
(* redis_parser: the bytes a redis client sends come in messages cut at    *)
(* any place, and the parser makes requests, arrays of bulk strings, of    *)
(* them.  A message is parsed under the session's lock, one turn of the    *)
(* loop of parse_stream after the other.                                   *)
(*                                                                         *)
(* The input is the encoding of a sequence of well-formed requests with    *)
(* sizes of one digit.  A bulk string is a sequence of bytes or nil.  An  *)
(* array without elements is the one thing the parser must refuse.         *)
(***************************************************************************)
EXTENDS Integers, Sequences, SequencesExt

CONSTANTS
    Inputs,        \* the sequences of requests a client may send
    MaxMessage     \* bound on the bytes of a message

CR == "\r"
LF == "\n"
nil == <<"nil">>

Digits == <<"1", "2", "3", "4", "5", "6", "7", "8", "9">>

\* The redis protocol, and boost::lexical_cast<int> for its sizes.
Size(n) == IF n = -1 THEN <<"-", "1">> ELSE IF n = 0 THEN <<"0">> ELSE <<Digits[n]>>
lexical_cast(s) == CHOOSE n \in -1 .. 9 : Size(n) = s
StringLength(b) == IF b = nil THEN -1 ELSE Len(b)
EncodeString(b) ==
    <<"$">> \o Size(StringLength(b)) \o <<CR, LF>> \o
        (IF b = nil THEN <<>> ELSE b \o <<CR, LF>>)
Encode(request) ==
    <<"*">> \o Size(Len(request)) \o <<CR, LF>> \o
        FlattenSeq([i \in 1 .. Len(request) |-> EncodeString(request[i])])

VARIABLES
    requests,       \* what the client sends
    unsent,         \* the bytes of it that are still to come
    parsing,        \* "yes" while a message is being parsed
    recv_buffers,   \* the messages that are not consumed
    current_cursor, \* bytes consumed of the first of them
    total_length,   \* bytes that are not consumed
    status,
    current_size,
    current_str,    \* the length and the data of the current bulk string
    current_msg,    \* the current request: its length and its bulk strings
    handled,        \* the requests given to handle_command
    failed          \* "yes" when the parser rejected the input

stream_vars == <<recv_buffers, current_cursor, total_length>>
parser_vars == <<status, current_size, current_str, current_msg>>
vars == <<requests, unsent, parsing, stream_vars, parser_vars, handled, failed>>

no_request == [length |-> 0, buffers |-> <<>>]

Init ==
    /\ requests \in Inputs
    /\ unsent = FlattenSeq([i \in 1 .. Len(requests) |-> Encode(requests[i])])
    /\ parsing = "no"
    /\ recv_buffers = <<>> /\ current_cursor = 0 /\ total_length = 0
    /\ status = "start_array" /\ current_size = <<>>
    /\ current_str = [length |-> 0, data |-> <<>>]
    /\ current_msg = no_request
    /\ handled = <<>> /\ failed = "no"

----------------------------------------------------------------------------
(* The data stream.                                                        *)

\* on_recv_request and append_message: a message of n bytes.
append_message(n) ==
    /\ parsing = "no" /\ failed = "no"
    /\ n <= Len(unsent)
    /\ parsing' = "yes"
    /\ recv_buffers' = Append(recv_buffers, SubSeq(unsent, 1, n))
    /\ total_length' = total_length + n
    /\ unsent' = SubSeq(unsent, n + 1, Len(unsent))
    /\ UNCHANGED <<requests, current_cursor, parser_vars, handled, failed>>

\* prepare_current_buffer drops the first message when it is consumed and a
\* byte after it is needed.
consumed == current_cursor >= Len(Head(recv_buffers))
prepared == IF consumed THEN Tail(recv_buffers) ELSE recv_buffers
prepared_cursor == IF consumed THEN 0 ELSE current_cursor

peek == Head(prepared)[prepared_cursor + 1]

\* All the bytes that are not consumed.
stream == FlattenSeq(recv_buffers)
unread == SubSeq(stream, current_cursor + 1, Len(stream))

\* eat and eat_all of n bytes: the messages before the last byte are dropped.
eat(n) ==
    LET end(i) == Len(FlattenSeq(SubSeq(recv_buffers, 1, i)))
        drop   == CHOOSE i \in 0 .. (Len(recv_buffers) - 1) :
                     end(i) < current_cursor + n /\ current_cursor + n <= end(i + 1) IN
    /\ recv_buffers' = SubSeq(recv_buffers, drop + 1, Len(recv_buffers))
    /\ current_cursor' = current_cursor + n - end(drop)
    /\ total_length' = total_length - n

----------------------------------------------------------------------------
(* The parser.                                                             *)

\* A parser that goes on with the full request.
append_without_reset(str) ==
    LET buffers == Append(current_msg.buffers, str) IN
    IF Len(buffers) >= current_msg.length
    THEN /\ handled' = Append(handled, buffers)
         /\ current_msg' = [current_msg EXCEPT !.buffers = buffers]
         /\ status' = "start_array"
    ELSE /\ current_msg' = [current_msg EXCEPT !.buffers = buffers]
         /\ status' = "start_bulk_string"
         /\ UNCHANGED handled

\* append_current_bulk_string: a full request goes to handle_command.
append_current_bulk_string(str) ==
    LET buffers == Append(current_msg.buffers, str) IN
    IF Len(buffers) = current_msg.length
    THEN /\ handled' = Append(handled, buffers)
         /\ current_msg' = no_request
         /\ status' = "start_array"
    ELSE /\ current_msg' = [current_msg EXCEPT !.buffers = buffers]
         /\ status' = "start_bulk_string"
         /\ UNCHANGED handled

InSize == status \in {"in_array_size", "in_bulk_string_size"}

\* Waiting for one byte more than the data and the CR and LF.
data_ready_late == total_length > current_str.length + 2

\* The data of a bulk string are there, with the CR and LF after them.
data_ready == total_length >= current_str.length + 2

\* parse_stream returns: nothing is left, or the rest of a line or of a bulk
\* string is yet to come.  The look at a CR may have dropped a message.
waits ==
    \/ total_length = 0
    \/ InSize /\ total_length = 1 /\ peek = CR
    \/ status = "start_bulk_string_data" /\ ~data_ready

\* No throw in this turn of the loop: every byte is the expected one, and the
\* size of an array is positive.
accepts ==
    /\ status = "start_array" => peek = "*"
    /\ status = "start_bulk_string" => peek = "$"
    /\ InSize /\ peek = CR => unread[2] = LF
    /\ status = "in_array_size" /\ peek = CR => lexical_cast(current_size) > 0
    /\ status = "start_bulk_string_data" =>
          SubSeq(unread, current_str.length + 1, current_str.length + 2) = <<CR, LF>>

start_array ==
    /\ status = "start_array"
    /\ eat(1)
    /\ status' = "in_array_size"
    /\ UNCHANGED <<current_size, current_str, current_msg, handled>>

start_bulk_string ==
    /\ status = "start_bulk_string"
    /\ eat(1)
    /\ status' = "in_bulk_string_size"
    /\ UNCHANGED <<current_size, current_str, current_msg, handled>>

in_size ==
    /\ InSize
    /\ peek # CR
    /\ current_size' = Append(current_size, peek)
    /\ eat(1)
    /\ UNCHANGED <<status, current_str, current_msg, handled>>

end_array_size ==
    /\ status = "in_array_size"
    /\ peek = CR
    /\ eat(2)
    /\ current_msg' = [current_msg EXCEPT !.length = lexical_cast(current_size)]
    /\ current_size' = <<>>
    /\ status' = "start_bulk_string"
    /\ UNCHANGED <<current_str, handled>>

\* Only the length is replaced: the data of the last bulk string stay until
\* new ones are there.  A nil string is appended at once.
end_bulk_string_size ==
    LET str == [current_str EXCEPT !.length = lexical_cast(current_size)] IN
    /\ status = "in_bulk_string_size"
    /\ peek = CR
    /\ eat(2)
    /\ current_str' = str
    /\ current_size' = <<>>
    /\ IF str.length = -1
       THEN append_current_bulk_string(str)
       ELSE /\ status' = "start_bulk_string_data"
            /\ UNCHANGED <<current_msg, handled>>

start_bulk_string_data ==
    LET data == SubSeq(unread, 1, current_str.length)
        str  == IF current_str.length > 0
                THEN [current_str EXCEPT !.data = data] ELSE current_str IN
    /\ status = "start_bulk_string_data"
    /\ eat(current_str.length + 2)
    /\ current_str' = str
    /\ append_current_bulk_string(str)
    /\ UNCHANGED current_size

\* One turn of the loop of parse_stream.
parse_stream ==
    /\ parsing = "yes"
    /\ ~waits /\ accepts
    /\ \/ start_array \/ start_bulk_string \/ in_size
       \/ end_array_size \/ end_bulk_string_size \/ start_bulk_string_data
    /\ UNCHANGED <<requests, unsent, parsing, failed>>

parse_return ==
    /\ parsing = "yes"
    /\ waits
    /\ parsing' = "no"
    /\ recv_buffers' = IF InSize /\ total_length = 1 THEN prepared ELSE recv_buffers
    /\ current_cursor' = IF InSize /\ total_length = 1 THEN prepared_cursor
                         ELSE current_cursor
    /\ UNCHANGED <<requests, unsent, total_length, parser_vars, handled, failed>>

\* The exception: the parser is reset, and on_recv_request ends the process.
parse_throws ==
    /\ parsing = "yes"
    /\ ~waits /\ ~accepts
    /\ parsing' = "no" /\ failed' = "yes"
    /\ recv_buffers' = <<>> /\ current_cursor' = 0 /\ total_length' = 0
    /\ current_msg' = no_request /\ status' = "start_array" /\ current_size' = <<>>
    /\ UNCHANGED <<requests, unsent, current_str, handled>>

Next ==
    \/ \E n \in 1 .. MaxMessage : append_message(n)
    \/ parse_stream
    \/ parse_return
    \/ parse_throws

Spec == Init /\ [][Next]_vars

----------------------------------------------------------------------------
(* Properties.                                                             *)

Strings == UNION {{requests[i][j] : j \in DOMAIN requests[i]} : i \in DOMAIN requests}

(* The variables of the parser have their types; the cursor stays inside   *)
(* the first message.                                                      *)
TypeOK ==
    /\ parsing \in {"yes", "no"} /\ failed \in {"yes", "no"}
    /\ status \in {"start_array", "in_array_size", "start_bulk_string",
                   "in_bulk_string_size", "start_bulk_string_data"}
    /\ current_cursor \in 0 .. (IF recv_buffers = <<>> THEN 0 ELSE Len(Head(recv_buffers)))
    /\ current_str.length \in -1 .. 9 /\ current_str.data \in Strings \cup {<<>>}
    /\ current_msg.length \in 0 .. 9
    /\ total_length \in Nat

Bytes == FlattenSeq([i \in 1 .. Len(requests) |-> Encode(requests[i])])

(* total_length, which parse_stream and every wait of it trust, is the     *)
(* number of bytes that are in the messages and not consumed, and these    *)
(* are the last bytes that have come: none is skipped or read twice        *)
(* wherever the messages are cut.                                          *)
StreamAccounted ==
    failed = "no" =>
        /\ total_length = Len(unread)
        /\ IsSuffix(unread \o unsent, Bytes)

\* What the unit test of the parser compares: lengths, and data of non-empty strings.
SameString(got, sent) ==
    /\ got.length = StringLength(sent)
    /\ got.length > 0 => got.data = sent

SameRequest(got, sent) ==
    /\ Len(got) = Len(sent)
    /\ \A j \in DOMAIN got : SameString(got[j], sent[j])

(* However the stream is cut, the requests given to handle_command are the *)
(* first requests of the client, in their order, with the strings they     *)
(* had, up to the data of an empty or nil string.                          *)
HandledExact ==
    /\ Len(handled) <= Len(requests)
    /\ \A i \in DOMAIN handled : SameRequest(handled[i], requests[i])

\* The bytes that have come hold the first n requests whole.
Arrived(n) ==
    Len(FlattenSeq([i \in 1 .. n |-> Encode(requests[i])])) <= Len(Bytes) - Len(unsent)

(* When parse returns no whole request waits: each one whose last byte has *)
(* come was handled by the call that got this byte, so a client that waits *)
(* for its reply before it sends more is not left without one.             *)
Prompt ==
    parsing = "no" /\ failed = "no" =>
        \A n \in 1 .. Len(requests) : Arrived(n) => Len(handled) >= n

(* parse throws at the first array without elements and at no other        *)
(* request, and nothing after it is handled.                               *)
OnlyEmptyRejected ==
    /\ failed = "yes" => requests[Len(handled) + 1] = <<>>
    /\ \A i \in DOMAIN handled : handled[i] # <<>>

(* redis_proxy_test.cpp expects {0, ""} for "$0": the data of an empty     *)
(* string are empty.  set takes buffers[2].data as the value.              *)
EmptyIsEmpty ==
    \A i \in DOMAIN handled : \A j \in DOMAIN handled[i] :
        handled[i][j].length = 0 => handled[i][j].data = <<>>

=============================================================================
