------------------------------ MODULE XmlSocket ------------------------------
(***************************************************************************)
(* An XMLSocket (swfdec_xml_socket.c) on top of its stream (Stream).  What *)
(* arrives is cut into messages at zero bytes, whatever buffers it comes   *)
(* in, and each message calls a script.  What scripts send is queued as    *)
(* long as the socket does not take it.                                    *)
(*                                                                         *)
(* Every action is one of Stream, with what the socket does in it.         *)
(***************************************************************************)
EXTENDS Stream, BufferQueue

CONSTANTS
    Chunks,         \* what the backend may push: sequences of bytes
    Zero,           \* the byte that ends a message
    Invalid,        \* a byte that makes a message invalid UTF-8
    MaxSends        \* bound: how often scripts send

\* Bytes are numbers.
ASSUME BytesAssumption == /\ Zero \in Nat
                          /\ \A chunk \in Chunks : chunk \in Seq(Nat)
                          /\ MaxSends \in Nat

VARIABLES
    arrived,        \* the buffer queue of the stream
    xml,            \* SwfdecXmlSocket
    full,           \* whether the backend has refused bytes
    event,          \* history: the last event of the connection for the script
    received,       \* history: all bytes that arrived
    delivered,      \* history: the messages that onData was called with
    sends,          \* how often scripts have sent
    wire            \* history: all bytes that the backend took

socketVars == <<arrived, xml, full, event, received, delivered, sends, wire>>
allSocketVars == <<vars, socketVars>>

\* What the script passes at its k-th call: sends can be told apart.  Every
\* second string is empty.
Message(k) == IF k % 2 = 0 THEN <<Zero>> ELSE <<k, Zero>>
Sent == Joined([k \in 1..MaxSends |-> Message(k)])

SocketInit ==
    /\ Init
    /\ kind = "socket"
    /\ arrived = EmptyQueue
    /\ xml = [listed     |-> FALSE,      \* in xml_sockets, with a socket
              open       |-> FALSE,
              queue      |-> EmptyQueue, \* of the unfinished message
              send_queue |-> EmptyQueue,
              script     |-> FALSE]      \* onData runs
    /\ full = FALSE
    /\ event = "none"
    /\ received = <<>>
    /\ delivered = <<>>
    /\ sends = 0
    /\ wire = <<>>

\* swfdec_xml_socket_create: the target is set before anything can happen.
Connect ==
    /\ SetTarget
    /\ xml' = [xml EXCEPT !.listed = TRUE]
    /\ UNCHANGED <<arrived, full, event, received, delivered, sends, wire>>

-----------------------------------------------------------------------------
(* Sending *)

\* What swfdec_xml_socket_do_write leaves of a queue, and how it ends: the
\* socket takes buffer for buffer until the queue is empty, or only a part of
\* one, or fails and takes nothing of it.
Writes(queue) ==
    LET Left(n, end) == [queue |-> Flush(queue, n), taken |-> Peek(queue, n), end |-> end]
        whole == {n \in 0..queue.depth : \E k \in 0..Len(queue.buffers) :
                                           n = Len(Joined(queue.buffers)[k])}
    IN  {Left(queue.depth, "empty")}
          \cup {Left(n, "full") : n \in 0..queue.depth - 1}
          \cup {Left(n, "error") : n \in whole \ {queue.depth}}

Took(write) ==
    /\ xml' = [xml EXCEPT !.send_queue = write.queue]
    /\ wire' = wire \o write.taken
    /\ full' = (full \/ write.end = "full")

\* swfdec_xml_socket_do_write in a call of send.
DoWrite(queue) ==
    \E write \in Writes(queue) :
       /\ Took(write)
       /\ IF write.end = "error" THEN SendFails ELSE UNCHANGED vars

\* Scripts run in the callbacks, but not between two messages.
InSocketScript == /\ ScriptRuns
            /\ pc \in {"parse", "last parse"} => xml.script

\* swfdec_xml_socket_send: the queue is written only if it was empty.
Send ==
    /\ InSocketScript
    /\ sends < MaxSends
    /\ xml.listed
    /\ stream.state = "open"
    /\ sends' = sends + 1
    /\ LET queue == PushBuffer(xml.send_queue, Message(sends + 1))
       IN IF xml.send_queue.depth = 0 THEN DoWrite(queue)
          ELSE /\ xml' = [xml EXCEPT !.send_queue = queue]
               /\ UNCHANGED <<vars, wire, full>>
    /\ UNCHANGED <<arrived, event, received, delivered>>

\* The socket has become writable.
Writable ==
    /\ SignalWritable
    /\ full' = FALSE
    /\ UNCHANGED <<arrived, xml, event, received, delivered, sends, wire>>

\* swfdec_xml_socket_stream_target_writable.  A stream that has closed takes
\* nothing.
SocketWrites ==
    /\ ProcessWritable
    /\ IF stream.state = "open"
       THEN \E write \in Writes(xml.send_queue) :
               /\ Took(write)
               /\ stream'.state = IF write.end = "error" THEN "error" ELSE "open"
       ELSE stream'.state = stream.state /\ UNCHANGED <<xml, wire, full>>
    /\ UNCHANGED <<arrived, event, received, delivered, sends>>

-----------------------------------------------------------------------------
(* Receiving *)

Report(e) == event' = e

Push == \E chunk \in Chunks :
    /\ BackendPush
    /\ IF stream.state = "open"
       THEN /\ arrived' = PushBuffer(arrived, chunk)
            /\ received' = received \o chunk
       ELSE UNCHANGED <<arrived, received>>
    /\ UNCHANGED <<xml, full, event, delivered, sends, wire>>

WrongTake ==
    /\ pc \in {"parse", "last parse"}
    /\ arrived.buffers # <<>>
    /\ LET buffer == PeekBuffer(arrived)
           zeros == {i \in 1..Len(buffer) : buffer[i] = Zero}
           len == IF zeros = {} THEN Len(buffer) ELSE Min(zeros)
           queue == PushBuffer(xml.queue, Peek(arrived, len))
           message == Peek(queue, queue.depth)
           valid == Invalid \notin ToSet(message)
       IN /\ arrived' = Flush(arrived, len)
          /\ IF zeros = {} \/ ~valid
             THEN /\ xml' = [xml EXCEPT !.queue = queue, !.script = FALSE]
                  /\ UNCHANGED delivered
             ELSE /\ xml' = [xml EXCEPT !.queue = Flush(queue, queue.depth),
                                        !.script = TRUE]
                  /\ delivered' = Append(delivered, message)
    /\ UNCHANGED <<vars, full, event, received, sends, wire>>

\* One round of the loop of swfdec_xml_socket_stream_target_parse: the first
\* buffer up to a zero byte, or all of it.
Take ==
    /\ pc \in {"parse", "last parse"}
    /\ arrived.buffers # <<>>
    /\ LET buffer == PeekBuffer(arrived)
           zeros == {i \in 1..Len(buffer) : buffer[i] = Zero}
           len == IF zeros = {} THEN Len(buffer) ELSE Min(zeros)
           queue == PushBuffer(xml.queue, Peek(arrived, len))
           message == Peek(queue, queue.depth)
           valid == Invalid \notin ToSet(message)
       IN /\ arrived' = Flush(arrived, len)
          /\ IF zeros = {}
             THEN /\ xml' = [xml EXCEPT !.queue = queue, !.script = FALSE]
                  /\ UNCHANGED delivered
             ELSE /\ xml' = [xml EXCEPT !.queue = Flush(queue, queue.depth),
                                        !.script = valid]
                  /\ delivered' = IF valid THEN Append(delivered, message)
                                  ELSE delivered
    /\ UNCHANGED <<vars, full, event, received, sends, wire>>

\* The loop ends when all is read.
SocketReturn ==
    /\ arrived.buffers = <<>>
    /\ Parsed
    /\ stream'.data = 0
    /\ xml' = [xml EXCEPT !.script = FALSE]
    /\ Report(IF pc' = "close" THEN "onClose" ELSE event)
    /\ UNCHANGED <<arrived, full, received, delivered, sends, wire>>

-----------------------------------------------------------------------------
(* The other callbacks of the stream *)

\* The script that is called for an error.
ErrorEvent == IF xml.open THEN "onClose" ELSE "onConnect(false)"

\* swfdec_stream_process tells of an error.
SocketFail ==
    /\ Process
    /\ Report(IF pc' = "error" THEN ErrorEvent ELSE event)
    /\ UNCHANGED <<arrived, xml, full, received, delivered, sends, wire>>

WrongStep ==
    /\ Loop
    /\ Report(IF pc' = "open" THEN "onConnect(true)" ELSE event)
    /\ UNCHANGED <<arrived, xml, full, received, delivered, sends, wire>>

\* It tells of the opening, which calls onConnect, or calls parse.
SocketStep ==
    /\ Loop
    /\ IF pc' = "open"
       THEN /\ xml' = [xml EXCEPT !.open = TRUE]
            /\ Report("onConnect(true)")
       ELSE UNCHANGED <<xml, event>>
    /\ UNCHANGED <<arrived, full, received, delivered, sends, wire>>

\* swfdec_xml_socket_ensure_closed
EnsureClosed ==
    /\ Ended
    /\ xml' = [xml EXCEPT !.listed = FALSE, !.send_queue = EmptyQueue]
    /\ UNCHANGED <<arrived, full, event, received, delivered, sends, wire>>

SocketClose == CloseSocket /\ InSocketScript /\ UNCHANGED socketVars

\* What does not concern the socket.
Unconcerned == \/ stream.target # "none"
                  /\ (BackendOpen \/ BackendClose \/ BackendError)
               \/ Opened

SocketNext ==
    \/ Connect \/ Send \/ SocketClose
    \/ Writable \/ SocketWrites
    \/ Push \/ Take \/ SocketReturn
    \/ SocketFail \/ SocketStep \/ EnsureClosed
    \/ Unconcerned /\ UNCHANGED socketVars

SocketSpec == SocketInit /\ [][SocketNext]_allSocketVars

-----------------------------------------------------------------------------
(* Properties *)

\* The bytes that were sent and did not reach the wire are in the queue.
\* Nothing is lost, sent twice or overtaken although the socket takes buffers
\* in parts (swfdec_xml_socket_do_write) and scripts go on to send.  Data that
\* waits in the queue has a reason to wait: the socket has refused some and will
\* signal that it is writable, or has done so.
BytesInOrder ==
    /\ WellFormed(xml.send_queue)
    /\ xml.listed => wire \o Contents(xml.send_queue) = Sent[sends]
    /\ IsPrefix(wire, Sent[sends])
    /\ xml.listed => xml.send_queue.offset = Len(wire)
    /\ xml.send_queue.depth > 0 /\ stream.state = "open" => full \/ stream.writable

\* What reading one byte more makes of the messages that scripts got and of the
\* beginning of the next.
Read(state, byte) ==
    LET message == Append(state.rest, byte)
    IN  IF byte # Zero THEN [state EXCEPT !.rest = message]
        ELSE [messages |-> IF Invalid \in ToSet(message) THEN state.messages
                           ELSE Append(state.messages, message),
              rest |-> <<>>]

\* The same of the first n bytes, for each n.
Reading(bytes) ==
    LET state[n \in 0..Len(bytes)] ==
            IF n = 0 THEN [messages |-> <<>>, rest |-> <<>>]
            ELSE Read(state[n - 1], bytes[n])
    IN  state

\* What scripts got are the valid messages of what was read, and the beginning
\* of the next is kept: it does not matter how the bytes were cut into buffers.
\* A script that is told that the other side closed the connection has got all.
MessagesAreIntact ==
    LET unread == Contents(arrived)
        read == Len(received) - Len(unread)
    IN /\ WellFormed(arrived) /\ WellFormed(xml.queue)
       /\ received = SubSeq(received, 1, read) \o unread
       /\ delivered = Reading(received)[read].messages
       /\ Contents(xml.queue) = Reading(received)[read].rest
       /\ event = "onClose" /\ told = "close" => arrived.buffers = <<>>

\* The events of the connection: connected or not, once, and first; data and
\* the end of the connection only if it was.
EventsInOrder ==
    /\ [][event' # event => <<event, event'>> \in
              {<<"none", "onConnect(true)">>, <<"none", "onConnect(false)">>,
               <<"onConnect(true)", "onClose">>}]_allSocketVars
    /\ [][delivered' # delivered => event = "onConnect(true)"]_allSocketVars

-----------------------------------------------------------------------------
(* The inductive invariant: what makes the properties above true *)

Queues == [buffers : Seq(Seq(Nat)), depth : Nat, offset : Nat]

SocketTypes ==
    /\ arrived \in Queues
    /\ xml \in [listed : BOOLEAN, open : BOOLEAN, queue : Queues, send_queue : Queues,
                script : BOOLEAN]
    /\ full \in BOOLEAN
    /\ received \in Seq(Nat) /\ wire \in Seq(Nat)
    /\ delivered \in Seq(Seq(Nat))
    /\ sends \in 0..MaxSends

\* The socket is in the list as long as it is the target of the stream, and
\* sends only while the stream is open.
ListedIsTarget ==
    /\ kind = "socket"
    /\ xml.listed <=> stream.target = "set"
    /\ ~xml.listed => xml.send_queue = EmptyQueue
    /\ stream.target = "none" \/ stream.state = "connecting" =>
         sends = 0 /\ wire = <<>> /\ xml.send_queue = EmptyQueue

\* The last event for the script goes with what the stream told.
EventIsTold ==
    /\ told = "nothing" => event = "none" /\ ~xml.open
    /\ told \in {"open", "parse"} => event = "onConnect(true)" /\ xml.open
    /\ told = "close" => event = "onClose" /\ arrived.buffers = <<>>
    /\ told = "error" => event \in {"onConnect(false)", "onClose"}

SocketInv == /\ IInv
             /\ SocketTypes
             /\ ListedIsTarget
             /\ EventIsTold
             /\ BytesInOrder
             /\ MessagesAreIntact
=============================================================================
