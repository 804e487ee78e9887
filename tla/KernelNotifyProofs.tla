------------------------- MODULE KernelNotifyProofs -------------------------
(* Why an answer on the invalidation stream is never taken for another's, for
   any number of connections, messages, failures and restarts. *)
EXTENDS KernelNotify, TLAPS

\* What a read takes from a socket and leaves in it.
LEMMA HeadAndTail ==
  ASSUME NEW S, NEW s \in Seq(S), s # <<>>
  PROVE  Head(s) \in S /\ Tail(s) \in Seq(S)
OBVIOUS

LEMMA OneElement ==
  ASSUME NEW S, NEW s \in Seq(S), s # <<>>, Len(s) = 1
  PROVE  Tail(s) = <<>>
<1>1. Tail(s) \in Seq(S) /\ Len(Tail(s)) = 0
    OBVIOUS
<1>2. \A t \in Seq(S) : Len(t) = 0 => t = <<>>
    OBVIOUS
<1>3. QED
    BY <1>1, <1>2, Zenon

\* An answer written to an empty socket is all it holds.
LEMMA OneAppended ==
  ASSUME NEW x \in {0, 1}
  PROVE  Len(Append(<<>>, x)) = 1 /\ Append(<<>>, x)[1] = x
OBVIOUS

\* Where the second of a socket's messages is.
LEMMA Several ==
  ASSUME NEW n \in Nat \ {0}, n # 1
  PROVE  1 \in 1 .. n - 1 /\ n - 1 \in 1 .. n - 1 /\ n - 1 \in Nat \ {0} /\ (n - 1) + 1 = n
OBVIOUS

\* A connection the client opens is one nobody uses.
LEMMA Connected ==
  ASSUME ReaderConnects
  PROVE  \/ UNCHANGED socketVars /\ At("loop")
         \/ \E c \in Conns :
              /\ ends[c] = {} /\ \A i \in DOMAIN backlog : backlog[i] # c
              /\ ends' = [ends EXCEPT ![c] = {"daemon", "client"}]
              /\ wire' = [wire EXCEPT ![c] = <<>>] /\ answers' = [answers EXCEPT ![c] = <<>>]
              /\ backlog' = Append(backlog, c)
              /\ reader' = [reader EXCEPT !.pc = "set", !.fd = c]
<1> DEFINE c == CHOOSE d \in Free : TRUE
<1>1. Free # {} => c \in Free
    BY Zenon
<1>2. c \in Free => c \in Conns /\ ends[c] = {} /\ \A i \in DOMAIN backlog : backlog[i] # c
    BY DEF Free
<1>3. QED
    BY <1>1, <1>2, Zenon DEF ReaderConnects

-----------------------------------------------------------------------------
(* Types.  What any step may make of each variable, and that it keeps its type. *)

\* The daemon's side of the stream keeps its types: the connection is one of the
\* backlog's or none, a send has a message of its own and returns a result.
LEMMA DaemonTyped ==
  ASSUME InStep, [Next]_vars
  PROVE  /\ conn' \in Conns \union {None} /\ sends' \in Nat /\ dropped' \subseteq Nat
         /\ send' \in {Idle} \union [pc : {"write", "await"}, msg : Message]
         /\ result' \in [num : Nat, res : {"none", "ok", "failed", "gone", "unresponsive"}]
<1> DEFINE Sending == [pc : {"write", "await"}, msg : Message]
           Returned == [num : Nat, res : {"none", "ok", "failed", "gone", "unresponsive"}]
<1>0. /\ conn \in Conns \union {None} /\ sends \in Nat /\ dropped \subseteq Nat
      /\ send = Idle \/ send \in Sending
      /\ result \in Returned /\ backlog \in Seq(Conns)
    BY Zenon DEF InStep, StreamTypes
<1>1. conn' \in Conns \union {None}
  <2>1. conn' = conn \/ conn' = None \/ (backlog # <<>> /\ conn' = Head(backlog))
    BY Zenon DEF Next, Daemon, Reader, Send, Write, Lost, Answered, Timeout, Cooldown, Accept, Crash,
         Restart, ReaderLoops, ReaderConnects, ReaderSets, ReaderChecks, ReaderReads, ReaderEnds,
         ReaderCalls, ReaderAcks, ReaderLeaves, WorkerPops, WorkerCalls, Unmount, Shutdown, Join,
         vars, daemonVars
  <2>2. backlog # <<>> => Head(backlog) \in Conns
    BY <1>0
  <2> QED
    BY Zenon, <1>0, <2>1, <2>2
<1>2. sends' \in Nat
  <2>1. sends' = sends \/ sends' = sends + 1
    BY Zenon DEF Next, Daemon, Reader, Send, Write, Lost, Answered, Timeout, Cooldown, Accept, Crash,
         Restart, ReaderLoops, ReaderConnects, ReaderSets, ReaderChecks, ReaderReads, ReaderEnds,
         ReaderCalls, ReaderAcks, ReaderLeaves, WorkerPops, WorkerCalls, Unmount, Shutdown, Join,
         vars, counters
  <2> QED
    BY <1>0, <2>1
<1>3. dropped' \subseteq Nat
  <2>1. dropped' = dropped \/ (reader.pc = "call" /\ dropped' = dropped \union {reader.msg.num})
    BY Zenon DEF Next, Daemon, Reader, Send, Write, Lost, Answered, Timeout, Cooldown, Accept, Crash,
         Restart, ReaderLoops, ReaderConnects, ReaderSets, ReaderChecks, ReaderReads, ReaderEnds,
         ReaderCalls, ReaderAcks, ReaderLeaves, WorkerPops, WorkerCalls, Unmount, Shutdown, Join,
         vars, clientVars, readerOnly
  <2>2. reader.pc = "call" => reader.msg \in Message
    BY DEF InStep, ReaderServes
  <2>3. reader.msg \in Message => reader.msg.num \in Nat
    BY DEF Message
  <2> QED
    BY Zenon, <1>0, <2>1, <2>2, <2>3
<1>4. ASSUME NEW kind \in {"entry", "inode"}, Send(kind)
      PROVE  send' \in {Idle} \union Sending /\ result' \in Returned
  <2>1. /\ \/ send' = send
           \/ send' = [pc |-> "write", msg |-> [num |-> sends + 1, kind |-> kind]]
        /\ \/ result' = result
           \/ \E res \in {"gone", "unresponsive"} : result' = [num |-> sends + 1, res |-> res]
    BY Zenon, <1>4 DEF Send
  <2>2. sends + 1 \in Nat
    BY <1>0
  <2> QED
    BY <1>0, <2>1, <2>2 DEF Message
<1>5. ASSUME Write \/ Lost \/ Answered \/ Timeout
      PROVE  send' \in {Idle} \union Sending /\ result' \in Returned
  <2>1. send.pc # "idle"
    BY Zenon, <1>5 DEF Write, Lost, Answered, Timeout
  <2>2. send \in Sending /\ send.msg \in Message /\ send.msg.num \in Nat
    <3>1. send # Idle
      BY <2>1 DEF Idle
    <3> QED
      BY <1>0, <3>1 DEF Message
  <2>3. /\ send' = Idle \/ send' = [send EXCEPT !.pc = "await"]
        /\ \/ result' = result
           \/ \E res \in {"ok", "failed", "gone", "unresponsive"} :
                result' = [num |-> send.msg.num, res |-> res]
    BY Zenon, <1>5 DEF Write, Lost, Answered, Timeout, Return
  <2>4. [send EXCEPT !.pc = "await"] \in Sending
    BY <2>2
  <2>5. \A res \in {"ok", "failed", "gone", "unresponsive"} :
          [num |-> send.msg.num, res |-> res] \in Returned
    BY <2>2
  <2>6. send' \in {Idle} \union Sending
    BY Zenon, <2>3, <2>4
  <2>7. result' \in Returned
    BY Zenon, <1>0, <2>3, <2>5
  <2> QED
    BY Zenon, <2>6, <2>7
<1>6. ASSUME UNCHANGED <<send, result>> \/ (send' = Idle /\ result' = result)
      PROVE  send' \in {Idle} \union Sending /\ result' \in Returned
  <2>1. (send' = send \/ send' = Idle) /\ result' = result
    BY Zenon, <1>6
  <2> QED
    BY Zenon, <1>0, <2>1
<1>7. \/ \E kind \in {"entry", "inode"} : Send(kind)
      \/ Write \/ Lost \/ Answered \/ Timeout
      \/ UNCHANGED <<send, result>> \/ (send' = Idle /\ result' = result)
    BY Zenon DEF Next, Daemon, Reader, Cooldown, Accept, Crash,
         Restart, ReaderLoops, ReaderConnects, ReaderSets, ReaderChecks, ReaderReads, ReaderEnds,
         ReaderCalls, ReaderAcks, ReaderLeaves, WorkerPops, WorkerCalls, Unmount, Shutdown, Join,
         vars, daemonVars
<1> QED
    BY Zenon, <1>1, <1>2, <1>3, <1>4, <1>5, <1>6, <1>7

\* So do the sockets: only send writes messages, only the client answers.
LEMMA SocketsTyped ==
  ASSUME InStep, [Next]_vars
  PROVE  /\ backlog' \in Seq(Conns) /\ ends' \in [Conns -> SUBSET {"daemon", "client"}]
         /\ wire' \in [Conns -> Seq(Message)] /\ answers' \in [Conns -> Seq({0, 1})]
<1>0. /\ backlog \in Seq(Conns) /\ ends \in [Conns -> SUBSET {"daemon", "client"}]
      /\ wire \in [Conns -> Seq(Message)] /\ answers \in [Conns -> Seq({0, 1})]
      /\ reader.ack \in {0, 1}
    BY Zenon DEF InStep, StreamTypes
<1>1. ASSUME ReaderConnects
      PROVE  /\ backlog' \in Seq(Conns) /\ ends' \in [Conns -> SUBSET {"daemon", "client"}]
             /\ wire' \in [Conns -> Seq(Message)] /\ answers' \in [Conns -> Seq({0, 1})]
  <2>1. CASE UNCHANGED socketVars
    BY Zenon, <1>0, <2>1 DEF socketVars
  <2>2. ASSUME NEW c \in Conns,
               ends' = [ends EXCEPT ![c] = {"daemon", "client"}],
               wire' = [wire EXCEPT ![c] = <<>>], answers' = [answers EXCEPT ![c] = <<>>],
               backlog' = Append(backlog, c)
        PROVE  /\ backlog' \in Seq(Conns) /\ ends' \in [Conns -> SUBSET {"daemon", "client"}]
               /\ wire' \in [Conns -> Seq(Message)] /\ answers' \in [Conns -> Seq({0, 1})]
    <3>1. Append(backlog, c) \in Seq(Conns)
      BY <1>0
    <3>2. <<>> \in Seq(Message) /\ <<>> \in Seq({0, 1})
      OBVIOUS
    <3>3. {"daemon", "client"} \in SUBSET {"daemon", "client"}
      OBVIOUS
    <3> QED
      BY Zenon, <1>0, <2>2, <3>1, <3>2, <3>3
  <2> QED
    BY Zenon, <1>1, <2>1, <2>2, Connected
<1>2. ASSUME ~ReaderConnects PROVE backlog' \in Seq(Conns)
  <2>1. backlog' = backlog \/ backlog' = <<>> \/ (backlog # <<>> /\ backlog' = Tail(backlog))
    BY Zenon, <1>2 DEF Next, Daemon, Reader, Send, Write, Lost, Answered, Timeout, Cooldown, Accept,
         Crash, Restart, ReaderLoops, ReaderSets, ReaderChecks, ReaderReads, ReaderEnds,
         ReaderCalls, ReaderAcks, ReaderLeaves, WorkerPops, WorkerCalls, Unmount, Shutdown, Join,
         vars, socketVars
  <2>2. <<>> \in Seq(Conns) /\ (backlog # <<>> => Tail(backlog) \in Seq(Conns))
    BY <1>0
  <2> QED
    BY Zenon, <1>0, <2>1, <2>2
<1>3. ASSUME ~ReaderConnects PROVE ends' \in [Conns -> SUBSET {"daemon", "client"}]
  <2>1. \/ ends' = ends \/ (\E c, e : ends' = [ends EXCEPT ![c] = @ \ {e}])
        \/ ends' = [c \in Conns |-> IF c = conn THEN ends[c] \ {"daemon"} ELSE ends[c]]
        \/ ends' = [c \in Conns |-> ends[c] \ {"daemon"}]
    BY Zenon, <1>3 DEF Next, Daemon, Reader, Send, Write, Lost, Answered, Timeout, Cooldown, Accept,
         Crash, Restart, ReaderLoops, ReaderSets, ReaderChecks, ReaderReads, ReaderEnds,
         ReaderCalls, ReaderAcks, ReaderLeaves, WorkerPops, WorkerCalls, Unmount, Shutdown, Join,
         CloseEnd, vars, socketVars
  <2>2. \A c \in Conns : \A e : ends[c] \ {e} \in SUBSET {"daemon", "client"}
    BY <1>0
  <2>3. ASSUME NEW c, NEW e, ends' = [ends EXCEPT ![c] = @ \ {e}]
        PROVE  ends' \in [Conns -> SUBSET {"daemon", "client"}]
    <3>1. ends' = [d \in Conns |-> IF d = c THEN ends[d] \ {e} ELSE ends[d]]
      BY Zenon, <1>0, <2>3
    <3> QED
      BY Zenon, <1>0, <2>2, <3>1
  <2>4. CASE ends' = [c \in Conns |-> IF c = conn THEN ends[c] \ {"daemon"} ELSE ends[c]]
    BY Zenon, <1>0, <2>2, <2>4
  <2>5. CASE ends' = [c \in Conns |-> ends[c] \ {"daemon"}]
    BY Zenon, <2>2, <2>5
  <2> QED
    BY Zenon, <1>0, <2>1, <2>3, <2>4, <2>5
<1>4. ASSUME ~ReaderConnects PROVE wire' \in [Conns -> Seq(Message)]
  <2>1. \/ wire' = wire
        \/ send.pc = "write" /\ wire' = [wire EXCEPT ![conn] = Append(@, send.msg)]
        \/ /\ reader.pc = "read" /\ wire[reader.fd] # <<>>
           /\ wire' = [wire EXCEPT ![reader.fd] = Tail(@)]
    BY Zenon, <1>4 DEF Next, Daemon, Reader, Send, Write, Lost, Answered, Timeout, Cooldown, Accept,
         Crash, Restart, ReaderLoops, ReaderSets, ReaderChecks, ReaderReads, ReaderEnds,
         ReaderCalls, ReaderAcks, ReaderLeaves, WorkerPops, WorkerCalls, Unmount, Shutdown, Join,
         vars, socketVars
  <2>2. send.pc = "write" => conn \in Conns /\ send.msg \in Message
    BY DEF InStep, StreamTypes, AwaitsItsOwn, Idle
  <2>3. send.pc = "write" => Append(wire[conn], send.msg) \in Seq(Message)
    BY <1>0, <2>2
  <2>4. reader.pc = "read" => reader.fd \in Conns
    BY DEF InStep, ReaderServes
  <2>5. reader.pc = "read" /\ wire[reader.fd] # <<>> => Tail(wire[reader.fd]) \in Seq(Message)
    BY Zenon, <1>0, <2>4, HeadAndTail
  <2> QED
    BY Zenon, <1>0, <2>1, <2>2, <2>3, <2>4, <2>5
<1>5. ASSUME ~ReaderConnects PROVE answers' \in [Conns -> Seq({0, 1})]
  <2>1. \/ answers' = answers
        \/ /\ send.pc = "await" /\ answers[conn] # <<>>
           /\ answers' = [answers EXCEPT ![conn] = Tail(@)]
        \/ reader.pc = "ack" /\ answers' = [answers EXCEPT ![reader.fd] = Append(@, reader.ack)]
    BY Zenon, <1>5 DEF Next, Daemon, Reader, Send, Write, Lost, Answered, Timeout, Cooldown, Accept,
         Crash, Restart, ReaderLoops, ReaderSets, ReaderChecks, ReaderReads, ReaderEnds,
         ReaderCalls, ReaderAcks, ReaderLeaves, WorkerPops, WorkerCalls, Unmount, Shutdown, Join,
         vars, socketVars
  <2>2. send.pc = "await" => conn \in Conns
    BY DEF InStep, StreamTypes, AwaitsItsOwn
  <2>3. send.pc = "await" /\ answers[conn] # <<>> => Tail(answers[conn]) \in Seq({0, 1})
    BY Zenon, <1>0, <2>2, HeadAndTail
  <2>4. reader.pc = "ack" => reader.fd \in Conns
    BY DEF InStep, ReaderServes
  <2>5. reader.pc = "ack" => Append(answers[reader.fd], reader.ack) \in Seq({0, 1})
    BY <1>0, <2>4
  <2> QED
    BY Zenon, <1>0, <2>1, <2>2, <2>3, <2>4, <2>5
<1> QED
    BY Zenon, <1>1, <1>2, <1>3, <1>4, <1>5

\* The notify thread.
ReaderTypes == [pc : {"loop", "connect", "set", "check", "read", "call", "ack", "leave", "exited"},
                fd : Conns \union {None}, msg : Message \union {None}, ack : {0, 1}]

\* What a step may make of the notify thread's record is of its type.
LEMMA ReaderMoves ==
  ASSUME NEW r \in ReaderTypes,
         NEW pc \in {"loop", "connect", "set", "check", "read", "call", "ack", "leave", "exited"}
  PROVE  /\ [r EXCEPT !.pc = pc] \in ReaderTypes
         /\ \A c \in Conns : [r EXCEPT !.pc = pc, !.fd = c] \in ReaderTypes
         /\ \A msg \in Message : [r EXCEPT !.pc = pc, !.msg = msg] \in ReaderTypes
         /\ \A ack \in {0, 1} : [r EXCEPT !.pc = pc, !.ack = ack] \in ReaderTypes
         /\ [r EXCEPT !.pc = pc, !.fd = None, !.msg = None] \in ReaderTypes
BY Zenon DEF ReaderTypes

\* The notify thread stays at a place of its own, with a connection, message
\* and answer of its types.
LEMMA ReaderTyped ==
  ASSUME InStep, [Next]_vars
  PROVE  reader' \in ReaderTypes
<1> DEFINE Places == {"loop", "connect", "set", "check", "read", "call", "ack", "leave", "exited"}
<1>0. reader \in ReaderTypes
    BY Zenon DEF InStep, StreamTypes, ReaderTypes
<1>1. ASSUME ReaderConnects PROVE reader' \in ReaderTypes
  <2>1. CASE At("loop")
    BY Zenon, <1>0, <2>1, ReaderMoves DEF At
  <2>2. ASSUME NEW c \in Conns, reader' = [reader EXCEPT !.pc = "set", !.fd = c]
        PROVE  reader' \in ReaderTypes
    BY Zenon, <1>0, <2>2, ReaderMoves
  <2> QED
    BY Zenon, <1>1, <2>1, <2>2, Connected
<1>2. ASSUME ReaderReads PROVE reader' \in ReaderTypes
  <2>1. reader.fd \in Conns /\ wire[reader.fd] # <<>>
    BY <1>2 DEF ReaderReads, InStep, ReaderServes
  <2>2. Head(wire[reader.fd]) \in Message
    BY Zenon, <2>1, HeadAndTail DEF InStep, StreamTypes
  <2>3. ASSUME NEW pc \in {"call", "check"}
        PROVE  [reader EXCEPT !.pc = pc, !.msg = Head(wire[reader.fd])] \in ReaderTypes
    BY Zenon, <1>0, <2>2, ReaderMoves
  <2>4. \E pc \in {"call", "check"} :
          reader' = [reader EXCEPT !.pc = pc, !.msg = Head(wire[reader.fd])]
    BY Zenon, <1>2 DEF ReaderReads
  <2> QED
    BY Zenon, <2>3, <2>4
<1>3. ASSUME ~ReaderConnects, ~ReaderReads PROVE reader' \in ReaderTypes
  <2>1. \/ reader' = reader
        \/ \E pc \in Places : reader' = [reader EXCEPT !.pc = pc]
        \/ reader' = [reader EXCEPT !.pc = "ack", !.ack = 0]
        \/ reader' = [reader EXCEPT !.pc = "ack", !.ack = 1]
        \/ reader' = [reader EXCEPT !.pc = "loop", !.fd = None, !.msg = None]
    BY Zenon, <1>3 DEF Next, Daemon, Reader, Send, Write, Lost, Answered, Timeout, Cooldown, Accept,
         Crash, Restart, ReaderLoops, ReaderSets, ReaderChecks, ReaderEnds,
         ReaderCalls, ReaderAcks, ReaderLeaves, WorkerPops, WorkerCalls, Unmount, Shutdown, Join,
         At, vars, clientVars
  <2>2. \A pc \in Places : [reader EXCEPT !.pc = pc] \in ReaderTypes
    BY Zenon, <1>0, ReaderMoves
  <2>3. \A ack \in {0, 1} : [reader EXCEPT !.pc = "ack", !.ack = ack] \in ReaderTypes
    BY Zenon, <1>0, ReaderMoves
  <2>4. [reader EXCEPT !.pc = "loop", !.fd = None, !.msg = None] \in ReaderTypes
    BY Zenon, <1>0, ReaderMoves
  <2> QED
    BY Zenon, <1>0, <2>1, <2>2, <2>3, <2>4
<1> QED
    BY Zenon, <1>1, <1>2, <1>3

\* Every step keeps the stream's state in its types.
LEMMA StreamTyped == InStep /\ [Next]_vars => StreamTypes'
BY Zenon, DaemonTyped, SocketsTyped, ReaderTyped DEF StreamTypes, ReaderTypes

\* A step that moves no message and takes none in hand keeps the stream in step.
LEMMA NothingMoves ==
  ASSUME InStep, StreamTypes',
         UNCHANGED <<conn, send, backlog, wire, answers, dropped, result>>,
         \A c \in Conns : "daemon" \in ends[c] => "daemon" \in ends'[c],
         \/ reader' = reader
         \/ /\ reader.pc \notin {"call", "ack"} /\ reader'.pc \notin {"call", "ack"}
            /\ reader'.pc \in {"set", "check", "read", "leave"} => reader'.fd \in Conns
  PROVE  InStep'
<1>1. AwaitsItsOwn'
    BY DEF InStep, AwaitsItsOwn, Owed, OnlyEntries, InHand
<1>2. ConnInStep'
    BY DEF InStep, StreamTypes, ConnInStep, NothingOwed, OnlyEntries, InHand
<1>3. \A i \in 1 .. Len(backlog) : backlog[i] \in Conns
    BY DEF InStep, StreamTypes
<1>4. BacklogUnused'
    BY <1>3 DEF InStep, BacklogUnused, InHand
<1>5. ReaderServes'
  <2>1. CASE reader' = reader
    BY <2>1 DEF InStep, ReaderServes
  <2>2. CASE reader' # reader
    BY <2>2 DEF ReaderServes
  <2>3. QED
    BY <2>1, <2>2
<1>6. AnswersItsOwn'
    BY DEF InStep, AnswersItsOwn
<1>7. QED
    BY <1>1, <1>2, <1>4, <1>5, <1>6 DEF InStep

\* A daemon that gives its connection up owes and is owed nothing.
LEMMA ConnectionDropped ==
  ASSUME InStep, StreamTypes', conn' = None, send' = Idle,
         UNCHANGED <<wire, answers, reader, dropped>>,
         \/ backlog' = <<>>
         \/ /\ backlog' = backlog
            /\ \A c \in Conns : c # conn /\ "daemon" \in ends[c] => "daemon" \in ends'[c]
            /\ conn # None,
         result' = result \/ result'.res # "ok"
  PROVE  InStep'
<1>1. AwaitsItsOwn' /\ ConnInStep'
    BY DEF AwaitsItsOwn, ConnInStep, Idle
<1>2. \A i \in 1 .. Len(backlog) : backlog[i] \in Conns
    BY DEF InStep, StreamTypes
<1>3. BacklogUnused'
    BY <1>2 DEF InStep, ConnInStep, BacklogUnused, InHand
<1>4. ReaderServes'
    BY DEF InStep, ReaderServes
<1>5. AnswersItsOwn'
    BY DEF InStep, AnswersItsOwn
<1>6. QED
    BY <1>1, <1>3, <1>4, <1>5 DEF InStep

\* Every step keeps the stream in step.
LEMMA InStepKept == InStep /\ [Next]_vars => InStep'
<1> SUFFICES ASSUME InStep, [Next]_vars PROVE InStep'
    OBVIOUS
<1>t. StreamTypes /\ StreamTypes'
    BY StreamTyped DEF InStep
<1>1. ASSUME NEW kind \in {"entry", "inode"}, Send(kind) PROVE InStep'
  <2>1. UNCHANGED <<conn, backlog, ends, wire, answers, reader, dropped>>
    BY <1>1 DEF Send, socketVars, clientVars
  <2>2. \/ send' = send
        \/ /\ conn # None
           /\ send' = [pc |-> "write", msg |-> [num |-> sends + 1, kind |-> kind]]
    BY <1>1, Zenon DEF Send
  <2>3. send.pc = "idle"
    BY <1>1 DEF Send, Idle
  <2>4. result' = result \/ result'.res # "ok"
    BY <1>1 DEF Send
  <2>5. AwaitsItsOwn'
    BY <2>1, <2>2, <2>3 DEF AwaitsItsOwn
  <2>6. ConnInStep'
    BY <2>1, <2>2, <2>3 DEF InStep, ConnInStep, NothingOwed, OnlyEntries, InHand
  <2>7. BacklogUnused' /\ ReaderServes'
    BY <2>1 DEF InStep, BacklogUnused, ReaderServes, InHand
  <2>8. AnswersItsOwn'
    BY <2>1, <2>4 DEF InStep, AnswersItsOwn
  <2>9. QED
    BY Zenon, <1>t, <2>5, <2>6, <2>7, <2>8 DEF InStep
<1>2. CASE Write
  <2>1. /\ send.pc = "write" /\ send \in [pc : {"write", "await"}, msg : Message]
        /\ conn \in Conns /\ NothingOwed(conn)
        /\ \A i \in 1 .. Len(backlog) : backlog[i] # conn /\ backlog[i] \in Conns
    <3>1. send.pc = "write" /\ conn # None
      BY <1>2 DEF Write, InStep, AwaitsItsOwn
    <3>2. send \in [pc : {"write", "await"}, msg : Message] /\ conn \in Conns
      <4>1. /\ send = Idle \/ send \in [pc : {"write", "await"}, msg : Message]
            /\ conn \in Conns \union {None}
        BY <1>t, Zenon DEF StreamTypes
      <4>2. Idle.pc = "idle"
        BY DEF Idle
      <4>3. send # Idle
        BY <3>1, <4>2
      <4>4. QED
        BY <3>1, <4>1, <4>3, Zenon
    <3>3. NothingOwed(conn) /\ \A i \in 1 .. Len(backlog) : backlog[i] # conn
      BY <3>1, Zenon DEF InStep, ConnInStep
    <3>4. \A i \in 1 .. Len(backlog) : backlog[i] \in Conns
      BY <1>t DEF StreamTypes
    <3>5. QED
      BY <3>1, <3>2, <3>3, <3>4, Zenon
  <2>2. /\ wire' = [wire EXCEPT ![conn] = Append(@, send.msg)]
        /\ UNCHANGED <<conn, backlog, ends, answers, reader, dropped>>
    BY <1>2 DEF Write, clientVars
  <2>3. result' = result
    BY <1>2 DEF Write, Return
  <2>4. /\ wire'[conn] = Append(wire[conn], send.msg) /\ wire[conn] \in Seq(Message)
        /\ \A c \in Conns : c # conn => wire'[c] = wire[c]
    BY <2>1, <2>2, <1>t DEF StreamTypes
  <2>5. /\ wire'[conn] # <<>> /\ Len(wire'[conn]) = Len(wire[conn]) + 1
        /\ wire'[conn][Len(wire[conn]) + 1] = send.msg
        /\ \A i \in 1 .. Len(wire[conn]) : wire'[conn][i].kind = "entry"
    BY <2>1, <2>4 DEF NothingOwed, OnlyEntries
  <2>6. CASE send.msg.kind = "inode"
    <3>1. send' = [send EXCEPT !.pc = "await"]
      BY <1>2, <2>6 DEF Write
    <3>2. send'.pc = "await" /\ send'.msg = send.msg
          /\ send.msg = [num |-> send.msg.num, kind |-> "inode"]
      BY <2>1, <2>6, <3>1 DEF Message
    <3>3. AwaitsItsOwn'
      <4>1. Len(wire'[conn]) - 1 = Len(wire[conn])
        BY <2>4, <2>5
      <4>2. wire'[conn][Len(wire'[conn])] = [num |-> send.msg.num, kind |-> "inode"]
        BY <2>5, <3>2
      <4>3. \A i \in 1 .. Len(wire'[conn]) - 1 : wire'[conn][i].kind = "entry"
        BY <4>1, <2>5
      <4>4. answers'[conn'] = <<>> /\ ~InHand(conn)'
        BY <2>1, <2>2 DEF NothingOwed, InHand
      <4>5. Owed(conn, send.msg.num)'
        BY <2>2, <2>5, <3>2, <4>2, <4>3, <4>4 DEF Owed
      <4>6. QED
        BY <2>1, <2>2, <3>2, <2>6, <4>5, KernelNotifyAssumption DEF AwaitsItsOwn
    <3>4. ConnInStep'
      BY <2>1, <2>2, <3>2 DEF InStep, ConnInStep
    <3>5. QED
      BY <1>t, <2>1, <2>2, <2>3, <2>4, <3>3, <3>4
         DEF InStep, BacklogUnused, ReaderServes, InHand, AnswersItsOwn
  <2>7. CASE send.msg.kind # "inode"
    <3>1. send' = Idle
      BY <1>2, <2>7 DEF Write, Return
    <3>2. send.msg.kind = "entry"
      BY <2>1, <2>7 DEF Message
    <3>3. \A i \in 1 .. Len(wire'[conn]) : wire'[conn][i].kind = "entry"
      BY <2>4, <2>5, <3>2
    <3>4. NothingOwed(conn)'
      BY <2>1, <2>2, <3>3 DEF NothingOwed, OnlyEntries, InHand
    <3>5. AwaitsItsOwn' /\ ConnInStep'
      BY <2>1, <2>2, <3>1, <3>4 DEF InStep, AwaitsItsOwn, ConnInStep, Idle
    <3>6. QED
      BY <1>t, <2>1, <2>2, <2>3, <2>4, <3>5
         DEF InStep, BacklogUnused, ReaderServes, InHand, AnswersItsOwn
  <2>8. QED
    BY <2>6, <2>7
<1>3. CASE Lost
  <2>1. /\ conn' = None /\ send' = Idle /\ conn \in Conns
        /\ UNCHANGED <<backlog, wire, answers, reader, dropped>>
        /\ ends' = [ends EXCEPT ![conn] = @ \ {"daemon"}]
    BY <1>3, <1>t DEF Lost, Return, CloseEnd, clientVars, InStep, AwaitsItsOwn, StreamTypes, Idle
  <2>2. result' = result \/ result'.res # "ok"
    BY <1>3 DEF Lost, Return
  <2>3. /\ conn # None
        /\ \A c \in Conns : c # conn /\ "daemon" \in ends[c] => "daemon" \in ends'[c]
    BY <2>1, <1>t, KernelNotifyAssumption DEF StreamTypes
  <2>4. QED
    BY <2>1, <2>2, <2>3, <1>t, ConnectionDropped
<1>4. CASE Answered
  <2>1. /\ send.pc = "await" /\ conn \in Conns /\ answers[conn] # <<>>
        /\ answers' = [answers EXCEPT ![conn] = Tail(@)] /\ send' = Idle
        /\ UNCHANGED <<conn, backlog, ends, wire, reader, dropped>>
        /\ \A i \in 1 .. Len(backlog) : backlog[i] # conn /\ backlog[i] \in Conns
    <3>1. /\ send.pc = "await" /\ answers[conn] # <<>>
          /\ answers' = [answers EXCEPT ![conn] = Tail(@)] /\ send' = Idle
          /\ UNCHANGED <<conn, backlog, ends, wire, reader, dropped>>
      BY Zenon, <1>4 DEF Answered, Return, clientVars
    <3>2. conn # None
      BY <3>1 DEF InStep, AwaitsItsOwn
    <3>3. conn \in Conns /\ \A i \in 1 .. Len(backlog) : backlog[i] # conn
      BY Zenon, <1>t, <3>2 DEF InStep, StreamTypes, ConnInStep
    <3>4. \A i \in 1 .. Len(backlog) : backlog[i] \in Conns
      BY <1>t DEF StreamTypes
    <3> QED
      BY Zenon, <3>1, <3>3, <3>4
  <2>2. /\ OnlyEntries(conn) /\ ~InHand(conn) /\ Len(answers[conn]) = 1
        /\ answers[conn][1] = 0 => send.msg.num \in dropped
    BY <2>1 DEF InStep, AwaitsItsOwn, Owed
  <2>3. answers[conn] \in Seq({0, 1}) /\ Head(answers[conn]) = answers[conn][1]
    BY <2>1, <1>t DEF StreamTypes
  <2>4. Tail(answers[conn]) = <<>>
    BY <2>1, <2>2, <2>3, OneElement
  <2>5. answers'[conn] = <<>> /\ \A c \in Conns : c # conn => answers'[c] = answers[c]
    BY <2>1, <2>4, <1>t DEF StreamTypes
  <2>6. AnswersItsOwn'
    BY <1>4, <2>1, <2>2, <2>3 DEF Answered, Return, AnswersItsOwn, InStep
  <2>7. AwaitsItsOwn' /\ ConnInStep'
    BY <2>1, <2>2, <2>5 DEF InStep, AwaitsItsOwn, ConnInStep, NothingOwed, OnlyEntries, InHand, Idle
  <2>8. BacklogUnused' /\ ReaderServes'
    BY <2>1, <2>5 DEF InStep, BacklogUnused, ReaderServes, InHand
  <2>9. QED
    BY Zenon, <1>t, <2>6, <2>7, <2>8 DEF InStep
<1>5. CASE Timeout
  <2>1. /\ conn' = None /\ send' = Idle /\ conn \in Conns
        /\ UNCHANGED <<backlog, wire, answers, reader, dropped>>
        /\ ends' = [ends EXCEPT ![conn] = @ \ {"daemon"}]
    BY <1>5, <1>t DEF Timeout, Return, CloseEnd, clientVars, InStep, AwaitsItsOwn, StreamTypes, Idle
  <2>2. result' = result \/ result'.res # "ok"
    BY <1>5 DEF Timeout, Return
  <2>3. /\ conn # None
        /\ \A c \in Conns : c # conn /\ "daemon" \in ends[c] => "daemon" \in ends'[c]
    BY <2>1, <1>t, KernelNotifyAssumption DEF StreamTypes
  <2>4. QED
    BY <2>1, <2>2, <2>3, <1>t, ConnectionDropped
<1>6. CASE Cooldown
    BY <1>6, <1>t, NothingMoves DEF Cooldown, socketVars, clientVars
<1>7. CASE Accept
  <2>1. /\ backlog # <<>> /\ send = Idle /\ conn' = Head(backlog) /\ backlog' = Tail(backlog)
        /\ ends' = [c \in Conns |-> IF c = conn THEN ends[c] \ {"daemon"} ELSE ends[c]]
        /\ UNCHANGED <<send, wire, answers, reader, dropped, result>>
    BY <1>7 DEF Accept, clientVars
  <2>2. /\ backlog \in Seq(Conns) /\ conn' = backlog[1] /\ conn' \in Conns
        /\ Len(backlog') = Len(backlog) - 1 /\ 1 \in 1 .. Len(backlog)
        /\ \A i \in 1 .. Len(backlog') : backlog'[i] = backlog[i + 1] /\ i + 1 \in 1 .. Len(backlog)
    BY <2>1, <1>t DEF StreamTypes
  <2>3. \A i \in 1 .. Len(backlog) : backlog[i] \in Conns /\ backlog[i] # conn
    <3>1. \A i \in 1 .. Len(backlog) : backlog[i] \in Conns
      BY <2>2
    <3>2. \A i \in 1 .. Len(backlog) : conn # None => backlog[i] # conn
      BY DEF InStep, ConnInStep
    <3>3. QED
      BY <3>1, <3>2, KernelNotifyAssumption
  <2>4. \A i \in 1 .. Len(backlog) : "daemon" \in ends'[backlog[i]]
    BY <2>1, <2>3 DEF InStep, BacklogUnused
  <2>5. BacklogUnused'
    <3>1. \A i \in 1 .. Len(backlog') :
            /\ wire'[backlog'[i]] = <<>> /\ answers'[backlog'[i]] = <<>>
            /\ "daemon" \in ends'[backlog'[i]]
      <4> TAKE i \in 1 .. Len(backlog')
      <4>1. backlog'[i] = backlog[i + 1] /\ i + 1 \in 1 .. Len(backlog)
        BY <2>2
      <4>2. wire[backlog[i + 1]] = <<>> /\ answers[backlog[i + 1]] = <<>>
        BY <4>1 DEF InStep, BacklogUnused
      <4>3. "daemon" \in ends'[backlog[i + 1]]
        BY <2>4, <4>1
      <4>4. QED
        BY <2>1, <4>1, <4>2, <4>3
    <3>2. \A i \in 1 .. Len(backlog') : ~(reader'.fd = backlog'[i] /\ reader'.pc \in {"call", "ack"})
      BY <2>1, <2>2 DEF InStep, BacklogUnused, InHand
    <3>3. \A i, j \in 1 .. Len(backlog') : backlog'[i] = backlog'[j] => i = j
      <4> TAKE i, j \in 1 .. Len(backlog')
      <4>1. backlog[i + 1] = backlog[j + 1] => i + 1 = j + 1
        BY <2>2 DEF InStep, BacklogUnused
      <4>2. QED
        BY <2>2, <4>1
    <3>4. QED
      BY <3>1, <3>2, <3>3 DEF BacklogUnused, InHand
  <2>6. \A i \in 1 .. Len(backlog') : backlog'[i] # conn'
    BY <2>2 DEF InStep, BacklogUnused
  <2>7. NothingOwed(conn)'
    BY <2>1, <2>2 DEF InStep, BacklogUnused, NothingOwed, OnlyEntries, InHand
  <2>8. ConnInStep' /\ AwaitsItsOwn'
    BY <2>1, <2>2, <2>4, <2>6, <2>7, Zenon DEF ConnInStep, AwaitsItsOwn, Idle
  <2>9. QED
    BY <1>t, <2>1, <2>5, <2>8 DEF InStep, ReaderServes, AnswersItsOwn
<1>8. CASE Crash
    BY <1>8, <1>t, ConnectionDropped DEF Crash, clientVars
<1>9. CASE Restart
    BY <1>9, <1>t, NothingMoves DEF Restart, socketVars, clientVars
<1>10. CASE ReaderLoops
    BY <1>10, <1>t, NothingMoves DEF ReaderLoops, At, daemonVars, socketVars, readerOnly, StreamTypes
<1>11. CASE ReaderConnects
  <2>1. reader.pc = "connect" /\ UNCHANGED <<conn, send, dropped, result>>
    BY <1>11 DEF ReaderConnects, daemonVars, readerOnly
  <2>2. CASE UNCHANGED socketVars /\ At("loop")
    <3>1. /\ UNCHANGED <<backlog, ends, wire, answers>>
          /\ reader'.pc = "loop"
      BY <2>2, <1>t DEF socketVars, At, StreamTypes
    <3>2. QED
      BY <1>t, <2>1, <3>1, NothingMoves
  <2>3. ASSUME NEW c \in Conns, ends[c] = {}, \A i \in DOMAIN backlog : backlog[i] # c,
               ends' = [ends EXCEPT ![c] = {"daemon", "client"}],
               wire' = [wire EXCEPT ![c] = <<>>], answers' = [answers EXCEPT ![c] = <<>>],
               backlog' = Append(backlog, c),
               reader' = [reader EXCEPT !.pc = "set", !.fd = c]
        PROVE  InStep'
    <3>1. /\ reader'.pc = "set" /\ reader'.fd = c
          /\ ends'[c] = {"daemon", "client"} /\ wire'[c] = <<>> /\ answers'[c] = <<>>
          /\ \A d \in Conns : d # c => /\ ends'[d] = ends[d] /\ wire'[d] = wire[d]
                                       /\ answers'[d] = answers[d]
      BY <2>3, <1>t DEF StreamTypes
    <3>2. conn # None => conn \in Conns /\ conn # c
      BY <2>3, <1>t DEF InStep, ConnInStep, StreamTypes
    <3>3. /\ Len(backlog') = Len(backlog) + 1 /\ backlog'[Len(backlog) + 1] = c
          /\ Len(backlog) \in Nat
          /\ \A i \in 1 .. Len(backlog) : /\ backlog'[i] = backlog[i] /\ backlog[i] \in Conns
                                         /\ backlog[i] # c
      <4>1. backlog \in Seq(Conns)
        BY <1>t DEF StreamTypes
      <4>2. DOMAIN backlog = 1 .. Len(backlog)
        BY <4>1
      <4>3. \A i \in 1 .. Len(backlog) : backlog[i] # c
        BY <2>3, <4>2
      <4>4. QED
        BY <2>3, <4>1, <4>3
    <3>4. \A i \in 1 .. Len(backlog') : i \in 1 .. Len(backlog) \/ i = Len(backlog) + 1
      BY <3>3
    <3>5. AwaitsItsOwn'
      BY <2>1, <3>1, <3>2 DEF InStep, AwaitsItsOwn, Owed, OnlyEntries, InHand
    <3>6. ConnInStep'
      <4>1. \A i \in 1 .. Len(backlog') : conn # None => backlog'[i] # conn
        BY <3>2, <3>3, <3>4 DEF InStep, ConnInStep
      <4>2. QED
        BY <2>1, <3>1, <3>2, <4>1 DEF InStep, ConnInStep, NothingOwed, OnlyEntries, InHand
    <3>7. BacklogUnused'
      <4>1. \A i \in 1 .. Len(backlog') :
              /\ wire'[backlog'[i]] = <<>> /\ answers'[backlog'[i]] = <<>>
              /\ "daemon" \in ends'[backlog'[i]]
        BY <3>1, <3>3, <3>4 DEF InStep, BacklogUnused
      <4>2. \A i, j \in 1 .. Len(backlog') : backlog'[i] = backlog'[j] => i = j
        BY <3>3, <3>4 DEF InStep, BacklogUnused
      <4>3. QED
        BY <3>1, <4>1, <4>2 DEF BacklogUnused, InHand
    <3>8. ReaderServes' /\ AnswersItsOwn'
      BY <2>1, <3>1 DEF InStep, ReaderServes, AnswersItsOwn
    <3>9. QED
      BY Zenon, <1>t, <3>5, <3>6, <3>7, <3>8 DEF InStep
  <2>4. QED
    BY <1>11, <2>2, <2>3, Connected, Zenon
<1>12. CASE ReaderSets
    BY <1>12, <1>t, NothingMoves DEF ReaderSets, At, daemonVars, socketVars, StreamTypes, InStep,
                                   ReaderServes
<1>13. CASE ReaderChecks
    BY <1>13, <1>t, NothingMoves DEF ReaderChecks, At, daemonVars, socketVars, readerOnly,
                                   StreamTypes, InStep, ReaderServes
<1>14. CASE ReaderReads
  <2> DEFINE f == reader.fd
             msg == Head(wire[f])
  <2>0. f = reader.fd /\ msg = Head(wire[f])
    OBVIOUS
  <2> HIDE DEF f, msg
  <2>1. /\ f \in Conns /\ wire[f] \in Seq(Message) /\ wire[f] # <<>> /\ reader.pc = "read"
        /\ wire' = [wire EXCEPT ![f] = Tail(@)]
        /\ UNCHANGED <<conn, send, backlog, ends, answers, dropped, result>>
    BY <1>14, <1>t, <2>0 DEF ReaderReads, daemonVars, InStep, ReaderServes, StreamTypes
  <2>2. /\ msg \in Message /\ Tail(wire[f]) \in Seq(Message)
    BY <2>0, <2>1, HeadAndTail, Zenon
  <2>3. /\ msg = wire[f][1] /\ Len(Tail(wire[f])) = Len(wire[f]) - 1 /\ Len(wire[f]) \in Nat \ {0}
        /\ \A i \in 1 .. Len(wire[f]) - 1 : Tail(wire[f])[i] = wire[f][i + 1]
    BY <2>0, <2>1
  <2>4. wire'[f] = Tail(wire[f]) /\ \A d \in Conns : d # f => wire'[d] = wire[d]
    BY <2>1, <1>t DEF StreamTypes
  <2>5. /\ reader'.fd = f /\ reader'.msg = msg
        /\ msg.kind = "inode" => reader'.pc = "call"
        /\ msg.kind # "inode" => reader'.pc = "check"
    <3>1. reader' = [reader EXCEPT !.pc = IF msg.kind = "inode" THEN "call" ELSE "check", !.msg = msg]
      BY Zenon, <1>14, <2>0 DEF ReaderReads
    <3>2. reader \in ReaderTypes
      BY Zenon, <1>t DEF StreamTypes, ReaderTypes
    <3> QED
      BY <2>0, <3>1, <3>2 DEF ReaderTypes
  <2>6. \A i \in 1 .. Len(backlog) : backlog[i] \in Conns /\ backlog[i] # f
    <3>1. \A i \in 1 .. Len(backlog) : backlog[i] \in Conns
      BY <1>t DEF StreamTypes
    <3>2. \A i \in 1 .. Len(backlog) : wire[backlog[i]] = <<>>
      BY Zenon DEF InStep, BacklogUnused
    <3> QED
      BY Zenon, <2>1, <3>1, <3>2
  <2>7. BacklogUnused' /\ ReaderServes' /\ AnswersItsOwn'
    BY <2>0, <2>1, <2>2, <2>4, <2>5, <2>6
       DEF InStep, BacklogUnused, ReaderServes, AnswersItsOwn, InHand
  <2>8. CASE conn # f
    <3>1. ~InHand(conn) /\ ~InHand(conn)'
      BY <2>0, <2>1, <2>5, <2>8 DEF InHand
    <3>2. conn # None => wire'[conn] = wire[conn] /\ answers'[conn] = answers[conn]
      BY <2>1, <2>4, <2>8, <1>t DEF StreamTypes
    <3>3. AwaitsItsOwn' /\ ConnInStep'
      BY <2>1, <3>1, <3>2, Zenon
         DEF InStep, AwaitsItsOwn, ConnInStep, Owed, NothingOwed, OnlyEntries, InHand
    <3>4. QED
      BY Zenon, <1>t, <2>7, <3>3 DEF InStep
  <2>9. CASE conn = f
    <3>1. ~InHand(conn)
      BY <2>0, <2>1 DEF InHand
    <3>2. CASE send.pc # "await"
      <4>1. OnlyEntries(conn) /\ answers[conn] = <<>>
        BY <2>1, <2>9, <3>2, KernelNotifyAssumption DEF InStep, ConnInStep, NothingOwed
      <4>2. msg.kind = "entry" /\ \A i \in 1 .. Len(wire'[f]) : wire'[f][i].kind = "entry"
        BY <2>3, <2>4, <2>9, <4>1 DEF OnlyEntries
      <4>3. AwaitsItsOwn' /\ ConnInStep'
        BY <2>1, <2>5, <2>9, <3>2, <4>1, <4>2, Zenon
           DEF InStep, AwaitsItsOwn, ConnInStep, NothingOwed, OnlyEntries, InHand
      <4>4. QED
        BY Zenon, <1>t, <2>7, <4>3 DEF InStep
    <3>3. CASE send.pc = "await" /\ Len(wire[f]) = 1 /\ msg.kind = "inode"
      <4>1. /\ msg = [num |-> send.msg.num, kind |-> "inode"] /\ answers[conn] = <<>>
            /\ send.msg.kind = "inode"
        <5>1. send.msg.kind = "inode" /\ Owed(conn, send.msg.num)
          BY <3>3 DEF InStep, AwaitsItsOwn
        <5>2. ~OnlyEntries(conn)
          BY <2>3, <2>9, <3>3 DEF OnlyEntries
        <5>3. QED
          BY <2>3, <2>9, <3>1, <3>3, <5>1, <5>2 DEF Owed
      <4>2. OnlyEntries(conn)' /\ InHand(conn)' /\ reader'.pc = "call"
        <5>1. 1 .. Len(wire'[f]) = {}
          <6>1. Len(wire'[f]) = 0
            BY <2>3, <2>4, <3>3
          <6>2. QED
            BY <6>1
        <5>2. QED
          BY <2>1, <2>5, <2>9, <3>3, <5>1 DEF OnlyEntries, InHand
      <4>3. Owed(conn, send.msg.num)'
        BY <2>1, <2>5, <4>1, <4>2 DEF Owed
      <4>4. AwaitsItsOwn' /\ ConnInStep'
        BY <2>1, <3>3, <4>1, <4>3 DEF InStep, AwaitsItsOwn, ConnInStep
      <4>5. QED
        BY Zenon, <1>t, <2>7, <4>4 DEF InStep
    <3>4. CASE send.pc = "await" /\ ~(Len(wire[f]) = 1 /\ msg.kind = "inode")
      <4>1. msg.kind = "entry"
        <5>1. Owed(conn, send.msg.num)
          BY <3>4 DEF InStep, AwaitsItsOwn
        <5>2. CASE OnlyEntries(conn)
          BY <2>3, <2>9, <5>2 DEF OnlyEntries
        <5>3. CASE ~OnlyEntries(conn)
          <6>1. /\ wire[f][Len(wire[f])] = [num |-> send.msg.num, kind |-> "inode"]
                /\ \A i \in 1 .. Len(wire[f]) - 1 : wire[f][i].kind = "entry"
            BY <2>9, <5>1, <5>3 DEF Owed
          <6>2. Len(wire[f]) # 1
            BY <2>3, <3>4, <6>1
          <6>3. 1 \in 1 .. Len(wire[f]) - 1
            BY <2>3, <6>2, Several, Zenon
          <6>4. QED
            BY <2>3, <6>1, <6>3
        <5>4. QED
          BY <5>2, <5>3
      <4>2. ~InHand(conn)'
        BY <2>5, <4>1 DEF InHand
      <4>3. ASSUME OnlyEntries(conn) PROVE OnlyEntries(conn)'
        BY <2>1, <2>3, <2>4, <2>9, <4>3 DEF OnlyEntries
      <4>4. ASSUME wire[f][Len(wire[f])].kind = "inode",
                   \A i \in 1 .. Len(wire[f]) - 1 : wire[f][i].kind = "entry"
            PROVE  /\ wire'[f] # <<>> /\ wire'[f][Len(wire'[f])] = wire[f][Len(wire[f])]
                   /\ \A i \in 1 .. Len(wire'[f]) - 1 : wire'[f][i].kind = "entry"
        <5>1. Len(wire[f]) # 1
          BY <2>3, <4>1, <4>4
        <5>2. Len(wire'[f]) = Len(wire[f]) - 1 /\ Len(wire[f]) - 1 \in Nat \ {0}
          BY <2>3, <2>4, <5>1, Several
        <5>3. \A i \in 1 .. Len(wire[f]) - 1 : wire'[f][i] = wire[f][i + 1]
          BY <2>3, <2>4
        <5>4. wire'[f] # <<>>
          BY <5>2, Zenon
        <5>5. wire'[f][Len(wire'[f])] = wire[f][Len(wire[f])]
          <6>1. /\ Len(wire[f]) - 1 \in 1 .. Len(wire[f]) - 1
                /\ (Len(wire[f]) - 1) + 1 = Len(wire[f])
            BY <2>3, <5>1, Several, Zenon
          <6>2. wire'[f][Len(wire[f]) - 1] = wire[f][(Len(wire[f]) - 1) + 1]
            BY <5>3, <6>1
          <6>3. QED
            BY <5>2, <6>1, <6>2
        <5>6. \A i \in 1 .. Len(wire'[f]) - 1 : wire'[f][i].kind = "entry"
          <6>1. ASSUME NEW i \in 1 .. Len(wire'[f]) - 1
                PROVE  i \in 1 .. Len(wire[f]) - 1 /\ i + 1 \in 1 .. Len(wire[f]) - 1
            BY <5>2
          <6> QED
            BY Zenon, <4>4, <5>3, <6>1
        <5>7. QED
          BY <5>4, <5>5, <5>6
      <4>5. Owed(conn, send.msg.num) => Owed(conn, send.msg.num)'
        <5>1. /\ conn' = conn /\ send' = send /\ answers'[conn] = answers[conn]
              /\ dropped' = dropped
          BY Zenon, <2>1
        <5>2. [num |-> send.msg.num, kind |-> "inode"].kind = "inode"
          OBVIOUS
        <5> QED
          BY Zenon, <2>9, <3>1, <4>2, <4>3, <4>4, <5>1, <5>2 DEF Owed
      <4>6. AwaitsItsOwn' /\ ConnInStep'
        BY <2>1, <3>4, <4>5 DEF InStep, AwaitsItsOwn, ConnInStep
      <4>7. QED
        BY Zenon, <1>t, <2>7, <4>6 DEF InStep
    <3>5. QED
      BY <3>2, <3>3, <3>4
  <2>10. QED
    BY <2>8, <2>9
<1>15. CASE ReaderEnds
    BY <1>15, <1>t, NothingMoves DEF ReaderEnds, At, daemonVars, socketVars, readerOnly,
                                   StreamTypes, InStep, ReaderServes
<1>16. CASE ReaderCalls
  <2>1. /\ reader.pc = "call" /\ reader.fd \in Conns
        /\ UNCHANGED <<conn, send, backlog, ends, wire, answers, result>>
    BY <1>16 DEF ReaderCalls, daemonVars, socketVars, InStep, ReaderServes
  <2>2. /\ reader'.pc = "ack" /\ reader'.fd = reader.fd /\ reader'.msg = reader.msg
        /\ dropped \subseteq dropped'
        /\ reader'.ack = 0 => reader.msg.num \in dropped'
    <3>1. CASE dropped' = dropped \union {reader.msg.num}
               /\ reader' = [reader EXCEPT !.pc = "ack", !.ack = 0]
      BY <3>1, <1>t DEF StreamTypes
    <3>2. CASE dropped' = dropped /\ reader' = [reader EXCEPT !.pc = "ack", !.ack = 1]
      BY <3>2, <1>t DEF StreamTypes
    <3>3. QED
      BY <1>16, <3>1, <3>2 DEF ReaderCalls
  <2>3. \A c : InHand(c)' <=> InHand(c)
    BY <2>1, <2>2 DEF InHand
  <2>4. AwaitsItsOwn'
    <3>1. \A c, num : Owed(c, num) => Owed(c, num)'
      <4> TAKE c, num
      <4>1. OnlyEntries(c)' <=> OnlyEntries(c)
        BY Zenon, <2>1 DEF OnlyEntries
      <4>2. reader.msg = [num |-> num, kind |-> "inode"] => reader.msg.num = num
        OBVIOUS
      <4> QED
        BY Zenon, <2>1, <2>2, <2>3, <4>1, <4>2 DEF Owed
    <3> QED
      BY Zenon, <2>1, <3>1 DEF InStep, AwaitsItsOwn
  <2>5. ConnInStep'
    BY <2>1, <2>2 DEF InStep, ConnInStep, NothingOwed, OnlyEntries, InHand
  <2>6. BacklogUnused'
    BY <2>1, <2>2 DEF InStep, BacklogUnused, InHand
  <2>7. ReaderServes' /\ AnswersItsOwn'
    BY <2>1, <2>2 DEF InStep, ReaderServes, AnswersItsOwn
  <2>8. QED
    BY Zenon, <1>t, <2>4, <2>5, <2>6, <2>7 DEF InStep
<1>17. CASE ReaderAcks
  <2> DEFINE f == reader.fd
  <2>1. /\ reader.pc = "ack" /\ f \in Conns /\ answers[f] \in Seq({0, 1}) /\ reader.ack \in {0, 1}
        /\ UNCHANGED <<conn, send, backlog, ends, wire, dropped, result>>
    BY <1>17, <1>t DEF ReaderAcks, daemonVars, readerOnly, InStep, ReaderServes, StreamTypes
  <2>2. /\ reader'.pc \in {"check", "leave"} /\ reader'.fd = f
        /\ answers' = answers \/ answers' = [answers EXCEPT ![f] = Append(@, reader.ack)]
    <3>1. /\ \E pc \in {"check", "leave"} : reader' = [reader EXCEPT !.pc = pc]
          /\ answers' = answers \/ answers' = [answers EXCEPT ![f] = Append(@, reader.ack)]
      BY Zenon, <1>17 DEF ReaderAcks, At
    <3>2. reader \in ReaderTypes
      BY Zenon, <1>t DEF StreamTypes, ReaderTypes
    <3> QED
      BY <3>1, <3>2 DEF ReaderTypes
  <2>3. /\ answers'[f] = answers[f] \/ answers'[f] = Append(answers[f], reader.ack)
        /\ \A c \in Conns : c # f => answers'[c] = answers[c]
    BY <2>1, <2>2, <1>t DEF StreamTypes
  <2>4. InHand(f) /\ \A c : ~InHand(c)'
    BY <2>1, <2>2 DEF InHand
  <2>5. \A i \in 1 .. Len(backlog) : backlog[i] \in Conns /\ backlog[i] # f
    <3>1. \A i \in 1 .. Len(backlog) : backlog[i] \in Conns
      BY <1>t DEF StreamTypes
    <3>2. \A i \in 1 .. Len(backlog) : ~(reader.fd = backlog[i] /\ reader.pc \in {"call", "ack"})
      BY DEF InStep, BacklogUnused, InHand
    <3>3. QED
      BY <2>1, <3>1, <3>2
  <2>6. BacklogUnused' /\ ReaderServes' /\ AnswersItsOwn'
    BY <2>1, <2>2, <2>3, <2>5 DEF InStep, BacklogUnused, ReaderServes, AnswersItsOwn, InHand
  <2>7. CASE conn # f
    <3>1. conn # None => conn \in Conns /\ answers'[conn] = answers[conn]
      BY <2>3, <2>7, <1>t DEF StreamTypes
    <3>2. ~InHand(conn) /\ ~InHand(conn)'
      BY <2>4, <2>7 DEF InHand
    <3>3. AwaitsItsOwn' /\ ConnInStep'
      BY <2>1, <3>1, <3>2, Zenon
         DEF InStep, AwaitsItsOwn, ConnInStep, Owed, NothingOwed, OnlyEntries, InHand
    <3>4. QED
      BY Zenon, <1>t, <2>6, <3>3 DEF InStep
  <2>8. CASE conn = f
    <3>1. send.pc = "await" /\ send.msg.kind = "inode" /\ Owed(f, send.msg.num)
      BY <2>1, <2>4, <2>8, KernelNotifyAssumption
         DEF InStep, ConnInStep, AwaitsItsOwn, NothingOwed
    <3>2. /\ OnlyEntries(f) /\ answers[f] = <<>>
          /\ reader.ack = 0 => send.msg.num \in dropped
      BY <2>1, <2>4, <3>1 DEF Owed
    <3>3. \/ answers'[f] = <<>>
          \/ Len(answers'[f]) = 1 /\ answers'[f][1] = reader.ack
      BY <2>1, <2>3, <3>2, OneAppended, ZenonT(60)
    <3>4. Owed(conn, send.msg.num)'
      BY <2>1, <2>4, <2>8, <3>2, <3>3 DEF Owed, OnlyEntries
    <3>5. AwaitsItsOwn' /\ ConnInStep'
      BY <2>1, <3>1, <3>4, Zenon DEF InStep, AwaitsItsOwn, ConnInStep
    <3>6. QED
      BY Zenon, <1>t, <2>6, <3>5 DEF InStep
  <2>9. QED
    BY <2>7, <2>8
<1>18. CASE ReaderLeaves
    BY <1>18, <1>t, NothingMoves DEF ReaderLeaves, CloseEnd, daemonVars, StreamTypes, InStep,
                                   ReaderServes
<1>19. CASE WorkerPops
    BY <1>19, <1>t, NothingMoves, Zenon DEF WorkerPops, daemonVars, socketVars
<1>20. CASE WorkerCalls
    BY <1>20, <1>t, NothingMoves DEF WorkerCalls, daemonVars, socketVars
<1>21. CASE Unmount
    BY <1>21, <1>t, NothingMoves DEF Unmount, daemonVars, socketVars
<1>22. CASE Shutdown
  <2>1. ends' = ends \/ ends' = [ends EXCEPT ![notify_fd] = @ \ {"client"}]
    BY <1>22 DEF Shutdown, CloseEnd
  <2>2. \A c \in Conns : "daemon" \in ends[c] => "daemon" \in ends'[c]
    <3>1. CASE ends' = ends
      BY <3>1
    <3>2. CASE ends' = [ends EXCEPT ![notify_fd] = @ \ {"client"}]
      <4>1. ends' = [c \in Conns |-> IF c = notify_fd THEN ends[c] \ {"client"} ELSE ends[c]]
        BY <3>2, <1>t, Zenon DEF StreamTypes
      <4>2. QED
        BY <4>1
    <3>3. QED
      BY <2>1, <3>1, <3>2
  <2>3. QED
    BY <1>22, <1>t, <2>2, NothingMoves DEF Shutdown, daemonVars
<1>23. CASE Join
    BY <1>23, <1>t, NothingMoves DEF Join, daemonVars, socketVars
<1>24. CASE UNCHANGED vars
    BY <1>24, <1>t, NothingMoves DEF vars, daemonVars, socketVars, clientVars
<1>25. QED
    BY <1>1, <1>2, <1>3, <1>4, <1>5, <1>6, <1>7, <1>8, <1>9, <1>10, <1>11, <1>12, <1>13,
       <1>14, <1>15, <1>16, <1>17, <1>18, <1>19, <1>20, <1>21, <1>22, <1>23, <1>24
       DEF Next, Daemon, Reader

\* Nothing is on its way when the mount starts.
LEMMA InStepStarts == Init => InStep
BY DEF Init, InStep, StreamTypes, AwaitsItsOwn, ConnInStep, BacklogUnused, ReaderServes,
       AnswersItsOwn, Idle

\* Whatever number of connections, messages, timeouts and restarts there is, a
\* lock release that is told the kernel dropped an inode's pages was told so of
\* its own message (notifyServer.send).
THEOREM AnswersAreItsOwn == Spec => []AnswersItsOwn
<1>1. Init => InStep
    BY InStepStarts
<1>2. InStep => AnswersItsOwn
    BY DEF InStep
<1>3. QED
    BY <1>1, <1>2, InStepKept, PTL DEF Spec
-----------------------------------------------------------------------------
(* The bounds.  Timeouts in a row are no more than messages sent, as each is of
   a send of its own. *)
Bounded ==
  /\ TypeOK
  /\ sends <= MaxSends /\ timeouts <= sends /\ (send # Idle => timeouts < sends)

\* A socket and the queue hold no more than they can, and the teardown's flags
\* say how far it is (etcfs_run): the notify thread has returned once it is joined.
LEMMA BoundedKept ==
  ASSUME InStep, Bounded, [Next]_vars
  PROVE  Bounded'
<1>0. StreamTypes'
    BY StreamTyped
<1>1. /\ MaxSends \in Nat /\ SocketCap \in Nat \ {0} /\ QueueCap \in Nat \ {0}
    BY KernelNotifyAssumption
<1>2. /\ up' \in BOOLEAN /\ broken' \in BOOLEAN
  <2>0. up \in BOOLEAN /\ broken \in BOOLEAN
    BY Zenon DEF Bounded, TypeOK
  <2>1. up' = up \/ up' = TRUE \/ up' = FALSE
    BY Zenon DEF Next, Daemon, Reader, Send, Write, Lost, Answered, Timeout, Cooldown, Accept,
         Crash, Restart, ReaderLoops, ReaderConnects, ReaderSets, ReaderChecks, ReaderReads,
         ReaderEnds, ReaderCalls, ReaderAcks, ReaderLeaves, WorkerPops, WorkerCalls, Unmount,
         Shutdown, Join, vars, daemonVars
  <2>2. broken' = broken \/ broken' = FALSE \/ broken' = (broken \/ timeouts' >= Trips)
    BY Zenon DEF Next, Daemon, Reader, Send, Write, Lost, Answered, Timeout, Cooldown, Accept,
         Crash, Restart, ReaderLoops, ReaderConnects, ReaderSets, ReaderChecks, ReaderReads,
         ReaderEnds, ReaderCalls, ReaderAcks, ReaderLeaves, WorkerPops, WorkerCalls, Unmount,
         Shutdown, Join, vars, daemonVars
  <2> QED
    BY Zenon, <2>0, <2>1, <2>2
<1>3. /\ timeouts' \in 0 .. MaxSends
      /\ sends' <= MaxSends /\ timeouts' <= sends' /\ (send' # Idle => timeouts' < sends')
  <2>0. /\ timeouts \in Nat /\ sends \in Nat /\ sends <= MaxSends /\ timeouts <= sends
        /\ (send # Idle => timeouts < sends)
    BY <1>1 DEF Bounded, TypeOK, StreamTypes
  <2>1. \/ sends' = sends + 1 /\ sends < MaxSends /\ timeouts' = timeouts
        \/ sends' = sends /\ timeouts' = timeouts /\ (send' = Idle \/ send # Idle)
        \/ sends' = sends /\ timeouts' = 0 /\ send' = Idle
        \/ sends' = sends /\ timeouts' = timeouts + 1 /\ send.pc # "idle" /\ send' = Idle
    <3>1. send.pc = "write" => send # Idle
      BY DEF Idle
    <3> QED
      BY Zenon, <3>1 DEF Next, Daemon, Reader, Send, Write, Lost, Answered, Timeout, Cooldown, Accept,
           Crash, Restart, ReaderLoops, ReaderConnects, ReaderSets, ReaderChecks, ReaderReads,
           ReaderEnds, ReaderCalls, ReaderAcks, ReaderLeaves, WorkerPops, WorkerCalls, Unmount,
           Shutdown, Join, Return, vars, daemonVars, counters
  <2>2. send.pc # "idle" => send # Idle
    BY DEF Idle
  <2>3. /\ sends' \in Nat /\ sends' <= MaxSends
    BY <1>1, <2>0, <2>1
  <2>4. /\ timeouts' \in Nat /\ timeouts' <= sends' /\ (send' # Idle => timeouts' < sends')
    BY <2>0, <2>1, <2>2
  <2> QED
    BY <1>1, <2>3, <2>4
<1>4. \A c \in Conns : Len(wire'[c]) <= SocketCap
  <2>0. wire \in [Conns -> Seq(Message)] /\ \A c \in Conns : Len(wire[c]) <= SocketCap
    BY Zenon DEF Bounded, TypeOK, StreamTypes
  <2>1. \/ wire' = wire \/ (\E c : wire' = [wire EXCEPT ![c] = <<>>])
        \/ /\ send.pc = "write" /\ Len(wire[conn]) < SocketCap
           /\ wire' = [wire EXCEPT ![conn] = Append(@, send.msg)]
        \/ \E c : wire[c] # <<>> /\ wire' = [wire EXCEPT ![c] = Tail(@)]
    BY Zenon DEF Next, Daemon, Reader, Send, Write, Lost, Answered, Timeout, Cooldown, Accept,
         Crash, Restart, ReaderLoops, ReaderConnects, ReaderSets, ReaderChecks, ReaderReads,
         ReaderEnds, ReaderCalls, ReaderAcks, ReaderLeaves, WorkerPops, WorkerCalls, Unmount,
         Shutdown, Join, vars, socketVars
  <2>2. ASSUME NEW c, NEW s, wire' = [wire EXCEPT ![c] = s], c \in Conns => Len(s) <= SocketCap
        PROVE  \A d \in Conns : Len(wire'[d]) <= SocketCap
    <3>1. \A d \in Conns : wire'[d] = IF d = c THEN s ELSE wire[d]
      BY Zenon, <2>0, <2>2
    <3> QED
      BY Zenon, <2>0, <2>2, <3>1
  <2>3. Len(<<>>) <= SocketCap
    BY <1>1
  <2>4. ASSUME send.pc = "write", conn \in Conns, Len(wire[conn]) < SocketCap
        PROVE  Len(Append(wire[conn], send.msg)) <= SocketCap
    <3>1. send.msg \in Message
      BY <2>4 DEF InStep, StreamTypes, Idle
    <3>2. Len(wire[conn]) \in Nat /\ Len(Append(wire[conn], send.msg)) = Len(wire[conn]) + 1
      BY <2>0, <2>4, <3>1
    <3> QED
      BY <1>1, <2>4, <3>2
  <2>5. ASSUME NEW c \in Conns, wire[c] # <<>> PROVE Len(Tail(wire[c])) <= SocketCap
    <3>1. /\ Len(wire[c]) \in Nat /\ Len(wire[c]) <= SocketCap
          /\ Len(Tail(wire[c])) = Len(wire[c]) - 1
      BY <2>0, <2>5
    <3> QED
      BY <1>1, <3>1
  <2> QED
    BY Zenon, <2>0, <2>1, <2>2, <2>3, <2>4, <2>5
<1>5. notify_fd' \in Conns \union {None}
  <2>0. notify_fd \in Conns \union {None}
    BY Zenon DEF Bounded, TypeOK
  <2>1. \/ notify_fd' = notify_fd \/ notify_fd' = None
        \/ reader.pc = "set" /\ notify_fd' = reader.fd
    BY Zenon DEF Next, Daemon, Reader, Send, Write, Lost, Answered, Timeout, Cooldown, Accept,
         Crash, Restart, ReaderLoops, ReaderConnects, ReaderSets, ReaderChecks, ReaderReads,
         ReaderEnds, ReaderCalls, ReaderAcks, ReaderLeaves, WorkerPops, WorkerCalls, Unmount,
         Shutdown, Join, vars, clientVars, readerOnly
  <2>2. reader.pc = "set" => reader.fd \in Conns
    BY DEF InStep, ReaderServes
  <2> QED
    BY Zenon, <2>0, <2>1, <2>2
<1>6. queue' \in Seq(Message) /\ Len(queue') <= QueueCap
  <2>0. queue \in Seq(Message) /\ Len(queue) <= QueueCap
    BY Zenon DEF Bounded, TypeOK
  <2>1. \/ queue' = queue \/ (queue # <<>> /\ queue' = Tail(queue))
        \/ /\ reader.pc = "read" /\ wire[reader.fd] # <<>>
           /\ queue' = Push(Head(wire[reader.fd]))
    BY Zenon DEF Next, Daemon, Reader, Send, Write, Lost, Answered, Timeout, Cooldown, Accept,
         Crash, Restart, ReaderLoops, ReaderConnects, ReaderSets, ReaderChecks, ReaderReads,
         ReaderEnds, ReaderCalls, ReaderAcks, ReaderLeaves, WorkerPops, WorkerCalls, Unmount,
         Shutdown, Join, vars, clientVars,
         readerOnly
  <2>2. queue # <<>> => Tail(queue) \in Seq(Message) /\ Len(Tail(queue)) <= QueueCap
    BY <1>1, <2>0
  <2>3. ASSUME NEW msg \in Message PROVE Push(msg) \in Seq(Message) /\ Len(Push(msg)) <= QueueCap
    <3> DEFINE room == IF Len(queue) = QueueCap THEN Tail(queue) ELSE queue
    <3>1. room \in Seq(Message) /\ Len(room) + 1 <= QueueCap
      BY <1>1, <2>0
    <3>2. Append(room, msg) \in Seq(Message) /\ Len(Append(room, msg)) = Len(room) + 1
      BY <3>1
    <3> QED
      BY Zenon, <2>0, <3>1, <3>2 DEF Push
  <2>4. reader.pc = "read" => reader.fd \in Conns
    BY DEF InStep, ReaderServes
  <2>5. reader.pc = "read" /\ wire[reader.fd] # <<>> => Head(wire[reader.fd]) \in Message
    BY Zenon, <2>4, HeadAndTail DEF InStep, StreamTypes
  <2> QED
    BY Zenon, <2>0, <2>1, <2>2, <2>3, <2>5
<1>7. /\ worker' \in {"pop", "call", "exited"}
      /\ main' \in {"running", "stopped", "shut", "joined", "closed", "done"}
  <2>0. /\ worker \in {"pop", "call", "exited"}
        /\ main \in {"running", "stopped", "shut", "joined", "closed", "done"}
    BY Zenon DEF Bounded, TypeOK
  <2>1. worker' = worker \/ worker' = "pop" \/ worker' = "call" \/ worker' = "exited"
    BY Zenon DEF Next, Daemon, Reader, Send, Write, Lost, Answered, Timeout, Cooldown, Accept,
         Crash, Restart, ReaderLoops, ReaderConnects, ReaderSets, ReaderChecks, ReaderReads,
         ReaderEnds, ReaderCalls, ReaderAcks, ReaderLeaves, WorkerPops, WorkerCalls, Unmount,
         Shutdown, Join, vars, clientVars, readerOnly
  <2>2. \/ main' = main \/ main' = "stopped" \/ main' = "shut" \/ main' = "joined"
        \/ main' = "closed" \/ main' = "done"
    BY Zenon DEF Next, Daemon, Reader, Send, Write, Lost, Answered, Timeout, Cooldown, Accept,
         Crash, Restart, ReaderLoops, ReaderConnects, ReaderSets, ReaderChecks, ReaderReads,
         ReaderEnds, ReaderCalls, ReaderAcks, ReaderLeaves, WorkerPops, WorkerCalls, Unmount,
         Shutdown, Join, vars, clientVars, readerOnly
  <2> QED
    BY Zenon, <2>0, <2>1, <2>2
<1>t. Unmount \/ Shutdown \/ Join \/ UNCHANGED <<main, stop, closed>>
  BY Zenon DEF Next, Daemon, Reader, Send, Write, Lost, Answered, Timeout, Cooldown, Accept,
       Crash, Restart, ReaderLoops, ReaderConnects, ReaderSets, ReaderChecks, ReaderReads,
       ReaderEnds, ReaderCalls, ReaderAcks, ReaderLeaves, WorkerPops, WorkerCalls,
       vars, clientVars, readerOnly
<1>8. stop' = (main' # "running") /\ closed' = (main' \in {"closed", "done"})
  <2>0. stop = (main # "running") /\ closed = (main \in {"closed", "done"})
    BY Zenon DEF Bounded, TypeOK
  <2>1. \/ main' = main /\ stop' = stop /\ closed' = closed
        \/ main = "running" /\ main' = "stopped" /\ stop' = TRUE /\ closed' = closed
        \/ main = "stopped" /\ main' = "shut" /\ stop' = stop /\ closed' = closed
        \/ main = "shut" /\ main' = "joined" /\ stop' = stop /\ closed' = closed
        \/ main = "joined" /\ main' = "closed" /\ stop' = stop /\ closed' = TRUE
        \/ main = "closed" /\ main' = "done" /\ stop' = stop /\ closed' = closed
    BY Zenon, <1>t DEF Unmount, Shutdown, Join
  <2>2. CASE main' = main /\ stop' = stop /\ closed' = closed
    BY Zenon, <2>0, <2>2
  <2>3. CASE main = "running" /\ main' = "stopped" /\ stop' = TRUE /\ closed' = closed
    <3>1. main' # "running"
      BY <2>3
    <3>2. (main \in {"closed", "done"}) = (main' \in {"closed", "done"})
      BY <2>3
    <3>3. (main' # "running") = TRUE
      BY <3>1
    <3>4. stop' = (main' # "running")
      BY Zenon, <2>3, <3>3
    <3>5. closed' = (main' \in {"closed", "done"})
      BY Zenon, <2>0, <2>3, <3>2
    <3> QED
      BY Zenon, <3>4, <3>5
  <2>4. CASE main = "stopped" /\ main' = "shut" /\ stop' = stop /\ closed' = closed
    BY <2>0, <2>4
  <2>5. CASE main = "shut" /\ main' = "joined" /\ stop' = stop /\ closed' = closed
    BY <2>0, <2>5
  <2>6. CASE main = "joined" /\ main' = "closed" /\ stop' = stop /\ closed' = TRUE
    <3>1. main # "running" /\ main' # "running"
      BY <2>6
    <3>2. main' \in {"closed", "done"}
      BY <2>6
    <3> QED
      BY Zenon, <2>0, <2>6, <3>1, <3>2
  <2>7. CASE main = "closed" /\ main' = "done" /\ stop' = stop /\ closed' = closed
    BY <2>0, <2>7
  <2> QED
    BY Zenon, <2>1, <2>2, <2>3, <2>4, <2>5, <2>6, <2>7
<1>9. main' \notin {"running", "stopped", "shut"} => reader'.pc = "exited"
  <2>0. main \notin {"running", "stopped", "shut"} => reader.pc = "exited"
    BY Zenon DEF Bounded, TypeOK
  <2>1. main' = main \/ main' \in {"stopped", "shut"} \/ reader.pc = "exited"
    <3>1. main \in {"joined", "closed"} => reader.pc = "exited"
      BY <2>0
    <3> QED
      BY Zenon, <1>t, <3>1 DEF Unmount, Shutdown, Join
  <2>2. reader.pc = "exited" => reader' = reader
    BY DEF Next, Daemon, Reader, Send, Write, Lost, Answered, Timeout, Cooldown, Accept,
         Crash, Restart, ReaderLoops, ReaderConnects, ReaderSets, ReaderChecks, ReaderReads,
         ReaderEnds, ReaderCalls, ReaderAcks, ReaderLeaves, WorkerPops, WorkerCalls, Unmount,
         Shutdown, Join, vars, clientVars
  <2> QED
    BY Zenon, <2>0, <2>1, <2>2
<1> QED
    BY Zenon, <1>0, <1>2, <1>3, <1>4, <1>5, <1>6, <1>7, <1>8, <1>9 DEF Bounded, TypeOK

\* The mount's stream state keeps its types and bounds: a socket and the queue
\* are never over their capacity, the breaker counts no more timeouts than there
\* were sends, and past the join the notify thread is gone (etcfs_run).
THEOREM NotifyTyping == Spec => []TypeOK
<1>1. Init => InStep
    BY InStepStarts
<1>2. Init => Bounded
  <2> SUFFICES ASSUME Init PROVE Bounded
    OBVIOUS
  <2>1. StreamTypes
    BY <1>1 DEF InStep
  <2>2. /\ MaxSends \in Nat /\ SocketCap \in Nat /\ QueueCap \in Nat
    BY KernelNotifyAssumption
  <2>3. /\ up = TRUE /\ timeouts = 0 /\ broken = FALSE /\ sends = 0 /\ send = Idle
        /\ wire = [c \in Conns |-> <<>>] /\ notify_fd = None /\ queue = <<>>
        /\ closed = FALSE /\ worker = "pop" /\ stop = FALSE /\ main = "running"
    BY Zenon DEF Init
  <2>4. timeouts \in 0 .. MaxSends /\ sends <= MaxSends /\ timeouts <= sends
    BY <2>2, <2>3
  <2>5. \A c \in Conns : Len(wire[c]) <= SocketCap
    BY <2>2, <2>3
  <2>6. queue \in Seq(Message) /\ Len(queue) <= QueueCap
    BY <2>2, <2>3
  <2>7. stop = (main # "running") /\ closed = (main \in {"closed", "done"})
    <3>1. main = "running" /\ main \notin {"closed", "done"}
      BY <2>3
    <3>2. (main # "running") = FALSE /\ (main \in {"closed", "done"}) = FALSE
      BY <3>1
    <3> QED
      BY Zenon, <2>3, <3>2
  <2>8. /\ up \in BOOLEAN /\ broken \in BOOLEAN /\ notify_fd \in Conns \union {None}
        /\ worker \in {"pop", "call", "exited"}
        /\ main \in {"running", "stopped", "shut", "joined", "closed", "done"}
        /\ main \notin {"running", "stopped", "shut"} => reader.pc = "exited"
    BY Zenon, <2>3
  <2> QED
    BY Zenon, <2>1, <2>3, <2>4, <2>5, <2>6, <2>7, <2>8 DEF Bounded, TypeOK
<1>3. InStep /\ Bounded /\ [Next]_vars => InStep' /\ Bounded'
    BY InStepKept, BoundedKept
<1>4. Bounded => TypeOK
    BY DEF Bounded
<1> QED
    BY <1>1, <1>2, <1>3, <1>4, PTL DEF Spec
=============================================================================
