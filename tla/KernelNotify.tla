---------------------------- MODULE KernelNotify ----------------------------
(* The stream that carries cache invalidations to the kernel: the metadata
   daemon's notifyServer, the socket, and the FUSE client's two threads.

   The daemon sends one message at a time.  An "inode" message drops an inode's
   pages and is answered; an "entry" message (a name, or an inode's attributes)
   is not.  In the client the notify thread reads the stream, makes the kernel
   call of an "inode" message itself, and hands an "entry" message to the inval
   thread through a bounded queue.  Either side drops a connection it cannot
   read in step any more, the client then connects again; the daemon may be
   killed and started, and the mount is torn down in the end.

   Goroutines waiting for notifyServer.mu are the messages still to be sent.
   Left out: what a message is about (a number names it), the backoff between
   connects, and malformed messages, which nothing sends. *)
EXTENDS Naturals, Sequences

CONSTANTS
  None,
  Conns,          \* connections, each used again once both ends are closed
  SocketCap,      \* messages a socket holds before a write blocks
  QueueCap,       \* ETCFS_INVAL_QUEUE_CAP
  Trips,          \* notifyBreakerTrips
  MaxSends,       \* bounds: messages, kernel calls that fail, daemon restarts
  MaxFailures,
  MaxCrashes

ASSUME KernelNotifyAssumption ==
  /\ None \notin Conns
  /\ {SocketCap, QueueCap, Trips} \subseteq Nat \ {0}
  /\ {MaxSends, MaxFailures, MaxCrashes} \subseteq Nat

VARIABLES
  up, conn,       \* the daemon; notifyServer.conn
  timeouts,       \* ackTimeouts
  broken,         \* now is before brokenUntil
  send,           \* the send that has notifyServer.mu
  backlog,        \* connections the daemon has not accepted yet
  ends,           \* the open ends of each connection
  wire, answers,  \* what each direction of it holds
  reader,         \* the notify thread: where it is, its fd, the message in hand
  notify_fd,      \* as the teardown sees it
  queue, closed,  \* inval_queue
  worker,         \* the inval thread
  stop, main,     \* notify_stop; how far etcfs_run's teardown is
  dropped,        \* messages whose kernel call dropped the pages
  result,         \* what the last send of an "inode" message returned
  sends, failures, crashes

daemonVars == <<up, conn, timeouts, broken, send, result>>
socketVars == <<backlog, ends, wire, answers>>
clientVars == <<reader, notify_fd, queue, closed, worker, stop, main, dropped>>
counters   == <<sends, failures, crashes>>
vars == <<daemonVars, socketVars, clientVars, counters>>

Message == [num : Nat, kind : {"entry", "inode"}]
Idle    == [pc |-> "idle", msg |-> None]

\* The part of the state that answers depend on.
StreamTypes ==
  /\ conn \in Conns \union {None}
  /\ send \in {Idle} \union [pc : {"write", "await"}, msg : Message]
  /\ backlog \in Seq(Conns)
  /\ ends \in [Conns -> SUBSET {"daemon", "client"}]
  /\ wire \in [Conns -> Seq(Message)] /\ answers \in [Conns -> Seq({0, 1})]
  /\ reader \in [pc : {"loop", "connect", "set", "check", "read", "call", "ack", "leave",
                         "exited"},
                  fd : Conns \union {None}, msg : Message \union {None}, ack : {0, 1}]
  /\ dropped \subseteq Nat /\ sends \in Nat
  /\ result \in [num : Nat, res : {"none", "ok", "failed", "gone", "unresponsive"}]

TypeOK ==
  /\ StreamTypes
  /\ up \in BOOLEAN /\ broken \in BOOLEAN /\ timeouts \in 0 .. MaxSends
  /\ \A c \in Conns : Len(wire[c]) <= SocketCap
  /\ notify_fd \in Conns \union {None}
  /\ queue \in Seq(Message) /\ Len(queue) <= QueueCap
  /\ worker \in {"pop", "call", "exited"}
  /\ main \in {"running", "stopped", "shut", "joined", "closed", "done"}
  /\ stop = (main # "running") /\ closed = (main \in {"closed", "done"})
  /\ main \notin {"running", "stopped", "shut"} => reader.pc = "exited"

-----------------------------------------------------------------------------
(* The daemon: notifyServer.send, set and the accept loop. *)

CloseEnd(c, end) == ends' = [ends EXCEPT ![c] = @ \ {end}]

\* send returns to the caller.
Return(res) ==
  /\ send' = Idle
  /\ result' = IF send.msg.kind = "inode" THEN [num |-> send.msg.num, res |-> res] ELSE result

\* Nobody is connected, or an answer is owed by a client that gives none; else
\* the message is written.
Send(kind) ==
  LET msg  == [num |-> sends + 1, kind |-> kind]
      fail == [num |-> sends + 1, res |-> IF conn = None THEN "gone" ELSE "unresponsive"]
  IN
  /\ up /\ send = Idle /\ sends < MaxSends
  /\ sends' = sends + 1
  /\ IF conn = None \/ (kind = "inode" /\ broken)
       THEN result' = (IF kind = "inode" THEN fail ELSE result) /\ UNCHANGED send
       ELSE send' = [pc |-> "write", msg |-> msg] /\ UNCHANGED result
  /\ UNCHANGED <<up, conn, timeouts, broken, socketVars, clientVars, failures, crashes>>

\* conn.Write: it blocks while the socket is full.
Write ==
  /\ send.pc = "write" /\ "client" \in ends[conn] /\ Len(wire[conn]) < SocketCap
  /\ wire' = [wire EXCEPT ![conn] = Append(@, send.msg)]
  /\ IF send.msg.kind = "inode" THEN send' = [send EXCEPT !.pc = "await"] /\ UNCHANGED result
                                ELSE Return("ok")
  /\ UNCHANGED <<up, conn, timeouts, broken, backlog, ends, answers, clientVars, counters>>

\* The write or the read fails, the client's end being closed.
Lost ==
  /\ \/ send.pc = "write"
     \/ send.pc = "await" /\ answers[conn] = <<>>
  /\ "client" \notin ends[conn]
  /\ CloseEnd(conn, "daemon") /\ conn' = None
  /\ Return("gone")
  /\ UNCHANGED <<up, timeouts, broken, backlog, wire, answers, clientVars, counters>>

\* The answer is read: 0 if the pages are gone, 1 if the kernel kept them.
AnsweredUnread ==
  /\ send.pc = "await" /\ answers[conn] # <<>>
  /\ answers' = [answers EXCEPT ![conn] = Tail(@)]
  /\ timeouts' = 0
  /\ Return("ok")
  /\ UNCHANGED <<up, conn, broken, backlog, ends, wire, clientVars, counters>>
Answered ==
  /\ send.pc = "await" /\ answers[conn] # <<>>
  /\ answers' = [answers EXCEPT ![conn] = Tail(@)]
  /\ timeouts' = IF Head(answers[conn]) = 0 THEN 0 ELSE timeouts
  /\ Return(IF Head(answers[conn]) = 0 THEN "ok" ELSE "failed")
  /\ UNCHANGED <<up, conn, broken, backlog, ends, wire, clientVars, counters>>

\* No answer within ackTimeout.
Timeout ==
  /\ send.pc = "await"
  /\ CloseEnd(conn, "daemon") /\ conn' = None
  /\ timeouts' = timeouts + 1
  /\ broken' = (broken \/ timeouts' >= Trips)
  /\ Return(IF timeouts' >= Trips THEN "unresponsive" ELSE "gone")
  /\ UNCHANGED <<up, backlog, wire, answers, clientVars, counters>>

\* notifyBreakerCooldown is over.
Cooldown ==
  /\ broken
  /\ broken' = FALSE
  /\ UNCHANGED <<up, conn, timeouts, send, result, socketVars, clientVars, counters>>

\* A connection is accepted and replaces the one before.
Accept ==
  /\ up /\ backlog # <<>> /\ send = Idle
  /\ conn' = Head(backlog) /\ backlog' = Tail(backlog)
  /\ ends' = [c \in Conns |-> IF c = conn THEN ends[c] \ {"daemon"} ELSE ends[c]]
  /\ UNCHANGED <<up, timeouts, broken, send, result, wire, answers, clientVars, counters>>

\* The daemon is killed, and started again.
Crash ==
  /\ up /\ crashes < MaxCrashes
  /\ up' = FALSE /\ conn' = None /\ timeouts' = 0 /\ broken' = FALSE /\ send' = Idle
  /\ ends' = [c \in Conns |-> ends[c] \ {"daemon"}] /\ backlog' = <<>>
  /\ crashes' = crashes + 1
  /\ UNCHANGED <<result, wire, answers, clientVars, sends, failures>>

Restart ==
  /\ ~up /\ up' = TRUE
  /\ UNCHANGED <<conn, timeouts, broken, send, result, socketVars, clientVars, counters>>

-----------------------------------------------------------------------------
(* The notify thread: notify_thread and notify_serve. *)

readerOnly == <<notify_fd, queue, closed, worker, stop, main, dropped>>

At(pc) == reader' = [reader EXCEPT !.pc = pc]

\* The loop is left once notify_stop is seen; otherwise it connects.
ReaderLoops ==
  /\ reader.pc = "loop"
  /\ At(IF stop THEN "exited" ELSE "connect")
  /\ UNCHANGED <<daemonVars, socketVars, readerOnly, counters>>

Free == {c \in Conns : ends[c] = {} /\ \A i \in DOMAIN backlog : backlog[i] # c}

ReaderConnects ==
  LET c == CHOOSE c \in Free : TRUE IN
  /\ reader.pc = "connect"
  /\ \/ /\ up /\ Free # {}
        /\ ends' = [ends EXCEPT ![c] = {"daemon", "client"}]
        /\ wire' = [wire EXCEPT ![c] = <<>>] /\ answers' = [answers EXCEPT ![c] = <<>>]
        /\ backlog' = Append(backlog, c)
        /\ reader' = [reader EXCEPT !.pc = "set", !.fd = c]
     \/ /\ ~up
        /\ At("loop") /\ UNCHANGED socketVars
  /\ UNCHANGED <<daemonVars, readerOnly, counters>>

\* notify_fd_set
ReaderSets ==
  /\ reader.pc = "set"
  /\ notify_fd' = reader.fd /\ At("check")
  /\ UNCHANGED <<daemonVars, socketVars, queue, closed, worker, stop, main, dropped, counters>>

\* The head of notify_serve's loop.
ReaderNeverChecks ==
  /\ reader.pc = "check"
  /\ At("read")
  /\ UNCHANGED <<daemonVars, socketVars, readerOnly, counters>>
ReaderChecks ==
  /\ reader.pc = "check"
  /\ At(IF stop THEN "leave" ELSE "read")
  /\ UNCHANGED <<daemonVars, socketVars, readerOnly, counters>>

\* etcfs_inval_queue_push: the oldest makes room.
PushUnbounded(msg) == IF closed THEN queue ELSE Append(queue, msg)
Push(msg) ==
  IF closed THEN queue
  ELSE Append(IF Len(queue) = QueueCap THEN Tail(queue) ELSE queue, msg)

\* A message is read, and queued unless an answer is owed.
ReaderReadsWhenRoom ==
  LET msg == Head(wire[reader.fd]) IN
  /\ reader.pc = "read" /\ wire[reader.fd] # <<>>
  /\ msg.kind = "entry" => Len(queue) < QueueCap
  /\ wire' = [wire EXCEPT ![reader.fd] = Tail(@)]
  /\ reader' = [reader EXCEPT !.pc = IF msg.kind = "inode" THEN "call" ELSE "check", !.msg = msg]
  /\ queue' = IF msg.kind = "inode" THEN queue ELSE Push(msg)
  /\ UNCHANGED <<daemonVars, backlog, ends, answers, notify_fd, closed, worker, stop, main,
                 dropped, counters>>
ReaderReads ==
  LET msg == Head(wire[reader.fd]) IN
  /\ reader.pc = "read" /\ wire[reader.fd] # <<>>
  /\ wire' = [wire EXCEPT ![reader.fd] = Tail(@)]
  /\ reader' = [reader EXCEPT !.pc = IF msg.kind = "inode" THEN "call" ELSE "check", !.msg = msg]
  /\ queue' = IF msg.kind = "inode" THEN queue ELSE Push(msg)
  /\ UNCHANGED <<daemonVars, backlog, ends, answers, notify_fd, closed, worker, stop, main,
                 dropped, counters>>

\* The stream has ended, at either end.
ReaderEnds ==
  /\ reader.pc = "read" /\ wire[reader.fd] = <<>> /\ ends[reader.fd] # {"daemon", "client"}
  /\ At("leave")
  /\ UNCHANGED <<daemonVars, socketVars, readerOnly, counters>>

\* fuse_lowlevel_notify_inval_inode returns.
ReaderCalls ==
  /\ reader.pc = "call"
  /\ \/ /\ dropped' = dropped \union {reader.msg.num}
        /\ reader' = [reader EXCEPT !.pc = "ack", !.ack = 0]
        /\ UNCHANGED failures
     \/ /\ failures < MaxFailures /\ failures' = failures + 1
        /\ reader' = [reader EXCEPT !.pc = "ack", !.ack = 1]
        /\ UNCHANGED dropped
  /\ UNCHANGED <<daemonVars, socketVars, notify_fd, queue, closed, worker, stop, main, sends,
                 crashes>>

ReaderAcks ==
  LET c == reader.fd IN
  /\ reader.pc = "ack"
  /\ IF ends[c] = {"daemon", "client"}
       THEN answers' = [answers EXCEPT ![c] = Append(@, reader.ack)] /\ At("check")
       ELSE At("leave") /\ UNCHANGED answers
  /\ UNCHANGED <<daemonVars, backlog, ends, wire, readerOnly, counters>>

\* notify_fd is cleared and the connection closed.
ReaderLeaves ==
  /\ reader.pc = "leave"
  /\ notify_fd' = None /\ CloseEnd(reader.fd, "client")
  /\ reader' = [reader EXCEPT !.pc = "loop", !.fd = None, !.msg = None]
  /\ UNCHANGED <<daemonVars, backlog, wire, answers, queue, closed, worker, stop, main, dropped,
                 counters>>

-----------------------------------------------------------------------------
(* The inval thread, and the teardown in etcfs_run. *)

WorkerPops ==
  /\ worker = "pop"
  /\ \/ queue # <<>> /\ queue' = Tail(queue) /\ worker' = "call"
     \/ queue = <<>> /\ closed /\ worker' = "exited" /\ UNCHANGED queue
  /\ UNCHANGED <<daemonVars, socketVars, reader, notify_fd, closed, stop, main, dropped, counters>>

\* Its call into the kernel returns.
WorkerCalls ==
  /\ worker = "call" /\ worker' = "pop"
  /\ UNCHANGED <<daemonVars, socketVars, reader, notify_fd, queue, closed, stop, main, dropped,
                 counters>>

Unmount ==
  /\ main = "running" /\ main' = "stopped" /\ stop' = TRUE
  /\ UNCHANGED <<daemonVars, socketVars, reader, notify_fd, queue, closed, worker, dropped,
                 counters>>

\* notify_fd_shutdown, the two joins with the closing of the queue between them,
\* and the end of the session.
Shutdown ==
  /\ main = "stopped" /\ main' = "shut"
  /\ IF notify_fd = None THEN UNCHANGED ends ELSE CloseEnd(notify_fd, "client")
  /\ UNCHANGED <<daemonVars, backlog, wire, answers, reader, notify_fd, queue, closed, worker,
                 stop, dropped, counters>>

Join ==
  /\ \/ main = "shut" /\ reader.pc = "exited" /\ main' = "joined" /\ UNCHANGED closed
     \/ main = "joined" /\ main' = "closed" /\ closed' = TRUE
     \/ main = "closed" /\ worker = "exited" /\ main' = "done" /\ UNCHANGED closed
  /\ UNCHANGED <<daemonVars, socketVars, reader, notify_fd, queue, worker, stop, dropped,
                 counters>>

-----------------------------------------------------------------------------
Init ==
  /\ up = TRUE /\ conn = None /\ timeouts = 0 /\ broken = FALSE /\ send = Idle
  /\ result = [num |-> 0, res |-> "none"]
  /\ backlog = <<>> /\ ends = [c \in Conns |-> {}]
  /\ wire = [c \in Conns |-> <<>>] /\ answers = [c \in Conns |-> <<>>]
  /\ reader = [pc |-> "loop", fd |-> None, msg |-> None, ack |-> 0]
  /\ notify_fd = None /\ queue = <<>> /\ closed = FALSE /\ worker = "pop"
  /\ stop = FALSE /\ main = "running"
  /\ dropped = {} /\ sends = 0 /\ failures = 0 /\ crashes = 0

Reader ==
  \/ ReaderLoops \/ ReaderConnects \/ ReaderSets \/ ReaderChecks
  \/ ReaderReads \/ ReaderEnds \/ ReaderAcks \/ ReaderLeaves

Daemon == Write \/ Lost \/ Answered \/ Accept \/ Restart

Next ==
  \/ \E kind \in {"entry", "inode"} : Send(kind)
  \/ Daemon \/ Timeout \/ Cooldown \/ Crash
  \/ Reader \/ ReaderCalls \/ WorkerPops \/ WorkerCalls
  \/ Unmount \/ Shutdown \/ Join

Spec == Init /\ [][Next]_vars

\* The daemon's goroutines, the client's threads and the teardown run, and a
\* read past its deadline returns.  Nothing says when a call into the kernel
\* does, nor that the mount is ever torn down.
FairSpec ==
  /\ Spec
  /\ WF_vars(Daemon) /\ WF_vars(Timeout)
  /\ WF_vars(Reader) /\ WF_vars(WorkerPops) /\ WF_vars(Shutdown \/ Join)

-----------------------------------------------------------------------------
(* Properties. *)

\* A send that reports the pages dropped was answered for its own message,
\* whatever answers earlier messages still owed: send closes a connection whose
\* answer it gave up on, as "a connection that has failed part way through one
\* can no longer be read in step" (notify.go).
AnswersItsOwn == result.res = "ok" => result.num \in dropped

\* Why that is so, as an invariant that every step preserves.  A connection the
\* daemon has not accepted carries nothing.  On the one it uses no answer is on
\* its way unless send waits for one, and then no other is: its message is the
\* last in the socket, or the client has it in hand, or has answered it or gone.
OnlyEntries(c) == \A i \in 1 .. Len(wire[c]) : wire[c][i].kind = "entry"
InHand(c)      == reader.fd = c /\ reader.pc \in {"call", "ack"}

NothingOwed(c) == OnlyEntries(c) /\ answers[c] = <<>> /\ ~InHand(c)

Owed(c, num) ==
  \/ /\ wire[c] # <<>> /\ wire[c][Len(wire[c])] = [num |-> num, kind |-> "inode"]
     /\ \A i \in 1 .. Len(wire[c]) - 1 : wire[c][i].kind = "entry"
     /\ answers[c] = <<>> /\ ~InHand(c)
  \/ /\ OnlyEntries(c) /\ answers[c] = <<>>
     /\ InHand(c) /\ reader.msg = [num |-> num, kind |-> "inode"]
     /\ reader.pc = "ack" /\ reader.ack = 0 => num \in dropped
  \/ /\ OnlyEntries(c) /\ ~InHand(c)
     /\ \/ answers[c] = <<>>
        \/ Len(answers[c]) = 1 /\ (answers[c][1] = 0 => num \in dropped)

AwaitsItsOwn ==
  /\ send.pc # "idle" => conn # None
  /\ send.pc = "await" => send.msg.kind = "inode" /\ Owed(conn, send.msg.num)

ConnInStep ==
  conn # None => /\ "daemon" \in ends[conn]
                 /\ \A i \in 1 .. Len(backlog) : backlog[i] # conn
                 /\ send.pc # "await" => NothingOwed(conn)

BacklogUnused ==
  \A i \in 1 .. Len(backlog) :
    /\ "daemon" \in ends[backlog[i]]
    /\ wire[backlog[i]] = <<>> /\ answers[backlog[i]] = <<>> /\ ~InHand(backlog[i])
    /\ \A j \in 1 .. Len(backlog) : backlog[i] = backlog[j] => i = j

ReaderServes ==
  /\ reader.pc \in {"set", "check", "read", "call", "ack", "leave"} => reader.fd \in Conns
  /\ reader.pc \in {"call", "ack"} => reader.msg \in Message

InStep ==
  /\ StreamTypes /\ AwaitsItsOwn /\ ConnInStep /\ BacklogUnused /\ ReaderServes
  /\ AnswersItsOwn

\* Every send returns, though a call into the kernel may never do: the daemon
\* waits for an answer only so long, and a full socket is always being read,
\* since the client neither calls the kernel for an "entry" message itself nor
\* waits for room in its queue ("the acknowledged message below must not queue
\* behind them", fuse.c).
SendReturns == (send # Idle) ~> (send = Idle)

\* The teardown ends once the calls into the kernel return: the notify thread
\* cannot be left in a read nothing will end, though it may be anywhere between
\* two connections when notify_stop is set (etcfs_run).
TeardownEnds ==
  WF_vars(ReaderCalls) /\ WF_vars(WorkerCalls) => (stop ~> main = "done")
=============================================================================
