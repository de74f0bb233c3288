------------------------------- MODULE TCPServer ------------------------------
(***************************************************************************)
(* network/tcp_server.cpp: the accept thread, the worker threads, one      *)
(* detached thread per connection, and the thread that runs init, start    *)
(* and stop.                                                               *)
(*                                                                         *)
(* The kernel is modelled by what Linux does: close() of a socket does not *)
(* wake a thread blocked in accept() or recv() on it, the call keeps the   *)
(* socket in use and may still deliver a connection or data; send() to a   *)
(* peer that is gone fails, or raises SIGPIPE, which nobody ignores.       *)
(*                                                                         *)
(* Nothing ever enters task_queue_, so a worker's wait ends only with      *)
(* running_ false and its code behind the wait is never reached.           *)
(***************************************************************************)
EXTENDS Integers, FiniteSets

CONSTANTS
  Conns,            \* the connections clients make, each with its handler
  Workers,          \* worker_threads_
  None,
  MaxMessages       \* bound: messages sent on a connection

ASSUME TCPServerAssumption ==
  /\ None \notin Conns \cup Workers
  /\ MaxMessages \in Nat

VARIABLES
  running_,
  listening,      \* is server_socket_ open
  connections_,
  stop_locked,    \* does stop() hold connections_mutex_ (others hold it for a step)
  closing,        \* the connection whose close() stop() is inside of
  queue_mutex_,   \* the worker that holds it
  mpc,            \* where init, start and stop are
  apc, aconn,     \* the accept thread, and the connection it sets up
  wpc,            \* the workers
  hpc,            \* the handlers, by connection
  socket_,        \* per connection: none, pending (in the backlog), open, closed
  closes,         \* per connection: how often ::close was called on its socket
  gone,           \* per connection: has the client closed its end
  inbox, sent     \* per connection: messages on their way, and sent at all

main == <<running_, listening, mpc>>
acceptor == <<apc, aconn>>
pool == <<queue_mutex_, wpc>>
table == <<connections_, stop_locked, closing>>
sockets == <<socket_, closes>>
conns == <<table, hpc, sockets>>
clients == <<gone, inbox, sent>>
vars == <<main, acceptor, pool, conns, clients>>

ServerTypeOK ==
  /\ {running_, listening, stop_locked} \subseteq BOOLEAN
  /\ connections_ \subseteq Conns
  /\ {closing, aconn} \subseteq Conns \cup {None}
  /\ queue_mutex_ \in {w \in Workers : wpc[w] \in {"check", "wait"}} \cup {None}
  /\ mpc \in {"new", "failed", "inited", "running", "close", "joinA", "notify", "joinW",
              "lockC", "closeC", "stopped", "killed"}
  /\ apc \in {"none", "test", "call", "accept", "push", "spawn", "exit"}
  /\ wpc \in [Workers -> {"none", "test", "lock", "check", "wait", "blocked", "exit"}]
  /\ hpc \in [Conns -> {"none", "test", "recv", "blocked", "handle", "send", "remove",
                        "close", "closed", "exit"}]
  /\ socket_ \in [Conns -> {"none", "pending", "open", "closed"}]
  /\ closes \in [Conns -> 0 .. 2]
  /\ gone \in [Conns -> BOOLEAN]
  /\ inbox \in [Conns -> 0 .. MaxMessages] /\ sent \in [Conns -> 0 .. MaxMessages]

Init ==
  /\ running_ = FALSE /\ listening = FALSE /\ mpc = "new"
  /\ connections_ = {} /\ stop_locked = FALSE /\ closing = None
  /\ queue_mutex_ = None /\ wpc = [w \in Workers |-> "none"]
  /\ apc = "none" /\ aconn = None
  /\ hpc = [c \in Conns |-> "none"]
  /\ socket_ = [c \in Conns |-> "none"] /\ closes = [c \in Conns |-> 0]
  /\ gone = [c \in Conns |-> FALSE]
  /\ inbox = [c \in Conns |-> 0] /\ sent = [c \in Conns |-> 0]

-------------------------------------------------------------------------------
(***************************************************************************)
(* init and start.                                                         *)
(***************************************************************************)

\* The workers start here, with running_ still false: one that is quick exits.
InitServer ==
  /\ mpc = "new" /\ mpc' = "inited"
  /\ listening' = TRUE
  /\ wpc' = [w \in Workers |-> "test"]
  /\ UNCHANGED <<running_, acceptor, queue_mutex_, conns, clients>>

\* socket, setsockopt, bind or listen fails: an exception, no worker yet.
InitThrows ==
  /\ mpc = "new" /\ mpc' = "failed"
  /\ UNCHANGED <<running_, listening, acceptor, pool, conns, clients>>

StartServer ==
  /\ mpc = "inited" /\ mpc' = "running"
  /\ running_' = TRUE
  /\ apc' = "test"
  /\ UNCHANGED <<listening, aconn, pool, conns, clients>>

-------------------------------------------------------------------------------
(***************************************************************************)
(* acceptLoop.                                                             *)
(***************************************************************************)
\* A plausible slip: the loop has no condition.
AcceptForever ==
  /\ apc = "test" /\ apc' = "call"
  /\ UNCHANGED <<main, aconn, pool, conns, clients>>

TestRunning ==
  /\ apc = "test"
  /\ apc' = IF running_ THEN "call" ELSE "exit"
  /\ UNCHANGED <<main, aconn, pool, conns, clients>>

\* accept(server_socket_) on a closed socket fails at once.
CallAccept ==
  /\ apc = "call"
  /\ apc' = IF listening THEN "accept" ELSE "test"
  /\ UNCHANGED <<main, aconn, pool, conns, clients>>

Accept(c) ==
  /\ apc = "accept" /\ socket_[c] = "pending"
  /\ socket_' = [socket_ EXCEPT ![c] = "open"]
  /\ aconn' = c
  /\ apc' = "push"
  /\ UNCHANGED <<main, pool, table, hpc, closes, clients>>

PushConnection ==
  /\ apc = "push" /\ ~stop_locked
  /\ connections_' = connections_ \cup {aconn}
  /\ apc' = "spawn"
  /\ UNCHANGED <<main, aconn, pool, stop_locked, closing, hpc, sockets, clients>>

SpawnHandler ==
  /\ apc = "spawn"
  /\ hpc' = [hpc EXCEPT ![aconn] = "test"]
  /\ apc' = "test" /\ aconn' = None
  /\ UNCHANGED <<main, pool, table, sockets, clients>>

-------------------------------------------------------------------------------
(***************************************************************************)
(* workerLoop.                                                             *)
(***************************************************************************)
WorkerTest(w) ==
  /\ wpc[w] = "test"
  /\ wpc' = [wpc EXCEPT ![w] = IF running_ THEN "lock" ELSE "exit"]
  /\ UNCHANGED <<main, acceptor, queue_mutex_, conns, clients>>

WorkerLock(w) ==
  /\ wpc[w] = "lock" /\ queue_mutex_ = None
  /\ queue_mutex_' = w
  /\ wpc' = [wpc EXCEPT ![w] = "check"]
  /\ UNCHANGED <<main, acceptor, conns, clients>>

\* A plausible slip: the break leaves queue_mutex_ locked.
WorkerCheckLocked(w) ==
  /\ wpc[w] = "check"
  /\ wpc' = [wpc EXCEPT ![w] = IF running_ THEN "wait" ELSE "exit"]
  /\ UNCHANGED <<main, acceptor, queue_mutex_, conns, clients>>

\* The predicate of queue_cv_.wait: !task_queue_.empty() || !running_.
WorkerCheck(w) ==
  /\ wpc[w] = "check"
  /\ wpc' = [wpc EXCEPT ![w] = IF running_ THEN "wait" ELSE "exit"]
  /\ queue_mutex_' = IF running_ THEN queue_mutex_ ELSE None
  /\ UNCHANGED <<main, acceptor, conns, clients>>

\* wait() releases queue_mutex_ and blocks in one step.
WorkerBlock(w) ==
  /\ wpc[w] = "wait"
  /\ wpc' = [wpc EXCEPT ![w] = "blocked"]
  /\ queue_mutex_' = None
  /\ UNCHANGED <<main, acceptor, conns, clients>>

SpuriousWakeup(w) ==
  /\ wpc[w] = "blocked"
  /\ wpc' = [wpc EXCEPT ![w] = "lock"]
  /\ UNCHANGED <<main, acceptor, queue_mutex_, conns, clients>>

-------------------------------------------------------------------------------
(***************************************************************************)
(* handleClient and ClientConnection.                                      *)
(***************************************************************************)
HandlerGoto(c, l) == hpc' = [hpc EXCEPT ![c] = l]

HandlerTest(c) ==
  /\ hpc[c] = "test"
  /\ HandlerGoto(c, IF running_ /\ socket_[c] = "open" THEN "recv" ELSE "remove")
  /\ UNCHANGED <<main, acceptor, pool, table, sockets, clients>>

\* ::recv(socket_) on a socket that stop() has closed meanwhile fails.
CallRecv(c) ==
  /\ hpc[c] = "recv"
  /\ HandlerGoto(c, IF socket_[c] = "open" /\ closes[c] = 0 THEN "blocked" ELSE "remove")
  /\ UNCHANGED <<main, acceptor, pool, table, sockets, clients>>

\* A plausible slip: handleClient goes on after an empty message.
ReceiveGoesOn(c) ==
  /\ hpc[c] = "blocked"
  /\ \/ \E n \in 1 .. inbox[c] :
          inbox' = [inbox EXCEPT ![c] = @ - n] /\ HandlerGoto(c, "handle")
     \/ inbox[c] = 0 /\ gone[c] /\ HandlerGoto(c, "test") /\ UNCHANGED inbox
  /\ UNCHANGED <<main, acceptor, pool, table, sockets, gone, sent>>

\* receive() returns what has arrived so far, or nothing once the client is gone.
Receive(c) ==
  /\ hpc[c] = "blocked"
  /\ \/ \E n \in 1 .. inbox[c] :
          inbox' = [inbox EXCEPT ![c] = @ - n] /\ HandlerGoto(c, "handle")
     \/ inbox[c] = 0 /\ gone[c] /\ HandlerGoto(c, "remove") /\ UNCHANGED inbox
  /\ UNCHANGED <<main, acceptor, pool, table, sockets, gone, sent>>

\* message_handler_(data, client).
HandleMessage(c) ==
  /\ hpc[c] = "handle"
  /\ HandlerGoto(c, "send")
  /\ UNCHANGED <<main, acceptor, pool, table, sockets, clients>>

\* send() returns, with true or false.
SendResponse(c) ==
  /\ hpc[c] = "send"
  /\ HandlerGoto(c, "test")
  /\ UNCHANGED <<main, acceptor, pool, table, sockets, clients>>

\* ::send without MSG_NOSIGNAL to a client that is gone: SIGPIPE ends the process,
\* the kernel closes its sockets.
BrokenPipe(c) ==
  /\ hpc[c] = "send" /\ socket_[c] = "open" /\ closes[c] = 0 /\ gone[c]
  /\ mpc' = "killed" /\ apc' = "exit" /\ aconn' = None
  /\ wpc' = [w \in Workers |-> "exit"] /\ queue_mutex_' = None
  /\ hpc' = [d \in Conns |-> "exit"]
  /\ socket_' = [d \in Conns |-> "closed"] /\ listening' = FALSE
  /\ connections_' = {} /\ stop_locked' = FALSE /\ closing' = None
  /\ UNCHANGED <<running_, closes, clients>>

RemoveConnection(c) ==
  /\ hpc[c] = "remove" /\ ~stop_locked
  /\ connections_' = connections_ \ {c}
  /\ HandlerGoto(c, "close")
  /\ UNCHANGED <<main, acceptor, pool, stop_locked, closing, sockets, clients>>

\* close() tests socket_, calls ::close and only then overwrites socket_.
CloseConnection(c) ==
  /\ hpc[c] = "close"
  /\ IF socket_[c] = "open"
     THEN closes' = [closes EXCEPT ![c] = @ + 1] /\ HandlerGoto(c, "closed")
     ELSE HandlerGoto(c, "exit") /\ UNCHANGED closes
  /\ UNCHANGED <<main, acceptor, pool, table, socket_, clients>>

ForgetSocket(c) ==
  /\ hpc[c] = "closed"
  /\ socket_' = [socket_ EXCEPT ![c] = "closed"]
  /\ HandlerGoto(c, "exit")
  /\ UNCHANGED <<main, acceptor, pool, table, closes, clients>>

-------------------------------------------------------------------------------
(***************************************************************************)
(* stop.                                                                   *)
(***************************************************************************)
StopRunning ==
  /\ mpc = "running" /\ mpc' = "close"
  /\ running_' = FALSE
  /\ UNCHANGED <<listening, acceptor, pool, conns, clients>>

CloseListener ==
  /\ mpc = "close" /\ mpc' = "joinA"
  /\ listening' = FALSE
  /\ UNCHANGED <<running_, acceptor, pool, conns, clients>>

\* A plausible slip: the accept thread is not waited for.
JoinAcceptorNot ==
  /\ mpc = "joinA" /\ mpc' = "notify"
  /\ UNCHANGED <<running_, listening, acceptor, pool, conns, clients>>

JoinAcceptor ==
  /\ mpc = "joinA" /\ apc = "exit" /\ mpc' = "notify"
  /\ UNCHANGED <<running_, listening, acceptor, pool, conns, clients>>

NotifyWorkers ==
  /\ mpc = "notify" /\ mpc' = "joinW"
  /\ wpc' = [w \in Workers |-> IF wpc[w] = "blocked" THEN "lock" ELSE wpc[w]]
  /\ UNCHANGED <<running_, listening, acceptor, queue_mutex_, conns, clients>>

JoinWorkers ==
  /\ mpc = "joinW" /\ (\A w \in Workers : wpc[w] = "exit") /\ mpc' = "lockC"
  /\ UNCHANGED <<running_, listening, acceptor, pool, conns, clients>>

\* A plausible slip: stop() closes the connections without connections_mutex_.
LockConnectionsNot ==
  /\ mpc = "lockC" /\ mpc' = "closeC"
  /\ UNCHANGED <<running_, listening, acceptor, pool, conns, clients>>

LockConnections ==
  /\ mpc = "lockC" /\ mpc' = "closeC"
  /\ stop_locked' = TRUE
  /\ UNCHANGED <<running_, listening, acceptor, pool, connections_, closing, hpc,
                 sockets, clients>>

StopCloses(c) ==
  /\ mpc = "closeC" /\ closing = None
  /\ c \in connections_ /\ socket_[c] = "open"
  /\ closes' = [closes EXCEPT ![c] = @ + 1]
  /\ closing' = c
  /\ UNCHANGED <<main, acceptor, pool, connections_, stop_locked, hpc, socket_,
                 clients>>

StopForgets ==
  /\ mpc = "closeC" /\ closing # None
  /\ socket_' = [socket_ EXCEPT ![closing] = "closed"]
  /\ closing' = None
  /\ UNCHANGED <<main, acceptor, pool, connections_, stop_locked, hpc, closes, clients>>

\* A plausible slip: stop() clears the list without closing what is on it.
ClearConnectionsOpen ==
  /\ mpc = "closeC" /\ closing = None
  /\ connections_' = {} /\ stop_locked' = FALSE
  /\ mpc' = "stopped"
  /\ UNCHANGED <<running_, listening, acceptor, pool, closing, hpc, sockets, clients>>

ClearConnections ==
  /\ mpc = "closeC" /\ closing = None
  /\ \A c \in connections_ : socket_[c] # "open"
  /\ connections_' = {} /\ stop_locked' = FALSE
  /\ mpc' = "stopped"
  /\ UNCHANGED <<running_, listening, acceptor, pool, closing, hpc, sockets, clients>>

-------------------------------------------------------------------------------
(***************************************************************************)
(* The clients.  A connection reaches the backlog as long as the listening *)
(* socket exists, which a blocked accept() keeps.                          *)
(***************************************************************************)
Connect(c) ==
  /\ socket_[c] = "none" /\ (listening \/ apc = "accept")
  /\ socket_' = [socket_ EXCEPT ![c] = "pending"]
  /\ UNCHANGED <<main, acceptor, pool, table, hpc, closes, clients>>

ClientSends(c) ==
  /\ socket_[c] # "none" /\ ~gone[c] /\ sent[c] < MaxMessages
  /\ sent' = [sent EXCEPT ![c] = @ + 1]
  /\ inbox' = [inbox EXCEPT ![c] = @ + 1]
  /\ UNCHANGED <<main, acceptor, pool, conns, gone>>

ClientCloses(c) ==
  /\ socket_[c] # "none" /\ ~gone[c]
  /\ gone' = [gone EXCEPT ![c] = TRUE]
  /\ UNCHANGED <<main, acceptor, pool, conns, inbox, sent>>

-------------------------------------------------------------------------------
AcceptorStep ==
  \/ TestRunning \/ CallAccept \/ (\E c \in Conns : Accept(c))
  \/ PushConnection \/ SpawnHandler

WorkerStep(w) == WorkerTest(w) \/ WorkerLock(w) \/ WorkerCheck(w) \/ WorkerBlock(w)

HandlerStep(c) ==
  \/ HandlerTest(c) \/ CallRecv(c) \/ Receive(c) \/ HandleMessage(c) \/ SendResponse(c)
  \/ RemoveConnection(c) \/ CloseConnection(c) \/ ForgetSocket(c)

StopStep ==
  \/ CloseListener \/ JoinAcceptor \/ NotifyWorkers \/ JoinWorkers \/ LockConnections
  \/ (\E c \in Conns : StopCloses(c)) \/ StopForgets \/ ClearConnections

ClientStep(c) == Connect(c) \/ ClientSends(c) \/ ClientCloses(c)

Next ==
  \/ InitServer \/ InitThrows \/ StartServer \/ StopRunning \/ StopStep
  \/ AcceptorStep
  \/ \E w \in Workers : WorkerStep(w) \/ SpuriousWakeup(w)
  \/ \E c \in Conns : HandlerStep(c) \/ BrokenPipe(c) \/ ClientStep(c)

Spec == Init /\ [][Next]_vars

\* The scheduler runs every thread; clients do as they like, and nothing makes
\* a wait() return but a notification.
FairSpec ==
  /\ Spec
  /\ WF_vars(StopStep) /\ WF_vars(AcceptorStep)
  /\ \A w \in Workers : WF_vars(WorkerStep(w))
  /\ \A c \in Conns : WF_vars(HandlerStep(c))

-------------------------------------------------------------------------------
(***************************************************************************)
(* No socket is closed twice.  close() is not atomic and both stop() and   *)
(* the handler call it, but stop() does so under connections_mutex_ and    *)
(* only for listed connections, and the handler takes itself off the list  *)
(* first.                                                                  *)
(***************************************************************************)
ClosedOnce == \A c \in Conns : closes[c] <= 1

(***************************************************************************)
(* Once stop() has returned, no accepted socket stays open but for a       *)
(* handler that is just closing it: the accept thread, joined before the   *)
(* connections are closed, adds none behind stop()'s back.                 *)
(***************************************************************************)
StopClosesAll ==
  mpc = "stopped" =>
    \A c \in Conns : socket_[c] = "open" => hpc[c] \in {"close", "closed"}

(***************************************************************************)
(* A client's leaving frees its connection: what accept() returned for it  *)
(* is closed and off the list in the end, stop() or not (handleClient).    *)
(***************************************************************************)
LeaversFreed ==
  \A c \in Conns :
    (gone[c] /\ socket_[c] = "open")
      ~> (socket_[c] = "closed" /\ c \notin connections_)

(***************************************************************************)
(* Once stop() has returned, no handler begins to wait for a message: the  *)
(* detached handlers can each handle at most the one they were already     *)
(* waiting for, or had received.                                           *)
(***************************************************************************)
NoNewWaits ==
  [][mpc = "stopped" => \A c \in Conns : hpc'[c] = "blocked" => hpc[c] = "blocked"]_vars

(***************************************************************************)
(* stop() returns, but for two ways to wait for ever: joining an accept    *)
(* thread that was in accept() when the socket was closed, with no client  *)
(* to wake it, or joining a worker that went to sleep after notify_all.    *)
(* Whatever else the threads do, none of them keeps stop() from ending.    *)
(***************************************************************************)
Stopping == mpc \in {"close", "joinA", "notify", "joinW", "lockC", "closeC"}

HangsInAccept == mpc = "joinA" /\ apc = "accept" /\ \A c \in Conns : socket_[c] # "pending"

HangsOnWorker == mpc = "joinW" /\ \E w \in Workers : wpc[w] = "blocked"

StopHangsOnlyThere == <>[](Stopping => HangsInAccept \/ HangsOnWorker)

-------------------------------------------------------------------------------
(***************************************************************************)
(* A statement of the repository that the code does not keep.              *)
(***************************************************************************)

\* tcp_server.cpp:151, "notify all worker threads", and 154, "wait for the worker
\* threads to end": no worker sleeps through the notification.
WorkersJoined == mpc = "joinW" ~> mpc # "joinW"
===============================================================================
