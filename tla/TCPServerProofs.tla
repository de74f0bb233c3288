---------------------------- MODULE TCPServerProofs ---------------------------
(***************************************************************************)
(* For every number of connections, workers and messages: the state of     *)
(* TCPServer stays of its types, no socket is closed twice, and stop()     *)
(* leaves no accepted socket open behind its back.                         *)
(***************************************************************************)
EXTENDS TCPServer, TLAPS

\* A handler inside its loop, or on its way out and still listed.
Serving == {"test", "recv", "blocked", "handle", "send", "remove"}

\* Where stop() is, what it has waited for and what it holds.
StopInv ==
  /\ mpc = "new" => \A w \in Workers : wpc[w] = "none"
  /\ mpc \in {"new", "inited"} => apc = "none"
  /\ mpc \in {"notify", "joinW", "lockC", "closeC", "stopped"} => apc = "exit"
  /\ stop_locked <=> mpc = "closeC"
  /\ mpc = "stopped" => connections_ = {}

\* The connection the accept thread sets up belongs to it alone.
AcceptInv ==
  /\ apc \in {"push", "spawn"} =>
       aconn \in Conns /\ socket_[aconn] = "open" /\ hpc[aconn] = "none"
  /\ apc = "spawn" => aconn \in connections_

\* Who is responsible for an open socket: the accept thread, the list or, off
\* the list, the handler that is closing it.
OwnerInv ==
  \A c \in Conns :
    /\ socket_[c] \in {"none", "pending"} => hpc[c] = "none" /\ c \notin connections_
    /\ socket_[c] = "open" /\ hpc[c] = "none" => apc \in {"push", "spawn"} /\ c = aconn
    /\ socket_[c] = "open" /\ hpc[c] \in Serving => c \in connections_
    /\ c \in connections_ => hpc[c] \notin {"close", "closed", "exit"}
    /\ hpc[c] = "closed" => socket_[c] = "open"
    /\ hpc[c] = "exit" => socket_[c] = "closed"

\* A socket that ::close was called on is marked so, or its closer is about to.
CloseInv ==
  /\ closing # None =>
       mpc = "closeC" /\ closing \in connections_ /\ socket_[closing] = "open"
  /\ \A c \in Conns :
       closes[c] # 0 => socket_[c] = "closed" \/ hpc[c] = "closed" \/ closing = c

InboxInv == \A c \in Conns : inbox[c] <= sent[c]

Inv ==
  /\ ServerTypeOK
  /\ ClosedOnce
  /\ StopInv
  /\ AcceptInv
  /\ OwnerInv
  /\ CloseInv
  /\ InboxInv

-------------------------------------------------------------------------------
LEMMA InitInv == Init => Inv
<1> SUFFICES ASSUME Init PROVE Inv
  OBVIOUS
<1> USE TCPServerAssumption DEF TCPServerAssumption, Init
<1>1. ServerTypeOK
  <2>1. gone \in [Conns -> BOOLEAN]
    BY Zenon
  <2>2. {running_, listening, stop_locked} \subseteq BOOLEAN
    BY Zenon
  <2>3. QED
    BY <2>1, <2>2 DEF ServerTypeOK
<1>2. ClosedOnce /\ StopInv
  BY DEF ClosedOnce, StopInv
<1>3. AcceptInv /\ OwnerInv /\ CloseInv /\ InboxInv
  BY DEF AcceptInv, OwnerInv, CloseInv, InboxInv, Serving
<1>4. QED
  BY <1>1, <1>2, <1>3 DEF Inv

\* init and start.
LEMMA MainKeeps ==
  ASSUME Inv, InitServer \/ InitThrows \/ StartServer
  PROVE  Inv'
<1> USE TCPServerAssumption DEF TCPServerAssumption, Inv
<1>1. CASE InitServer
  <2>1. ServerTypeOK'
    BY <1>1 DEF ServerTypeOK, StopInv, InitServer, acceptor, clients, conns, sockets,
         table
  <2>2. StopInv'
    BY <1>1 DEF StopInv, InitServer, acceptor, conns, table
  <2>3. CloseInv'
    BY <1>1 DEF CloseInv, InitServer, conns, sockets, table
  <2>4. QED
    BY <1>1, <2>1, <2>2, <2>3 DEF ClosedOnce, AcceptInv, OwnerInv, InboxInv, Serving,
         InitServer, acceptor, clients, conns, sockets, table
<1>2. CASE InitThrows
  <2>1. ServerTypeOK'
    BY <1>2 DEF ServerTypeOK, InitThrows, acceptor, clients, conns, pool, sockets,
         table
  <2>2. StopInv'
    BY <1>2 DEF StopInv, InitThrows, conns, table
  <2>3. CloseInv'
    BY <1>2 DEF CloseInv, InitThrows, conns, sockets, table
  <2>4. QED
    BY <1>2, <2>1, <2>2, <2>3 DEF ClosedOnce, AcceptInv, OwnerInv, InboxInv, Serving,
         InitThrows, acceptor, clients, conns, pool, sockets, table
<1>3. CASE StartServer
  <2>1. ServerTypeOK'
    BY <1>3 DEF ServerTypeOK, StartServer, clients, conns, pool, sockets, table
  <2>2. StopInv'
    BY <1>3 DEF StopInv, StartServer, conns, table
  <2>3. AcceptInv'
    BY <1>3 DEF AcceptInv, StartServer
  <2>4. OwnerInv'
    BY <1>3 DEF OwnerInv, StopInv, Serving, StartServer, conns, sockets, table
  <2>5. CloseInv'
    BY <1>3 DEF CloseInv, StartServer, conns, sockets, table
  <2>6. QED
    BY <1>3, <2>1, <2>2, <2>3, <2>4, <2>5 DEF ClosedOnce, InboxInv, StartServer,
         clients, conns, pool, sockets, table
<1>4. QED
  BY <1>1, <1>2, <1>3

\* stop().  It closes listed sockets only, under connections_mutex_, after the accept
\* thread has ended.
LEMMA StopKeeps ==
  ASSUME Inv, StopRunning \/ StopStep
  PROVE  Inv'
<1> USE TCPServerAssumption DEF TCPServerAssumption, Inv
<1>1. CASE StopRunning
  <2>1. ServerTypeOK'
    BY <1>1 DEF ServerTypeOK, StopRunning, acceptor, clients, conns, pool, sockets,
         table
  <2>2. StopInv'
    BY <1>1 DEF StopInv, StopRunning, conns, table
  <2>3. CloseInv'
    BY <1>1 DEF CloseInv, StopRunning, conns, sockets, table
  <2>4. QED
    BY <1>1, <2>1, <2>2, <2>3 DEF ClosedOnce, AcceptInv, OwnerInv, InboxInv, Serving,
         StopRunning, acceptor, clients, conns, pool, sockets, table
<1>2. CASE CloseListener
  <2>1. ServerTypeOK'
    BY <1>2 DEF ServerTypeOK, CloseListener, acceptor, clients, conns, pool, sockets,
         table
  <2>2. StopInv'
    BY <1>2 DEF StopInv, CloseListener, conns, table
  <2>3. CloseInv'
    BY <1>2 DEF CloseInv, CloseListener, conns, sockets, table
  <2>4. QED
    BY <1>2, <2>1, <2>2, <2>3 DEF ClosedOnce, AcceptInv, OwnerInv, InboxInv, Serving,
         CloseListener, acceptor, clients, conns, pool, sockets, table
<1>3. CASE JoinAcceptor
  <2>1. ServerTypeOK'
    BY <1>3 DEF ServerTypeOK, JoinAcceptor, acceptor, clients, conns, pool, sockets,
         table
  <2>2. StopInv'
    BY <1>3 DEF StopInv, JoinAcceptor, acceptor, conns, table
  <2>3. CloseInv'
    BY <1>3 DEF CloseInv, JoinAcceptor, conns, sockets, table
  <2>4. QED
    BY <1>3, <2>1, <2>2, <2>3 DEF ClosedOnce, AcceptInv, OwnerInv, InboxInv, Serving,
         JoinAcceptor, acceptor, clients, conns, pool, sockets, table
<1>4. CASE NotifyWorkers
  <2>1. ServerTypeOK'
    BY <1>4 DEF ServerTypeOK, NotifyWorkers, acceptor, clients, conns, sockets, table
  <2>2. StopInv'
    BY <1>4 DEF StopInv, NotifyWorkers, acceptor, conns, table
  <2>3. CloseInv'
    BY <1>4 DEF CloseInv, NotifyWorkers, conns, sockets, table
  <2>4. QED
    BY <1>4, <2>1, <2>2, <2>3 DEF ClosedOnce, AcceptInv, OwnerInv, InboxInv, Serving,
         NotifyWorkers, acceptor, clients, conns, sockets, table
<1>5. CASE JoinWorkers
  <2>1. ServerTypeOK'
    BY <1>5 DEF ServerTypeOK, JoinWorkers, acceptor, clients, conns, pool, sockets,
         table
  <2>2. StopInv'
    BY <1>5 DEF StopInv, JoinWorkers, acceptor, conns, table
  <2>3. CloseInv'
    BY <1>5 DEF CloseInv, JoinWorkers, conns, sockets, table
  <2>4. QED
    BY <1>5, <2>1, <2>2, <2>3 DEF ClosedOnce, AcceptInv, OwnerInv, InboxInv, Serving,
         JoinWorkers, acceptor, clients, conns, pool, sockets, table
<1>6. CASE LockConnections
  <2>1. ServerTypeOK'
    BY <1>6 DEF ServerTypeOK, LockConnections, acceptor, clients, pool, sockets
  <2>2. StopInv'
    BY <1>6 DEF StopInv, LockConnections, acceptor
  <2>3. CloseInv'
    BY <1>6 DEF CloseInv, LockConnections, sockets
  <2>4. QED
    BY <1>6, <2>1, <2>2, <2>3 DEF ClosedOnce, AcceptInv, OwnerInv, InboxInv, Serving,
         LockConnections, acceptor, clients, pool, sockets
<1>7. ASSUME NEW c \in Conns, StopCloses(c) PROVE Inv'
  <2>1. ServerTypeOK'
    BY <1>7 DEF ServerTypeOK, OwnerInv, CloseInv, Serving, StopCloses, acceptor,
         clients, main, pool
  <2>2. ClosedOnce'
    BY <1>7 DEF ClosedOnce, OwnerInv, CloseInv, Serving, StopCloses
  <2>3. CloseInv'
    BY <1>7 DEF CloseInv, StopCloses, main
  <2>4. QED
    BY <1>7, <2>1, <2>2, <2>3 DEF StopInv, AcceptInv, OwnerInv, InboxInv, Serving,
         StopCloses, acceptor, clients, main, pool
<1>8. CASE StopForgets
  <2>1. ServerTypeOK'
    BY <1>8 DEF ServerTypeOK, StopForgets, acceptor, clients, main, pool
  <2>2. AcceptInv'
    BY <1>8 DEF AcceptInv, StopInv, StopForgets, acceptor
  <2>3. OwnerInv'
    BY <1>8 DEF OwnerInv, CloseInv, Serving, StopForgets, acceptor
  <2>4. CloseInv'
    BY <1>8 DEF CloseInv, ServerTypeOK, StopForgets
  <2>5. QED
    BY <1>8, <2>1, <2>2, <2>3, <2>4 DEF ClosedOnce, StopInv, InboxInv, StopForgets,
         acceptor, clients, main, pool
<1>9. CASE ClearConnections
  <2>1. ServerTypeOK'
    BY <1>9 DEF ServerTypeOK, ClearConnections, acceptor, clients, pool, sockets
  <2>2. StopInv'
    BY <1>9 DEF StopInv, ClearConnections, acceptor
  <2>3. AcceptInv'
    BY <1>9 DEF AcceptInv, StopInv, ClearConnections, acceptor
  <2>4. OwnerInv'
    BY <1>9 DEF OwnerInv, Serving, ClearConnections, acceptor, sockets
  <2>5. CloseInv'
    BY <1>9 DEF CloseInv, ClearConnections, sockets
  <2>6. QED
    BY <1>9, <2>1, <2>2, <2>3, <2>4, <2>5 DEF ClosedOnce, InboxInv, ClearConnections,
         acceptor, clients, pool, sockets
<1>10. QED
  BY <1>1, <1>2, <1>3, <1>4, <1>5, <1>6, <1>7, <1>8, <1>9 DEF StopStep

\* The accept thread hands its connection first to the list, then to the handler.
LEMMA AcceptorKeeps ==
  ASSUME Inv, AcceptorStep
  PROVE  Inv'
<1> USE TCPServerAssumption DEF TCPServerAssumption, Inv
<1>1. CASE TestRunning
  <2>1. ServerTypeOK'
    BY <1>1 DEF ServerTypeOK, TestRunning, clients, conns, main, pool, sockets, table
  <2>2. StopInv'
    BY <1>1 DEF StopInv, TestRunning, conns, main, table
  <2>3. AcceptInv'
    BY <1>1 DEF AcceptInv, TestRunning
  <2>4. OwnerInv'
    BY <1>1 DEF OwnerInv, Serving, TestRunning, conns, sockets, table
  <2>5. QED
    BY <1>1, <2>1, <2>2, <2>3, <2>4 DEF ClosedOnce, CloseInv, InboxInv, TestRunning,
         clients, conns, main, pool, sockets, table
<1>2. CASE CallAccept
  <2>1. ServerTypeOK'
    BY <1>2 DEF ServerTypeOK, CallAccept, clients, conns, main, pool, sockets, table
  <2>2. StopInv'
    BY <1>2 DEF StopInv, CallAccept, conns, main, table
  <2>3. AcceptInv'
    BY <1>2 DEF AcceptInv, CallAccept
  <2>4. OwnerInv'
    BY <1>2 DEF OwnerInv, Serving, CallAccept, conns, sockets, table
  <2>5. QED
    BY <1>2, <2>1, <2>2, <2>3, <2>4 DEF ClosedOnce, CloseInv, InboxInv, CallAccept,
         clients, conns, main, pool, sockets, table
<1>3. ASSUME NEW c \in Conns, Accept(c) PROVE Inv'
  <2>1. ServerTypeOK'
    BY <1>3 DEF ServerTypeOK, Accept, clients, main, pool, table
  <2>2. StopInv'
    BY <1>3 DEF StopInv, Accept, main, table
  <2>3. AcceptInv'
    BY <1>3 DEF AcceptInv, ServerTypeOK, OwnerInv, Serving, Accept
  <2>4. OwnerInv'
    BY <1>3 DEF OwnerInv, Serving, Accept, table
  <2>5. CloseInv'
    BY <1>3 DEF CloseInv, Accept, main, table
  <2>6. QED
    BY <1>3, <2>1, <2>2, <2>3, <2>4, <2>5 DEF ClosedOnce, InboxInv, Accept, clients,
         main, pool, table
<1>4. CASE PushConnection
  <2>1. ServerTypeOK'
    BY <1>4 DEF ServerTypeOK, AcceptInv, PushConnection, clients, main, pool, sockets
  <2>2. StopInv'
    BY <1>4 DEF StopInv, PushConnection, main
  <2>3. AcceptInv'
    BY <1>4 DEF AcceptInv, PushConnection, sockets
  <2>4. OwnerInv'
    BY <1>4 DEF OwnerInv, AcceptInv, Serving, PushConnection, sockets
  <2>5. CloseInv'
    BY <1>4 DEF CloseInv, PushConnection, main, sockets
  <2>6. QED
    BY <1>4, <2>1, <2>2, <2>3, <2>4, <2>5 DEF ClosedOnce, InboxInv, PushConnection,
         clients, main, pool, sockets
<1>5. CASE SpawnHandler
  <2>1. ServerTypeOK'
    BY <1>5 DEF ServerTypeOK, SpawnHandler, clients, main, pool, sockets, table
  <2>2. StopInv'
    BY <1>5 DEF StopInv, SpawnHandler, main, table
  <2>3. AcceptInv'
    BY <1>5 DEF AcceptInv, SpawnHandler
  <2>4. OwnerInv'
    BY <1>5 DEF OwnerInv, ServerTypeOK, AcceptInv, Serving, SpawnHandler, sockets,
         table
  <2>5. CloseInv'
    BY <1>5 DEF CloseInv, AcceptInv, SpawnHandler, main, sockets, table
  <2>6. QED
    BY <1>5, <2>1, <2>2, <2>3, <2>4, <2>5 DEF ClosedOnce, InboxInv, SpawnHandler,
         clients, main, pool, sockets, table
<1>6. QED
  BY <1>1, <1>2, <1>3, <1>4, <1>5 DEF AcceptorStep

\* The workers touch nothing but their queue's mutex.
LEMMA WorkerKeeps ==
  ASSUME Inv, NEW w \in Workers, WorkerStep(w) \/ SpuriousWakeup(w)
  PROVE  Inv'
<1> USE TCPServerAssumption DEF TCPServerAssumption, Inv
<1>1. CASE WorkerTest(w)
  <2>1. ServerTypeOK'
    BY <1>1 DEF ServerTypeOK, WorkerTest, acceptor, clients, conns, main, sockets,
         table
  <2>2. StopInv'
    BY <1>1 DEF StopInv, WorkerTest, acceptor, conns, main, table
  <2>3. QED
    BY <1>1, <2>1, <2>2 DEF ClosedOnce, AcceptInv, OwnerInv, CloseInv, InboxInv,
         Serving, WorkerTest, acceptor, clients, conns, main, sockets, table
<1>2. CASE WorkerLock(w)
  <2>1. ServerTypeOK'
    BY <1>2 DEF ServerTypeOK, WorkerLock, acceptor, clients, conns, main, sockets,
         table
  <2>2. StopInv'
    BY <1>2 DEF StopInv, WorkerLock, acceptor, conns, main, table
  <2>3. QED
    BY <1>2, <2>1, <2>2 DEF ClosedOnce, AcceptInv, OwnerInv, CloseInv, InboxInv,
         Serving, WorkerLock, acceptor, clients, conns, main, sockets, table
<1>3. CASE WorkerCheck(w)
  <2>1. ServerTypeOK'
    BY <1>3 DEF ServerTypeOK, WorkerCheck, acceptor, clients, conns, main, sockets,
         table
  <2>2. StopInv'
    BY <1>3 DEF StopInv, WorkerCheck, acceptor, conns, main, table
  <2>3. QED
    BY <1>3, <2>1, <2>2 DEF ClosedOnce, AcceptInv, OwnerInv, CloseInv, InboxInv,
         Serving, WorkerCheck, acceptor, clients, conns, main, sockets, table
<1>4. CASE WorkerBlock(w)
  <2>1. ServerTypeOK'
    BY <1>4 DEF ServerTypeOK, WorkerBlock, acceptor, clients, conns, main, sockets,
         table
  <2>2. StopInv'
    BY <1>4 DEF StopInv, WorkerBlock, acceptor, conns, main, table
  <2>3. QED
    BY <1>4, <2>1, <2>2 DEF ClosedOnce, AcceptInv, OwnerInv, CloseInv, InboxInv,
         Serving, WorkerBlock, acceptor, clients, conns, main, sockets, table
<1>5. CASE SpuriousWakeup(w)
  <2>1. ServerTypeOK'
    BY <1>5 DEF ServerTypeOK, SpuriousWakeup, acceptor, clients, conns, main, sockets,
         table
  <2>2. StopInv'
    BY <1>5 DEF StopInv, SpuriousWakeup, acceptor, conns, main, table
  <2>3. QED
    BY <1>5, <2>1, <2>2 DEF ClosedOnce, AcceptInv, OwnerInv, CloseInv, InboxInv,
         Serving, SpuriousWakeup, acceptor, clients, conns, main, sockets, table
<1>6. QED
  BY <1>1, <1>2, <1>3, <1>4, <1>5 DEF WorkerStep

\* The handlers.  A handler takes itself off the list before it closes its socket.
LEMMA HandlerKeeps ==
  ASSUME Inv, NEW c \in Conns, HandlerStep(c) \/ BrokenPipe(c)
  PROVE  Inv'
<1> USE TCPServerAssumption DEF TCPServerAssumption, Inv
<1>1. CASE HandlerTest(c)
  <2>1. ServerTypeOK'
    BY <1>1 DEF ServerTypeOK, HandlerTest, HandlerGoto, acceptor, clients, main, pool,
         sockets, table
  <2>2. AcceptInv'
    BY <1>1 DEF AcceptInv, HandlerTest, HandlerGoto, acceptor, sockets, table
  <2>3. OwnerInv'
    BY <1>1 DEF OwnerInv, Serving, HandlerTest, HandlerGoto, acceptor, sockets, table
  <2>4. CloseInv'
    BY <1>1 DEF CloseInv, HandlerTest, HandlerGoto, main, sockets, table
  <2>5. QED
    BY <1>1, <2>1, <2>2, <2>3, <2>4 DEF ClosedOnce, StopInv, InboxInv, HandlerTest,
         acceptor, clients, main, pool, sockets, table
<1>2. CASE CallRecv(c)
  <2>1. ServerTypeOK'
    BY <1>2 DEF ServerTypeOK, CallRecv, HandlerGoto, acceptor, clients, main, pool,
         sockets, table
  <2>2. AcceptInv'
    BY <1>2 DEF AcceptInv, CallRecv, HandlerGoto, acceptor, sockets, table
  <2>3. OwnerInv'
    BY <1>2 DEF OwnerInv, Serving, CallRecv, HandlerGoto, acceptor, sockets, table
  <2>4. CloseInv'
    BY <1>2 DEF CloseInv, CallRecv, HandlerGoto, main, sockets, table
  <2>5. QED
    BY <1>2, <2>1, <2>2, <2>3, <2>4 DEF ClosedOnce, StopInv, InboxInv, CallRecv,
         acceptor, clients, main, pool, sockets, table
<1>3. CASE Receive(c)
  <2>1. ServerTypeOK'
    BY <1>3 DEF ServerTypeOK, Receive, HandlerGoto, acceptor, main, pool, sockets,
         table
  <2>2. AcceptInv'
    BY <1>3 DEF AcceptInv, ServerTypeOK, Receive, HandlerGoto, acceptor, sockets,
         table
  <2>3. OwnerInv'
    BY <1>3 DEF OwnerInv, ServerTypeOK, Serving, Receive, HandlerGoto, acceptor,
         sockets, table
  <2>4. CloseInv'
    BY <1>3 DEF CloseInv, ServerTypeOK, Receive, HandlerGoto, main, sockets, table
  <2>5. InboxInv'
    BY <1>3 DEF InboxInv, ServerTypeOK, Receive, HandlerGoto
  <2>6. QED
    BY <1>3, <2>1, <2>2, <2>3, <2>4, <2>5 DEF ClosedOnce, StopInv, Receive, acceptor,
         main, pool, sockets, table
<1>4. CASE HandleMessage(c)
  <2>1. ServerTypeOK'
    BY <1>4 DEF ServerTypeOK, HandleMessage, HandlerGoto, acceptor, clients, main,
         pool, sockets, table
  <2>2. AcceptInv'
    BY <1>4 DEF AcceptInv, HandleMessage, HandlerGoto, acceptor, sockets, table
  <2>3. OwnerInv'
    BY <1>4 DEF OwnerInv, Serving, HandleMessage, HandlerGoto, acceptor, sockets,
         table
  <2>4. CloseInv'
    BY <1>4 DEF CloseInv, HandleMessage, HandlerGoto, main, sockets, table
  <2>5. QED
    BY <1>4, <2>1, <2>2, <2>3, <2>4 DEF ClosedOnce, StopInv, InboxInv, HandleMessage,
         acceptor, clients, main, pool, sockets, table
<1>5. CASE SendResponse(c)
  <2>1. ServerTypeOK'
    BY <1>5 DEF ServerTypeOK, SendResponse, HandlerGoto, acceptor, clients, main,
         pool, sockets, table
  <2>2. AcceptInv'
    BY <1>5 DEF AcceptInv, SendResponse, HandlerGoto, acceptor, sockets, table
  <2>3. OwnerInv'
    BY <1>5 DEF OwnerInv, Serving, SendResponse, HandlerGoto, acceptor, sockets, table
  <2>4. CloseInv'
    BY <1>5 DEF CloseInv, SendResponse, HandlerGoto, main, sockets, table
  <2>5. QED
    BY <1>5, <2>1, <2>2, <2>3, <2>4 DEF ClosedOnce, StopInv, InboxInv, SendResponse,
         acceptor, clients, main, pool, sockets, table
<1>6. CASE RemoveConnection(c)
  <2>1. ServerTypeOK'
    BY <1>6 DEF ServerTypeOK, RemoveConnection, HandlerGoto, acceptor, clients, main,
         pool, sockets
  <2>2. StopInv'
    BY <1>6 DEF StopInv, RemoveConnection, HandlerGoto, acceptor, main, pool
  <2>3. AcceptInv'
    BY <1>6 DEF AcceptInv, RemoveConnection, HandlerGoto, acceptor, sockets
  <2>4. OwnerInv'
    BY <1>6 DEF OwnerInv, ServerTypeOK, Serving, RemoveConnection, HandlerGoto,
         acceptor, sockets
  <2>5. CloseInv'
    BY <1>6 DEF CloseInv, StopInv, RemoveConnection, HandlerGoto, sockets
  <2>6. QED
    BY <1>6, <2>1, <2>2, <2>3, <2>4, <2>5 DEF ClosedOnce, InboxInv, RemoveConnection,
         acceptor, clients, main, pool, sockets
<1>7. CASE CloseConnection(c)
  <2>1. ServerTypeOK'
    BY <1>7 DEF ServerTypeOK, OwnerInv, CloseInv, Serving, CloseConnection,
         HandlerGoto, acceptor, clients, main, pool, table
  <2>2. ClosedOnce'
    BY <1>7 DEF ClosedOnce, ServerTypeOK, OwnerInv, CloseInv, Serving,
         CloseConnection, HandlerGoto
  <2>3. AcceptInv'
    BY <1>7 DEF AcceptInv, ServerTypeOK, CloseConnection, HandlerGoto, acceptor, table
  <2>4. OwnerInv'
    BY <1>7 DEF OwnerInv, ServerTypeOK, Serving, CloseConnection, HandlerGoto,
         acceptor, table
  <2>5. CloseInv'
    BY <1>7 DEF CloseInv, ServerTypeOK, CloseConnection, HandlerGoto, main, table
  <2>6. QED
    BY <1>7, <2>1, <2>2, <2>3, <2>4, <2>5 DEF StopInv, InboxInv, CloseConnection,
         acceptor, clients, main, pool, table
<1>8. CASE ForgetSocket(c)
  <2>1. ServerTypeOK'
    BY <1>8 DEF ServerTypeOK, ForgetSocket, HandlerGoto, acceptor, clients, main,
         pool, table
  <2>2. AcceptInv'
    BY <1>8 DEF AcceptInv, ForgetSocket, HandlerGoto, acceptor, table
  <2>3. OwnerInv'
    BY <1>8 DEF OwnerInv, ServerTypeOK, Serving, ForgetSocket, HandlerGoto, acceptor,
         table
  <2>4. CloseInv'
    BY <1>8 DEF CloseInv, ServerTypeOK, OwnerInv, Serving, ForgetSocket, HandlerGoto,
         main, table
  <2>5. QED
    BY <1>8, <2>1, <2>2, <2>3, <2>4 DEF ClosedOnce, StopInv, InboxInv, ForgetSocket,
         acceptor, clients, main, pool, table
<1>9. CASE BrokenPipe(c)
  <2>1. ServerTypeOK'
    BY <1>9 DEF ServerTypeOK, BrokenPipe, clients
  <2>2. StopInv'
    BY <1>9 DEF StopInv, BrokenPipe
  <2>3. AcceptInv'
    BY <1>9 DEF AcceptInv, BrokenPipe
  <2>4. OwnerInv'
    BY <1>9 DEF OwnerInv, Serving, BrokenPipe
  <2>5. CloseInv'
    BY <1>9 DEF CloseInv, BrokenPipe
  <2>6. QED
    BY <1>9, <2>1, <2>2, <2>3, <2>4, <2>5 DEF ClosedOnce, InboxInv, BrokenPipe,
         clients
<1>10. QED
  BY <1>1, <1>2, <1>3, <1>4, <1>5, <1>6, <1>7, <1>8, <1>9 DEF HandlerStep

\* What clients do.
LEMMA ClientKeeps ==
  ASSUME Inv, NEW c \in Conns, ClientStep(c)
  PROVE  Inv'
<1> USE TCPServerAssumption DEF TCPServerAssumption, Inv
<1>1. CASE Connect(c)
  <2>1. ServerTypeOK'
    BY <1>1 DEF ServerTypeOK, Connect, acceptor, clients, main, pool, table
  <2>2. AcceptInv'
    BY <1>1 DEF AcceptInv, Connect, acceptor, table
  <2>3. OwnerInv'
    BY <1>1 DEF OwnerInv, Serving, Connect, acceptor, table
  <2>4. CloseInv'
    BY <1>1 DEF CloseInv, Connect, main, table
  <2>5. QED
    BY <1>1, <2>1, <2>2, <2>3, <2>4 DEF ClosedOnce, StopInv, InboxInv, Connect,
         acceptor, clients, main, pool, table
<1>2. CASE ClientSends(c)
  <2>1. ServerTypeOK'
    BY <1>2 DEF ServerTypeOK, InboxInv, ClientSends, acceptor, conns, main, pool,
         sockets, table
  <2>2. InboxInv'
    BY <1>2 DEF InboxInv, ServerTypeOK, ClientSends
  <2>3. QED
    BY <1>2, <2>1, <2>2 DEF ClosedOnce, StopInv, AcceptInv, OwnerInv, CloseInv,
         Serving, ClientSends, acceptor, conns, main, pool, sockets, table
<1>3. CASE ClientCloses(c)
  <2>1. ServerTypeOK'
    BY <1>3 DEF ServerTypeOK, ClientCloses, acceptor, conns, main, pool, sockets,
         table
  <2>2. QED
    BY <1>3, <2>1 DEF ClosedOnce, StopInv, AcceptInv, OwnerInv, CloseInv, InboxInv,
         Serving, ClientCloses, acceptor, conns, main, pool, sockets, table
<1>4. QED
  BY <1>1, <1>2, <1>3 DEF ClientStep

LEMMA NextInv == Inv /\ [Next]_vars => Inv'
<1> SUFFICES ASSUME Inv, [Next]_vars PROVE Inv'
  OBVIOUS
<1>1. CASE InitServer \/ InitThrows \/ StartServer
  BY <1>1, MainKeeps
<1>2. CASE StopRunning \/ StopStep
  BY <1>2, StopKeeps
<1>3. CASE AcceptorStep
  BY <1>3, AcceptorKeeps
<1>4. ASSUME NEW w \in Workers, WorkerStep(w) \/ SpuriousWakeup(w) PROVE Inv'
  BY <1>4, WorkerKeeps
<1>5. ASSUME NEW c \in Conns, HandlerStep(c) \/ BrokenPipe(c) PROVE Inv'
  BY <1>5, HandlerKeeps
<1>6. ASSUME NEW c \in Conns, ClientStep(c) PROVE Inv'
  BY <1>6, ClientKeeps
<1>7. CASE UNCHANGED vars
  BY <1>7 DEF vars, main, acceptor, pool, conns, table, sockets, clients, Inv,
              ServerTypeOK, ClosedOnce, StopInv, AcceptInv, OwnerInv, CloseInv, InboxInv
<1>8. QED
  BY <1>1, <1>2, <1>3, <1>4, <1>5, <1>6, <1>7 DEF Next

LEMMA InvHolds == Spec => []Inv
  BY InitInv, NextInv, PTL DEF Spec

-------------------------------------------------------------------------------
(***************************************************************************)
(* The state of TCPServer stays of its types; in particular queue_mutex_   *)
(* is held only by a worker that is at the predicate of its wait.          *)
(***************************************************************************)
THEOREM TypeCorrect == Spec => []ServerTypeOK
<1>1. Inv => ServerTypeOK
  BY DEF Inv
<1>2. QED
  BY <1>1, InvHolds, PTL

(***************************************************************************)
(* No socket is closed twice, whatever the number of connections and       *)
(* wherever stop() and the handlers meet in ClientConnection::close.       *)
(***************************************************************************)
THEOREM SocketsClosedOnce == Spec => []ClosedOnce
<1>1. Inv => ClosedOnce
  BY DEF Inv
<1>2. QED
  BY <1>1, InvHolds, PTL

(***************************************************************************)
(* When stop() has returned, every accepted socket is closed or its        *)
(* handler is closing it: of an open one the accept thread, which has      *)
(* ended, or the list, which is empty, would have to be the owner.         *)
(***************************************************************************)
THEOREM StopLeavesNoneOpen == Spec => []StopClosesAll
<1>1. Inv => StopClosesAll
  BY DEF Inv, StopClosesAll, ServerTypeOK, StopInv, OwnerInv, Serving
<1>2. QED
  BY <1>1, InvHolds, PTL
(***************************************************************************)
(* Once stop() has returned no handler begins to wait for a message: of    *)
(* those on their way to recv() each finds its socket closed.              *)
(***************************************************************************)
THEOREM StoppedHandlersEnd == Spec => NoNewWaits
<1> DEFINE NoWait == mpc = "stopped" =>
                       \A c \in Conns : hpc'[c] = "blocked" => hpc[c] = "blocked"
<1>1. Inv /\ [Next]_vars => [NoWait]_vars
  <2> SUFFICES ASSUME Inv, Next, mpc = "stopped",
                      NEW c \in Conns, hpc'[c] = "blocked"
               PROVE  hpc[c] = "blocked"
    BY DEF vars
  <2>1. ASSUME NEW d \in Conns, CallRecv(d) PROVE hpc[c] = "blocked"
    BY <2>1 DEF Inv, ServerTypeOK, StopInv, OwnerInv, Serving, CallRecv, HandlerGoto
  <2>2. ASSUME NEW d \in Conns, HandlerStep(d) \/ BrokenPipe(d) PROVE hpc[c] = "blocked"
    BY <2>1, <2>2 DEF Inv, ServerTypeOK, HandlerStep, HandlerTest, Receive, HandleMessage,
         SendResponse, RemoveConnection, CloseConnection, ForgetSocket, BrokenPipe,
         HandlerGoto
  <2>3. ASSUME NEW d \in Conns, ClientStep(d) PROVE hpc[c] = "blocked"
    BY <2>3 DEF ClientStep, Connect, ClientSends, ClientCloses, conns
  <2>4. ASSUME NEW w \in Workers, WorkerStep(w) \/ SpuriousWakeup(w)
        PROVE  hpc[c] = "blocked"
    BY <2>4 DEF WorkerStep, WorkerTest, WorkerLock, WorkerCheck, WorkerBlock,
         SpuriousWakeup, conns
  <2>5. ~(InitServer \/ InitThrows \/ StartServer \/ StopRunning \/ StopStep)
    BY DEF InitServer, InitThrows, StartServer, StopRunning, StopStep, CloseListener,
       JoinAcceptor, NotifyWorkers, JoinWorkers, LockConnections, StopCloses,
       StopForgets, ClearConnections
  <2>6. ~AcceptorStep
    BY DEF Inv, StopInv, AcceptorStep, TestRunning, CallAccept, Accept,
       PushConnection, SpawnHandler
  <2>7. QED
    BY <2>2, <2>3, <2>4, <2>5, <2>6 DEF Next
<1>2. QED
  BY <1>1, InvHolds, PTL DEF Spec, NoNewWaits
===============================================================================
