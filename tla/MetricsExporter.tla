--------------------------- MODULE MetricsExporter ---------------------------
(***************************************************************************)
(* The Prometheus exporter of src/observability/metrics.cpp: start with    *)
(* its rollback, stop, the accept thread, the bounded client queue and the *)
(* worker pool, with the StatsD socket and the TLS context they own.       *)
(*                                                                         *)
(* server_mutex_, client_mutex_ and client_cv_ are explicit.  What a       *)
(* request asks for and what is answered is left out: every connection has *)
(* socket deadlines, so serving it ends.                                   *)
(***************************************************************************)
EXTENDS Naturals, FiniteSets, Sequences, Functions

CONSTANTS Controller,   \* threads that start and stop the exporter
          Worker,       \* identities of pool threads
          Acceptor,     \* identities of accept threads
          Listener,     \* descriptors a listening socket may get
          Client,       \* connections
          WorkerCount,  \* kWorkerCount
          QueueLimit,   \* kClientQueueLimit
          Nobody

ASSUME ThreadAssumption ==
  /\ Controller \cap Worker = {} /\ Controller \cap Acceptor = {} /\ Worker \cap Acceptor = {}
  /\ Nobody \notin Controller \cup Worker \cup Acceptor \cup Listener \cup Client
ASSUME WorkerCountAssumption == WorkerCount \in 1..Cardinality(Worker)
ASSUME QueueAssumption == QueueLimit \in Nat \ {0}

VARIABLES running,      \* running_
          listenFd,     \* listen_fd_
          statsd,       \* the StatsD socket is configured
          tls,          \* use_tls_ and a live ssl_ctx_
          workers,      \* the threads in workers_
          acceptor,     \* the thread in server_thread_
          clients,      \* clients_
          serverMutex,  \* holder of server_mutex_
          clientMutex,  \* holder of client_mutex_
          socket,       \* state of every listening descriptor
          backlog,      \* connections the kernel holds for the listener
          connected,    \* connections whose descriptor the process has open
          pc,           \* every thread's place
          fd,           \* the listening descriptor a thread works with
          client,       \* the connection a thread works with
          joinWorkers, joinAcceptor   \* the threads a stop call took over

member == <<running, listenFd, statsd, tls, workers, acceptor>>
kernel == <<socket, backlog, connected>>
locals == <<fd, client, joinWorkers, joinAcceptor>>
vars == <<member, clients, serverMutex, clientMutex, kernel, pc, locals>>

Actor == Controller \cup Worker \cup Acceptor
StartPc == {"bind", "tls", "publish", "spawn", "unwind", "wake", "rollback"}
StopPc == {"shut", "drain", "notify", "joinAcceptor", "close", "joinWorkers", "free"}
ServePc == {"loop", "accept", "queue", "signal"}
WorkPc == {"lock", "test", "block", "asleep", "serve", "newssl", "reply"}

Init ==
  /\ running = FALSE /\ listenFd = Nobody /\ statsd = FALSE /\ tls = FALSE
  /\ workers = {} /\ acceptor = Nobody /\ clients = <<>>
  /\ serverMutex = Nobody /\ clientMutex = Nobody
  /\ socket = [l \in Listener |-> "closed"] /\ backlog = {} /\ connected = {}
  /\ pc = [a \in Actor |-> IF a \in Controller THEN "idle" ELSE "none"]
  /\ fd = [a \in Controller \cup Acceptor |-> Nobody]
  /\ client = [a \in Worker \cup Acceptor |-> Nobody]
  /\ joinWorkers = [c \in Controller |-> {}] /\ joinAcceptor = [c \in Controller |-> Nobody]

Goto(a, label) == pc' = [pc EXCEPT ![a] = label]

\* notify_all, and the move of a that follows it
WakeAll(a, label) ==
  pc' = [b \in Actor |-> IF b = a THEN label
                         ELSE IF b \in Worker /\ pc[b] = "asleep" THEN "lock" ELSE pc[b]]

\* close the listening descriptor; the kernel resets what it still holds
CloseListener(l) == socket' = [socket EXCEPT ![l] = "closed"] /\ backlog' = {}

Exited(threads) == \A t \in threads : pc[t] = "exited"

\* the identities of joined threads can be used again
Joined(threads, c, label) ==
  pc' = [a \in Actor |-> IF a \in threads THEN "none" ELSE IF a = c THEN label ELSE pc[a]]

----------------------------------------------------------------------------
(* PrometheusExporter::start                                               *)

StartEnter(c) ==
  /\ pc[c] = "idle" /\ serverMutex = Nobody /\ ~running
  /\ serverMutex' = c
  /\ Goto(c, "bind")
  /\ UNCHANGED <<member, clients, clientMutex, kernel, locals>>

\* socket, bind and listen, or one of them fails
StartBind(c) ==
  /\ pc[c] = "bind"
  /\ \/ \E l \in Listener :
          /\ socket[l] = "closed"
          /\ socket' = [socket EXCEPT ![l] = "open"]
          /\ fd' = [fd EXCEPT ![c] = l]
          /\ Goto(c, "tls")
          /\ UNCHANGED serverMutex
     \/ serverMutex' = Nobody /\ Goto(c, "idle") /\ UNCHANGED <<socket, fd>>
  /\ UNCHANGED <<member, clients, clientMutex, backlog, connected, client, joinWorkers,
                 joinAcceptor>>

\* StatsdExporter::configure: with no address, no resolution or no socket it stays off
ConfigureStatsd == statsd' \in BOOLEAN
ShutdownStatsd == statsd' = FALSE

\* initialize_tls: a new context, none because TLS is off, or a failure that
\* leaves the members alone
StartTls(c) ==
  /\ pc[c] = "tls"
  /\ \/ /\ tls' \in BOOLEAN
        /\ Goto(c, "publish")
        /\ UNCHANGED <<serverMutex, kernel, fd>>
     \/ /\ CloseListener(fd[c]) /\ fd' = [fd EXCEPT ![c] = Nobody]
        /\ serverMutex' = Nobody /\ Goto(c, "idle")
        /\ UNCHANGED <<tls, connected>>
  /\ UNCHANGED <<running, listenFd, statsd, workers, acceptor, clients, clientMutex, client,
                 joinWorkers, joinAcceptor>>

\* StatsD is configured and the listener goes live
StartPublish(c) ==
  /\ pc[c] = "publish"
  /\ ConfigureStatsd
  /\ listenFd' = fd[c] /\ running' = TRUE /\ workers' = {}
  /\ Goto(c, "spawn")
  /\ UNCHANGED <<tls, acceptor, clients, serverMutex, clientMutex, kernel, locals>>

\* create the next pool thread, then the accept thread; each may throw
StartSpawn(c) ==
  /\ pc[c] = "spawn"
  /\ \/ \E w \in Worker :
          /\ Cardinality(workers) < WorkerCount /\ pc[w] = "none"
          /\ workers' = workers \cup {w}
          /\ Goto(w, "lock")
          /\ UNCHANGED <<acceptor, serverMutex, fd>>
     \/ \E s \in Acceptor :
          /\ Cardinality(workers) = WorkerCount /\ pc[s] = "none"
          /\ acceptor' = s
          /\ fd' = [fd EXCEPT ![s] = fd[c], ![c] = Nobody]
          /\ serverMutex' = Nobody
          /\ pc' = [pc EXCEPT ![c] = "idle", ![s] = "loop"]
          /\ UNCHANGED workers
     \/ Goto(c, "unwind") /\ UNCHANGED <<workers, acceptor, serverMutex, fd>>
  /\ UNCHANGED <<running, listenFd, statsd, tls, clients, clientMutex, kernel, client,
                 joinWorkers, joinAcceptor>>

\* the catch block: running_ is cleared and the listener shut down,
StartUnwind(c) ==
  /\ pc[c] = "unwind"
  /\ running' = FALSE
  /\ socket' = [socket EXCEPT ![fd[c]] = "shut"]
  /\ Goto(c, "wake")
  /\ UNCHANGED <<listenFd, statsd, tls, workers, acceptor, clients, serverMutex, clientMutex,
                 backlog, connected, locals>>

\* the pool is notified without client_mutex_ having been taken,
StartWake(c) ==
  /\ pc[c] = "wake"
  /\ WakeAll(c, "rollback")
  /\ UNCHANGED <<member, clients, serverMutex, clientMutex, kernel, locals>>

\* and everything is released once the pool has been joined
StartRollback(c) ==
  /\ pc[c] = "rollback" /\ Exited(workers)
  /\ workers' = {} /\ ShutdownStatsd /\ tls' = FALSE
  /\ listenFd' = IF listenFd = fd[c] THEN Nobody ELSE listenFd
  /\ CloseListener(fd[c]) /\ fd' = [fd EXCEPT ![c] = Nobody]
  /\ serverMutex' = Nobody
  /\ Joined(workers, c, "idle")
  /\ UNCHANGED <<running, acceptor, clients, clientMutex, connected, client, joinWorkers,
                 joinAcceptor>>

----------------------------------------------------------------------------
(* PrometheusExporter::stop                                                *)

StopEnter(c) ==
  /\ pc[c] = "idle" /\ serverMutex = Nobody /\ running
  /\ serverMutex' = c /\ running' = FALSE
  /\ Goto(c, "shut")
  /\ UNCHANGED <<listenFd, statsd, tls, workers, acceptor, clients, clientMutex, kernel, locals>>

\* the rest of the first section: StatsD, the listener, and the threads
StopShut(c) ==
  /\ pc[c] = "shut"
  /\ ShutdownStatsd
  /\ fd' = [fd EXCEPT ![c] = listenFd]
  /\ socket' = IF listenFd = Nobody THEN socket ELSE [socket EXCEPT ![listenFd] = "shut"]
  /\ joinWorkers' = [joinWorkers EXCEPT ![c] = workers]
  /\ joinAcceptor' = [joinAcceptor EXCEPT ![c] = acceptor]
  /\ workers' = {} /\ acceptor' = Nobody
  /\ serverMutex' = Nobody
  /\ Goto(c, "drain")
  /\ UNCHANGED <<running, listenFd, tls, clients, clientMutex, backlog, connected, client>>

\* Mutant of StopDrain: the queued descriptors are closed but stay queued.
StopDrainKept(c) ==
  /\ pc[c] = "drain" /\ clientMutex = Nobody
  /\ connected' = connected \ Range(clients)
  /\ Goto(c, "notify")
  /\ UNCHANGED <<member, clients, serverMutex, clientMutex, socket, backlog, locals>>

\* close and forget the queued connections
StopDrain(c) ==
  /\ pc[c] = "drain" /\ clientMutex = Nobody
  /\ connected' = connected \ Range(clients) /\ clients' = <<>>
  /\ Goto(c, "notify")
  /\ UNCHANGED <<member, serverMutex, clientMutex, socket, backlog, locals>>

\* Mutant of StopNotify: only one worker is woken.
StopNotifyOne(c) ==
  /\ pc[c] = "notify"
  /\ LET asleep == {w \in Worker : pc[w] = "asleep"}
     IN \/ asleep = {} /\ Goto(c, "joinAcceptor")
        \/ \E w \in asleep : pc' = [pc EXCEPT ![c] = "joinAcceptor", ![w] = "lock"]
  /\ UNCHANGED <<member, clients, serverMutex, clientMutex, kernel, locals>>

StopNotify(c) ==
  /\ pc[c] = "notify"
  /\ WakeAll(c, "joinAcceptor")
  /\ UNCHANGED <<member, clients, serverMutex, clientMutex, kernel, locals>>

StopJoinAcceptor(c) ==
  /\ pc[c] = "joinAcceptor"
  /\ Exited({joinAcceptor[c]} \ {Nobody})
  /\ Joined({joinAcceptor[c]}, c, "close")
  /\ joinAcceptor' = [joinAcceptor EXCEPT ![c] = Nobody]
  /\ UNCHANGED <<member, clients, serverMutex, clientMutex, kernel, fd, client, joinWorkers>>

\* the second section closes the listener unless a new one replaced it
StopClose(c) ==
  /\ pc[c] = "close" /\ serverMutex = Nobody
  /\ IF fd[c] # Nobody /\ listenFd = fd[c]
     THEN CloseListener(fd[c]) /\ listenFd' = Nobody
     ELSE UNCHANGED <<socket, backlog, listenFd>>
  /\ fd' = [fd EXCEPT ![c] = Nobody]
  /\ Goto(c, "joinWorkers")
  /\ UNCHANGED <<running, statsd, tls, workers, acceptor, clients, serverMutex, clientMutex,
                 connected, client, joinWorkers, joinAcceptor>>

\* Mutant of StopJoinWorkers: the context is freed before the pool has ended.
StopJoinWorkersSkipped(c) ==
  /\ pc[c] = "joinWorkers"
  /\ Goto(c, "free")
  /\ UNCHANGED <<member, clients, serverMutex, clientMutex, kernel, locals>>

StopJoinWorkers(c) ==
  /\ pc[c] = "joinWorkers" /\ Exited(joinWorkers[c])
  /\ Joined(joinWorkers[c], c, "free")
  /\ joinWorkers' = [joinWorkers EXCEPT ![c] = {}]
  /\ UNCHANGED <<member, clients, serverMutex, clientMutex, kernel, fd, client, joinAcceptor>>

\* destroy_tls, without a lock
StopFree(c) ==
  /\ pc[c] = "free"
  /\ tls' = FALSE
  /\ Goto(c, "idle")
  /\ UNCHANGED <<running, listenFd, statsd, workers, acceptor, clients, serverMutex, clientMutex,
                 kernel, locals>>

----------------------------------------------------------------------------
(* PrometheusExporter::serve                                               *)

ServeLoop(s) ==
  /\ pc[s] = "loop"
  /\ Goto(s, IF running THEN "accept" ELSE "exited")
  /\ fd' = IF running THEN fd ELSE [fd EXCEPT ![s] = Nobody]
  /\ UNCHANGED <<member, clients, serverMutex, clientMutex, kernel, client, joinWorkers,
                 joinAcceptor>>

\* accept returns a connection, or fails once the listener is shut down
ServeAccept(s) ==
  /\ pc[s] = "accept"
  /\ \/ \E k \in backlog :
          /\ socket[fd[s]] = "open"
          /\ backlog' = backlog \ {k} /\ connected' = connected \cup {k}
          /\ client' = [client EXCEPT ![s] = k]
          /\ Goto(s, "queue")
     \/ /\ socket[fd[s]] # "open"
        /\ Goto(s, "loop")
        /\ UNCHANGED <<backlog, connected, client>>
  /\ UNCHANGED <<member, clients, serverMutex, clientMutex, socket, fd, joinWorkers,
                 joinAcceptor>>

QueueHasRoom == Len(clients) < QueueLimit

\* queue the connection, or close it when the queue is full or closing
ServeQueue(s) ==
  /\ pc[s] = "queue" /\ clientMutex = Nobody
  /\ IF QueueHasRoom /\ running
     THEN /\ clients' = Append(clients, client[s]) /\ Goto(s, "signal")
          /\ UNCHANGED connected
     ELSE /\ connected' = connected \ {client[s]} /\ Goto(s, "loop")
          /\ UNCHANGED clients
  /\ client' = [client EXCEPT ![s] = Nobody]
  /\ UNCHANGED <<member, serverMutex, clientMutex, socket, backlog, fd, joinWorkers,
                 joinAcceptor>>

\* Mutant of ServeSignal: the connection is queued but nobody is told.
ServeSignalNobody(s) ==
  /\ pc[s] = "signal"
  /\ Goto(s, "loop")
  /\ UNCHANGED <<member, clients, serverMutex, clientMutex, kernel, locals>>

\* notify_one
ServeSignal(s) ==
  /\ pc[s] = "signal"
  /\ LET asleep == {w \in Worker : pc[w] = "asleep"}
     IN \/ asleep = {} /\ Goto(s, "loop")
        \/ \E w \in asleep : pc' = [pc EXCEPT ![s] = "loop", ![w] = "lock"]
  /\ UNCHANGED <<member, clients, serverMutex, clientMutex, kernel, locals>>

----------------------------------------------------------------------------
(* PrometheusExporter::worker_loop and serve_client                        *)

WorkLock(w) ==
  /\ pc[w] = "lock" /\ clientMutex = Nobody
  /\ clientMutex' = w
  /\ Goto(w, "test")
  /\ UNCHANGED <<member, clients, serverMutex, kernel, locals>>

\* the wait's predicate and what follows it: a connection, the end, or a wait
WorkTest(w) ==
  /\ pc[w] = "test"
  /\ \/ /\ clients # <<>>
        /\ client' = [client EXCEPT ![w] = Head(clients)] /\ clients' = Tail(clients)
        /\ clientMutex' = Nobody /\ Goto(w, "serve")
     \/ /\ clients = <<>> /\ ~running
        /\ clientMutex' = Nobody /\ Goto(w, "exited")
        /\ UNCHANGED <<clients, client>>
     \/ /\ clients = <<>> /\ running
        /\ Goto(w, "block")
        /\ UNCHANGED <<clients, client, clientMutex>>
  /\ UNCHANGED <<member, serverMutex, kernel, fd, joinWorkers, joinAcceptor>>

\* the wait releases client_mutex_ and sleeps in one step
WorkBlock(w) ==
  /\ pc[w] = "block"
  /\ clientMutex' = Nobody
  /\ Goto(w, "asleep")
  /\ UNCHANGED <<member, clients, serverMutex, kernel, locals>>

\* a condition variable may wake a thread without being notified
SpuriousWakeup(w) ==
  /\ pc[w] = "asleep"
  /\ Goto(w, "lock")
  /\ UNCHANGED <<member, clients, serverMutex, clientMutex, kernel, locals>>

WorkServe(w) ==
  /\ pc[w] = "serve"
  /\ Goto(w, IF tls THEN "newssl" ELSE "reply")
  /\ UNCHANGED <<member, clients, serverMutex, clientMutex, kernel, locals>>

\* SSL_new takes a reference to the context, or fails
WorkHandshake(w) ==
  /\ pc[w] = "newssl"
  /\ Goto(w, "reply")
  /\ UNCHANGED <<member, clients, serverMutex, clientMutex, kernel, locals>>

\* the request is answered, refused, times out or throws; the socket is closed
WorkReply(w) ==
  /\ pc[w] = "reply"
  /\ connected' = connected \ {client[w]}
  /\ client' = [client EXCEPT ![w] = Nobody]
  /\ Goto(w, "lock")
  /\ UNCHANGED <<member, clients, serverMutex, clientMutex, socket, backlog, fd, joinWorkers,
                 joinAcceptor>>

\* a peer connects
Connect(k) ==
  /\ k \notin backlog \cup connected
  /\ \E l \in Listener : socket[l] = "open"
  /\ backlog' = backlog \cup {k}
  /\ UNCHANGED <<member, clients, serverMutex, clientMutex, socket, connected, pc, locals>>

----------------------------------------------------------------------------

StartStep(c) ==
  \/ StartBind(c) \/ StartTls(c) \/ StartPublish(c) \/ StartSpawn(c)
  \/ StartUnwind(c) \/ StartWake(c) \/ StartRollback(c)

StopStep(c) ==
  \/ StopShut(c) \/ StopDrain(c) \/ StopNotify(c) \/ StopJoinAcceptor(c) \/ StopClose(c)
  \/ StopJoinWorkers(c) \/ StopFree(c)

ServeStep(s) == ServeLoop(s) \/ ServeAccept(s) \/ ServeQueue(s) \/ ServeSignal(s)

WorkStep(w) ==
  \/ WorkLock(w) \/ WorkTest(w) \/ WorkBlock(w)
  \/ WorkServe(w) \/ WorkHandshake(w) \/ WorkReply(w)

Next ==
  \/ \E c \in Controller : StartEnter(c) \/ StartStep(c) \/ StopEnter(c) \/ StopStep(c)
  \/ \E s \in Acceptor : ServeStep(s)
  \/ \E w \in Worker : WorkStep(w) \/ SpuriousWakeup(w)
  \/ \E k \in Client : Connect(k)

Spec == Init /\ [][Next]_vars

\* threads inside a call or a loop keep running, and a mutex is granted to a
\* thread that asks for it again and again; a spurious wakeup is never owed
FairSpec ==
  /\ Spec
  /\ \A c \in Controller : WF_vars(StartStep(c)) /\ SF_vars(StopStep(c))
  /\ \A s \in Acceptor : SF_vars(ServeStep(s))
  /\ \A w \in Worker : SF_vars(WorkStep(w))

----------------------------------------------------------------------------
(* Properties.                                                             *)

TypeOK ==
  /\ running \in BOOLEAN /\ statsd \in BOOLEAN /\ tls \in BOOLEAN
  /\ listenFd \in Listener \cup {Nobody}
  /\ workers \subseteq Worker /\ acceptor \in Acceptor \cup {Nobody}
  /\ clients \in Seq(Client) /\ Len(clients) <= QueueLimit
  /\ serverMutex \in Controller \cup {Nobody} /\ clientMutex \in Worker \cup {Nobody}
  /\ socket \in [Listener -> {"closed", "open", "shut"}]
  /\ backlog \subseteq Client /\ connected \subseteq Client
  /\ DOMAIN pc = Actor
  /\ \A c \in Controller : pc[c] \in {"idle"} \cup StartPc \cup StopPc
  /\ \A s \in Acceptor : pc[s] \in {"none", "exited"} \cup ServePc
  /\ \A w \in Worker : pc[w] \in {"none", "exited"} \cup WorkPc
  /\ fd \in [Controller \cup Acceptor -> Listener \cup {Nobody}]
  /\ client \in [Worker \cup Acceptor -> Client \cup {Nobody}]
  /\ joinWorkers \in [Controller -> SUBSET Worker]
  /\ joinAcceptor \in [Controller -> Acceptor \cup {Nobody}]

\* the places that hold a connection's descriptor
Holders(k) ==
  {<<"thread", a>> : a \in {b \in Worker \cup Acceptor : client[b] = k}}
    \cup {<<"queue", i>> : i \in {j \in DOMAIN clients : clients[j] = k}}

\* An accepted connection is in exactly one place until its descriptor is
\* closed, and in none afterwards: none leaks when the exporter stops with work
\* queued, and none is closed twice (metrics.cpp:395-399, 665-671, 687-696).  The
\* queue stays within its limit.
EachConnectionOwned ==
  TypeOK /\ \A k \in Client : IF k \in connected THEN \E h \in Holders(k) : Holders(k) = {h}
                              ELSE Holders(k) = {}

\* Nothing is released under its user, and nothing is kept without one: a pool
\* thread that saw the TLS context can still take a reference to it, since stop
\* frees it only after the pool has ended (metrics.cpp:412-415); the accept thread
\* never calls accept on a descriptor that was closed and may be in use elsewhere
\* (metrics.cpp:401-410); and between calls an exporter that is not running, after
\* a stop or a start that failed halfway, holds no thread, descriptor, connection,
\* StatsD socket or TLS context.
ResourcesMatchUsers ==
  /\ \A w \in Worker : pc[w] = "newssl" => tls
  /\ \A s \in Acceptor : pc[s] = "accept" => socket[fd[s]] # "closed"
  /\ (~running /\ \A c \in Controller : pc[c] = "idle") =>
       /\ listenFd = Nobody /\ ~statsd /\ ~tls
       /\ \A l \in Listener : socket[l] = "closed"
       /\ \A a \in Worker \cup Acceptor : pc[a] = "none"
       /\ clients = <<>> /\ connected = {}

\* A queued connection is taken by a pool thread or closed by a stop: the wakeup
\* sent for it is not lost to a worker that is just going to sleep.
QueuedIsServed == \A k \in Client : k \in Range(clients) ~> k \notin Range(clients)

\* A stop call ends: every pool thread and the accept thread notice it.
StopReturns == \A c \in Controller : pc[c] \in StopPc ~> pc[c] = "idle"

\* A start whose thread creation fails returns -1 after its rollback, as
\* test_metrics_exporter.cpp:203-211 expects of an injected failure.
FailedStartReturns == \A c \in Controller : pc[c] = "unwind" ~> pc[c] = "idle"
==============================================================================
