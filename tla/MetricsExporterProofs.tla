----------------------- MODULE MetricsExporterProofs -----------------------
(***************************************************************************)
(* Proofs about the metrics exporter, for any number of pool threads,      *)
(* connections and descriptors and any queue limit.                        *)
(*                                                                         *)
(* HoldInv says where the descriptor of a connection is; it is inductive   *)
(* beside the types whatever the controlling threads do.  ControlInv says  *)
(* what exists at each place of a single controlling thread: the listener, *)
(* the pool, the accept thread, the queue, StatsD and TLS.                 *)
(***************************************************************************)
EXTENDS MetricsExporter, TLAPS

----------------------------------------------------------------------------
(* The invariants.                                                         *)

\* Places of a thread that owns the connection it works with.
CarryPc == {"queue", "serve", "newssl", "reply"}

Carry == \A a \in Worker \cup Acceptor : pc[a] \in CarryPc <=> client[a] # Nobody

\* An open connection is held by a thread or queued, a closed one is not,
Owned ==
  \A k \in Client : k \in connected <=>
    \/ \E a \in Worker \cup Acceptor : client[a] = k
    \/ \E i \in DOMAIN clients : clients[i] = k

\* no two places hold the same one,
Unique ==
  /\ \A a, b \in Worker \cup Acceptor : client[a] # Nobody /\ client[a] = client[b] => a = b
  /\ \A i, j \in DOMAIN clients : clients[i] = clients[j] => i = j
  /\ \A a \in Worker \cup Acceptor, i \in DOMAIN clients : client[a] # clients[i]

\* and what the kernel still holds was not accepted yet.
Waiting == backlog \cap connected = {}

HoldInv == TypeOK /\ Carry /\ Owned /\ Unique /\ Waiting

\* The places of a controlling thread: a running exporter is "up" between calls.
Stage(c) == IF pc[c] = "idle" /\ running THEN "up" ELSE pc[c]

UpStage == {"spawn", "unwind", "up"}
ShutStage == {"wake", "rollback", "drain", "notify", "joinAcceptor", "close"}
OwnStage == {"tls", "publish", "spawn", "unwind"} \cup ShutStage
JoinStage == {"drain", "notify", "joinAcceptor", "close", "joinWorkers"}
BareStage == {"idle", "bind", "tls", "publish", "free"}

\* The listener: the call's own until the accept thread has it, shut down before
\* it is closed, and no other socket is open.
Listening(c) ==
  /\ running <=> Stage(c) \in UpStage
  /\ fd[c] # Nobody <=> Stage(c) \in OwnStage
  /\ Stage(c) \in OwnStage \ {"tls", "publish"} => listenFd = fd[c]
  /\ Stage(c) \in {"up", "shut"} => listenFd # Nobody
  /\ Stage(c) \in BareStage \cup {"joinWorkers"} => listenFd = Nobody
  /\ \A l \in Listener : socket[l] =
       IF l \notin {fd[c], listenFd} THEN "closed"
       ELSE IF Stage(c) \in ShutStage THEN "shut" ELSE "open"

\* The threads that exist are the ones somebody will join.
Pool(c) ==
  /\ {w \in Worker : pc[w] # "none"} = workers \cup joinWorkers[c]
  /\ Stage(c) \in BareStage \cup JoinStage => workers = {}
  /\ Stage(c) \notin JoinStage => joinWorkers[c] = {}

Accepting(c) ==
  /\ {s \in Acceptor : pc[s] # "none"} = {acceptor, joinAcceptor[c]} \ {Nobody}
  /\ acceptor # Nobody <=> Stage(c) \in {"up", "shut"}
  /\ joinAcceptor[c] # Nobody <=> Stage(c) \in {"drain", "notify", "joinAcceptor"}
  /\ \A s \in Acceptor : pc[s] \in ServePc => fd[s] = listenFd

\* What the threads use exists while they do.
Provided(c) ==
  /\ Stage(c) \notin {"up", "shut", "drain"} => clients = <<>>
  /\ statsd => Stage(c) \in {"spawn", "unwind", "wake", "rollback", "up", "shut"}
  /\ Stage(c) \in {"idle", "bind", "tls"} => ~tls
  /\ \A w \in Worker : pc[w] = "newssl" => tls

ControlInv(c) == Listening(c) /\ Pool(c) /\ Accepting(c) /\ Provided(c)

\* What the threads beside the controlling one do changes neither its place nor
\* what it owns; no thread appears or disappears, none starts to use what it did
\* not have, and the queue is filled by an accept thread of a running exporter.
Beside(c) ==
  /\ UNCHANGED <<running, listenFd, statsd, tls, workers, acceptor, socket, joinWorkers, joinAcceptor>>
  /\ pc'[c] = pc[c] /\ fd'[c] = fd[c]
  /\ \A a \in Worker \cup Acceptor : pc'[a] = "none" <=> pc[a] = "none"
  /\ \A s \in Acceptor : pc'[s] \in ServePc => pc[s] \in ServePc /\ fd'[s] = fd[s]
  /\ \A w \in Worker : pc'[w] = "newssl" => pc[w] = "newssl" \/ tls
  /\ clients = <<>> /\ clients' # <<>> => running /\ \E s \in Acceptor : pc[s] # "none"

\* The types, by what they are about.
PcTypes ==
  /\ DOMAIN pc = Actor
  /\ \A c \in Controller : pc[c] \in {"idle"} \cup StartPc \cup StopPc
  /\ \A s \in Acceptor : pc[s] \in {"none", "exited"} \cup ServePc
  /\ \A w \in Worker : pc[w] \in {"none", "exited"} \cup WorkPc

FlagTypes == running \in BOOLEAN /\ statsd \in BOOLEAN /\ tls \in BOOLEAN

MemberTypes ==
  /\ listenFd \in Listener \cup {Nobody}
  /\ workers \subseteq Worker /\ acceptor \in Acceptor \cup {Nobody}
  /\ serverMutex \in Controller \cup {Nobody} /\ clientMutex \in Worker \cup {Nobody}
  /\ socket \in [Listener -> {"closed", "open", "shut"}]

QueueTypes ==
  /\ clients \in Seq(Client) /\ Len(clients) <= QueueLimit
  /\ backlog \subseteq Client /\ connected \subseteq Client

LocalTypes ==
  /\ fd \in [Controller \cup Acceptor -> Listener \cup {Nobody}]
  /\ client \in [Worker \cup Acceptor -> Client \cup {Nobody}]
  /\ joinWorkers \in [Controller -> SUBSET Worker]
  /\ joinAcceptor \in [Controller -> Acceptor \cup {Nobody}]

----------------------------------------------------------------------------
(* Types.                                                                  *)

\* The types by what they are about.
LEMMA TypeGroups ==
  TypeOK <=> PcTypes /\ FlagTypes /\ MemberTypes /\ QueueTypes /\ LocalTypes
BY Zenon DEF TypeOK, PcTypes, FlagTypes, MemberTypes, QueueTypes, LocalTypes

\* The members, the mutexes and the sockets.
LEMMA MemberTypesStep ==
  ASSUME MemberTypes, LocalTypes, Next
  PROVE  MemberTypes'
<1>0. CASE UNCHANGED <<listenFd, workers, acceptor, serverMutex, clientMutex, socket>> BY <1>0, Zenon DEF MemberTypes
<1>1. ASSUME NEW c \in Controller, StartEnter(c) PROVE MemberTypes'
  BY <1>1, Zenon DEF StartEnter, MemberTypes, member, kernel
<1>2. ASSUME NEW c \in Controller, StartBind(c) PROVE MemberTypes'
  BY <1>2, Zenon DEF StartBind, MemberTypes, member
<1>3. ASSUME NEW c \in Controller, StartTls(c) PROVE MemberTypes'
  BY <1>3, Zenon DEF StartTls, CloseListener, MemberTypes, kernel
<1>4. ASSUME NEW c \in Controller, StartPublish(c) PROVE MemberTypes'
  BY <1>4, Zenon DEF StartPublish, MemberTypes, LocalTypes, kernel
<1>5. ASSUME NEW c \in Controller, StartSpawn(c) PROVE MemberTypes'
  BY <1>5, Zenon DEF StartSpawn, MemberTypes, kernel
<1>6. ASSUME NEW c \in Controller, StartUnwind(c) PROVE MemberTypes'
  BY <1>6, Zenon DEF StartUnwind, MemberTypes
<1>7. ASSUME NEW c \in Controller, StartRollback(c) PROVE MemberTypes'
  BY <1>7, Zenon DEF StartRollback, CloseListener, MemberTypes
<1>8. ASSUME NEW c \in Controller, StopEnter(c) PROVE MemberTypes'
  BY <1>8, Zenon DEF StopEnter, MemberTypes, kernel
<1>9. ASSUME NEW c \in Controller, StopShut(c) PROVE MemberTypes'
  BY <1>9, Zenon DEF StopShut, MemberTypes
<1>10. ASSUME NEW c \in Controller, StopClose(c) PROVE MemberTypes'
  BY <1>10, Zenon DEF StopClose, CloseListener, MemberTypes
<1>11. ASSUME NEW w \in Worker, WorkLock(w) PROVE MemberTypes'
  BY <1>11, Zenon DEF WorkLock, MemberTypes, member, kernel
<1>12. ASSUME NEW w \in Worker, WorkTest(w) PROVE MemberTypes'
  BY <1>12, Zenon DEF WorkTest, MemberTypes, member, kernel
<1>13. ASSUME NEW w \in Worker, WorkBlock(w) PROVE MemberTypes'
  BY <1>13, Zenon DEF WorkBlock, MemberTypes, member, kernel
<1>14. ASSUME NEW c \in Controller,
             \/ StartWake(c) \/ StopDrain(c) \/ StopNotify(c) \/ StopJoinAcceptor(c)
             \/ StopJoinWorkers(c) \/ StopFree(c)
      PROVE  MemberTypes'
  BY <1>0, <1>14, ZenonT(60) DEF StartWake, StopDrain, StopNotify, StopJoinAcceptor,
     StopJoinWorkers, StopFree, member, kernel
<1>15. ASSUME NEW s \in Acceptor,
             ServeLoop(s) \/ ServeAccept(s) \/ ServeQueue(s) \/ ServeSignal(s)
      PROVE  MemberTypes'
  BY <1>0, <1>15, ZenonT(60) DEF ServeLoop, ServeAccept, ServeQueue, ServeSignal, member, kernel
<1>16. ASSUME NEW w \in Worker,
             SpuriousWakeup(w) \/ WorkServe(w) \/ WorkHandshake(w) \/ WorkReply(w)
      PROVE  MemberTypes'
  BY <1>0, <1>16, ZenonT(60) DEF SpuriousWakeup, WorkServe, WorkHandshake, WorkReply, member,
     kernel
<1>17. ASSUME NEW k \in Client,
             Connect(k)
      PROVE  MemberTypes'
  BY <1>0, <1>17, ZenonT(60) DEF Connect, member
<1>18. QED
  BY <1>1, <1>2, <1>3, <1>4, <1>5, <1>6, <1>7, <1>8, <1>9, <1>10, <1>11, <1>12, <1>13, <1>14,
     <1>15, <1>16, <1>17, Zenon DEF Next, StartStep, StopStep, ServeStep, WorkStep

\* The connections the kernel, the queue and the process hold.
LEMMA QueueTypesStep ==
  ASSUME QueueTypes, LocalTypes, PcTypes, Carry, Next
  PROVE  QueueTypes'
<1> USE QueueAssumption
<1>0. CASE UNCHANGED <<clients, backlog, connected>> BY <1>0, Zenon DEF QueueTypes
<1>1. ASSUME NEW c \in Controller, StartTls(c) PROVE QueueTypes'
  BY <1>1, Zenon DEF StartTls, CloseListener, QueueTypes, kernel
<1>2. ASSUME NEW c \in Controller, StartRollback(c) PROVE QueueTypes'
  BY <1>2, Zenon DEF StartRollback, CloseListener, QueueTypes
<1>3. ASSUME NEW c \in Controller, StopDrain(c) PROVE QueueTypes'
  BY <1>3 DEF StopDrain, QueueTypes, Range
<1>4. ASSUME NEW c \in Controller, StopClose(c) PROVE QueueTypes'
  BY <1>4, Zenon DEF StopClose, CloseListener, QueueTypes
<1>5. ASSUME NEW s \in Acceptor, ServeAccept(s) PROVE QueueTypes'
  BY <1>5, Zenon DEF ServeAccept, QueueTypes
<1>6. ASSUME NEW s \in Acceptor, ServeQueue(s) PROVE QueueTypes'
  <2>1. client[s] \in Client BY <1>6, Zenon DEF ServeQueue, Carry, CarryPc, LocalTypes
  <2>2. CASE Len(clients) < QueueLimit /\ clients' = Append(clients, client[s]) /\ UNCHANGED connected
    BY <1>6, <2>1, <2>2 DEF ServeQueue, QueueTypes
  <2>3. CASE connected' = connected \ {client[s]} /\ UNCHANGED clients
    BY <1>6, <2>3, Zenon DEF ServeQueue, QueueTypes
  <2>4. QED BY <1>6, <2>2, <2>3, Zenon DEF ServeQueue, QueueHasRoom
<1>7. ASSUME NEW w \in Worker, WorkTest(w) PROVE QueueTypes'
  BY <1>7 DEF WorkTest, QueueTypes, kernel
<1>8. ASSUME NEW w \in Worker, WorkReply(w) PROVE QueueTypes'
  BY <1>8, Zenon DEF WorkReply, QueueTypes
<1>9. ASSUME NEW k \in Client, Connect(k) PROVE QueueTypes'
  BY <1>9, Zenon DEF Connect, QueueTypes
<1>10. ASSUME NEW c \in Controller,
             \/ StartEnter(c) \/ StartBind(c) \/ StartPublish(c) \/ StartSpawn(c)
             \/ StartUnwind(c) \/ StartWake(c) \/ StopEnter(c) \/ StopShut(c)
             \/ StopNotify(c) \/ StopJoinAcceptor(c) \/ StopJoinWorkers(c) \/ StopFree(c)
      PROVE  QueueTypes'
  BY <1>0, <1>10, ZenonT(60) DEF StartEnter, StartBind, StartPublish, StartSpawn, StartUnwind,
     StartWake, StopEnter, StopShut, StopNotify, StopJoinAcceptor, StopJoinWorkers, StopFree,
     kernel
<1>11. ASSUME NEW s \in Acceptor,
             ServeLoop(s) \/ ServeSignal(s)
      PROVE  QueueTypes'
  BY <1>0, <1>11, ZenonT(60) DEF ServeLoop, ServeSignal, kernel
<1>12. ASSUME NEW w \in Worker,
             \/ WorkLock(w) \/ WorkBlock(w) \/ SpuriousWakeup(w) \/ WorkServe(w)
             \/ WorkHandshake(w)
      PROVE  QueueTypes'
  BY <1>0, <1>12, ZenonT(60) DEF WorkLock, WorkBlock, SpuriousWakeup, WorkServe, WorkHandshake,
     kernel
<1>13. QED
  BY <1>1, <1>2, <1>3, <1>4, <1>5, <1>6, <1>7, <1>8, <1>9, <1>10, <1>11, <1>12, Zenon DEF Next,
     StartStep, StopStep, ServeStep, WorkStep

\* What the threads work with.
LEMMA LocalTypesStep ==
  ASSUME LocalTypes, MemberTypes, QueueTypes, Next
  PROVE  LocalTypes'
<1>0. CASE UNCHANGED locals BY <1>0, Zenon DEF LocalTypes, locals
<1>1. ASSUME NEW c \in Controller, StartBind(c) PROVE LocalTypes'
  BY <1>1 DEF StartBind, LocalTypes
<1>2. ASSUME NEW c \in Controller, StartTls(c) PROVE LocalTypes'
  BY <1>2, Zenon DEF StartTls, LocalTypes
<1>3. ASSUME NEW c \in Controller, StartSpawn(c) PROVE LocalTypes'
  BY <1>3, Zenon DEF StartSpawn, LocalTypes
<1>4. ASSUME NEW c \in Controller, StartRollback(c) PROVE LocalTypes'
  BY <1>4, Zenon DEF StartRollback, LocalTypes
<1>5. ASSUME NEW c \in Controller, StopShut(c) PROVE LocalTypes'
  BY <1>5, Zenon DEF StopShut, LocalTypes, MemberTypes
<1>6. ASSUME NEW c \in Controller, StopJoinAcceptor(c) PROVE LocalTypes'
  BY <1>6, Zenon DEF StopJoinAcceptor, LocalTypes
<1>7. ASSUME NEW c \in Controller, StopClose(c) PROVE LocalTypes'
  BY <1>7, Zenon DEF StopClose, LocalTypes
<1>8. ASSUME NEW c \in Controller, StopJoinWorkers(c) PROVE LocalTypes'
  BY <1>8, Zenon DEF StopJoinWorkers, LocalTypes
<1>9. ASSUME NEW s \in Acceptor, ServeLoop(s) PROVE LocalTypes'
  BY <1>9, Zenon DEF ServeLoop, LocalTypes
<1>10. ASSUME NEW s \in Acceptor, ServeAccept(s) PROVE LocalTypes'
  BY <1>10 DEF ServeAccept, LocalTypes, QueueTypes
<1>11. ASSUME NEW s \in Acceptor, ServeQueue(s) PROVE LocalTypes'
  BY <1>11, Zenon DEF ServeQueue, QueueHasRoom, LocalTypes
<1>12. ASSUME NEW w \in Worker, WorkTest(w) PROVE LocalTypes'
  <2>1. client' = client \/ (clients # <<>> /\ client' = [client EXCEPT ![w] = Head(clients)])
    BY <1>12, Zenon DEF WorkTest
  <2>2. UNCHANGED <<fd, joinWorkers, joinAcceptor>> BY <1>12, Zenon DEF WorkTest
  <2>3. clients # <<>> => Head(clients) \in Client BY DEF QueueTypes
  <2>4. QED BY <2>1, <2>2, <2>3 DEF LocalTypes
<1>13. ASSUME NEW w \in Worker, WorkReply(w) PROVE LocalTypes'
  BY <1>13, Zenon DEF WorkReply, LocalTypes
<1>14. ASSUME NEW c \in Controller,
             \/ StartEnter(c) \/ StartPublish(c) \/ StartUnwind(c) \/ StartWake(c)
             \/ StopEnter(c) \/ StopDrain(c) \/ StopNotify(c) \/ StopFree(c)
      PROVE  LocalTypes'
  BY <1>0, <1>14, ZenonT(60) DEF StartEnter, StartPublish, StartUnwind, StartWake, StopEnter,
     StopDrain, StopNotify, StopFree, locals
<1>15. ASSUME NEW s \in Acceptor,
             ServeSignal(s)
      PROVE  LocalTypes'
  BY <1>0, <1>15, ZenonT(60) DEF ServeSignal, locals
<1>16. ASSUME NEW w \in Worker,
             \/ WorkLock(w) \/ WorkBlock(w) \/ SpuriousWakeup(w) \/ WorkServe(w)
             \/ WorkHandshake(w)
      PROVE  LocalTypes'
  BY <1>0, <1>16, ZenonT(60) DEF WorkLock, WorkBlock, SpuriousWakeup, WorkServe, WorkHandshake,
     locals
<1>17. ASSUME NEW k \in Client,
             Connect(k)
      PROVE  LocalTypes'
  BY <1>0, <1>17, ZenonT(60) DEF Connect, locals
<1>18. QED
  BY <1>1, <1>2, <1>3, <1>4, <1>5, <1>6, <1>7, <1>8, <1>9, <1>10, <1>11, <1>12, <1>13, <1>14,
     <1>15, <1>16, <1>17, Zenon DEF Next, StartStep, StopStep, ServeStep, WorkStep

----------------------------------------------------------------------------
(* A single controlling thread and what exists around it.                  *)

\* A step of start keeps what exists around the controlling thread in order.
LEMMA StartControl ==
  ASSUME NEW c, Controller = {c}, PcTypes, MemberTypes, LocalTypes, ControlInv(c),
         StartEnter(c) \/ StartStep(c)
  PROVE  ControlInv(c)'
<1> USE ThreadAssumption
<1>c. c \in Controller /\ c \notin Worker /\ c \notin Acceptor BY Zenon
<1>l. Listening(c) BY Zenon DEF ControlInv
<1>p. Pool(c) BY Zenon DEF ControlInv
<1>a. Accepting(c) BY Zenon DEF ControlInv
<1>q. Provided(c) BY Zenon DEF ControlInv
<1>1. ASSUME StartEnter(c) PROVE ControlInv(c)'
  <2>1. Stage(c) = "idle" /\ Stage(c)' = "bind"
    BY <1>c, <1>l, <1>1, Zenon DEF StartEnter, Goto, member, Stage, Listening, UpStage, PcTypes,
       Actor
  <2>2. Listening(c)'
    BY <1>c, <1>l, <1>1, <2>1, Zenon DEF StartEnter, member, kernel, locals, Listening, UpStage,
       ShutStage, OwnStage, JoinStage, BareStage, MemberTypes, LocalTypes
  <2>3. Pool(c)'
    BY <1>c, <1>p, <1>1, <2>1, Zenon DEF StartEnter, Goto, member, locals, Pool, ShutStage,
       JoinStage, BareStage, PcTypes, Actor, MemberTypes, LocalTypes
  <2>4. Accepting(c)'
    BY <1>c, <1>a, <1>1, <2>1 DEF StartEnter, Goto, member, locals, Accepting, ServePc, PcTypes,
       Actor, LocalTypes
  <2>5. Provided(c)'
    BY <1>c, <1>q, <1>1, <2>1, Zenon DEF StartEnter, Goto, member, Provided, PcTypes, Actor
  <2>6. QED BY <2>2, <2>3, <2>4, <2>5, Zenon DEF ControlInv
<1>2. ASSUME StartBind(c) PROVE ControlInv(c)'
  <2>1. CASE pc'[c] = "tls"
    <3>1. Stage(c) = "bind" /\ Stage(c)' = "tls"
      BY <1>c, <1>l, <1>2, <2>1, Zenon DEF StartBind, Goto, member, Stage, Listening, UpStage,
         PcTypes, Actor
    <3>2. Listening(c)'
      BY <1>c, <1>l, <1>2, <2>1, <3>1 DEF StartBind, Goto, member, Listening, UpStage,
         ShutStage, OwnStage, JoinStage, BareStage, MemberTypes, LocalTypes, PcTypes, Actor
    <3>3. Pool(c)'
      BY <1>c, <1>p, <1>2, <2>1, <3>1 DEF StartBind, Goto, member, Pool, ShutStage, JoinStage,
         BareStage, PcTypes, Actor, MemberTypes, LocalTypes
    <3>4. Accepting(c)'
      BY <1>c, <1>a, <1>2, <2>1, <3>1 DEF StartBind, Goto, member, Accepting, ServePc, PcTypes,
         Actor, LocalTypes
    <3>5. Provided(c)'
      BY <1>c, <1>q, <1>2, <2>1, <3>1, Zenon DEF StartBind, Goto, member, Provided, PcTypes, Actor
    <3>6. QED BY <3>2, <3>3, <3>4, <3>5, Zenon DEF ControlInv
  <2>2. CASE pc'[c] = "idle"
    <3>1. Stage(c) = "bind" /\ Stage(c)' = "idle"
      BY <1>c, <1>l, <1>2, <2>2, Zenon DEF StartBind, Goto, member, Stage, Listening, UpStage,
         PcTypes, Actor
    <3>2. Listening(c)'
      BY <1>c, <1>l, <1>2, <2>2, <3>1 DEF StartBind, Goto, member, Listening, UpStage,
         ShutStage, OwnStage, JoinStage, BareStage, MemberTypes, LocalTypes, PcTypes, Actor
    <3>3. Pool(c)'
      BY <1>c, <1>p, <1>2, <2>2, <3>1 DEF StartBind, Goto, member, Pool, ShutStage, JoinStage,
         BareStage, PcTypes, Actor, MemberTypes, LocalTypes
    <3>4. Accepting(c)'
      BY <1>c, <1>a, <1>2, <2>2, <3>1 DEF StartBind, Goto, member, Accepting, ServePc, PcTypes,
         Actor, LocalTypes
    <3>5. Provided(c)'
      BY <1>c, <1>q, <1>2, <2>2, <3>1, Zenon DEF StartBind, Goto, member, Provided, PcTypes, Actor
    <3>6. QED BY <3>2, <3>3, <3>4, <3>5, Zenon DEF ControlInv
  <2>3. QED BY <1>c, <1>2, <2>1, <2>2, Zenon DEF StartBind, Goto, PcTypes, Actor
<1>3. ASSUME StartTls(c) PROVE ControlInv(c)'
  <2>1. CASE pc'[c] = "publish"
    <3>1. Stage(c) = "tls" /\ Stage(c)' = "publish"
      BY <1>c, <1>l, <1>3, <2>1, Zenon DEF StartTls, Goto, Stage, Listening, UpStage, PcTypes,
         Actor
    <3>2. Listening(c)'
      BY <1>c, <1>l, <1>3, <2>1, <3>1 DEF StartTls, Goto, CloseListener, kernel, Listening,
         UpStage, ShutStage, OwnStage, JoinStage, BareStage, MemberTypes, LocalTypes, PcTypes,
         Actor
    <3>3. Pool(c)'
      BY <1>c, <1>p, <1>3, <2>1, <3>1 DEF StartTls, Goto, Pool, ShutStage, JoinStage, BareStage,
         PcTypes, Actor, MemberTypes, LocalTypes
    <3>4. Accepting(c)'
      BY <1>c, <1>a, <1>3, <2>1, <3>1 DEF StartTls, Goto, Accepting, ServePc, PcTypes, Actor,
         LocalTypes
    <3>5. Provided(c)'
      BY <1>c, <1>p, <1>q, <1>3, <2>1, <3>1, Zenon DEF StartTls, Goto, Provided, Pool, JoinStage,
         BareStage, PcTypes, Actor
    <3>6. QED BY <3>2, <3>3, <3>4, <3>5, Zenon DEF ControlInv
  <2>2. CASE pc'[c] = "idle"
    <3>1. Stage(c) = "tls" /\ Stage(c)' = "idle"
      BY <1>c, <1>l, <1>3, <2>2, Zenon DEF StartTls, Goto, Stage, Listening, UpStage, PcTypes,
         Actor
    <3>2. Listening(c)'
      BY <1>c, <1>l, <1>3, <2>2, <3>1 DEF StartTls, Goto, CloseListener, kernel, Listening,
         UpStage, ShutStage, OwnStage, JoinStage, BareStage, MemberTypes, LocalTypes, PcTypes,
         Actor
    <3>3. Pool(c)'
      BY <1>c, <1>p, <1>3, <2>2, <3>1 DEF StartTls, Goto, Pool, ShutStage, JoinStage, BareStage,
         PcTypes, Actor, MemberTypes, LocalTypes
    <3>4. Accepting(c)'
      BY <1>c, <1>a, <1>3, <2>2, <3>1 DEF StartTls, Goto, Accepting, ServePc, PcTypes, Actor,
         LocalTypes
    <3>5. Provided(c)'
      BY <1>c, <1>p, <1>q, <1>3, <2>2, <3>1 DEF StartTls, Goto, Provided, Pool, JoinStage,
         BareStage, PcTypes, Actor
    <3>6. QED BY <3>2, <3>3, <3>4, <3>5, Zenon DEF ControlInv
  <2>3. QED BY <1>c, <1>3, <2>1, <2>2, Zenon DEF StartTls, Goto, PcTypes, Actor
<1>4. ASSUME StartPublish(c) PROVE ControlInv(c)'
  <2>1. Stage(c) = "publish" /\ Stage(c)' = "spawn"
    BY <1>c, <1>l, <1>4, Zenon DEF StartPublish, Goto, Stage, Listening, UpStage, PcTypes, Actor
  <2>2. Listening(c)'
    BY <1>c, <1>l, <1>4, <2>1 DEF StartPublish, kernel, locals, Listening, UpStage, ShutStage,
       OwnStage, JoinStage, BareStage, MemberTypes, LocalTypes
  <2>3. Pool(c)'
    BY <1>c, <1>p, <1>4, <2>1, Zenon DEF StartPublish, Goto, locals, Pool, ShutStage, JoinStage,
       BareStage, PcTypes, Actor, MemberTypes, LocalTypes
  <2>4. Accepting(c)'
    BY <1>c, <1>a, <1>4, <2>1 DEF StartPublish, Goto, locals, Accepting, ServePc, PcTypes,
       Actor, LocalTypes
  <2>5. Provided(c)'
    BY <1>c, <1>q, <1>4, <2>1, Zenon DEF StartPublish, Goto, ConfigureStatsd, Provided, PcTypes,
       Actor
  <2>6. QED BY <2>2, <2>3, <2>4, <2>5, Zenon DEF ControlInv
<1>5. ASSUME StartSpawn(c) PROVE ControlInv(c)'
  <2>1. CASE pc'[c] = "spawn"
    <3>1. Stage(c) = "spawn" /\ Stage(c)' = "spawn"
      BY <1>c, <1>l, <1>5, <2>1, Zenon DEF StartSpawn, Goto, Stage, Listening, UpStage, PcTypes,
         Actor
    <3>2. Listening(c)'
      BY <1>c, <1>l, <1>5, <2>1, <3>1 DEF StartSpawn, Goto, kernel, Listening, UpStage,
         ShutStage, OwnStage, JoinStage, BareStage, MemberTypes, LocalTypes, PcTypes, Actor
    <3>3. Pool(c)'
      BY <1>c, <1>p, <1>5, <2>1, <3>1 DEF StartSpawn, Goto, Pool, ShutStage, JoinStage,
         BareStage, PcTypes, Actor, MemberTypes, LocalTypes
    <3>4. Accepting(c)'
      BY <1>c, <1>a, <1>5, <2>1, <3>1 DEF StartSpawn, Goto, Accepting, ServePc, PcTypes, Actor,
         LocalTypes
    <3>5. Provided(c)'
      BY <1>c, <1>q, <1>5, <2>1, <3>1, Zenon DEF StartSpawn, Goto, Provided, PcTypes, Actor
    <3>6. QED BY <3>2, <3>3, <3>4, <3>5, Zenon DEF ControlInv
  <2>2. CASE pc'[c] = "idle"
    <3>1. Stage(c) = "spawn" /\ Stage(c)' = "up"
      BY <1>c, <1>l, <1>5, <2>2, Zenon DEF StartSpawn, Goto, Stage, Listening, UpStage, PcTypes,
         Actor
    <3>2. Listening(c)'
      BY <1>c, <1>l, <1>5, <2>2, <3>1 DEF StartSpawn, Goto, kernel, Listening, UpStage,
         ShutStage, OwnStage, JoinStage, BareStage, MemberTypes, LocalTypes, PcTypes, Actor
    <3>3. Pool(c)'
      BY <1>c, <1>p, <1>5, <2>2, <3>1 DEF StartSpawn, Goto, Pool, ShutStage, JoinStage,
         BareStage, PcTypes, Actor, MemberTypes, LocalTypes
    <3>4. Accepting(c)'
      BY <1>c, <1>l, <1>a, <1>5, <2>2, <3>1 DEF StartSpawn, Goto, Accepting, ServePc, Listening,
         OwnStage, PcTypes, Actor, LocalTypes
    <3>5. Provided(c)'
      BY <1>c, <1>q, <1>5, <2>2, <3>1 DEF StartSpawn, Goto, Provided, PcTypes, Actor
    <3>6. QED BY <3>2, <3>3, <3>4, <3>5 DEF ControlInv
  <2>3. CASE pc'[c] = "unwind"
    <3>1. Stage(c) = "spawn" /\ Stage(c)' = "unwind"
      BY <1>c, <1>l, <1>5, <2>3, Zenon DEF StartSpawn, Goto, Stage, Listening, UpStage, PcTypes,
         Actor
    <3>2. Listening(c)'
      BY <1>c, <1>l, <1>5, <2>3, <3>1 DEF StartSpawn, Goto, kernel, Listening, UpStage,
         ShutStage, OwnStage, JoinStage, BareStage, MemberTypes, LocalTypes, PcTypes, Actor
    <3>3. Pool(c)'
      BY <1>c, <1>p, <1>5, <2>3, <3>1 DEF StartSpawn, Goto, Pool, ShutStage, JoinStage,
         BareStage, PcTypes, Actor, MemberTypes, LocalTypes
    <3>4. Accepting(c)'
      BY <1>c, <1>a, <1>5, <2>3, <3>1 DEF StartSpawn, Goto, Accepting, ServePc, PcTypes, Actor,
         LocalTypes
    <3>5. Provided(c)'
      BY <1>c, <1>q, <1>5, <2>3, <3>1, Zenon DEF StartSpawn, Goto, Provided, PcTypes, Actor
    <3>6. QED BY <3>2, <3>3, <3>4, <3>5, Zenon DEF ControlInv
  <2>4. QED BY <1>c, <1>5, <2>1, <2>2, <2>3, Zenon DEF StartSpawn, Goto, PcTypes, Actor
<1>6. ASSUME StartUnwind(c) PROVE ControlInv(c)'
  <2>1. Stage(c) = "unwind" /\ Stage(c)' = "wake"
    BY <1>c, <1>l, <1>6, Zenon DEF StartUnwind, Goto, Stage, Listening, UpStage, PcTypes, Actor
  <2>2. Listening(c)'
    BY <1>c, <1>l, <1>6, <2>1 DEF StartUnwind, locals, Listening, UpStage, ShutStage, OwnStage,
       JoinStage, BareStage, MemberTypes, LocalTypes
  <2>3. Pool(c)'
    BY <1>c, <1>p, <1>6, <2>1 DEF StartUnwind, Goto, locals, Pool, ShutStage, JoinStage,
       BareStage, PcTypes, Actor, MemberTypes, LocalTypes
  <2>4. Accepting(c)'
    BY <1>c, <1>a, <1>6, <2>1 DEF StartUnwind, Goto, locals, Accepting, ServePc, PcTypes, Actor,
       LocalTypes
  <2>5. Provided(c)'
    BY <1>c, <1>q, <1>6, <2>1, Zenon DEF StartUnwind, Goto, Provided, PcTypes, Actor
  <2>6. QED BY <2>2, <2>3, <2>4, <2>5, Zenon DEF ControlInv
<1>7. ASSUME StartWake(c) PROVE ControlInv(c)'
  <2>1. Stage(c) = "wake" /\ Stage(c)' = "rollback"
    BY <1>c, <1>l, <1>7, Zenon DEF StartWake, WakeAll, member, Stage, Listening, UpStage,
       PcTypes, Actor
  <2>2. Listening(c)'
    BY <1>c, <1>l, <1>7, <2>1, Zenon DEF StartWake, member, kernel, locals, Listening, UpStage,
       ShutStage, OwnStage, JoinStage, BareStage, MemberTypes, LocalTypes
  <2>3. Pool(c)'
    BY <1>c, <1>p, <1>7, <2>1 DEF StartWake, WakeAll, member, locals, Pool, ShutStage,
       JoinStage, BareStage, PcTypes, Actor, MemberTypes, LocalTypes
  <2>4. Accepting(c)'
    BY <1>c, <1>a, <1>7, <2>1 DEF StartWake, WakeAll, member, locals, Accepting, ServePc,
       PcTypes, Actor, LocalTypes
  <2>5. Provided(c)'
    BY <1>c, <1>q, <1>7, <2>1, Zenon DEF StartWake, WakeAll, member, Provided, PcTypes, Actor
  <2>6. QED BY <2>2, <2>3, <2>4, <2>5, Zenon DEF ControlInv
<1>8. ASSUME StartRollback(c) PROVE ControlInv(c)'
  <2>1. Stage(c) = "rollback" /\ Stage(c)' = "idle"
    BY <1>c, <1>l, <1>8, Zenon DEF StartRollback, Joined, Stage, Listening, UpStage, PcTypes,
       Actor, MemberTypes
  <2>2. Listening(c)'
    BY <1>c, <1>l, <1>8, <2>1 DEF StartRollback, CloseListener, Listening, UpStage, ShutStage,
       OwnStage, JoinStage, BareStage, MemberTypes, LocalTypes
  <2>3. Pool(c)'
    BY <1>c, <1>p, <1>8, <2>1 DEF StartRollback, Joined, Pool, ShutStage, JoinStage, BareStage,
       PcTypes, Actor, MemberTypes, LocalTypes
  <2>4. Accepting(c)'
    BY <1>c, <1>a, <1>8, <2>1 DEF StartRollback, Joined, Accepting, ServePc, PcTypes, Actor,
       LocalTypes
  <2>5. Provided(c)'
    BY <1>c, <1>p, <1>q, <1>8, <2>1, Zenon DEF StartRollback, Joined, ShutdownStatsd, Provided,
       Pool, JoinStage, BareStage, PcTypes, Actor
  <2>6. QED BY <2>2, <2>3, <2>4, <2>5, Zenon DEF ControlInv
<1>9. QED BY <1>1, <1>2, <1>3, <1>4, <1>5, <1>6, <1>7, <1>8, Zenon DEF StartStep

\* A step of stop does.
LEMMA StopControl ==
  ASSUME NEW c, Controller = {c}, PcTypes, MemberTypes, LocalTypes, ControlInv(c),
         StopEnter(c) \/ StopStep(c)
  PROVE  ControlInv(c)'
<1> USE ThreadAssumption
<1>c. c \in Controller /\ c \notin Worker /\ c \notin Acceptor BY Zenon
<1>l. Listening(c) BY Zenon DEF ControlInv
<1>p. Pool(c) BY Zenon DEF ControlInv
<1>a. Accepting(c) BY Zenon DEF ControlInv
<1>q. Provided(c) BY Zenon DEF ControlInv
<1>1. ASSUME StopEnter(c) PROVE ControlInv(c)'
  <2>1. Stage(c) = "up" /\ Stage(c)' = "shut"
    BY <1>c, <1>l, <1>1 DEF StopEnter, Goto, Stage, Listening, UpStage, PcTypes, Actor
  <2>2. Listening(c)'
    BY <1>c, <1>l, <1>1, <2>1, Zenon DEF StopEnter, kernel, locals, Listening, UpStage,
       ShutStage, OwnStage, JoinStage, BareStage, MemberTypes, LocalTypes
  <2>3. Pool(c)'
    BY <1>c, <1>p, <1>1, <2>1 DEF StopEnter, Goto, locals, Pool, ShutStage, JoinStage,
       BareStage, PcTypes, Actor, MemberTypes, LocalTypes
  <2>4. Accepting(c)'
    BY <1>c, <1>a, <1>1, <2>1 DEF StopEnter, Goto, locals, Accepting, ServePc, PcTypes, Actor,
       LocalTypes
  <2>5. Provided(c)'
    BY <1>c, <1>q, <1>1, <2>1, Zenon DEF StopEnter, Goto, Provided, PcTypes, Actor
  <2>6. QED BY <2>2, <2>3, <2>4, <2>5, Zenon DEF ControlInv
<1>2. ASSUME StopShut(c) PROVE ControlInv(c)'
  <2>1. Stage(c) = "shut" /\ Stage(c)' = "drain"
    BY <1>c, <1>l, <1>2, SMTT(30) DEF StopShut, Goto, Stage, Listening, UpStage, PcTypes, Actor
  <2>2. Listening(c)'
    BY <1>c, <1>l, <1>2, <2>1 DEF StopShut, Listening, UpStage, ShutStage, OwnStage, JoinStage,
       BareStage, MemberTypes, LocalTypes
  <2>3. Pool(c)'
    BY <1>c, <1>p, <1>2, <2>1 DEF StopShut, Goto, Pool, ShutStage, JoinStage, BareStage,
       PcTypes, Actor, MemberTypes, LocalTypes
  <2>4. Accepting(c)'
    BY <1>c, <1>a, <1>2, <2>1 DEF StopShut, Goto, Accepting, ServePc, PcTypes, Actor, LocalTypes
  <2>5. Provided(c)'
    BY <1>c, <1>q, <1>2, <2>1, Zenon DEF StopShut, Goto, ShutdownStatsd, Provided, PcTypes, Actor
  <2>6. QED BY <2>2, <2>3, <2>4, <2>5, Zenon DEF ControlInv
<1>3. ASSUME StopDrain(c) PROVE ControlInv(c)'
  <2>1. Stage(c) = "drain" /\ Stage(c)' = "notify"
    BY <1>c, <1>l, <1>3, Zenon DEF StopDrain, Goto, member, Stage, Listening, UpStage, PcTypes,
       Actor
  <2>2. Listening(c)'
    BY <1>c, <1>l, <1>3, <2>1, Zenon DEF StopDrain, member, locals, Listening, UpStage,
       ShutStage, OwnStage, JoinStage, BareStage, MemberTypes, LocalTypes
  <2>3. Pool(c)'
    BY <1>c, <1>p, <1>3, <2>1 DEF StopDrain, Goto, member, locals, Pool, ShutStage, JoinStage,
       BareStage, PcTypes, Actor, MemberTypes, LocalTypes
  <2>4. Accepting(c)'
    BY <1>c, <1>a, <1>3, <2>1 DEF StopDrain, Goto, member, locals, Accepting, ServePc, PcTypes,
       Actor, LocalTypes
  <2>5. Provided(c)'
    BY <1>c, <1>q, <1>3, <2>1, Zenon DEF StopDrain, Goto, member, Provided, PcTypes, Actor
  <2>6. QED BY <2>2, <2>3, <2>4, <2>5, Zenon DEF ControlInv
<1>4. ASSUME StopNotify(c) PROVE ControlInv(c)'
  <2>1. Stage(c) = "notify" /\ Stage(c)' = "joinAcceptor"
    BY <1>c, <1>l, <1>4, Zenon DEF StopNotify, WakeAll, member, Stage, Listening, UpStage,
       PcTypes, Actor
  <2>2. Listening(c)'
    BY <1>c, <1>l, <1>4, <2>1, Zenon DEF StopNotify, member, kernel, locals, Listening, UpStage,
       ShutStage, OwnStage, JoinStage, BareStage, MemberTypes, LocalTypes
  <2>3. Pool(c)'
    BY <1>c, <1>p, <1>4, <2>1 DEF StopNotify, WakeAll, member, locals, Pool, ShutStage,
       JoinStage, BareStage, PcTypes, Actor, MemberTypes, LocalTypes
  <2>4. Accepting(c)'
    BY <1>c, <1>a, <1>4, <2>1 DEF StopNotify, WakeAll, member, locals, Accepting, ServePc,
       PcTypes, Actor, LocalTypes
  <2>5. Provided(c)'
    BY <1>c, <1>q, <1>4, <2>1, Zenon DEF StopNotify, WakeAll, member, Provided, PcTypes, Actor
  <2>6. QED BY <2>2, <2>3, <2>4, <2>5, Zenon DEF ControlInv
<1>5. ASSUME StopJoinAcceptor(c) PROVE ControlInv(c)'
  <2>1. Stage(c) = "joinAcceptor" /\ Stage(c)' = "close"
    BY <1>c, <1>l, <1>5, Zenon DEF StopJoinAcceptor, Joined, member, Stage, Listening, UpStage,
       PcTypes, Actor, LocalTypes
  <2>2. Listening(c)'
    BY <1>c, <1>l, <1>5, <2>1, Zenon DEF StopJoinAcceptor, member, kernel, Listening, UpStage,
       ShutStage, OwnStage, JoinStage, BareStage, MemberTypes, LocalTypes
  <2>3. Pool(c)'
    BY <1>c, <1>p, <1>5, <2>1 DEF StopJoinAcceptor, Joined, member, Pool, ShutStage, JoinStage,
       BareStage, PcTypes, Actor, MemberTypes, LocalTypes
  <2>4. Accepting(c)'
    BY <1>c, <1>a, <1>5, <2>1 DEF StopJoinAcceptor, Joined, member, Accepting, ServePc, PcTypes,
       Actor, LocalTypes
  <2>5. Provided(c)'
    BY <1>c, <1>q, <1>5, <2>1, Zenon DEF StopJoinAcceptor, Joined, member, Provided, PcTypes,
       Actor
  <2>6. QED BY <2>2, <2>3, <2>4, <2>5, Zenon DEF ControlInv
<1>6. ASSUME StopClose(c) PROVE ControlInv(c)'
  <2>1. Stage(c) = "close" /\ Stage(c)' = "joinWorkers"
    BY <1>c, <1>l, <1>6, Zenon DEF StopClose, Goto, Stage, Listening, UpStage, PcTypes, Actor
  <2>2. Listening(c)'
    BY <1>c, <1>l, <1>6, <2>1 DEF StopClose, CloseListener, Listening, UpStage, ShutStage,
       OwnStage, JoinStage, BareStage, MemberTypes, LocalTypes
  <2>3. Pool(c)'
    BY <1>c, <1>p, <1>6, <2>1 DEF StopClose, Goto, Pool, ShutStage, JoinStage, BareStage,
       PcTypes, Actor, MemberTypes, LocalTypes
  <2>4. Accepting(c)'
    BY <1>c, <1>a, <1>6, <2>1 DEF StopClose, Goto, Accepting, ServePc, PcTypes, Actor,
       LocalTypes
  <2>5. Provided(c)'
    BY <1>c, <1>q, <1>6, <2>1, Zenon DEF StopClose, Goto, Provided, PcTypes, Actor
  <2>6. QED BY <2>2, <2>3, <2>4, <2>5, Zenon DEF ControlInv
<1>7. ASSUME StopJoinWorkers(c) PROVE ControlInv(c)'
  <2>1. Stage(c) = "joinWorkers" /\ Stage(c)' = "free"
    BY <1>c, <1>l, <1>7, Zenon DEF StopJoinWorkers, Joined, member, Stage, Listening, UpStage,
       PcTypes, Actor, LocalTypes
  <2>2. Listening(c)'
    BY <1>c, <1>l, <1>7, <2>1, Zenon DEF StopJoinWorkers, member, kernel, Listening, UpStage,
       ShutStage, OwnStage, JoinStage, BareStage, MemberTypes, LocalTypes
  <2>3. Pool(c)'
    BY <1>c, <1>p, <1>7, <2>1, Zenon DEF StopJoinWorkers, Joined, member, Pool, ShutStage,
       JoinStage, BareStage, PcTypes, Actor, MemberTypes, LocalTypes
  <2>4. Accepting(c)'
    BY <1>c, <1>a, <1>7, <2>1 DEF StopJoinWorkers, Joined, member, Accepting, ServePc, PcTypes,
       Actor, LocalTypes
  <2>5. Provided(c)'
    BY <1>c, <1>q, <1>7, <2>1, Zenon DEF StopJoinWorkers, Joined, member, Provided, PcTypes, Actor
  <2>6. QED BY <2>2, <2>3, <2>4, <2>5, Zenon DEF ControlInv
<1>8. ASSUME StopFree(c) PROVE ControlInv(c)'
  <2>1. Stage(c) = "free" /\ Stage(c)' = "idle"
    BY <1>c, <1>l, <1>8, Zenon DEF StopFree, Goto, Stage, Listening, UpStage, PcTypes, Actor
  <2>2. Listening(c)'
    BY <1>c, <1>l, <1>8, <2>1, Zenon DEF StopFree, kernel, locals, Listening, UpStage, ShutStage,
       OwnStage, JoinStage, BareStage, MemberTypes, LocalTypes
  <2>3. Pool(c)'
    BY <1>c, <1>p, <1>8, <2>1, Zenon DEF StopFree, Goto, locals, Pool, ShutStage, JoinStage,
       BareStage, PcTypes, Actor, MemberTypes, LocalTypes
  <2>4. Accepting(c)'
    BY <1>c, <1>a, <1>8, <2>1 DEF StopFree, Goto, locals, Accepting, ServePc, PcTypes, Actor,
       LocalTypes
  <2>5. Provided(c)'
    BY <1>c, <1>p, <1>q, <1>8, <2>1, Zenon DEF StopFree, Goto, Provided, Pool, JoinStage,
       BareStage, PcTypes, Actor
  <2>6. QED BY <2>2, <2>3, <2>4, <2>5, Zenon DEF ControlInv
<1>9. QED BY <1>1, <1>2, <1>3, <1>4, <1>5, <1>6, <1>7, <1>8, Zenon DEF StopStep

\* No step of another thread touches what the controlling thread has.
LEMMA BesideStep ==
  ASSUME NEW c, Controller = {c}, PcTypes, LocalTypes, Next,
         ~(StartEnter(c) \/ StartStep(c) \/ StopEnter(c) \/ StopStep(c))
  PROVE  Beside(c)
<1> USE ThreadAssumption DEF member, kernel, locals, PcTypes, LocalTypes, Actor
<1>1. ASSUME NEW s \in Acceptor, ServeLoop(s) PROVE Beside(c)
  BY <1>1, Zenon DEF ServeLoop, Goto, Beside, ServePc
<1>2. ASSUME NEW s \in Acceptor, ServeAccept(s) PROVE Beside(c)
  BY <1>2 DEF ServeAccept, Goto, Beside, ServePc
<1>3. ASSUME NEW s \in Acceptor, ServeQueue(s) PROVE Beside(c)
  BY <1>3 DEF ServeQueue, Goto, Beside, ServePc
<1>4. ASSUME NEW s \in Acceptor, ServeSignal(s) PROVE Beside(c)
  BY <1>4 DEF ServeSignal, Goto, Beside, ServePc
<1>5. ASSUME NEW w \in Worker, WorkLock(w) PROVE Beside(c)
  BY <1>5, Zenon DEF WorkLock, Goto, Beside, ServePc
<1>6. ASSUME NEW w \in Worker, WorkTest(w) PROVE Beside(c)
  BY <1>6 DEF WorkTest, Goto, Beside, ServePc
<1>7. ASSUME NEW w \in Worker, WorkBlock(w) PROVE Beside(c)
  BY <1>7, Zenon DEF WorkBlock, Goto, Beside, ServePc
<1>8. ASSUME NEW w \in Worker, SpuriousWakeup(w) PROVE Beside(c)
  BY <1>8, Zenon DEF SpuriousWakeup, Goto, Beside, ServePc
<1>9. ASSUME NEW w \in Worker, WorkServe(w) PROVE Beside(c)
  BY <1>9, Zenon DEF WorkServe, Goto, Beside, ServePc
<1>10. ASSUME NEW w \in Worker, WorkHandshake(w) PROVE Beside(c)
  BY <1>10, Zenon DEF WorkHandshake, Goto, Beside, ServePc
<1>11. ASSUME NEW w \in Worker, WorkReply(w) PROVE Beside(c)
  BY <1>11, Zenon DEF WorkReply, Goto, Beside, ServePc
<1>12. ASSUME NEW k \in Client, Connect(k) PROVE Beside(c) BY <1>12, Zenon DEF Connect, Beside
<1>13. \/ \E s \in Acceptor : ServeStep(s)
       \/ \E w \in Worker : WorkStep(w) \/ SpuriousWakeup(w)
       \/ \E k \in Client : Connect(k)
  BY Zenon DEF Next
<1>14. QED
  BY <1>13, <1>1, <1>2, <1>3, <1>4, <1>5, <1>6, <1>7, <1>8, <1>9, <1>10, <1>11, <1>12, Zenon
     DEF ServeStep, WorkStep

\* Such steps keep the invariant.
LEMMA BesideControl ==
  ASSUME NEW c, Controller = {c}, MemberTypes, LocalTypes, ControlInv(c), Beside(c)
  PROVE  ControlInv(c)'
<1>0. Listening(c) /\ Pool(c) /\ Accepting(c) /\ Provided(c) BY Zenon DEF ControlInv
<1>1. Stage(c)' = Stage(c) BY Zenon DEF Beside, Stage
<1>2. Listening(c)' BY <1>0, <1>1, Zenon DEF Beside, Listening
<1>3. /\ {w \in Worker : pc'[w] # "none"} = {w \in Worker : pc[w] # "none"}
      /\ {s \in Acceptor : pc'[s] # "none"} = {s \in Acceptor : pc[s] # "none"}
  BY Zenon DEF Beside
<1>4. Pool(c)' BY <1>0, <1>1, <1>3, Zenon DEF Beside, Pool
<1>5. Accepting(c)'
  <2>1. \A s \in Acceptor : pc'[s] \in ServePc => fd'[s] = listenFd'
    BY <1>0, Zenon DEF Beside, Accepting
  <2>2. QED BY <1>0, <1>1, <1>3, <2>1, Zenon DEF Beside, Accepting
<1>6. Provided(c)'
  <2>1. CASE clients = <<>> /\ clients' # <<>>
    <3>1. PICK s \in Acceptor : pc[s] # "none" /\ running BY <2>1, Zenon DEF Beside
    <3>2. s \in {acceptor, joinAcceptor[c]} \ {Nobody} BY <1>0, <3>1, Zenon DEF Accepting
    <3>3. Stage(c) = "up" BY <1>0, <3>1, <3>2, Zenon DEF Accepting, Listening, UpStage
    <3>4. QED BY <1>0, <1>1, <3>3, Zenon DEF Beside, Provided
  <2>2. CASE clients # <<>> \/ clients' = <<>>
    BY <1>0, <1>1, <2>2 DEF Beside, Provided
  <2>3. QED BY <2>1, <2>2
<1>7. QED BY <1>2, <1>4, <1>5, <1>6, Zenon DEF ControlInv

\* Nothing exists before the first call.
LEMMA ControlFirst == ASSUME NEW c, Controller = {c}, Init PROVE ControlInv(c)
<1> USE ThreadAssumption DEF Init, Actor
<1>1. pc[c] = "idle" /\ c \notin Worker /\ c \notin Acceptor /\ ~running BY Zenon
<1>2. \A a \in Worker \cup Acceptor : pc[a] = "none" BY Zenon
<1>3. Stage(c) = "idle" BY <1>1, Zenon DEF Stage
<1>4. Listening(c)
  BY <1>3, Zenon DEF Listening, UpStage, ShutStage, OwnStage, JoinStage, BareStage
<1>5. Pool(c) BY <1>2, <1>3, Zenon DEF Pool, JoinStage, BareStage
<1>6. Accepting(c) BY <1>2, <1>3, Zenon DEF Accepting, ServePc
<1>7. Provided(c) BY <1>2, <1>3, Zenon DEF Provided
<1>8. QED BY <1>4, <1>5, <1>6, <1>7, Zenon DEF ControlInv

\* What threads use exists, and an idle exporter has nothing.
LEMMA Released ==
  ASSUME NEW c, Controller = {c}, HoldInv, ControlInv(c)
  PROVE  ResourcesMatchUsers
<1>0. Listening(c) /\ Pool(c) /\ Accepting(c) /\ Provided(c) BY Zenon DEF ControlInv
<1>1. PcTypes /\ MemberTypes /\ QueueTypes /\ LocalTypes /\ Carry /\ Owned
  BY TypeGroups, Zenon DEF HoldInv
<1>2. \A w \in Worker : pc[w] = "newssl" => tls BY <1>0, Zenon DEF Provided
<1>3. ASSUME NEW s \in Acceptor, pc[s] = "accept" PROVE socket[fd[s]] # "closed"
  <2>1. fd[s] = listenFd BY <1>0, <1>3, Zenon DEF Accepting, ServePc
  <2>2. s \in {acceptor, joinAcceptor[c]} \ {Nobody} BY <1>0, <1>3, Zenon DEF Accepting
  <2>3. Stage(c) \in {"up", "shut", "drain", "notify", "joinAcceptor"}
    BY <1>0, <2>2, Zenon DEF Accepting
  <2>4. listenFd # Nobody
    BY <1>0, <2>3, Zenon DEF Listening, OwnStage, ShutStage
  <2>5. listenFd \in Listener BY <1>1, <2>4, Zenon DEF MemberTypes
  <2>6. QED BY <1>0, <2>1, <2>5, Zenon DEF Listening
<1>4. ASSUME ~running, \A d \in Controller : pc[d] = "idle"
      PROVE  /\ listenFd = Nobody /\ ~statsd /\ ~tls
             /\ \A l \in Listener : socket[l] = "closed"
             /\ \A a \in Worker \cup Acceptor : pc[a] = "none"
             /\ clients = <<>> /\ connected = {}
  <2>1. Stage(c) = "idle" BY <1>4, Zenon DEF Stage
  <2>2. listenFd = Nobody /\ fd[c] = Nobody
    BY <1>0, <2>1, Zenon DEF Listening, BareStage, OwnStage, ShutStage
  <2>3. \A l \in Listener : socket[l] = "closed"
    BY <1>0, <2>2, ThreadAssumption, Zenon DEF Listening
  <2>4. clients = <<>> /\ ~statsd /\ ~tls BY <1>0, <2>1, Zenon DEF Provided
  <2>5. \A a \in Worker \cup Acceptor : pc[a] = "none"
    BY <1>0, <2>1, Zenon DEF Pool, Accepting, BareStage, JoinStage
  <2>6. \A a \in Worker \cup Acceptor : client[a] = Nobody
    BY <1>1, <2>5, Zenon DEF Carry, CarryPc
  <2>7. connected = {}
    BY <1>1, <2>4, <2>6, ThreadAssumption DEF Owned, QueueTypes
  <2>8. QED BY <2>2, <2>3, <2>4, <2>5, <2>7
<1>5. QED BY <1>2, <1>3, <1>4, Zenon DEF ResourcesMatchUsers

----------------------------------------------------------------------------
(* Who holds a connection.                                                 *)

\* Nothing changes hands, and the kernel's backlog does not grow.
LEMMA HeldStill ==
  ASSUME Owned, Unique, Waiting, UNCHANGED <<client, clients, connected>>, backlog' \subseteq backlog
  PROVE  Owned' /\ Unique' /\ Waiting'
BY Zenon DEF Owned, Unique, Waiting

\* accept takes a connection out of the backlog.
LEMMA HeldAccept ==
  ASSUME QueueTypes, LocalTypes, Owned, Unique, Waiting,
         NEW a \in Worker \cup Acceptor, client[a] = Nobody, NEW k \in backlog,
         backlog' = backlog \ {k}, connected' = connected \cup {k},
         client' = [client EXCEPT ![a] = k], UNCHANGED clients
  PROVE  Owned' /\ Unique' /\ Waiting'
<1> USE ThreadAssumption DEF LocalTypes
<1>1. k \in Client /\ k \notin connected /\ k # Nobody BY Zenon DEF QueueTypes, Waiting
<1>2. /\ \A b \in Worker \cup Acceptor : client[b] # k
      /\ \A i \in DOMAIN clients : clients[i] # k
  BY <1>1, Zenon DEF Owned
<1>3. Owned' BY <1>1 DEF Owned
<1>4. Unique' BY <1>1, <1>2 DEF Unique
<1>5. Waiting' BY <1>1, Zenon DEF Waiting
<1>6. QED BY <1>3, <1>4, <1>5, Zenon

\* The accept thread hands its connection to the queue.
LEMMA HeldQueue ==
  ASSUME QueueTypes, LocalTypes, Owned, Unique, Waiting,
         NEW a \in Worker \cup Acceptor, client[a] # Nobody,
         clients' = Append(clients, client[a]), client' = [client EXCEPT ![a] = Nobody],
         UNCHANGED <<connected, backlog>>
  PROVE  Owned' /\ Unique' /\ Waiting'
<1> USE ThreadAssumption DEF LocalTypes
<1> DEFINE n == Len(clients)
<1>1. /\ n \in Nat /\ DOMAIN clients = 1..n /\ DOMAIN clients' = 1..(n + 1)
      /\ clients'[n + 1] = client[a] /\ \A i \in 1..n : clients'[i] = clients[i]
      /\ client[a] \in Client
  BY DEF QueueTypes
<1>2. \A b \in Worker \cup Acceptor : client'[b] = IF b = a THEN Nobody ELSE client[b] OBVIOUS
<1> HIDE DEF n
<1>3. Owned'
  <2> SUFFICES ASSUME NEW k \in Client
               PROVE  k \in connected <=> \/ \E b \in Worker \cup Acceptor : client'[b] = k
                                          \/ \E i \in DOMAIN clients' : clients'[i] = k
    BY Zenon DEF Owned
  <2>1. CASE k = client[a]
    <3>1. k \in connected BY <2>1, Zenon DEF Owned
    <3>2. n + 1 \in DOMAIN clients' /\ clients'[n + 1] = k BY <1>1, <2>1
    <3>3. QED BY <3>1, <3>2
  <2>2. CASE k # client[a]
    <3>1. (\E b \in Worker \cup Acceptor : client'[b] = k) <=> \E b \in Worker \cup Acceptor : client[b] = k
      BY <1>2, <2>2, Zenon
    <3>2. (\E i \in DOMAIN clients' : clients'[i] = k) <=> \E i \in DOMAIN clients : clients[i] = k
      BY <1>1, <2>2
    <3>3. QED BY <3>1, <3>2 DEF Owned
  <2>3. QED BY <2>1, <2>2, Zenon
<1>4. Unique'
  <2>1. \A b, d \in Worker \cup Acceptor : client'[b] # Nobody /\ client'[b] = client'[d] => b = d
    BY <1>2, Zenon DEF Unique
  <2>2. \A i, j \in DOMAIN clients' : clients'[i] = clients'[j] => i = j
    <3>1. \A i \in 1..n : clients[i] # client[a] BY <1>1, Zenon DEF Unique
    <3>2. \A i \in 1..(n + 1) : i \in 1..n \/ i = n + 1 BY <1>1
    <3>3. QED BY <1>1, <3>1, <3>2 DEF Unique
  <2>3. \A b \in Worker \cup Acceptor, i \in DOMAIN clients' : client'[b] # clients'[i]
    <3>1. \A i \in 1..n : clients[i] \in Client BY <1>1 DEF QueueTypes
    <3>2. \A i \in 1..(n + 1) : i \in 1..n \/ i = n + 1 BY <1>1
    <3>3. QED BY <1>1, <1>2, <3>1, <3>2 DEF Unique
  <2>4. QED BY <2>1, <2>2, <2>3 DEF Unique
<1>5. QED BY <1>3, <1>4, Zenon DEF Waiting

\* A pool thread takes the first one from the queue.
LEMMA HeldTake ==
  ASSUME QueueTypes, LocalTypes, Owned, Unique, Waiting,
         NEW a \in Worker \cup Acceptor, client[a] = Nobody, clients # <<>>,
         clients' = Tail(clients), client' = [client EXCEPT ![a] = Head(clients)],
         UNCHANGED <<connected, backlog>>
  PROVE  Owned' /\ Unique' /\ Waiting'
<1> USE ThreadAssumption DEF LocalTypes
<1> DEFINE n == Len(clients)
<1>1. /\ n \in Nat \ {0} /\ DOMAIN clients = 1..n /\ DOMAIN clients' = 1..(n - 1)
      /\ Head(clients) = clients[1] /\ \A i \in 1..(n - 1) : clients'[i] = clients[i + 1]
      /\ \A i \in 1..n : clients[i] \in Client
  BY DEF QueueTypes
<1>2. \A b \in Worker \cup Acceptor : client'[b] = IF b = a THEN clients[1] ELSE client[b]
  BY <1>1, Zenon
<1>3. 1 \in 1..n BY <1>1
<1> HIDE DEF n
<1>4. Owned'
  <2> SUFFICES ASSUME NEW k \in Client
               PROVE  k \in connected <=> \/ \E b \in Worker \cup Acceptor : client'[b] = k
                                          \/ \E i \in DOMAIN clients' : clients'[i] = k
    BY Zenon DEF Owned
  <2>1. CASE k = clients[1]
    <3>1. k \in connected BY <1>1, <1>3, <2>1, Zenon DEF Owned
    <3>2. client'[a] = k BY <1>2, <2>1, Zenon
    <3>3. QED BY <3>1, <3>2, Zenon
  <2>2. CASE k # clients[1]
    <3>1. (\E b \in Worker \cup Acceptor : client'[b] = k) <=> \E b \in Worker \cup Acceptor : client[b] = k
      BY <1>2, <2>2
    <3>2. ASSUME NEW i \in DOMAIN clients, clients[i] = k
          PROVE  \E j \in DOMAIN clients' : clients'[j] = k
      <4>1. i # 1 BY <2>2, <3>2, Zenon
      <4>2. i - 1 \in 1..(n - 1) /\ (i - 1) + 1 = i BY <1>1, <4>1
      <4>3. QED BY <1>1, <3>2, <4>2
    <3>3. ASSUME NEW i \in DOMAIN clients', clients'[i] = k
          PROVE  \E j \in DOMAIN clients : clients[j] = k
      <4>1. i + 1 \in 1..n BY <1>1, SMTT(30)
      <4>2. QED BY <1>1, <3>3, <4>1
    <3>4. QED BY <3>1, <3>2, <3>3, Zenon DEF Owned
  <2>3. QED BY <2>1, <2>2, Zenon
<1>5. Unique'
  <2>0. \A i \in 1..(n - 1) : i + 1 \in 1..n /\ i + 1 # 1 BY <1>1
  <2>1. \A b, d \in Worker \cup Acceptor : client'[b] # Nobody /\ client'[b] = client'[d] => b = d
    BY <1>1, <1>2, <1>3 DEF Unique
  <2>2. \A i, j \in DOMAIN clients' : clients'[i] = clients'[j] => i = j
    <3> SUFFICES ASSUME NEW i \in 1..(n - 1), NEW j \in 1..(n - 1), clients'[i] = clients'[j]
                 PROVE  i = j
      BY <1>1, Zenon
    <3>1. /\ i + 1 \in DOMAIN clients /\ j + 1 \in DOMAIN clients
          /\ clients[i + 1] = clients[j + 1]
      BY <1>1, <2>0, Zenon
    <3>2. i + 1 = j + 1 BY <3>1, Zenon DEF Unique
    <3>3. QED BY <3>2
  <2>3. \A b \in Worker \cup Acceptor, i \in DOMAIN clients' : client'[b] # clients'[i]
    BY <1>1, <1>2, <1>3, <2>0 DEF Unique
  <2>4. QED BY <2>1, <2>2, <2>3 DEF Unique
<1>6. QED BY <1>4, <1>5, Zenon DEF Waiting

\* A thread closes the connection it holds.
LEMMA HeldClose ==
  ASSUME QueueTypes, LocalTypes, Owned, Unique, Waiting,
         NEW a \in Worker \cup Acceptor, client[a] # Nobody,
         connected' = connected \ {client[a]}, client' = [client EXCEPT ![a] = Nobody],
         UNCHANGED <<clients, backlog>>
  PROVE  Owned' /\ Unique' /\ Waiting'
<1> USE ThreadAssumption DEF LocalTypes
<1>1. \A b \in Worker \cup Acceptor : client'[b] = IF b = a THEN Nobody ELSE client[b] BY Zenon
<1>2. Owned' BY <1>1 DEF Owned, Unique
<1>3. \A i \in DOMAIN clients : clients[i] \in Client BY DEF QueueTypes
<1>4. Unique' BY <1>1, <1>3 DEF Unique
<1>5. QED BY <1>2, <1>4 DEF Waiting

\* A stop call closes what is queued.
LEMMA HeldDrain ==
  ASSUME QueueTypes, LocalTypes, Owned, Unique, Waiting,
         connected' = connected \ Range(clients), clients' = <<>>, UNCHANGED <<client, backlog>>
  PROVE  Owned' /\ Unique' /\ Waiting'
<1>1. \A k : k \in Range(clients) <=> \E i \in DOMAIN clients : clients[i] = k BY Zenon DEF Range
<1>2. DOMAIN clients' = {} OBVIOUS
<1>3. Owned' BY <1>1, <1>2 DEF Owned, Unique
<1>4. Unique' BY <1>2, Zenon DEF Unique
<1>5. QED BY <1>3, <1>4, Zenon DEF Waiting

\* A thread works with a connection exactly at the places that use one.
LEMMA CarryStep ==
  ASSUME PcTypes, MemberTypes, QueueTypes, LocalTypes, Carry, Next
  PROVE  Carry'
<1> USE ThreadAssumption DEF locals, PcTypes, LocalTypes, Carry, CarryPc, Actor
<1>1. ASSUME NEW c \in Controller, StartEnter(c) PROVE Carry'
  BY <1>1, Zenon DEF StartEnter, Goto
<1>2. ASSUME NEW c \in Controller, StartBind(c) PROVE Carry'
  BY <1>2 DEF StartBind, Goto
<1>3. ASSUME NEW c \in Controller, StartTls(c) PROVE Carry'
  BY <1>3 DEF StartTls, Goto
<1>4. ASSUME NEW c \in Controller, StartPublish(c) PROVE Carry'
  BY <1>4, Zenon DEF StartPublish, Goto
<1>5. ASSUME NEW c \in Controller, StartSpawn(c) PROVE Carry'
  BY <1>5 DEF StartSpawn, Goto
<1>6. ASSUME NEW c \in Controller, StartUnwind(c) PROVE Carry'
  BY <1>6, Zenon DEF StartUnwind, Goto
<1>7. ASSUME NEW c \in Controller, StartWake(c) PROVE Carry'
  BY <1>7, Zenon DEF StartWake, WakeAll
<1>8. ASSUME NEW c \in Controller, StartRollback(c) PROVE Carry'
  BY <1>8, Zenon DEF StartRollback, Exited, Joined, MemberTypes
<1>9. ASSUME NEW c \in Controller, StopEnter(c) PROVE Carry'
  BY <1>9, Zenon DEF StopEnter, Goto
<1>10. ASSUME NEW c \in Controller, StopShut(c) PROVE Carry'
  BY <1>10, Zenon DEF StopShut, Goto
<1>11. ASSUME NEW c \in Controller, StopDrain(c) PROVE Carry'
  BY <1>11, Zenon DEF StopDrain, Goto
<1>12. ASSUME NEW c \in Controller, StopNotify(c) PROVE Carry'
  BY <1>12, Zenon DEF StopNotify, WakeAll
<1>13. ASSUME NEW c \in Controller, StopJoinAcceptor(c) PROVE Carry'
  BY <1>13, Zenon DEF StopJoinAcceptor, Exited, Joined
<1>14. ASSUME NEW c \in Controller, StopClose(c) PROVE Carry'
  BY <1>14, Zenon DEF StopClose, Goto
<1>15. ASSUME NEW c \in Controller, StopJoinWorkers(c) PROVE Carry'
  BY <1>15, Zenon DEF StopJoinWorkers, Exited, Joined
<1>16. ASSUME NEW c \in Controller, StopFree(c) PROVE Carry'
  BY <1>16, Zenon DEF StopFree, Goto
<1>17. ASSUME NEW s \in Acceptor, ServeLoop(s) PROVE Carry'
  BY <1>17, Zenon DEF ServeLoop, Goto
<1>18. ASSUME NEW s \in Acceptor, ServeAccept(s) PROVE Carry'
  BY <1>18 DEF ServeAccept, Goto, QueueTypes
<1>19. ASSUME NEW s \in Acceptor, ServeQueue(s) PROVE Carry'
  BY <1>19, SMTT(30) DEF ServeQueue, Goto
<1>20. ASSUME NEW s \in Acceptor, ServeSignal(s) PROVE Carry'
  BY <1>20 DEF ServeSignal, Goto
<1>21. ASSUME NEW w \in Worker, WorkLock(w) PROVE Carry'
  BY <1>21, Zenon DEF WorkLock, Goto
<1>22. ASSUME NEW w \in Worker, WorkTest(w) PROVE Carry'
  BY <1>22 DEF WorkTest, Goto, QueueTypes
<1>23. ASSUME NEW w \in Worker, WorkBlock(w) PROVE Carry'
  BY <1>23, Zenon DEF WorkBlock, Goto
<1>24. ASSUME NEW w \in Worker, SpuriousWakeup(w) PROVE Carry'
  BY <1>24, Zenon DEF SpuriousWakeup, Goto
<1>25. ASSUME NEW w \in Worker, WorkServe(w) PROVE Carry'
  BY <1>25, Zenon DEF WorkServe, Goto
<1>26. ASSUME NEW w \in Worker, WorkHandshake(w) PROVE Carry'
  BY <1>26, Zenon DEF WorkHandshake, Goto
<1>27. ASSUME NEW w \in Worker, WorkReply(w) PROVE Carry'
  BY <1>27, Zenon DEF WorkReply, Goto
<1>28. ASSUME NEW k \in Client, Connect(k) PROVE Carry'
  BY <1>28, Zenon DEF Connect
<1>29. QED
  BY <1>1, <1>2, <1>3, <1>4, <1>5, <1>6, <1>7, <1>8, <1>9, <1>10, <1>11, <1>12, <1>13, <1>14,
     <1>15, <1>16, <1>17, <1>18, <1>19, <1>20, <1>21, <1>22, <1>23, <1>24, <1>25, <1>26, <1>27,
     <1>28, Zenon DEF Next, StartStep, StopStep, ServeStep, WorkStep

\* Every step keeps each connection in one place.
LEMMA HeldStep ==
  ASSUME PcTypes, QueueTypes, LocalTypes, Carry, Owned, Unique, Waiting, Next
  PROVE  Owned' /\ Unique' /\ Waiting'
<1> USE DEF kernel, locals
<1>0. CASE UNCHANGED <<client, clients, connected>> /\ backlog' \subseteq backlog
  BY <1>0, HeldStill, Zenon
<1>1. ASSUME NEW c \in Controller, StopDrain(c) PROVE Owned' /\ Unique' /\ Waiting'
  BY <1>1, HeldDrain, Zenon DEF StopDrain
<1>2. ASSUME NEW s \in Acceptor, ServeAccept(s) PROVE Owned' /\ Unique' /\ Waiting'
  <2>1. client[s] = Nobody BY <1>2 DEF ServeAccept, Carry, CarryPc
  <2>2. ASSUME NEW k \in backlog, backlog' = backlog \ {k}, connected' = connected \cup {k},
               client' = [client EXCEPT ![s] = k]
        PROVE  Owned' /\ Unique' /\ Waiting'
    <3>1. s \in Worker \cup Acceptor /\ UNCHANGED clients BY <1>2, Zenon DEF ServeAccept
    <3>2. QED BY <2>1, <2>2, <3>1, HeldAccept, Zenon
  <2>3. CASE UNCHANGED <<backlog, connected, client>>
    BY <1>2, <2>3, <1>0, Zenon DEF ServeAccept
  <2>4. QED BY <1>2, <2>2, <2>3, Zenon DEF ServeAccept
<1>3. ASSUME NEW s \in Acceptor, ServeQueue(s) PROVE Owned' /\ Unique' /\ Waiting'
  <2>1. s \in Worker \cup Acceptor /\ client[s] # Nobody
    BY <1>3, Zenon DEF ServeQueue, Carry, CarryPc
  <2>2. CASE clients' = Append(clients, client[s]) /\ UNCHANGED connected
    BY <1>3, <2>1, <2>2, HeldQueue, Zenon DEF ServeQueue
  <2>3. CASE connected' = connected \ {client[s]} /\ UNCHANGED clients
    BY <1>3, <2>1, <2>3, HeldClose, Zenon DEF ServeQueue
  <2>4. QED BY <1>3, <2>2, <2>3, Zenon DEF ServeQueue
<1>4. ASSUME NEW w \in Worker, WorkTest(w) PROVE Owned' /\ Unique' /\ Waiting'
  <2>1. w \in Worker \cup Acceptor /\ client[w] = Nobody
    BY <1>4, Zenon DEF WorkTest, Carry, CarryPc
  <2>2. CASE clients # <<>> /\ client' = [client EXCEPT ![w] = Head(clients)] /\ clients' = Tail(clients)
    BY <1>4, <2>1, <2>2, HeldTake, Zenon DEF WorkTest
  <2>3. CASE UNCHANGED <<clients, client>> BY <1>4, <2>3, <1>0, Zenon DEF WorkTest
  <2>4. QED BY <1>4, <2>2, <2>3, Zenon DEF WorkTest
<1>5. ASSUME NEW w \in Worker, WorkReply(w) PROVE Owned' /\ Unique' /\ Waiting'
  <2>1. w \in Worker \cup Acceptor /\ client[w] # Nobody
    BY <1>5, Zenon DEF WorkReply, Carry, CarryPc
  <2>2. QED BY <1>5, <2>1, HeldClose, Zenon DEF WorkReply
<1>6. ASSUME NEW k \in Client, Connect(k) PROVE Owned' /\ Unique' /\ Waiting'
  <2>1. Owned' /\ Unique' BY <1>6, Zenon DEF Connect, Owned, Unique
  <2>2. Waiting' BY <1>6, Zenon DEF Connect, Waiting
  <2>3. QED BY <2>1, <2>2, Zenon
<1>7. ASSUME NEW c \in Controller,
             \/ StartEnter(c) \/ StartBind(c) \/ StartTls(c) \/ StartPublish(c)
             \/ StartSpawn(c) \/ StartUnwind(c) \/ StartWake(c) \/ StartRollback(c)
      PROVE  Owned' /\ Unique' /\ Waiting'
  BY <1>0, <1>7, SMTT(30) DEF StartEnter, StartBind, StartTls, StartPublish, StartSpawn, StartUnwind,
     StartWake, StartRollback, CloseListener
<1>8. ASSUME NEW c \in Controller,
             \/ StopEnter(c) \/ StopShut(c) \/ StopNotify(c) \/ StopJoinAcceptor(c)
             \/ StopClose(c) \/ StopJoinWorkers(c) \/ StopFree(c)
      PROVE  Owned' /\ Unique' /\ Waiting'
  BY <1>0, <1>8 DEF StopEnter, StopShut, StopNotify, StopJoinAcceptor, StopClose,
     StopJoinWorkers, StopFree, CloseListener
<1>9. ASSUME NEW s \in Acceptor,
             ServeLoop(s) \/ ServeSignal(s)
      PROVE  Owned' /\ Unique' /\ Waiting'
  BY <1>0, <1>9, Zenon DEF ServeLoop, ServeSignal
<1>10. ASSUME NEW w \in Worker,
             \/ WorkLock(w) \/ WorkBlock(w) \/ SpuriousWakeup(w) \/ WorkServe(w)
             \/ WorkHandshake(w)
      PROVE  Owned' /\ Unique' /\ Waiting'
  BY <1>0, <1>10, Zenon DEF WorkLock, WorkBlock, SpuriousWakeup, WorkServe, WorkHandshake
<1>11. QED
  BY <1>1, <1>2, <1>3, <1>4, <1>5, <1>6, <1>7, <1>8, <1>9, <1>10, Zenon DEF Next, StartStep,
     StopStep, ServeStep, WorkStep

----------------------------------------------------------------------------
(* The places of the threads and the flags.                                *)

\* Every thread stays in its own loop or call.
LEMMA PcTypesStep ==
  ASSUME PcTypes, LocalTypes, MemberTypes, Next
  PROVE  PcTypes'
<1> USE ThreadAssumption DEF Actor
<1>1. ASSUME NEW c \in Controller, StartEnter(c) PROVE PcTypes'
  BY <1>1, Zenon DEF StartEnter, Goto, PcTypes, StartPc, StopPc
<1>2. ASSUME NEW c \in Controller, StartBind(c) PROVE PcTypes'
  BY <1>2, Zenon DEF StartBind, Goto, PcTypes, StartPc, StopPc
<1>3. ASSUME NEW c \in Controller, StartTls(c) PROVE PcTypes'
  BY <1>3, Zenon DEF StartTls, Goto, PcTypes, StartPc, StopPc
<1>4. ASSUME NEW c \in Controller, StartPublish(c) PROVE PcTypes'
  BY <1>4, Zenon DEF StartPublish, Goto, PcTypes, StartPc, StopPc
<1>5. ASSUME NEW c \in Controller, StartSpawn(c) PROVE PcTypes'
  BY <1>5 DEF StartSpawn, Goto, PcTypes, StartPc, StopPc, ServePc, WorkPc
<1>6. ASSUME NEW c \in Controller, StartUnwind(c) PROVE PcTypes'
  BY <1>6, Zenon DEF StartUnwind, Goto, PcTypes, StartPc, StopPc
<1>7. ASSUME NEW c \in Controller, StartWake(c) PROVE PcTypes'
  BY <1>7, Zenon DEF StartWake, WakeAll, PcTypes, StartPc, StopPc, WorkPc
<1>8. ASSUME NEW c \in Controller, StartRollback(c) PROVE PcTypes'
  BY <1>8, Zenon DEF StartRollback, Exited, Joined, PcTypes, StartPc, StopPc, MemberTypes
<1>9. ASSUME NEW c \in Controller, StopEnter(c) PROVE PcTypes'
  BY <1>9, Zenon DEF StopEnter, Goto, PcTypes, StartPc, StopPc
<1>10. ASSUME NEW c \in Controller, StopShut(c) PROVE PcTypes'
  BY <1>10, Zenon DEF StopShut, Goto, PcTypes, StartPc, StopPc
<1>11. ASSUME NEW c \in Controller, StopDrain(c) PROVE PcTypes'
  BY <1>11, Zenon DEF StopDrain, Goto, PcTypes, StartPc, StopPc
<1>12. ASSUME NEW c \in Controller, StopNotify(c) PROVE PcTypes'
  BY <1>12, Zenon DEF StopNotify, WakeAll, PcTypes, StartPc, StopPc, WorkPc
<1>13. ASSUME NEW c \in Controller, StopJoinAcceptor(c) PROVE PcTypes'
  BY <1>13 DEF StopJoinAcceptor, Exited, Joined, PcTypes, StartPc, StopPc, LocalTypes
<1>14. ASSUME NEW c \in Controller, StopClose(c) PROVE PcTypes'
  BY <1>14, Zenon DEF StopClose, Goto, PcTypes, StartPc, StopPc
<1>15. ASSUME NEW c \in Controller, StopJoinWorkers(c) PROVE PcTypes'
  BY <1>15 DEF StopJoinWorkers, Exited, Joined, PcTypes, StartPc, StopPc, LocalTypes
<1>16. ASSUME NEW c \in Controller, StopFree(c) PROVE PcTypes'
  BY <1>16, Zenon DEF StopFree, Goto, PcTypes, StartPc, StopPc
<1>17. ASSUME NEW s \in Acceptor, ServeLoop(s) PROVE PcTypes'
  BY <1>17, Zenon DEF ServeLoop, Goto, PcTypes, ServePc
<1>18. ASSUME NEW s \in Acceptor, ServeAccept(s) PROVE PcTypes'
  BY <1>18 DEF ServeAccept, Goto, PcTypes, ServePc
<1>19. ASSUME NEW s \in Acceptor, ServeQueue(s) PROVE PcTypes'
  BY <1>19, Zenon DEF ServeQueue, Goto, PcTypes, ServePc
<1>20. ASSUME NEW s \in Acceptor, ServeSignal(s) PROVE PcTypes'
  BY <1>20 DEF ServeSignal, Goto, PcTypes, ServePc, WorkPc
<1>21. ASSUME NEW w \in Worker, WorkLock(w) PROVE PcTypes'
  BY <1>21, Zenon DEF WorkLock, Goto, PcTypes, WorkPc
<1>22. ASSUME NEW w \in Worker, WorkTest(w) PROVE PcTypes'
  BY <1>22, Zenon DEF WorkTest, Goto, PcTypes, WorkPc
<1>23. ASSUME NEW w \in Worker, WorkBlock(w) PROVE PcTypes'
  BY <1>23, Zenon DEF WorkBlock, Goto, PcTypes, WorkPc
<1>24. ASSUME NEW w \in Worker, SpuriousWakeup(w) PROVE PcTypes'
  BY <1>24, Zenon DEF SpuriousWakeup, Goto, PcTypes, WorkPc
<1>25. ASSUME NEW w \in Worker, WorkServe(w) PROVE PcTypes'
  BY <1>25, Zenon DEF WorkServe, Goto, PcTypes, WorkPc
<1>26. ASSUME NEW w \in Worker, WorkHandshake(w) PROVE PcTypes'
  BY <1>26, Zenon DEF WorkHandshake, Goto, PcTypes, WorkPc
<1>27. ASSUME NEW w \in Worker, WorkReply(w) PROVE PcTypes'
  BY <1>27, Zenon DEF WorkReply, Goto, PcTypes, WorkPc
<1>28. ASSUME NEW k \in Client, Connect(k) PROVE PcTypes'
  BY <1>28, Zenon DEF Connect, PcTypes
<1>29. QED
  BY <1>1, <1>2, <1>3, <1>4, <1>5, <1>6, <1>7, <1>8, <1>9, <1>10, <1>11, <1>12, <1>13, <1>14,
     <1>15, <1>16, <1>17, <1>18, <1>19, <1>20, <1>21, <1>22, <1>23, <1>24, <1>25, <1>26, <1>27,
     <1>28, Zenon DEF Next, StartStep, StopStep, ServeStep, WorkStep

\* The flags.
LEMMA FlagTypesStep ==
  ASSUME FlagTypes, Next
  PROVE  FlagTypes'
<1>0. CASE UNCHANGED <<running, statsd, tls>> BY <1>0, Zenon DEF FlagTypes
<1>1. ASSUME NEW c \in Controller, StartTls(c) PROVE FlagTypes'
  BY <1>1, Zenon DEF StartTls, FlagTypes
<1>2. ASSUME NEW c \in Controller, StartPublish(c) PROVE FlagTypes'
  BY <1>2, Zenon DEF StartPublish, ConfigureStatsd, FlagTypes
<1>3. ASSUME NEW c \in Controller, StartUnwind(c) PROVE FlagTypes'
  BY <1>3, Zenon DEF StartUnwind, FlagTypes
<1>4. ASSUME NEW c \in Controller, StartRollback(c) PROVE FlagTypes'
  BY <1>4, Zenon DEF StartRollback, ShutdownStatsd, FlagTypes
<1>5. ASSUME NEW c \in Controller, StopEnter(c) PROVE FlagTypes'
  BY <1>5, Zenon DEF StopEnter, FlagTypes
<1>6. ASSUME NEW c \in Controller, StopShut(c) PROVE FlagTypes'
  BY <1>6, Zenon DEF StopShut, ShutdownStatsd, FlagTypes
<1>7. ASSUME NEW c \in Controller, StopFree(c) PROVE FlagTypes'
  BY <1>7, Zenon DEF StopFree, FlagTypes
<1>8. ASSUME NEW c \in Controller,
             \/ StartEnter(c) \/ StartBind(c) \/ StartSpawn(c) \/ StartWake(c)
             \/ StopDrain(c) \/ StopNotify(c) \/ StopJoinAcceptor(c) \/ StopClose(c)
             \/ StopJoinWorkers(c)
      PROVE  FlagTypes'
  BY <1>0, <1>8, ZenonT(60) DEF StartEnter, StartBind, StartSpawn, StartWake, StopDrain,
     StopNotify, StopJoinAcceptor, StopClose, StopJoinWorkers, member
<1>9. ASSUME NEW s \in Acceptor,
             ServeLoop(s) \/ ServeAccept(s) \/ ServeQueue(s) \/ ServeSignal(s)
      PROVE  FlagTypes'
  BY <1>0, <1>9, ZenonT(60) DEF ServeLoop, ServeAccept, ServeQueue, ServeSignal, member
<1>10. ASSUME NEW w \in Worker,
             \/ WorkLock(w) \/ WorkTest(w) \/ WorkBlock(w) \/ SpuriousWakeup(w)
             \/ WorkServe(w) \/ WorkHandshake(w) \/ WorkReply(w)
      PROVE  FlagTypes'
  BY <1>0, <1>10, ZenonT(60) DEF WorkLock, WorkTest, WorkBlock, SpuriousWakeup, WorkServe,
     WorkHandshake, WorkReply, member
<1>11. ASSUME NEW k \in Client,
             Connect(k)
      PROVE  FlagTypes'
  BY <1>0, <1>11, ZenonT(60) DEF Connect, member
<1>12. QED
  BY <1>1, <1>2, <1>3, <1>4, <1>5, <1>6, <1>7, <1>8, <1>9, <1>10, <1>11, Zenon DEF Next,
     StartStep, StopStep, ServeStep, WorkStep

----------------------------------------------------------------------------
(* In every reachable state.                                               *)

\* Init establishes the invariant and every step keeps it.
LEMMA HoldInvariant == Spec => []HoldInv
<1>1. Init => HoldInv
  <2> SUFFICES ASSUME Init PROVE HoldInv BY Zenon
  <2>1. FlagTypes /\ MemberTypes /\ LocalTypes
    BY Zenon DEF Init, FlagTypes, MemberTypes, LocalTypes
  <2>2. QueueTypes BY QueueAssumption DEF Init, QueueTypes
  <2>3. PcTypes BY ThreadAssumption DEF Init, PcTypes, Actor
  <2>4. Carry BY ThreadAssumption, Zenon DEF Init, Carry, CarryPc, Actor
  <2>5. Owned /\ Unique /\ Waiting BY ThreadAssumption DEF Init, Owned, Unique, Waiting
  <2>6. QED BY <2>1, <2>2, <2>3, <2>4, <2>5, TypeGroups DEF HoldInv
<1>2. HoldInv /\ [Next]_vars => HoldInv'
  <2> SUFFICES ASSUME HoldInv, [Next]_vars PROVE HoldInv' BY Zenon
  <2>1. FlagTypes /\ MemberTypes /\ QueueTypes /\ LocalTypes /\ PcTypes
    BY TypeGroups, Zenon DEF HoldInv
  <2>2. CASE Next
    <3>1. FlagTypes' /\ MemberTypes' /\ QueueTypes' /\ LocalTypes' /\ PcTypes'
      BY <2>1, <2>2, FlagTypesStep, MemberTypesStep, QueueTypesStep, LocalTypesStep, PcTypesStep, Zenon
         DEF HoldInv
    <3>2. Carry' BY <2>1, <2>2, CarryStep, Zenon DEF HoldInv
    <3>3. Owned' /\ Unique' /\ Waiting' BY <2>1, <2>2, HeldStep, Zenon DEF HoldInv
    <3>4. TypeOK' BY <3>1, TypeGroups, PTL
    <3>5. QED BY <3>2, <3>3, <3>4, Zenon DEF HoldInv
  <2>3. CASE UNCHANGED vars
    <3>1. FlagTypes' /\ MemberTypes' /\ QueueTypes' /\ LocalTypes' /\ PcTypes'
      BY <2>1, <2>3, Zenon DEF FlagTypes, MemberTypes, QueueTypes, LocalTypes, PcTypes, vars,
         member, kernel, locals
    <3>2. Carry' /\ Owned' /\ Unique' /\ Waiting'
      BY <2>3, Zenon DEF HoldInv, Carry, Owned, Unique, Waiting, vars, member, kernel, locals
    <3>3. TypeOK' BY <3>1, TypeGroups, PTL
    <3>4. QED BY <3>2, <3>3, Zenon DEF HoldInv
  <2>4. QED BY <2>2, <2>3, Zenon
<1>3. QED BY <1>1, <1>2, PTL DEF Spec

\* In every reachable state, whatever the number of threads that start and stop
\* the exporter, an open connection is in exactly one place, a closed one in none,
\* and the queue stays within its limit (metrics.cpp:395-399, 665-671, 687-696).
THEOREM ConnectionsOwned == Spec => []EachConnectionOwned
<1>1. HoldInv => EachConnectionOwned
  <2> SUFFICES ASSUME HoldInv, NEW k \in Client
               PROVE  IF k \in connected THEN \E h \in Holders(k) : Holders(k) = {h}
                      ELSE Holders(k) = {}
    BY Zenon DEF EachConnectionOwned, HoldInv
  <2> DEFINE T == {a \in Worker \cup Acceptor : client[a] = k}
             Q == {i \in DOMAIN clients : clients[i] = k}
  <2>0. k # Nobody BY ThreadAssumption, ZenonT(60)
  <2>1. ASSUME NEW a \in T PROVE T = {a} /\ Q = {} BY <2>0 DEF HoldInv, Unique
  <2>2. ASSUME NEW i \in Q PROVE Q = {i} BY DEF HoldInv, Unique
  <2>3. k \in connected <=> T # {} \/ Q # {} BY Zenon DEF HoldInv, Owned
  <2>4. Holders(k) = {<<"thread", a>> : a \in T} \cup {<<"queue", i>> : i \in Q}
    BY Zenon DEF Holders
  <2> HIDE DEF T, Q
  <2>5. CASE T # {}
    <3>1. PICK a \in T : TRUE BY <2>5, Zenon
    <3>2. Holders(k) = {<<"thread", a>>} BY <2>1, <2>4, Zenon
    <3>3. QED BY <2>3, <2>5, <3>2, Zenon
  <2>6. CASE T = {} /\ Q # {}
    <3>1. PICK i \in Q : TRUE BY <2>6, Zenon
    <3>2. Holders(k) = {<<"queue", i>>} BY <2>2, <2>4, <2>6, Zenon
    <3>3. QED BY <2>3, <2>6, <3>2, Zenon
  <2>7. CASE T = {} /\ Q = {} BY <2>3, <2>4, <2>7, Zenon
  <2>8. QED BY <2>5, <2>6, <2>7, Zenon
<1>2. QED BY <1>1, HoldInvariant, PTL

\* ControlInv holds throughout when one thread starts and stops the exporter.
LEMMA ControlInvariant == ASSUME NEW c, Controller = {c} PROVE Spec => []ControlInv(c)
<1>1. Init => ControlInv(c) BY ControlFirst, Zenon
<1>2. HoldInv /\ ControlInv(c) /\ [Next]_vars => ControlInv(c)'
  <2> SUFFICES ASSUME HoldInv, ControlInv(c), [Next]_vars PROVE ControlInv(c)' BY Zenon
  <2>1. PcTypes /\ MemberTypes /\ LocalTypes BY TypeGroups, Zenon DEF HoldInv
  <2>2. CASE UNCHANGED vars
    <3>1. Beside(c)
      BY <2>2, Zenon DEF vars, member, kernel, locals, Beside
    <3>2. QED BY <2>1, <3>1, BesideControl, Zenon
  <2>3. CASE Next
    <3>1. CASE StartEnter(c) \/ StartStep(c) BY <2>1, <3>1, StartControl, Zenon
    <3>2. CASE StopEnter(c) \/ StopStep(c) BY <2>1, <3>2, StopControl, Zenon
    <3>3. CASE ~(StartEnter(c) \/ StartStep(c) \/ StopEnter(c) \/ StopStep(c))
      <4>1. Beside(c) BY <2>1, <2>3, <3>3, BesideStep, Zenon
      <4>2. QED BY <2>1, <4>1, BesideControl, Zenon
    <3>4. QED BY <3>1, <3>2, <3>3, Zenon
  <2>4. QED BY <2>2, <2>3, Zenon
<1>3. QED BY <1>1, <1>2, HoldInvariant, PTL DEF Spec

\* When one thread starts and stops the exporter, nothing is released under its
\* user, and between calls an exporter that is not running holds nothing: not after
\* a stop with connections queued, nor after a start that failed halfway
\* (metrics.cpp:401-415 and the catch block of start).
THEOREM ReleasedAfterUse ==
  ASSUME NEW c, Controller = {c}
  PROVE  Spec => []ResourcesMatchUsers
<1>1. HoldInv /\ ControlInv(c) => ResourcesMatchUsers BY Released, Zenon
<1>2. QED BY <1>1, HoldInvariant, ControlInvariant, PTL

============================================================================
