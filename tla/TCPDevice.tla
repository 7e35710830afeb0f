------------------------------- MODULE TCPDevice -------------------------------
(***************************************************************************)
(* TCPDevice (src/device.cpp), the server it talks to                      *)
(* (src/tcp_device_server.cpp, src/server.cpp) and the identifiers of the  *)
(* data structures kept there (FarMemManager::allocate_ds_id, destruct).   *)
(*                                                                         *)
(* A client opens a master connection and some slave connections.  A       *)
(* caller takes a slave connection out of the pool, writes a request,      *)
(* reads the reply and puts the connection back.  The server has a thread  *)
(* per connection.  When a client is gone the next one may come at once.   *)
(*                                                                         *)
(* TCP delivers in order and without loss, and a request or reply is one   *)
(* message.  The data structure of a thread holds the thread's name once   *)
(* written.  remove_object, compute and call go the way of a read, except  *)
(* that the last two have no fallback to the vanilla structure.            *)
(***************************************************************************)
EXTENDS SharedPool, Sequences

CONSTANTS
  Threads,      \* application threads of the client
  Main,         \* creates and destroys the device; between the two, the collector
  Slaves, M,    \* the connections of one client, M the master connection
  DSIds,        \* available_ds_ids_ at the start, in order
  kVanillaPtrDSID,
  Fresh,        \* contents of a new data structure
  MaxSessions,  \* bound: clients, one after the other
  None

Callers == Threads \cup {Main}
Ids == {DSIds[i] : i \in DOMAIN DSIds}
AllIds == Ids \cup {kVanillaPtrDSID}
Vals == Threads \cup {Fresh}

Conns == (1..MaxSessions) \X (Slaves \cup {M})
Requests == [op : {"construct", "destruct", "read"}, id : AllIds]
            \cup [op : {"write"}, id : AllIds, val : Vals]

\* The other callers may hold one connection each, and the other cores' caches
\* may be full, when a core needs a batch.
ASSUME ConnsAssumption ==
  /\ IsFiniteSet(Slaves) /\ IsFiniteSet(Threads) /\ IsFiniteSet(Cores)
  /\ Cardinality(Slaves) >= Cardinality(Threads) + Cardinality(Cores) * K
  /\ MaxSessions \in Nat
\* The manager puts every identifier into the queue, each of them once.
ASSUME IdsAssumption ==
  /\ DSIds \in Seq(Ids) /\ \A i, j \in DOMAIN DSIds : DSIds[i] = DSIds[j] => i = j
  /\ kVanillaPtrDSID \notin Ids /\ Cardinality(Threads) <= Len(DSIds)
  /\ Main \notin Threads /\ M \notin Slaves /\ Fresh \notin Threads
  /\ None \notin Vals \cup Ids \cup [conn : Conns, req : Requests]

VARIABLES
  session, phase,   \* the client: which one, and where its main thread is
  available_ds_ids_,
  call,             \* [Callers -> its connection and request, or None]
  owns,             \* [Threads -> the identifier it has, or None]
  step,             \* [Threads -> where its data structure is in its life]
  wire,             \* [Conns -> what is written and not read]
  closed,           \* connections the client has closed
  queue,            \* dialled and not yet accepted
  marking,          \* the acceptor is between two assignments
  has_shutdown,
  thread,           \* [Conns -> the server's thread for it]
  server_ds_ptrs_,  \* [AllIds -> contents, or None]
  bug,              \* a BUG_ON of the server has ended it
  races             \* history: the races the properties excuse

ids    == <<available_ds_ids_, owns, step>>
client == <<session, phase, pool, ids, call, closed>>
server == <<marking, has_shutdown, thread, server_ds_ptrs_, bug>>
vars   == <<client, wire, queue, server, races>>

Kinds == {"none", "init", "up", "join", "slave", "ended"}
Steps == {"idle", "front", "new", "empty", "written", "delete", "drop"}

\* Types; a cache holds at most a batch, the listener queues one connection and
\* a connection carries one message at a time.
TypeOK ==
  /\ session \in 0..MaxSessions
  /\ phase \in {"off", "ack", "dial", "construct", "run", "destruct", "bye"}
  /\ \A c \in Cores : cache_[c] \subseteq Conns /\ Cardinality(cache_[c]) <= K
  /\ global_pool_ \subseteq Conns
  /\ call \in [Callers -> [conn : Conns, req : Requests] \cup {None}]
  /\ owns \in [Threads -> Ids \cup {None}] /\ step \in [Threads -> Steps]
  /\ \A i \in DOMAIN available_ds_ids_ : available_ds_ids_[i] \in Ids
  /\ closed \subseteq Conns /\ Len(queue) <= 1
  /\ \A c \in Conns : Len(wire[c]) <= 1
  /\ thread \in [Conns -> Kinds]
  /\ server_ds_ptrs_ \in [AllIds -> Vals \cup {None}]
  /\ marking \in BOOLEAN /\ has_shutdown \in BOOLEAN /\ bug \in BOOLEAN

Race(r) == races' = races \cup r
Send(c, msg) == wire' = [wire EXCEPT ![c] = Append(@, msg)]
Answer(c, msg) == wire' = [wire EXCEPT ![c] = Append(Tail(@), msg)]
Asked(c) == wire[c] # <<>> /\ "op" \in DOMAIN wire[c][1]
Replied(c) == wire[c] # <<>> /\ "re" \in DOMAIN wire[c][1]
Master == <<session, M>>

-----------------------------------------------------------------------------
\* A request of caller t: pop a connection and write; later read and push.

Ask(t, req) ==
  /\ call[t] = None
  /\ \E c \in Cores, conn \in Pooled :
       /\ pop(c, conn)
       /\ call' = [call EXCEPT ![t] = [conn |-> conn, req |-> req]]
       /\ Send(conn, req)

Finish(t, o) ==
  /\ call[t] # None /\ call[t].req.op = o
  /\ Replied(call[t].conn)
  /\ \E c \in Cores : push(c, call[t].conn)
  /\ wire' = [wire EXCEPT ![call[t].conn] = Tail(@)]
  /\ call' = [call EXCEPT ![t] = None]

\* The device is created: dial the master connection and send Init.  tcp_dial
\* waits for a place in the listener's queue, which has one.
DialMaster ==
  /\ phase = "off" /\ session < MaxSessions /\ queue = <<>>
  /\ session' = session + 1 /\ phase' = "ack"
  /\ queue' = <<<<session + 1, M>>>>
  /\ Send(<<session + 1, M>>, [op |-> "Init"])
  /\ UNCHANGED <<pool, ids, call, closed, server, races>>

InitAck ==
  /\ phase = "ack" /\ Replied(Master)
  /\ phase' = "dial"
  /\ wire' = [wire EXCEPT ![Master] = Tail(@)]
  /\ UNCHANGED <<session, pool, ids, call, closed, queue, server, races>>

\* A slave connection is dialled and pushed.  It may be accepted much later.
DialSlave ==
  /\ phase = "dial" /\ queue = <<>>
  /\ \E s \in Slaves, c \in Cores :
       /\ <<session, s>> \notin Pooled
       /\ queue' = <<<<session, s>>>> /\ push(c, <<session, s>>)
  /\ phase' = IF Cardinality(Pooled) + 1 = Cardinality(Slaves) THEN "construct" ELSE "dial"
  /\ UNCHANGED <<session, ids, call, closed, wire, server, races>>

ConstructVanilla ==
  /\ phase = "construct"
  /\ Ask(Main, [op |-> "construct", id |-> kVanillaPtrDSID])
  /\ UNCHANGED <<session, phase, ids, closed, queue, server, races>>

Constructed ==
  /\ phase = "construct" /\ Finish(Main, "construct")
  /\ phase' = "run"
  /\ available_ds_ids_' = DSIds
  /\ UNCHANGED <<session, owns, step, closed, queue, server, races>>

\* The device is destroyed: no data structure is left.
DestructVanilla ==
  /\ phase = "run" /\ \A t \in Threads : step[t] = "idle"
  /\ Ask(Main, [op |-> "destruct", id |-> kVanillaPtrDSID])
  /\ phase' = "destruct"
  /\ UNCHANGED <<session, ids, closed, queue, server, races>>

Shutdown ==
  /\ phase = "destruct" /\ call[Main] # None /\ Replied(call[Main].conn)
  /\ \E c \in Cores : push(c, call[Main].conn)
  /\ wire' = [wire EXCEPT ![call[Main].conn] = Tail(@), ![Master] = <<[op |-> "Shutdown"]>>]
  /\ call' = [call EXCEPT ![Main] = None]
  /\ phase' = "bye"
  /\ UNCHANGED <<session, ids, closed, queue, server, races>>

Close ==
  /\ phase = "bye" /\ Replied(Master)
  /\ wire' = [wire EXCEPT ![Master] = Tail(@)]
  /\ closed' = closed \cup {Master} \cup Pooled
  /\ cache_' = [c \in Cores |-> {}] /\ global_pool_' = {}
  /\ phase' = "off"
  /\ UNCHANGED <<session, ids, call, queue, server, races>>

-----------------------------------------------------------------------------
\* A thread creates a data structure, uses it and destroys it.

\* allocate_ds_id reads the front of the queue, then pops it, without a lock.
Front(t) ==
  /\ phase = "run" /\ step[t] = "idle" /\ available_ds_ids_ # <<>>
  /\ owns' = [owns EXCEPT ![t] = Head(available_ds_ids_)]
  /\ step' = [step EXCEPT ![t] = "front"]
  /\ UNCHANGED <<session, phase, pool, available_ds_ids_, call, closed, wire, queue, server, races>>

\* Two races: another thread has popped the identifier read, or the one who
\* gave it back has not yet destroyed its data structure on the server.
Pop_Keeps(t) ==
  /\ step[t] = "front"
  /\ step' = [step EXCEPT ![t] = "new"]
  /\ UNCHANGED <<session, phase, pool, available_ds_ids_, owns, call, closed, wire, queue, server,
                 races>>

Pop(t) ==
  /\ step[t] = "front"
  /\ step' = [step EXCEPT ![t] = "new"]
  /\ available_ds_ids_' = IF available_ds_ids_ = <<>> THEN <<>> ELSE Tail(available_ds_ids_)
  /\ Race({r \in {"unlocked_ids", "early_id"} :
       IF r = "unlocked_ids"
       THEN available_ds_ids_ = <<>> \/ owns[t] # Head(available_ds_ids_)
       ELSE \E u \in Threads \ {t} : owns[u] = owns[t] /\ step[u] = "delete"})
  /\ UNCHANGED <<session, phase, pool, owns, call, closed, wire, queue, server>>

Construct(t) ==
  /\ step[t] = "new"
  /\ Ask(t, [op |-> "construct", id |-> owns[t]])
  /\ UNCHANGED <<session, phase, ids, closed, queue, server, races>>

ConstructAck(t) ==
  /\ step[t] = "new" /\ Finish(t, "construct")
  /\ step' = [step EXCEPT ![t] = "empty"]
  /\ UNCHANGED <<session, phase, available_ds_ids_, owns, closed, queue, server, races>>

Read(t) ==
  /\ step[t] \in {"empty", "written"}
  /\ Ask(t, [op |-> "read", id |-> owns[t]])
  /\ UNCHANGED <<session, phase, ids, closed, queue, server, races>>

ReadReply(t) ==
  /\ Finish(t, "read")
  /\ UNCHANGED <<session, phase, ids, closed, queue, server, races>>

Write(t) ==
  /\ step[t] = "empty"
  /\ Ask(t, [op |-> "write", id |-> owns[t], val |-> t])
  /\ UNCHANGED <<session, phase, ids, closed, queue, server, races>>

WriteAck(t) ==
  /\ Finish(t, "write")
  /\ step' = [step EXCEPT ![t] = "written"]
  /\ UNCHANGED <<session, phase, available_ds_ids_, owns, closed, queue, server, races>>

\* FarMemManager::destruct gives the identifier back first.
FreeId(t) ==
  /\ step[t] \in {"empty", "written"} /\ call[t] = None
  /\ available_ds_ids_' = Append(available_ds_ids_, owns[t])
  /\ step' = [step EXCEPT ![t] = "delete"]
  /\ Race({r \in {"late_writeback"} :
       call[Main] # None /\ call[Main].req.op = "write" /\ call[Main].req.val = t})
  /\ UNCHANGED <<session, phase, pool, owns, call, closed, wire, queue, server>>

Destruct(t) ==
  /\ step[t] = "delete"
  /\ Ask(t, [op |-> "destruct", id |-> owns[t]])
  /\ UNCHANGED <<session, phase, ids, closed, queue, server, races>>

DestructAck(t) ==
  /\ step[t] = "delete" /\ Finish(t, "destruct")
  /\ step' = [step EXCEPT ![t] = "drop"]
  /\ UNCHANGED <<session, phase, available_ds_ids_, owns, closed, queue, server, races>>

\* The pointers of an array go after its destructor has run.
Drop(t) ==
  /\ step[t] = "drop"
  /\ owns' = [owns EXCEPT ![t] = None]
  /\ step' = [step EXCEPT ![t] = "idle"]
  /\ UNCHANGED <<session, phase, pool, available_ds_ids_, call, closed, wire, queue, server, races>>

\* The collector writes a dirty object back under the identifier in its header,
\* as long as there is a pointer to it.
WriteBack(t) ==
  /\ phase = "run" /\ owns[t] # None /\ step[t] \in {"written", "delete", "drop"}
  /\ Ask(Main, [op |-> "write", id |-> owns[t], val |-> t])
  /\ Race({r \in {"late_writeback"} : step[t] # "written"})
  /\ UNCHANGED <<session, phase, ids, closed, queue, server>>

WriteBackAck ==
  /\ Finish(Main, "write")
  /\ UNCHANGED <<session, phase, ids, closed, queue, server, races>>

-----------------------------------------------------------------------------
\* The server.

\* A new connection is a master's when the last client has left, otherwise a
\* slave's.  Races: a client's master connection taken for a slave's, because
\* the threads of the last client have not ended; a slave connection accepted
\* only when its client has left.
Accept ==
  /\ queue # <<>> /\ ~bug /\ ~marking
  /\ queue' = Tail(queue)
  /\ thread' = [thread EXCEPT ![Head(queue)] = IF has_shutdown THEN "init" ELSE "slave"]
  /\ marking' = has_shutdown
  /\ Race({r \in {"early_dial", "late_accept"} :
       IF r = "early_dial" THEN Head(queue)[2] = M /\ ~has_shutdown
       ELSE /\ Head(queue)[2] # M
            /\ has_shutdown \/ \E c \in Conns : thread[c] = "join"})
  /\ UNCHANGED <<client, wire, has_shutdown, server_ds_ptrs_, bug>>

Mark ==
  /\ marking /\ ~bug
  /\ has_shutdown' = FALSE /\ marking' = FALSE
  /\ UNCHANGED <<client, wire, queue, thread, server_ds_ptrs_, bug, races>>

process_init(c) ==
  /\ thread[c] = "init" /\ Asked(c) /\ ~bug
  /\ Answer(c, [re |-> "Init"])
  /\ thread' = [thread EXCEPT ![c] = "up"]
  /\ UNCHANGED <<client, queue, marking, has_shutdown, server_ds_ptrs_, bug, races>>

\* The answer comes before the slaves are waited for: they end when the client,
\* which waits for the answer, closes their connections.
process_shutdown_Late(c) ==
  /\ thread[c] = "up" /\ Asked(c) /\ ~bug
  /\ \A d \in Conns : thread[d] # "slave"
  /\ Answer(c, [re |-> "Shutdown"])
  /\ thread' = [thread EXCEPT ![c] = "join"]
  /\ UNCHANGED <<client, queue, marking, has_shutdown, server_ds_ptrs_, bug, races>>

process_shutdown(c) ==
  /\ thread[c] = "up" /\ Asked(c) /\ ~bug
  /\ Answer(c, [re |-> "Shutdown"])
  /\ thread' = [thread EXCEPT ![c] = "join"]
  /\ UNCHANGED <<client, queue, marking, has_shutdown, server_ds_ptrs_, bug, races>>

Joined(c) ==
  /\ thread[c] = "join" /\ ~bug
  /\ \A d \in Conns : thread[d] # "slave"
  /\ thread' = [thread EXCEPT ![c] = "ended"]
  /\ has_shutdown' = TRUE
  /\ UNCHANGED <<client, wire, queue, marking, server_ds_ptrs_, bug, races>>

\* An identifier without a data structure stands for the vanilla one.
Target(id) == IF server_ds_ptrs_[id] = None THEN kVanillaPtrDSID ELSE id

Contents(req) ==
  CASE req.op = "construct" -> [server_ds_ptrs_ EXCEPT ![req.id] = Fresh]
    [] req.op = "destruct"  -> [server_ds_ptrs_ EXCEPT ![req.id] = None]
    [] req.op = "write"     -> [server_ds_ptrs_ EXCEPT ![Target(req.id)] = req.val]
    [] OTHER                -> server_ds_ptrs_

\* BUG_ON of construct and destruct, and BUG for an opcode no slave knows.
Refused(req) ==
  \/ req.op = "construct" /\ server_ds_ptrs_[req.id] # None
  \/ req.op = "destruct" /\ server_ds_ptrs_[req.id] = None
  \/ req.op \in {"Init", "Shutdown"}

slave_fn(c) ==
  /\ thread[c] = "slave" /\ Asked(c) /\ ~bug /\ ~Refused(wire[c][1])
  /\ server_ds_ptrs_' = Contents(wire[c][1])
  /\ Answer(c, [re |-> wire[c][1].op, id |-> wire[c][1].id,
                val |-> server_ds_ptrs_[Target(wire[c][1].id)]])
  /\ UNCHANGED <<client, queue, marking, has_shutdown, thread, bug, races>>

SlaveBug(c) ==
  /\ thread[c] = "slave" /\ Asked(c) /\ ~bug /\ Refused(wire[c][1])
  /\ bug' = TRUE
  /\ UNCHANGED <<client, wire, queue, marking, has_shutdown, thread, server_ds_ptrs_, races>>

SlaveEnds(c) ==
  /\ thread[c] = "slave" /\ wire[c] = <<>> /\ c \in closed /\ ~bug
  /\ thread' = [thread EXCEPT ![c] = "ended"]
  /\ UNCHANGED <<client, wire, queue, marking, has_shutdown, server_ds_ptrs_, bug, races>>

-----------------------------------------------------------------------------
Init ==
  /\ session = 0 /\ phase = "off" /\ EmptyPool
  /\ available_ds_ids_ = DSIds
  /\ call = [t \in Callers |-> None]
  /\ owns = [t \in Threads |-> None] /\ step = [t \in Threads |-> "idle"]
  /\ wire = [c \in Conns |-> <<>>] /\ closed = {}
  /\ queue = <<>> /\ marking = FALSE /\ has_shutdown = TRUE
  /\ thread = [c \in Conns |-> "none"]
  /\ server_ds_ptrs_ = [i \in AllIds |-> None]
  /\ bug = FALSE /\ races = {}

\* What a caller does once it has begun, and the choices it has.
Device == InitAck \/ DialSlave \/ ConstructVanilla \/ Constructed \/ Shutdown \/ Close \/ WriteBackAck
Proceed(t) == Pop(t) \/ Construct(t) \/ ConstructAck(t) \/ ReadReply(t) \/ WriteAck(t)
              \/ Destruct(t) \/ DestructAck(t) \/ Drop(t)
Choose(t) == Front(t) \/ Read(t) \/ Write(t) \/ FreeId(t) \/ WriteBack(t)
Serve(c) == process_init(c) \/ process_shutdown(c) \/ Joined(c) \/ slave_fn(c) \/ SlaveBug(c)
            \/ SlaveEnds(c)
Acceptor == Accept \/ Mark

Next ==
  \/ DialMaster \/ Device \/ DestructVanilla
  \/ \E t \in Threads : Proceed(t) \/ Choose(t)
  \/ Acceptor \/ \E c \in Conns : Serve(c)

Spec == Init /\ [][Next]_vars

-----------------------------------------------------------------------------
\* pop never finds the global pool short of a batch, whoever calls on whatever
\* core, given ConnsAssumption: items move in whole batches and a connection is
\* always in one place (the BUG_ON of SharedPool::pop and push).
NeverStarved ==
  \A t \in Callers, c \in Cores :
    phase \in {"construct", "run"} /\ call[t] = None => ~Starved(c)

\* A caller finds on its connection the reply to its own request, and a thread
\* that reads its data structure finds what it last wrote there.  No write falls
\* back to the vanilla structure, whose memory belongs to others: without a race
\* a data structure exists on the server while it is used (Server::write_object).
RepliesFit ==
  races = {} =>
    /\ \A t \in Callers :
         call[t] # None /\ Replied(call[t].conn) =>
           LET msg == wire[call[t].conn][1] IN
             /\ msg.re = call[t].req.op /\ msg.id = call[t].req.id
             /\ msg.re = "read" => msg.val = IF step[t] = "written" THEN t ELSE Fresh
    /\ server_ds_ptrs_[kVanillaPtrDSID] \in {None, Fresh}

\* The server's BUG_ONs are reached by the recorded races only.
NeverBugs == bug => races # {}

\* Nothing hangs.  When only the application's own choices can go on, every
\* request has been answered, a client that left has been forgotten and the
\* server is ready for the next one.  (Each request and each session takes
\* finitely many of the other steps, so they all come to their end.)
Obliged == Device \/ Acceptor \/ (\E t \in Threads : Proceed(t)) \/ \E c \in Conns : Serve(c)
NoHang ==
  ~ ENABLED Obliged =>
    \/ bug \/ races # {}
    \/ /\ \A t \in Callers : call[t] = None
       /\ phase \in {"off", "run"} /\ (phase = "off" => has_shutdown)
=============================================================================
