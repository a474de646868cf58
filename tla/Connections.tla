------------------------------ MODULE Connections ------------------------------
(***************************************************************************)
(* The server's connections (src/network/net.c): one thread waits for      *)
(* events of the sockets, accepts, and hands what arrives to the workers   *)
(* of the thread pool, which run exec.                                     *)
(*                                                                         *)
(* Clients are those of src/client/db_client.c: they wait for each answer, *)
(* and in the end send a message and close the socket.  Some die instead.  *)
(* The thread pool is a queue: ThreadPool has it as it is.  Sockets and    *)
(* events are modelled from how they are used; an event is reported once,  *)
(* after something has arrived (EPOLLET).                                  *)
(***************************************************************************)
EXTENDS Integers, Sequences, SequencesExt, FiniteSets

CONSTANTS
    Client,
    Worker,
    Fd,                     \* the descriptors from SYSRESERVFD on
    SYSRESERVFD,
    MAX_CONNECTIONS,
    FD_RECYCLE_THRESHOLD,
    Lives,                  \* bound: what each client does, one [do, name] after the other;
                            \* the last is to "exit", to "die", or to "stay" connected
    Listen,                 \* the listening socket, in lists of events
    NULL

\* What clients do, and say.
Words == UNION {ToSet(life[c]) : life \in Lives, c \in Client}

ASSUME ConnectionsAssumption ==
    /\ SYSRESERVFD \in Nat /\ Fd = SYSRESERVFD..SYSRESERVFD + Cardinality(Fd) - 1
    /\ IsFiniteSet(Fd) /\ Cardinality(Fd) >= Cardinality(Client)
    /\ MAX_CONNECTIONS \in 1..Cardinality(Fd) /\ FD_RECYCLE_THRESHOLD \in Nat
    /\ Lives \subseteq [Client -> Seq(Words)]
    /\ NULL \notin Client \cup Words /\ Listen \notin Fd

VARIABLES
    client,     \* client -> where it is, and what it is still to do
    backlog,    \* the clients whose connections wait to be accepted
    knock,      \* the listening socket has an event to report
    sock,       \* descriptor -> the server's end of a connection
    conn_table, \* descriptor -> the client whose conn_info_s is in its slot, or NULL
    conn,       \* client -> its conn_info_s
    events,     \* what the last epoll_wait has reported and is still to be handled
    tasks,      \* the queue of the thread pool: arguments of exec
    exec,       \* worker -> where it is in exec, and its locals
    fault       \* the model ends where the code does one of these:
                \* "torn":     two workers read from one message
                \* "freed":    a conn_info_s used that was freed, or is none
                \* "exit":     epoll_ctl fails, and the server ends
                \* "stolen":   a connection read on behalf of another client, or closed
                \*             although its client has not asked for it
                \* "overflow": a slot behind the table written

connVars == <<client, backlog, knock, sock, conn_table, conn, events, tasks, exec, fault>>

Closed == [peer |-> NULL, inbox |-> <<>>, begun |-> FALSE, eof |-> FALSE, event |-> FALSE, watched |-> FALSE]
Idle == [pc |-> "idle", conn |-> NULL, cfd |-> 0, msg |-> NULL, i |-> 0, recycles |-> FALSE]

ConnTypeOK ==
    /\ client \in [Client -> [pc : {"away", "connecting", "ready", "waiting", "leaving", "left", "dead"},
                              todo : Seq(Words)]]
    /\ backlog \in Seq(Client) /\ knock \in BOOLEAN
    /\ sock \in [Fd -> [peer : Client \cup {NULL}, inbox : Seq(Words), begun : BOOLEAN, eof : BOOLEAN,
                        event : BOOLEAN, watched : BOOLEAN]]
    /\ conn_table \in [Fd -> Client \cup {NULL}]
    /\ conn \in [Client -> [fd : Fd \cup {0}, close : BOOLEAN, state : {"none", "live", "freed"}]]
    /\ events \in Seq(Fd \cup {Listen})
    /\ tasks \in Seq(Client \cup {NULL})
    /\ exec \in [Worker ->
          [pc : {"idle", "recv", "eof", "rest", "mark", "execute", "reply", "recycle", "delete",
                 "forget", "close", "free"},
           conn : Client \cup {NULL}, cfd : Fd \cup {0}, msg : Words \cup {NULL},
           i : 0..MAX_CONNECTIONS - 1, recycles : BOOLEAN]]

ConnInit ==
    /\ \E life \in Lives : client = [c \in Client |-> [pc |-> "away", todo |-> life[c]]]
    /\ backlog = <<>> /\ knock = FALSE
    /\ sock = [f \in Fd |-> Closed]
    /\ conn_table = [f \in Fd |-> NULL]
    /\ conn = [c \in Client |-> [fd |-> 0, close |-> FALSE, state |-> "none"]]
    /\ events = <<>> /\ tasks = <<>>
    /\ exec = [w \in Worker |-> Idle]
    /\ fault = "none"

-----------------------------------------------------------------------------
(* The clients *)

At(c, pc) == fault = "none" /\ client[c].pc = pc
Next1(c) == Head(client[c].todo).do

\* The server's end of client c's connection, if it is still open.
Ends(c) == {f \in Fd : sock[f].peer = c}
Arrives(c, msgs) ==
    sock' = [f \in Fd |-> IF f \in Ends(c)
                          THEN [sock[f] EXCEPT !.inbox = @ \o msgs, !.eof = (msgs = <<>>), !.event = TRUE]
                          ELSE sock[f]]

\* dsm_connect
Connect(c) ==
    /\ At(c, "away") /\ client[c].todo # <<>>
    /\ client' = [client EXCEPT ![c].pc = "connecting"]
    /\ backlog' = Append(backlog, c)
    /\ knock' = TRUE
    /\ UNCHANGED <<sock, conn_table, conn, events, tasks, exec, fault>>

\* dsm_table_cmd sends a request, and waits for the answer.
Request(c) ==
    /\ At(c, "ready") /\ client[c].todo # <<>> /\ Next1(c) \notin {"exit", "die", "stay"}
    /\ client' = [client EXCEPT ![c].pc = "waiting", ![c].todo = Tail(@)]
    /\ Arrives(c, <<Head(client[c].todo)>>)
    /\ UNCHANGED <<backlog, knock, conn_table, conn, events, tasks, exec, fault>>

\* db_reply_handler: the client whose answer has come goes on.
Answered(p) == [c \in Client |-> IF c = p /\ client[c].pc = "waiting" THEN [client[c] EXCEPT !.pc = "ready"]
                                 ELSE client[c]]

\* dsm_close sends a message ...
Exit(c) ==
    /\ At(c, "ready") /\ client[c].todo # <<>> /\ Next1(c) = "exit"
    /\ client' = [client EXCEPT ![c].pc = "leaving"]
    /\ Arrives(c, <<Head(client[c].todo)>>)
    /\ UNCHANGED <<backlog, knock, conn_table, conn, events, tasks, exec, fault>>

\* ... and closes the socket.
Hangup(c) ==
    /\ At(c, "leaving")
    /\ client' = [client EXCEPT ![c].pc = "left"]
    /\ Arrives(c, <<>>)
    /\ UNCHANGED <<backlog, knock, conn_table, conn, events, tasks, exec, fault>>

\* The client's process ends, perhaps while it waits.
Die(c) ==
    /\ At(c, "ready") \/ At(c, "waiting")
    /\ Next1(c) = "die"
    /\ client' = [client EXCEPT ![c].pc = "dead"]
    /\ Arrives(c, <<>>)
    /\ UNCHANGED <<backlog, knock, conn_table, conn, events, tasks, exec, fault>>

ClientStep(c) == Connect(c) \/ Request(c) \/ Exit(c) \/ Hangup(c) \/ Die(c)

-----------------------------------------------------------------------------
(* db_active *)

\* What epoll_wait has to report.
Ready == {f \in Fd : sock[f].event /\ sock[f].watched} \cup (IF knock THEN {Listen} ELSE {})

epoll_wait ==
    /\ fault = "none"
    /\ events = <<>> /\ Ready # {}
    /\ events' \in SetToSeqs(Ready)
    /\ knock' = FALSE
    /\ sock' = [f \in Fd |-> [sock[f] EXCEPT !.event = @ /\ ~sock[f].watched]]
    /\ UNCHANGED <<client, backlog, conn_table, conn, tasks, exec, fault>>

\* One connection is accepted for each event.  The limit is tested with the
\* listening socket's descriptor, which is never above it.
Accept(f) ==
    /\ fault = "none"
    /\ events # <<>> /\ Head(events) = Listen /\ backlog # <<>>
    /\ sock[f].peer = NULL /\ \A g \in Fd : g < f => sock[g].peer # NULL
    /\ IF f - SYSRESERVFD < MAX_CONNECTIONS
       THEN LET c == Head(backlog)
            IN /\ sock' = [sock EXCEPT ![f] = [Closed EXCEPT !.peer = c, !.watched = TRUE]]
               /\ conn' = [conn EXCEPT ![c] = [fd |-> f, close |-> FALSE, state |-> "live"]]
               /\ conn_table' = [conn_table EXCEPT ![f] = c]
               /\ client' = [client EXCEPT ![c].pc = "ready"]
               /\ UNCHANGED fault
       ELSE fault' = "overflow" /\ UNCHANGED <<sock, conn, conn_table, client>>
    /\ backlog' = Tail(backlog)
    /\ events' = Tail(events)
    /\ UNCHANGED <<knock, tasks, exec>>

\* Mutant: nothing is handed on while something is in the queue.
DispatchOne ==
    /\ fault = "none"
    /\ events # <<>> /\ Head(events) # Listen
    /\ tasks' = IF tasks = <<>> THEN <<conn_table[Head(events)]>> ELSE tasks
    /\ events' = Tail(events)
    /\ UNCHANGED <<client, backlog, knock, sock, conn_table, conn, exec, fault>>

Dispatch ==
    /\ fault = "none"
    /\ events # <<>> /\ Head(events) # Listen
    /\ tasks' = Append(tasks, conn_table[Head(events)])
    /\ events' = Tail(events)
    /\ UNCHANGED <<client, backlog, knock, sock, conn_table, conn, exec, fault>>

MainStep == epoll_wait \/ (\E f \in Fd : Accept(f)) \/ Dispatch

-----------------------------------------------------------------------------
(* exec and conn_close *)

\* What worker w does at pc can go wrong if its conn_info_s is gone.
Victim(w) ==
    IF exec[w].pc = "delete" /\ exec[w].recycles THEN conn_table[SYSRESERVFD + exec[w].i] ELSE exec[w].conn
Lost(w) == Victim(w) = NULL \/ conn[Victim(w)].state = "freed"

ExecFault(w) ==
    LET s == sock[exec[w].cfd]
        mine == s.peer \in {exec[w].conn, NULL}
        v == sock[conn[Victim(w)].fd]
    IN IF exec[w].pc \in {"eof", "mark", "reply", "delete", "forget", "close", "free"} /\ Lost(w) THEN "freed"
       ELSE CASE exec[w].pc = "recv" /\ ~mine -> "stolen"
              [] exec[w].pc = "recv" /\ mine /\ s.begun -> "torn"
              [] exec[w].pc = "rest" /\ ~s.begun -> "torn"
              [] exec[w].pc = "delete" /\ ~v.watched -> "exit"
              [] exec[w].pc = "delete" /\ v.watched /\ (v.peer # Victim(w) \/ ~conn[Victim(w)].close) -> "stolen"
              [] OTHER -> "none"

ExecFails(w) ==
    /\ fault = "none" /\ exec[w].pc # "idle"
    /\ ExecFault(w) # "none"
    /\ fault' = ExecFault(w)
    /\ UNCHANGED <<client, backlog, knock, sock, conn_table, conn, events, tasks, exec>>

In(w, pc) == fault = "none" /\ exec[w].pc = pc /\ (pc # "idle" => ExecFault(w) = "none")
Goto(w, pc) == exec' = [exec EXCEPT ![w] = IF pc = "idle" THEN Idle ELSE [@ EXCEPT !.pc = pc]]

\* A worker begins with the connection of a task.
Fetch(w) ==
    /\ In(w, "idle") /\ tasks # <<>>
    /\ tasks' = Tail(tasks)
    /\ LET c == Head(tasks)
       IN IF c = NULL THEN UNCHANGED <<exec, fault>>
          ELSE IF conn[c].state = "freed" THEN fault' = "freed" /\ UNCHANGED exec
          ELSE /\ exec' = [exec EXCEPT ![w] = [Idle EXCEPT !.pc = "recv", !.conn = c, !.cfd = conn[c].fd]]
               /\ UNCHANGED fault
    /\ UNCHANGED <<client, backlog, knock, sock, conn_table, conn, events>>

\* The first byte of a message, the end of the stream, or nothing.
Recv(w) ==
    /\ In(w, "recv")
    /\ LET s == sock[exec[w].cfd]
       IN /\ sock' = [sock EXCEPT ![exec[w].cfd].begun = (s.inbox # <<>>)]
          /\ Goto(w, IF s.inbox # <<>> THEN "rest" ELSE IF s.eof THEN "eof" ELSE "idle")
    /\ UNCHANGED <<client, backlog, knock, conn_table, conn, events, tasks, fault>>

\* The rest of it.
RecvRest(w) ==
    /\ In(w, "rest")
    /\ LET f == exec[w].cfd
           m == Head(sock[f].inbox)
       IN /\ sock' = [sock EXCEPT ![f].inbox = Tail(@), ![f].begun = FALSE]
          /\ exec' = [exec EXCEPT ![w].pc = IF m.do = "exit" THEN "mark" ELSE "execute", ![w].msg = m]
    /\ UNCHANGED <<client, backlog, knock, conn_table, conn, events, tasks, fault>>

\* Mutant: the end of the stream closes the connection.
EofCloses(w) ==
    /\ In(w, "eof")
    /\ Goto(w, "delete")
    /\ UNCHANGED <<client, backlog, knock, sock, conn_table, conn, events, tasks, fault>>

\* The end of the stream counts when the client has said so before.
Eof(w) ==
    /\ In(w, "eof")
    /\ Goto(w, IF conn[exec[w].conn].close THEN "delete" ELSE "idle")
    /\ UNCHANGED <<client, backlog, knock, sock, conn_table, conn, events, tasks, fault>>

\* High descriptors are a reason to look for connections that were left open.
Looks(w) == exec' = [exec EXCEPT ![w] = IF @.cfd > FD_RECYCLE_THRESHOLD
                                        THEN [@ EXCEPT !.pc = "recycle", !.recycles = TRUE] ELSE Idle]

\* Mutant: the flag is set only where connections are looked for.
MarkHigh(w) ==
    /\ In(w, "mark")
    /\ conn' = [conn EXCEPT ![exec[w].conn].close = exec[w].cfd > FD_RECYCLE_THRESHOLD]
    /\ Looks(w)
    /\ UNCHANGED <<client, backlog, knock, sock, conn_table, events, tasks, fault>>

\* CINFO_CLOSE_UP
Mark(w) ==
    /\ In(w, "mark")
    /\ conn' = [conn EXCEPT ![exec[w].conn].close = TRUE]
    /\ Looks(w)
    /\ UNCHANGED <<client, backlog, knock, sock, conn_table, events, tasks, fault>>

\* The request has been executed, and is answered.
Reply(w) ==
    /\ In(w, "reply")
    /\ client' = Answered(sock[conn[exec[w].conn].fd].peer)
    /\ Looks(w)
    /\ UNCHANGED <<backlog, knock, sock, conn_table, conn, events, tasks, fault>>

\* The next slot of the table.
Recycle(w) ==
    /\ In(w, "recycle")
    /\ LET c == conn_table[SYSRESERVFD + exec[w].i]
       IN IF c # NULL /\ conn[c].close THEN Goto(w, "delete")
          ELSE exec' = [exec EXCEPT ![w] = IF @.i + 1 < MAX_CONNECTIONS THEN [@ EXCEPT !.i = exec[w].i + 1]
                                               ELSE Idle]
    /\ UNCHANGED <<client, backlog, knock, sock, conn_table, conn, events, tasks, fault>>

\* conn_close: the events of the descriptor, ...
Delete(w) ==
    /\ In(w, "delete")
    /\ sock' = [sock EXCEPT ![conn[Victim(w)].fd].watched = FALSE]
    /\ exec' = [exec EXCEPT ![w].pc = "forget", ![w].conn = Victim(w)]
    /\ UNCHANGED <<client, backlog, knock, conn_table, conn, events, tasks, fault>>

\* Mutant: the descriptor is closed first.
CloseEarly(w) ==
    /\ In(w, "forget")
    /\ sock' = [sock EXCEPT ![conn[exec[w].conn].fd] = Closed]
    /\ Goto(w, "close")
    /\ UNCHANGED <<client, backlog, knock, conn_table, conn, events, tasks, fault>>

\* ... its slot, ...
Forget(w) ==
    /\ In(w, "forget")
    /\ conn_table' = [conn_table EXCEPT ![conn[exec[w].conn].fd] = NULL]
    /\ Goto(w, "close")
    /\ UNCHANGED <<client, backlog, knock, sock, conn, events, tasks, fault>>

\* ... the descriptor, ...
Close(w) ==
    /\ In(w, "close")
    /\ sock' = [sock EXCEPT ![conn[exec[w].conn].fd] = Closed]
    /\ Goto(w, "free")
    /\ UNCHANGED <<client, backlog, knock, conn_table, conn, events, tasks, fault>>

\* ... and the memory.
Free(w) ==
    /\ In(w, "free")
    /\ conn' = [conn EXCEPT ![exec[w].conn].state = "freed"]
    /\ Goto(w, IF exec[w].recycles THEN "recycle" ELSE "idle")
    /\ UNCHANGED <<client, backlog, knock, sock, conn_table, events, tasks, fault>>

ExecStep(w) ==
    \/ Fetch(w) \/ Recv(w) \/ RecvRest(w) \/ Eof(w) \/ Mark(w) \/ Reply(w) \/ Recycle(w)
    \/ Delete(w) \/ Forget(w) \/ Close(w) \/ Free(w) \/ ExecFails(w)

-----------------------------------------------------------------------------
\* A descriptor that is watched belongs to the client in its slot of the table,
\* and no slot keeps a connection whose descriptor or memory is gone.
ConnectionsMatchSockets ==
    fault = "none" =>
        \A f \in Fd :
            /\ sock[f].watched => conn_table[f] = sock[f].peer
            /\ conn_table[f] # NULL =>
                 /\ sock[f].peer = conn_table[f]
                 /\ conn[conn_table[f]].state = "live" /\ conn[conn_table[f]].fd = f

AtRest ==
    /\ fault = "none" /\ Ready = {} /\ events = <<>> /\ tasks = <<>>
    /\ \A w \in Worker : exec[w].pc = "idle"

\* A connection whose client has left is closed, or will be when the server
\* looks for such connections, however its last events were handled.
LeftoversAreMarked ==
    AtRest => \A f \in Fd : sock[f].peer # NULL /\ client[sock[f].peer].pc = "left" => conn[sock[f].peer].close

\* Nothing is freed that somebody uses, and no connection is closed twice, as
\* long as no client closes its own in the way it should; and no two workers
\* read from one message as long as no client ends at all.
FaultsNeedAnExit ==
    /\ fault \in {"freed", "exit", "stolen"} => \E c \in Client : client[c].pc \in {"leaving", "left"}
    /\ fault = "torn" => \E c \in Client : client[c].pc \in {"leaving", "left", "dead"}

\* Client c has come at the same time as another one, and only the other was accepted.
PassedOver(c) == c \in ToSet(backlog) /\ ~knock /\ Listen \notin ToSet(events)
=============================================================================
