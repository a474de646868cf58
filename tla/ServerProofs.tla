------------------------------ MODULE ServerProofs ------------------------------
(***************************************************************************)
(* Theorems about the server: its connections, for any clients, workers,   *)
(* descriptors and sizes of the table, whatever the requests do to tables; *)
(* and its open tables, for any workers, names and tables that there are.  *)
(***************************************************************************)
EXTENDS Server, FiniteSetTheorems, TLAPS

Gone == {"leaving", "left"}             \* the client has said that it leaves
Ended == {"leaving", "left", "dead"}

\* Where a worker is on behalf of a client, where it has read a message, and
\* where it closes a connection.
Serving == {"recv", "eof", "rest", "mark", "execute", "reply"}
Handling == {"mark", "execute", "reply"}
Closing == {"forget", "close", "free"}

\* Where x is in a queue.
Places(s, x) == {k \in 1..Len(s) : s[k] = x}
AtMostOne(S) == \A x, y \in S : x = y

\* A client has a connection from when it was accepted; it keeps its
\* descriptor until it has said that it leaves.
ClientsRight ==
    \A c \in Client :
        /\ conn[c].state = "none" <=> client[c].pc \in {"away", "connecting"}
        /\ conn[c].state # "none" => conn[c].fd \in Fd
        /\ conn[c].state = "freed" => conn[c].close
        /\ conn[c].close => client[c].pc \in Gone
        /\ conn[c].state # "none" /\ ~conn[c].close => sock[conn[c].fd].peer = c
        /\ Places(backlog, c) # {} => client[c].pc = "connecting"
        /\ AtMostOne(Places(backlog, c))
        /\ Places(tasks, c) # {} => conn[c].state # "none"

SocketsRight ==
    \A f \in Fd :
        /\ sock[f].peer = NULL => sock[f] = Closed
        /\ sock[f].peer # NULL => conn[sock[f].peer].state = "live" /\ conn[sock[f].peer].fd = f
        /\ conn_table[f] # NULL => conn_table[f] = sock[f].peer
        /\ sock[f].watched => conn_table[f] = sock[f].peer
        /\ sock[f].peer # NULL /\ ~sock[f].watched => conn[sock[f].peer].close

\* A worker that serves a client has its connection, and one that closes a
\* connection has it for itself, with less and less of it.
WorkerRight(w) ==
    /\ exec[w].pc \in Serving => exec[w].conn \in Client /\ ~exec[w].recycles
    /\ exec[w].pc \in Serving => conn[exec[w].conn].state # "none" /\ exec[w].cfd = conn[exec[w].conn].fd
    /\ exec[w].pc = "delete" => \E d \in Client : client[d].pc \in Gone
    /\ exec[w].pc = "recycle" => exec[w].recycles
    /\ exec[w].pc = "delete" /\ ~exec[w].recycles => exec[w].conn \in Client
    /\ exec[w].pc \in Closing =>
          exec[w].conn \in Client /\ conn[exec[w].conn].state = "live" /\ conn[exec[w].conn].close
    /\ exec[w].pc \in {"forget", "close"} =>
          sock[conn[exec[w].conn].fd].peer = exec[w].conn /\ ~sock[conn[exec[w].conn].fd].watched
    /\ exec[w].pc = "close" => conn_table[conn[exec[w].conn].fd] = NULL
    /\ exec[w].pc = "free" => \A f \in Fd : sock[f].peer # exec[w].conn

WorkersRight ==
    /\ \A w \in Worker : WorkerRight(w)
    /\ \A v, w \in Worker :
        exec[v].pc \in Closing /\ exec[w].pc \in Closing /\ exec[v].conn = exec[w].conn => v = w

\* A client has one message under way at most, in its socket or with a worker.
InboxRight(f) ==
    /\ Len(sock[f].inbox) \in {0, 1}
    /\ Len(sock[f].inbox) = 1 =>
         /\ sock[f].inbox[1].do = "exit" =>
               client[sock[f].peer].pc \in Gone /\ ~conn[sock[f].peer].close
         /\ sock[f].inbox[1].do # "exit" => client[sock[f].peer].pc \in {"waiting", "dead"}
         /\ \A w \in Worker : exec[w].pc \in Handling => exec[w].conn # sock[f].peer
    /\ sock[f].begun => Len(sock[f].inbox) = 1
    /\ sock[f].begun => \E w \in Worker : exec[w].pc = "rest" /\ exec[w].conn = sock[f].peer

MessagesRight ==
    /\ \A f \in Fd : sock[f].peer # NULL => InboxRight(f)
    /\ \A w \in Worker :
        /\ exec[w].pc = "rest" => sock[exec[w].cfd].peer = exec[w].conn /\ sock[exec[w].cfd].begun
        /\ exec[w].pc = "mark" => client[exec[w].conn].pc \in Gone
        /\ exec[w].pc \in {"execute", "reply"} => client[exec[w].conn].pc \in {"waiting", "dead"}
    /\ \A v, w \in Worker :
        /\ exec[v].pc = "rest" /\ exec[w].pc = "rest" /\ exec[v].conn = exec[w].conn => v = w
        /\ exec[v].pc \in Handling /\ exec[w].pc \in Handling /\ exec[v].conn = exec[w].conn => v = w

\* Who has said that it leaves is marked, or somebody is to read that.
Unread(c) ==
    /\ Len(sock[conn[c].fd].inbox) = 1
    /\ \/ sock[conn[c].fd].event
       \/ Places(events, conn[c].fd) # {}
       \/ Places(tasks, c) # {}
       \/ \E w \in Worker : exec[w].pc \in {"recv", "rest"} /\ exec[w].conn = c

LeaversRight ==
    \A c \in Client : client[c].pc \in Gone /\ ~conn[c].close =>
        Unread(c) \/ \E w \in Worker : exec[w].pc = "mark" /\ exec[w].conn = c

\* As long as no client has ended, a client is expected for its request only,
\* and once: by an event, in the events of the main thread, by a task, or by a
\* worker.
NobodyEnded == \A c \in Client : client[c].pc \notin Ended

ServedBy(ex, c) == {w \in Worker : ex[w].pc \in Serving /\ ex[w].conn = c}

ExpectedOnce(pc, event, seen, asked, served) ==
    /\ pc = "ready" => ~event /\ seen = {} /\ asked = {} /\ served = {}
    /\ event => seen = {} /\ asked = {} /\ served = {}
    /\ seen # {} => asked = {} /\ served = {}
    /\ asked # {} => served = {}
    /\ AtMostOne(seen) /\ AtMostOne(asked) /\ AtMostOne(served)

OneToken ==
    NobodyEnded =>
        /\ \A c \in Client : conn[c].state # "none" =>
              ExpectedOnce(client[c].pc, sock[conn[c].fd].event, Places(events, conn[c].fd),
                           Places(tasks, c), ServedBy(exec, c))
        /\ \A f \in Fd : Places(events, f) # {} => sock[f].peer # NULL

Inv == ConnTypeOK /\ ClientsRight /\ SocketsRight /\ WorkersRight /\ MessagesRight /\ LeaversRight /\ OneToken

-----------------------------------------------------------------------------
(* Queues *)

LEMMA PlacesTail ==
    ASSUME NEW S, NEW s \in Seq(S), s # <<>>
    PROVE  /\ Tail(s) \in Seq(S) /\ Head(s) \in S /\ Places(s, Head(s)) # {}
           /\ \A x : Places(Tail(s), x) # {} => Places(s, x) # {}
           /\ \A x : AtMostOne(Places(s, x)) => AtMostOne(Places(Tail(s), x))
           /\ AtMostOne(Places(s, Head(s))) => Places(Tail(s), Head(s)) = {}
           /\ \A x : x # Head(s) /\ Places(s, x) # {} => Places(Tail(s), x) # {}
<1>1. /\ Tail(s) \in Seq(S) /\ Head(s) \in S /\ Head(s) = s[1] /\ Len(s) \in Nat /\ Len(s) >= 1
      /\ Len(Tail(s)) = Len(s) - 1 /\ \A k \in 1..Len(Tail(s)) : Tail(s)[k] = s[k + 1]
  OBVIOUS
<1>2. 1 \in Places(s, Head(s))
  BY <1>1 DEF Places
<1>3. \A x, k : k \in Places(Tail(s), x) => k + 1 \in Places(s, x) /\ k \in Nat /\ k >= 1
  BY <1>1 DEF Places
<1>4. \A x, k : k \in Places(s, x) /\ k # 1 => k - 1 \in Places(Tail(s), x)
  BY <1>1 DEF Places
<1>5. ASSUME NEW x, AtMostOne(Places(s, x)), NEW k \in Places(Tail(s), x), NEW l \in Places(Tail(s), x)
      PROVE  k = l
  <2>1. k + 1 = l + 1 /\ k \in Nat /\ l \in Nat
    BY <1>3, <1>5 DEF AtMostOne
  <2> QED
    BY <2>1
<1>6. ASSUME AtMostOne(Places(s, Head(s))), NEW k \in Places(Tail(s), Head(s)) PROVE FALSE
  <2>1. k + 1 = 1 /\ k \in Nat /\ k >= 1
    BY <1>2, <1>3, <1>6 DEF AtMostOne
  <2> QED
    BY <2>1
<1>7. ASSUME NEW x, x # Head(s), NEW k \in Places(s, x) PROVE k - 1 \in Places(Tail(s), x)
  <2>1. k # 1
    BY <1>1, <1>7 DEF Places
  <2> QED
    BY <1>4, <2>1
<1>8. \A x : AtMostOne(Places(s, x)) => AtMostOne(Places(Tail(s), x))
  BY <1>5 DEF AtMostOne
<1> QED
  BY <1>1, <1>2, <1>3, <1>6, <1>7, <1>8

LEMMA PlacesAppend ==
    ASSUME NEW S, NEW s \in Seq(S), NEW y \in S
    PROVE  /\ Append(s, y) \in Seq(S) /\ Places(Append(s, y), y) # {}
           /\ \A x : x # y => Places(Append(s, y), x) = Places(s, x)
           /\ \A x : Places(s, x) # {} => Places(Append(s, y), x) # {}
           /\ Places(s, y) = {} => AtMostOne(Places(Append(s, y), y))
<1>1. /\ Append(s, y) \in Seq(S) /\ Len(s) \in Nat /\ Len(Append(s, y)) = Len(s) + 1
      /\ Append(s, y)[Len(s) + 1] = y /\ \A k \in 1..Len(s) : Append(s, y)[k] = s[k]
  OBVIOUS
<1>2. Len(s) + 1 \in Places(Append(s, y), y)
  BY <1>1 DEF Places
<1>3. \A x, k : k \in Places(Append(s, y), x) => k \in Places(s, x) \/ (k = Len(s) + 1 /\ x = y)
  BY <1>1 DEF Places
<1>4. \A x : Places(s, x) \subseteq Places(Append(s, y), x)
  BY <1>1 DEF Places
<1>5. ASSUME NEW x, x # y PROVE Places(Append(s, y), x) = Places(s, x)
  <2>1. \A k : k \in Places(Append(s, y), x) <=> k \in Places(s, x)
    BY <1>3, <1>4, <1>5
  <2> QED
    BY <2>1
<1>6. Places(s, y) = {} => AtMostOne(Places(Append(s, y), y))
  BY <1>3 DEF AtMostOne
<1> QED
  BY <1>1, <1>2, <1>4, <1>5, <1>6

-----------------------------------------------------------------------------
(* Types *)

ClientType == [pc : {"away", "connecting", "ready", "waiting", "leaving", "left", "dead"}, todo : Seq(Words)]
SockType == [peer : Client \cup {NULL}, inbox : Seq(Words), begun : BOOLEAN, eof : BOOLEAN,
             event : BOOLEAN, watched : BOOLEAN]
ConnType == [fd : Fd \cup {0}, close : BOOLEAN, state : {"none", "live", "freed"}]
ExecType == [pc : {"idle", "recv", "eof", "rest", "mark", "execute", "reply", "recycle", "delete",
                   "forget", "close", "free"},
             conn : Client \cup {NULL}, cfd : Fd \cup {0}, msg : Words \cup {NULL},
             i : 0..MAX_CONNECTIONS - 1, recycles : BOOLEAN]

\* The types in two parts: what clients and the network change, and the rest.
NetTyped(cl, bl, kn, sk) ==
    /\ cl \in [Client -> ClientType] /\ bl \in Seq(Client) /\ kn \in BOOLEAN /\ sk \in [Fd -> SockType]
ServerTyped(ct, cn, evs, ts, ex) ==
    /\ ct \in [Fd -> Client \cup {NULL}] /\ cn \in [Client -> ConnType]
    /\ evs \in Seq(Fd \cup {Listen}) /\ ts \in Seq(Client \cup {NULL}) /\ ex \in [Worker -> ExecType]

LEMMA Typed ==
    /\ ConnTypeOK <=> NetTyped(client, backlog, knock, sock) /\ ServerTyped(conn_table, conn, events, tasks, exec)
    /\ ConnTypeOK' <=> NetTyped(client', backlog', knock', sock') /\ ServerTyped(conn_table', conn', events', tasks', exec')
  BY DEF ConnTypeOK, NetTyped, ServerTyped, ClientType, SockType, ConnType, ExecType

LEMMA Constants ==
    /\ NULL \notin Client /\ NULL \notin Words /\ Listen \notin Fd
    /\ Cardinality(Fd) \in Nat /\ IsFiniteSet(Fd) /\ MAX_CONNECTIONS \in Nat
    /\ \A f \in Fd : f \in Nat
    /\ \A i \in 0..MAX_CONNECTIONS - 1 : SYSRESERVFD + i \in Fd
    /\ Closed \in SockType /\ Idle \in ExecType
<1>1. Cardinality(Fd) \in Nat /\ IsFiniteSet(Fd)
  BY ConnectionsAssumption, FS_CardinalityType
<1>2. MAX_CONNECTIONS \in Nat /\ MAX_CONNECTIONS >= 1 /\ MAX_CONNECTIONS <= Cardinality(Fd)
  BY <1>1, ConnectionsAssumption
<1>3. Fd = SYSRESERVFD..(SYSRESERVFD + Cardinality(Fd) - 1) /\ SYSRESERVFD \in Nat
  BY ConnectionsAssumption
<1>4. (\A f \in Fd : f \in Nat) /\ \A i \in 0..MAX_CONNECTIONS - 1 : SYSRESERVFD + i \in Fd
  <2>1. ASSUME NEW c \in Nat, MAX_CONNECTIONS <= c
        PROVE  /\ \A f \in SYSRESERVFD..(SYSRESERVFD + c - 1) : f \in Nat
               /\ \A i \in 0..MAX_CONNECTIONS - 1 : SYSRESERVFD + i \in SYSRESERVFD..(SYSRESERVFD + c - 1)
    BY <1>2, <1>3, <2>1
  <2> QED
    BY <1>1, <1>2, <1>3, <2>1
<1>5. Closed \in SockType
  BY DEF Closed, SockType
<1>6. Idle \in ExecType
  BY <1>2 DEF Idle, ExecType
<1> QED
  BY <1>1, <1>2, <1>4, <1>5, <1>6, ConnectionsAssumption

LEMMA ConnInitially == ConnInit => Inv
<1> SUFFICES ASSUME ConnInit PROVE Inv
  OBVIOUS
<1>1. PICK life \in Lives : client = [c \in Client |-> [pc |-> "away", todo |-> life[c]]]
  BY DEF ConnInit
<1>2. ConnTypeOK
  <2>1. life \in [Client -> Seq(Words)]
    BY ConnectionsAssumption
  <2>2. NetTyped(client, backlog, knock, sock)
    <3>1. client \in [Client -> ClientType]
      BY <1>1, <2>1 DEF ClientType
    <3>2. sock \in [Fd -> SockType]
      BY Constants DEF ConnInit
    <3>3. backlog \in Seq(Client)
      BY DEF ConnInit
    <3>4. knock \in BOOLEAN
      BY Zenon DEF ConnInit
    <3> QED
      BY <3>1, <3>2, <3>3, <3>4 DEF NetTyped
  <2>3. ServerTyped(conn_table, conn, events, tasks, exec)
    BY Constants DEF ConnInit, ServerTyped, ConnType
  <2> QED
    BY <2>2, <2>3, Typed
<1>3. \A x : Places(backlog, x) = {} /\ Places(tasks, x) = {} /\ Places(events, x) = {}
  BY DEF ConnInit, Places
<1>4. \A w \in Worker : exec[w].pc = "idle"
  BY DEF ConnInit, Idle
<1>5. \A f \in Fd : sock[f].peer = NULL /\ sock[f] = Closed /\ ~sock[f].watched
  BY DEF ConnInit, Closed
<1>6. \A c \in Client : conn[c].state = "none" /\ ~conn[c].close /\ client[c].pc = "away"
  BY <1>1 DEF ConnInit
<1>7. ClientsRight
  BY <1>3, <1>6 DEF ClientsRight, AtMostOne
<1>8. SocketsRight
  BY <1>5 DEF SocketsRight, ConnInit
<1>9. WorkersRight
  BY <1>4 DEF WorkersRight, WorkerRight, Serving, Closing
<1>10. MessagesRight
  BY <1>4, <1>5 DEF MessagesRight, Handling
<1>11. LeaversRight /\ OneToken
  BY <1>3, <1>6 DEF LeaversRight, OneToken, Gone
<1> QED
  BY <1>2, <1>7, <1>8, <1>9, <1>10, <1>11 DEF Inv

-----------------------------------------------------------------------------
(* The clients *)

LEMMA ArrivesEffect ==
    ASSUME ConnTypeOK, NEW c \in Client, NEW msgs \in Seq(Words), Arrives(c, msgs)
    PROVE  /\ sock' \in [Fd -> SockType]
           /\ \A f \in Fd : sock[f].peer # c => sock'[f] = sock[f]
           /\ \A f \in Fd : sock[f].peer = c =>
                /\ sock'[f].peer = c /\ sock'[f].inbox = sock[f].inbox \o msgs /\ sock'[f].event
                /\ sock'[f].begun = sock[f].begun /\ sock'[f].watched = sock[f].watched
<1>1. sock \in [Fd -> SockType]
  BY Typed DEF NetTyped
<1>2. PICK e \in BOOLEAN : e = (msgs = <<>>)
  OBVIOUS
<1>3. sock' = [f \in Fd |-> IF f \in Ends(c)
                            THEN [sock[f] EXCEPT !.inbox = sock[f].inbox \o msgs, !.eof = e, !.event = TRUE]
                            ELSE sock[f]]
  BY <1>2 DEF Arrives
<1>4. ASSUME NEW f \in Fd
      PROVE  LET s == [sock[f] EXCEPT !.inbox = sock[f].inbox \o msgs, !.eof = e, !.event = TRUE]
             IN /\ s \in SockType /\ s.peer = sock[f].peer /\ s.inbox = sock[f].inbox \o msgs
                /\ s.event = TRUE /\ s.begun = sock[f].begun /\ s.watched = sock[f].watched
  <2>1. sock[f].inbox \o msgs \in Seq(Words)
    BY <1>1 DEF SockType
  <2> QED
    BY <1>1, <2>1 DEF SockType
<1> QED
  BY <1>1, <1>3, <1>4 DEF Ends

\* The client at p goes to q, and msgs go to its socket.
LEMMA ClientMoves ==
    ASSUME Inv, NEW c \in Client, NEW q, NEW msgs \in Seq(Words), Arrives(c, msgs),
           client' \in [Client -> ClientType], client'[c].pc = q,
           \A d \in Client \ {c} : client'[d] = client[d],
           UNCHANGED <<backlog, knock, conn_table, conn, events, tasks, exec>>,
           \/ <<client[c].pc, q, Len(msgs)>> \in
                {<<"ready", "waiting", 1>>, <<"ready", "leaving", 1>>, <<"leaving", "left", 0>>,
                 <<"ready", "dead", 0>>, <<"waiting", "dead", 0>>},
           Len(msgs) = 1 => (msgs[1].do = "exit" <=> q = "leaving")
    PROVE  Inv'
<1> USE DEF Inv
<1>1. /\ sock' \in [Fd -> SockType]
      /\ \A f \in Fd : sock[f].peer # c => sock'[f] = sock[f]
      /\ \A f \in Fd : sock[f].peer = c =>
           /\ sock'[f].peer = c /\ sock'[f].inbox = sock[f].inbox \o msgs /\ sock'[f].event
           /\ sock'[f].begun = sock[f].begun /\ sock'[f].watched = sock[f].watched
  BY ArrivesEffect
<1>2. \A f \in Fd : /\ sock'[f].peer = sock[f].peer
                    /\ sock'[f].begun = sock[f].begun /\ sock'[f].watched = sock[f].watched
  BY <1>1
<1>3. PICK p : p = client[c].pc
  OBVIOUS
<1>4. /\ p \in {"ready", "waiting", "leaving"} /\ q \in {"waiting", "leaving", "left", "dead"}
      /\ p \in Gone => q \in Gone
      /\ q \in Gone => p \in Gone \/ (p = "ready" /\ Len(msgs) = 1 /\ msgs[1].do = "exit")
      /\ Len(msgs) = 1 => p = "ready" /\ (msgs[1].do # "exit" => q = "waiting")
      /\ Len(msgs) \in {0, 1}
      /\ p = "waiting" => q = "dead"
      /\ q \notin Ended => p = "ready"
  BY <1>3 DEF Gone, Ended
<1>5. ConnTypeOK'
  BY <1>1, Typed DEF NetTyped
<1>6. ClientsRight'
  BY <1>2, <1>3, <1>4 DEF ClientsRight
<1>7. SocketsRight'
  <2>1. \A f \in Fd : sock[f].peer = NULL => sock'[f] = sock[f]
    BY <1>1, Constants
  <2> QED
    BY <1>2, <2>1 DEF SocketsRight
<1>8. WorkersRight'
  <2>1. (\E d \in Client : client[d].pc \in Gone) => \E d \in Client : client'[d].pc \in Gone
    BY <1>3, <1>4
  <2>2. \A w \in Worker : exec[w].pc \in Closing =>
           exec[w].conn \in Client /\ conn[exec[w].conn].state = "live"
    BY DEF WorkersRight, WorkerRight
  <2>3. \A w \in Worker : exec[w].pc \in Closing => conn[exec[w].conn].fd \in Fd
    BY <2>2 DEF ClientsRight
  <2>4. ASSUME NEW w \in Worker PROVE WorkerRight(w)'
    <3>1. {"forget", "close"} \subseteq Closing
      BY DEF Closing
    <3>2. exec[w].pc \in {"forget", "close"} =>
             /\ sock'[conn[exec[w].conn].fd].peer = sock[conn[exec[w].conn].fd].peer
             /\ sock'[conn[exec[w].conn].fd].watched = sock[conn[exec[w].conn].fd].watched
      BY <1>2, <2>3, <3>1
    <3>3. \A f \in Fd : sock'[f].peer = sock[f].peer
      BY <1>2
    <3>4. WorkerRight(w)
      BY DEF WorkersRight
    <3> QED
      BY <2>1, <3>2, <3>3, <3>4 DEF WorkerRight
  <2> QED
    BY <2>4 DEF WorkersRight
<1>9. MessagesRight'
  <2>1. ASSUME NEW f \in Fd, sock[f].peer # NULL PROVE InboxRight(f)'
    <3>0. InboxRight(f)
      BY <2>1 DEF MessagesRight
    <3>1. CASE sock[f].peer # c
      <4>1. sock[f].peer \in Client /\ client'[sock[f].peer] = client[sock[f].peer]
        BY <2>1, <3>1, Typed DEF NetTyped, SockType
      <4> QED
        BY <1>1, <3>0, <3>1, <4>1 DEF InboxRight
    <3>2. CASE sock[f].peer = c /\ Len(msgs) = 0
      <4>1. sock[f].inbox \o msgs = sock[f].inbox
        BY <3>2, Typed DEF NetTyped, SockType
      <4> QED
        BY <1>1, <1>3, <1>4, <3>0, <3>2, <4>1 DEF InboxRight, Gone
    <3>3. CASE sock[f].peer = c /\ Len(msgs) = 1
      <4>1. p = "ready" /\ p \notin Gone
        BY <1>4, <3>3 DEF Gone
      <4>2. Len(sock[f].inbox) = 0 /\ ~sock[f].begun
        BY <1>3, <3>0, <3>3, <4>1 DEF InboxRight
      <4>3. Len(sock'[f].inbox) = 1 /\ sock'[f].inbox[1] = msgs[1]
        <5>1. sock[f].inbox \in Seq(Words) /\ sock[f].inbox = <<>>
          BY <4>2, Typed DEF NetTyped, SockType
        <5> QED
          BY <1>1, <3>3, <5>1
      <4>4. \A w \in Worker : exec[w].pc \in Handling => exec[w].conn # c
        <5>1. client[c].pc \notin Gone /\ client[c].pc \notin {"waiting", "dead"}
          BY <1>3, <4>1
        <5>2. ASSUME NEW w \in Worker, exec[w].pc \in Handling
              PROVE  client[exec[w].conn].pc \in Gone \/ client[exec[w].conn].pc \in {"waiting", "dead"}
          BY <5>2 DEF MessagesRight, Handling
        <5> QED
          BY <5>1, <5>2
      <4>5. ~conn[c].close
        BY <1>3, <4>1 DEF ClientsRight
      <4> QED
        BY <1>2, <1>4, <3>3, <4>1, <4>2, <4>3, <4>4, <4>5 DEF InboxRight, Gone
    <3> QED
      BY <1>4, <3>1, <3>2, <3>3
  <2>2. ASSUME NEW w \in Worker
        PROVE  /\ exec[w].pc = "rest" => sock'[exec[w].cfd].peer = exec[w].conn /\ sock'[exec[w].cfd].begun
               /\ exec[w].pc = "mark" => client'[exec[w].conn].pc \in Gone
               /\ exec[w].pc \in {"execute", "reply"} => client'[exec[w].conn].pc \in {"waiting", "dead"}
    <3>1. exec[w].pc \in Serving => exec[w].conn \in Client /\ exec[w].cfd \in Fd
      BY DEF WorkersRight, WorkerRight, ClientsRight
    <3> QED
      BY <1>2, <1>3, <1>4, <3>1 DEF MessagesRight, Serving, Gone
  <2> QED
    BY <1>2, <2>1, <2>2 DEF MessagesRight
<1>10. LeaversRight'
  <2> SUFFICES ASSUME NEW d \in Client, client'[d].pc \in Gone, ~conn[d].close
               PROVE  Unread(d)' \/ \E w \in Worker : exec[w].pc = "mark" /\ exec[w].conn = d
    BY DEF LeaversRight
  <2>1. CASE d # c
    <3>1. conn[d].state # "none" /\ conn[d].fd \in Fd /\ sock[conn[d].fd].peer = d
      BY <2>1 DEF ClientsRight, Gone
    <3>2. sock'[conn[d].fd] = sock[conn[d].fd]
      BY <1>1, <2>1, <3>1
    <3> QED
      BY <2>1, <3>2 DEF LeaversRight, Unread
  <2>2. CASE d = c
    <3>1. conn[c].fd \in Fd /\ sock[conn[c].fd].peer = c
      BY <1>3, <1>4, <2>2 DEF ClientsRight
    <3>2. sock'[conn[c].fd].event /\ sock'[conn[c].fd].inbox = sock[conn[c].fd].inbox \o msgs
      BY <1>1, <3>1
    <3>3. sock[conn[c].fd].inbox \in Seq(Words) /\ InboxRight(conn[c].fd)
      BY <3>1, Typed, Constants DEF NetTyped, SockType, MessagesRight
    <3>4. CASE Len(msgs) = 1
      <4>1. p = "ready" /\ p \notin Gone \cup {"waiting", "dead"}
        BY <1>4, <3>4 DEF Gone
      <4>2. Len(sock[conn[c].fd].inbox) = 0
        BY <1>3, <3>1, <3>3, <4>1 DEF InboxRight
      <4>3. Len(sock[conn[c].fd].inbox \o msgs) = 1
        <5>1. \A s \in Seq(Words) : Len(s) = 0 => Len(s \o msgs) = Len(msgs)
          OBVIOUS
        <5> QED
          BY <3>3, <3>4, <4>2, <5>1
      <4>4. Unread(c)'
        BY <1>1, <3>1, <3>2, <4>3 DEF Unread
      <4> QED
        BY <2>2, <4>4
    <3>5. CASE Len(msgs) = 0
      <4>1. sock'[conn[c].fd].inbox = sock[conn[c].fd].inbox
        <5>1. msgs = <<>>
          BY <3>5
        <5>2. \A s \in Seq(Words) : s \o <<>> = s
          OBVIOUS
        <5> QED
          BY <3>2, <3>3, <5>1, <5>2
      <4>2. Unread(c) \/ \E w \in Worker : exec[w].pc = "mark" /\ exec[w].conn = c
        BY <1>3, <1>4, <2>2, <3>5 DEF LeaversRight
      <4> QED
        BY <2>2, <3>2, <4>1, <4>2 DEF Unread
    <3> QED
      BY <1>4, <3>4, <3>5
  <2> QED
    BY <2>1, <2>2
<1>11. OneToken'
  <2>0. NobodyEnded' => NobodyEnded /\ q \notin Ended /\ p = "ready"
    BY <1>3, <1>4 DEF NobodyEnded, Ended
  <2> SUFFICES ASSUME NobodyEnded', NEW d \in Client, conn[d].state # "none"
               PROVE  ExpectedOnce(client'[d].pc, sock'[conn[d].fd].event, Places(events, conn[d].fd),
                                   Places(tasks, d), ServedBy(exec, d))
    BY <1>2, <2>0 DEF OneToken
  <2>1. q \notin Ended /\ p = "ready"
    BY <2>0
  <2>2. NobodyEnded
    BY <2>0
  <2>3. ExpectedOnce(client[d].pc, sock[conn[d].fd].event, Places(events, conn[d].fd),
                     Places(tasks, d), ServedBy(exec, d))
    BY <2>2 DEF OneToken
  <2>4. CASE d = c
    BY <1>3, <2>1, <2>3, <2>4, <1>4 DEF ExpectedOnce, AtMostOne
  <2>5. CASE d # c
    <3>1. conn[d].fd \in Fd /\ sock[conn[d].fd].peer = d
      BY <2>2 DEF ClientsRight, NobodyEnded, Gone, Ended
    <3>2. sock'[conn[d].fd] = sock[conn[d].fd] /\ client'[d] = client[d]
      BY <1>1, <2>5, <3>1
    <3> QED
      BY <2>3, <3>2
  <2> QED
    BY <2>4, <2>5
<1> QED
  BY <1>5, <1>6, <1>7, <1>8, <1>9, <1>10, <1>11

LEMMA ConnectStep ==
    ASSUME Inv, NEW c \in Client, Connect(c)
    PROVE  Inv'
<1> USE DEF Inv
<1>1. /\ client[c].pc = "away" /\ client' = [client EXCEPT ![c].pc = "connecting"]
      /\ backlog' = Append(backlog, c) /\ knock' = TRUE
      /\ UNCHANGED <<sock, conn_table, conn, events, tasks, exec>>
  BY DEF Connect, At
<1>2. client \in [Client -> ClientType] /\ backlog \in Seq(Client)
  BY Typed DEF NetTyped
<1>3. /\ client' \in [Client -> ClientType] /\ client'[c].pc = "connecting"
      /\ \A d \in Client \ {c} : client'[d] = client[d]
  BY <1>1, <1>2 DEF ClientType
<1>4. ConnTypeOK'
  <2>1. backlog' \in Seq(Client)
    BY <1>1, <1>2
  <2>2. knock' \in BOOLEAN
    BY <1>1, Zenon
  <2> QED
    BY <1>1, <1>3, <2>1, <2>2, Typed DEF NetTyped
<1>5. ClientsRight'
  <2>1. Places(backlog, c) = {}
    BY <1>1 DEF ClientsRight
  <2>2. /\ \A d : d # c => Places(backlog', d) = Places(backlog, d)
        /\ AtMostOne(Places(backlog', c))
    BY <1>1, <1>2, <2>1, PlacesAppend
  <2> QED
    BY <1>1, <1>3, <2>2 DEF ClientsRight, Gone
<1>6. SocketsRight'
  BY <1>1 DEF SocketsRight
<1>7. \A d \in Client : client[d].pc \in Ended => client'[d] = client[d]
  BY <1>1, <1>3 DEF Ended
<1>8. WorkersRight'
  <2>1. (\E d \in Client : client[d].pc \in Gone) => \E d \in Client : client'[d].pc \in Gone
    BY <1>7 DEF Gone, Ended
  <2> QED
    BY <1>1, <2>1 DEF WorkersRight, WorkerRight
<1>9. MessagesRight'
  <2>1. ASSUME NEW f \in Fd, sock[f].peer # NULL PROVE InboxRight(f)'
    <3>1. sock[f].peer \in Client /\ sock[f].peer # c
      BY <1>1, <2>1, Typed DEF NetTyped, SockType, SocketsRight, ClientsRight
    <3> QED
      BY <1>1, <1>3, <2>1, <3>1 DEF MessagesRight, InboxRight
  <2>2. \A w \in Worker : exec[w].pc \in Serving => exec[w].conn \in Client /\ exec[w].conn # c
    BY <1>1 DEF WorkersRight, WorkerRight, ClientsRight
  <2> QED
    BY <1>1, <1>3, <2>1, <2>2 DEF MessagesRight, Serving
<1>10. LeaversRight'
  BY <1>1, <1>3 DEF LeaversRight, Unread, Gone
<1>11. OneToken'
  <2>1. NobodyEnded' => NobodyEnded
    BY <1>7 DEF NobodyEnded
  <2>2. \A d \in Client : conn[d].state # "none" => d # c
    BY <1>1 DEF ClientsRight
  <2> QED
    BY <1>1, <1>3, <2>1, <2>2 DEF OneToken
<1> QED
  BY <1>4, <1>5, <1>6, <1>8, <1>9, <1>10, <1>11
LEMMA ClientSteps ==
    ASSUME Inv, NEW c \in Client, ClientStep(c)
    PROVE  Inv'
<1>1. /\ client \in [Client -> ClientType]
      /\ client[c].todo \in Seq(Words)
  BY Typed DEF Inv, NetTyped, ClientType
<1>2. ASSUME client[c].todo # <<>>
      PROVE  /\ Tail(client[c].todo) \in Seq(Words) /\ <<Head(client[c].todo)>> \in Seq(Words)
             /\ Len(<<Head(client[c].todo)>>) = 1 /\ <<Head(client[c].todo)>>[1].do = Next1(c)
  BY <1>1, <1>2 DEF Next1
<1>3. CASE Request(c)
  <2> DEFINE msgs == <<Head(client[c].todo)>>
  <2>1. /\ client[c].pc = "ready" /\ client[c].todo # <<>> /\ Next1(c) # "exit" /\ Arrives(c, msgs)
        /\ client' = [client EXCEPT ![c].pc = "waiting", ![c].todo = Tail(@)]
        /\ UNCHANGED <<backlog, knock, conn_table, conn, events, tasks, exec>>
    BY <1>3 DEF Request, At
  <2>2. /\ client' \in [Client -> ClientType] /\ client'[c].pc = "waiting"
        /\ \A d \in Client \ {c} : client'[d] = client[d]
    BY <1>1, <1>2, <2>1 DEF ClientType
  <2>3. msgs \in Seq(Words) /\ Len(msgs) = 1 /\ msgs[1].do # "exit"
    BY <1>2, <2>1
  <2> HIDE DEF msgs
  <2> QED
    BY <2>1, <2>2, <2>3, ClientMoves
<1>4. CASE Exit(c)
  <2> DEFINE msgs == <<Head(client[c].todo)>>
  <2>1. /\ client[c].pc = "ready" /\ client[c].todo # <<>> /\ Next1(c) = "exit" /\ Arrives(c, msgs)
        /\ client' = [client EXCEPT ![c].pc = "leaving"]
        /\ UNCHANGED <<backlog, knock, conn_table, conn, events, tasks, exec>>
    BY <1>4 DEF Exit, At
  <2>2. /\ client' \in [Client -> ClientType] /\ client'[c].pc = "leaving"
        /\ \A d \in Client \ {c} : client'[d] = client[d]
    BY <1>1, <2>1 DEF ClientType
  <2>3. msgs \in Seq(Words) /\ Len(msgs) = 1 /\ msgs[1].do = "exit"
    BY <1>2, <2>1
  <2> HIDE DEF msgs
  <2> QED
    BY <2>1, <2>2, <2>3, ClientMoves
<1>5. CASE Hangup(c)
  <2>1. /\ client[c].pc = "leaving" /\ Arrives(c, <<>>) /\ client' = [client EXCEPT ![c].pc = "left"]
        /\ UNCHANGED <<backlog, knock, conn_table, conn, events, tasks, exec>>
    BY <1>5 DEF Hangup, At
  <2>2. /\ client' \in [Client -> ClientType] /\ client'[c].pc = "left"
        /\ \A d \in Client \ {c} : client'[d] = client[d]
    BY <1>1, <2>1 DEF ClientType
  <2>3. PICK msgs : msgs = <<>>
    OBVIOUS
  <2>4. msgs \in Seq(Words) /\ Len(msgs) = 0 /\ Len(msgs) # 1 /\ Arrives(c, msgs)
    BY <2>1, <2>3
  <2> QED
    BY <2>1, <2>2, <2>3, <2>4, ClientMoves
<1>6. CASE Die(c)
  <2>1. /\ client[c].pc \in {"ready", "waiting"} /\ Arrives(c, <<>>) /\ client' = [client EXCEPT ![c].pc = "dead"]
        /\ UNCHANGED <<backlog, knock, conn_table, conn, events, tasks, exec>>
    BY <1>6 DEF Die, At
  <2>2. /\ client' \in [Client -> ClientType] /\ client'[c].pc = "dead"
        /\ \A d \in Client \ {c} : client'[d] = client[d]
    BY <1>1, <2>1 DEF ClientType
  <2>3. PICK msgs : msgs = <<>>
    OBVIOUS
  <2>4. msgs \in Seq(Words) /\ Len(msgs) = 0 /\ Len(msgs) # 1 /\ Arrives(c, msgs)
    BY <2>1, <2>3
  <2> QED
    BY <2>1, <2>2, <2>3, <2>4, ClientMoves
<1> QED
  BY <1>3, <1>4, <1>5, <1>6, ConnectStep DEF ClientStep

-----------------------------------------------------------------------------
(* exec: steps that change where one worker is, and nothing else *)

LEMMA ExecTyped ==
    ASSUME Inv, NEW w \in Worker, NEW e \in ExecType, exec' = [exec EXCEPT ![w] = e]
    PROVE  /\ exec \in [Worker -> ExecType] /\ exec' \in [Worker -> ExecType]
           /\ exec'[w] = e /\ \A v \in Worker \ {w} : exec'[v] = exec[v]
  BY Typed DEF Inv, ServerTyped

\* A worker that has left its client, or is to close a connection, or has
\* executed a request.
Leaves(w, e) ==
    /\ exec[w].pc \in {"eof", "recycle", "execute"}
    /\ \/ e.pc = "idle"
       \/ e.pc = "recycle" /\ e.recycles
       \/ e.pc = "delete" /\ (\E d \in Client : client[d].pc \in Gone) /\ (~e.recycles => e.conn \in Client)
       \/ exec[w].pc = "execute" /\ e = [exec[w] EXCEPT !.pc = "reply"]

LEMMA WorkerLeaves ==
    ASSUME Inv, NEW w \in Worker, NEW e \in ExecType, exec' = [exec EXCEPT ![w] = e], Leaves(w, e),
           UNCHANGED <<client, backlog, knock, sock, conn_table, conn, events, tasks>>
    PROVE  Inv'
<1> USE DEF Inv
<1>1. /\ exec \in [Worker -> ExecType] /\ exec' \in [Worker -> ExecType]
      /\ exec'[w] = e /\ \A v \in Worker \ {w} : exec'[v] = exec[v]
  BY ExecTyped
<1>2. /\ e.pc \in {"idle", "recycle", "delete", "reply"}
      /\ e.pc = "delete" => (\E d \in Client : client[d].pc \in Gone) /\ (~e.recycles => e.conn \in Client)
      /\ e.pc = "recycle" => e.recycles
      /\ e.pc = "reply" =>
            exec[w].pc = "execute" /\ e.conn = exec[w].conn /\ e.cfd = exec[w].cfd /\ e.recycles = exec[w].recycles
  BY <1>1 DEF Leaves, ExecType
<1>3. exec[w].pc \in {"eof", "recycle", "execute"}
  BY DEF Leaves
<1>4. ConnTypeOK'
  BY <1>1, Typed DEF ServerTyped
<1>5. ClientsRight' /\ SocketsRight'
  BY DEF ClientsRight, SocketsRight
<1>6. WorkersRight'
  <2>1. WorkerRight(w)'
    BY <1>1, <1>2 DEF WorkersRight, WorkerRight, Serving, Closing
  <2>2. ASSUME NEW v \in Worker \ {w} PROVE WorkerRight(v)'
    BY <1>1, <2>2 DEF WorkersRight, WorkerRight
  <2>3. e.pc \notin Closing
    BY <1>2 DEF Closing
  <2> QED
    BY <1>1, <2>1, <2>2, <2>3 DEF WorkersRight
<1>7. MessagesRight'
  <2>1. ASSUME NEW f \in Fd, sock[f].peer # NULL PROVE InboxRight(f)'
    <3>1. \A v \in Worker : exec'[v].pc \in Handling => exec[v].pc \in Handling /\ exec'[v].conn = exec[v].conn
      BY <1>1, <1>2 DEF Handling
    <3>2. \A v \in Worker : exec[v].pc = "rest" => exec'[v] = exec[v]
      BY <1>1, <1>3
    <3> QED
      BY <2>1, <3>1, <3>2 DEF MessagesRight, InboxRight
  <2>2. \A v \in Worker : exec'[v].pc \in {"rest", "mark"} => exec'[v] = exec[v]
    BY <1>1, <1>2
  <2>3. \A v \in Worker : exec'[v].pc \in {"execute", "reply"} =>
            exec[v].pc \in {"execute", "reply"} /\ exec'[v].conn = exec[v].conn
    BY <1>1, <1>2
  <2> QED
    BY <2>1, <2>2, <2>3 DEF MessagesRight, Handling
<1>8. LeaversRight'
  <2>1. \A v \in Worker : exec[v].pc \in {"recv", "rest", "mark"} => exec'[v] = exec[v]
    BY <1>1, <1>3
  <2> QED
    BY <2>1 DEF LeaversRight, Unread
<1>9. OneToken'
  <2>1. ASSUME NEW c \in Client PROVE ServedBy(exec', c) \subseteq ServedBy(exec, c)
    BY <1>1, <1>2 DEF ServedBy, Serving
  <2> QED
    BY <2>1 DEF OneToken, NobodyEnded, ExpectedOnce, AtMostOne
<1> QED
  BY <1>4, <1>5, <1>6, <1>7, <1>8, <1>9

LEMMA EofStep ==
    ASSUME Inv, NEW w \in Worker, Eof(w)
    PROVE  Inv'
<1>1. /\ exec[w].pc = "eof" /\ UNCHANGED <<client, backlog, knock, sock, conn_table, conn, events, tasks>>
      /\ exec' = [exec EXCEPT ![w] = IF conn[exec[w].conn].close THEN [exec[w] EXCEPT !.pc = "delete"] ELSE Idle]
  BY DEF Eof, In, Goto
<1>2. exec[w] \in ExecType /\ exec[w].conn \in Client /\ Idle \in ExecType
  BY <1>1, Typed, Constants DEF Inv, ServerTyped, WorkersRight, WorkerRight, Serving
<1>3. [exec[w] EXCEPT !.pc = "delete"] \in ExecType
  BY <1>2 DEF ExecType
<1>4. CASE conn[exec[w].conn].close
  <2>1. \E d \in Client : client[d].pc \in Gone
    BY <1>2, <1>4 DEF Inv, ClientsRight
  <2>2. Leaves(w, [exec[w] EXCEPT !.pc = "delete"])
    BY <1>1, <1>2, <2>1 DEF Leaves, ExecType
  <2> QED
    BY <1>1, <1>3, <1>4, <2>2, WorkerLeaves
<1>5. CASE ~conn[exec[w].conn].close
  <2>1. Leaves(w, Idle)
    BY <1>1 DEF Leaves, Idle
  <2> QED
    BY <1>1, <1>2, <1>5, <2>1, WorkerLeaves
<1> QED
  BY <1>4, <1>5

LEMMA RecycleStep ==
    ASSUME Inv, NEW w \in Worker, Recycle(w)
    PROVE  Inv'
<1>1. exec[w].pc = "recycle" /\ UNCHANGED <<client, backlog, knock, sock, conn_table, conn, events, tasks>>
  BY DEF Recycle, In
<1>2. exec[w] \in ExecType /\ Idle \in ExecType
  BY Typed, Constants DEF Inv, ServerTyped
<1>3. PICK c : c = conn_table[SYSRESERVFD + exec[w].i]
  OBVIOUS
<1>4. c \in Client \cup {NULL}
  <2>1. SYSRESERVFD + exec[w].i \in Fd
    BY <1>2, Constants DEF ExecType
  <2> QED
    BY <1>3, <2>1, Typed DEF Inv, ServerTyped
<1>5. CASE c # NULL /\ conn[c].close
  <2>1. exec' = [exec EXCEPT ![w] = [exec[w] EXCEPT !.pc = "delete"]]
    BY <1>3, <1>5 DEF Recycle, Goto
  <2>2. [exec[w] EXCEPT !.pc = "delete"] \in ExecType
    BY <1>2 DEF ExecType
  <2>3. \E d \in Client : client[d].pc \in Gone
    BY <1>4, <1>5 DEF Inv, ClientsRight
  <2>4. exec[w].recycles
    BY <1>1 DEF Inv, WorkersRight, WorkerRight
  <2>5. Leaves(w, [exec[w] EXCEPT !.pc = "delete"])
    BY <1>1, <1>2, <2>3, <2>4 DEF Leaves, ExecType
  <2> QED
    BY <1>1, <2>1, <2>2, <2>5, WorkerLeaves
<1>6. CASE ~(c # NULL /\ conn[c].close)
  <2>1. exec' = [exec EXCEPT ![w] = IF exec[w].i + 1 < MAX_CONNECTIONS THEN [exec[w] EXCEPT !.i = exec[w].i + 1]
                                    ELSE Idle]
    BY <1>3, <1>6 DEF Recycle
  <2>2. CASE exec[w].i + 1 < MAX_CONNECTIONS
    <3>1. [exec[w] EXCEPT !.i = exec[w].i + 1] \in ExecType
      BY <1>2, <2>2, Constants DEF ExecType
    <3>2. exec[w].recycles
      BY <1>1 DEF Inv, WorkersRight, WorkerRight
    <3>3. Leaves(w, [exec[w] EXCEPT !.i = exec[w].i + 1])
      BY <1>1, <1>2, <3>2 DEF Leaves, ExecType
    <3> QED
      BY <1>1, <2>1, <2>2, <3>1, <3>3, WorkerLeaves
  <2>3. CASE ~(exec[w].i + 1 < MAX_CONNECTIONS)
    <3>1. Leaves(w, Idle)
      BY <1>1 DEF Leaves, Idle
    <3> QED
      BY <1>1, <1>2, <2>1, <2>3, <3>1, WorkerLeaves
  <2> QED
    BY <2>2, <2>3
<1> QED
  BY <1>5, <1>6

LEMMA EndCommandStep ==
    ASSUME Inv, NEW w \in Worker, EndCommand(w)
    PROVE  Inv'
<1>1. /\ exec[w].pc = "execute" /\ UNCHANGED <<client, backlog, knock, sock, conn_table, conn, events, tasks>>
      /\ exec' = [exec EXCEPT ![w] = [exec[w] EXCEPT !.pc = "reply"]]
  BY DEF EndCommand, In, Goto
<1>2. exec[w] \in ExecType
  BY Typed DEF Inv, ServerTyped
<1>3. [exec[w] EXCEPT !.pc = "reply"] \in ExecType /\ Leaves(w, [exec[w] EXCEPT !.pc = "reply"])
  BY <1>1, <1>2 DEF ExecType, Leaves
<1> QED
  BY <1>1, <1>3, WorkerLeaves

-----------------------------------------------------------------------------
(* exec: the end of a message *)

\* What leaves a message as it is.
LEMMA InboxKept ==
    ASSUME NEW f \in Fd, InboxRight(f),
           sock'[f].peer = sock[f].peer, sock'[f].inbox = sock[f].inbox, sock'[f].begun = sock[f].begun,
           Len(sock[f].inbox) = 1 => /\ client'[sock[f].peer].pc = client[sock[f].peer].pc
                                     /\ conn'[sock[f].peer].close = conn[sock[f].peer].close,
           \A v \in Worker : exec'[v].pc \in Handling => exec[v].pc \in Handling /\ exec'[v].conn = exec[v].conn,
           \A v \in Worker : exec[v].pc = "rest" /\ exec[v].conn = sock[f].peer => exec'[v] = exec[v]
    PROVE  InboxRight(f)'
  BY DEF InboxRight

LEMMA LooksEffect ==
    ASSUME Inv, NEW w \in Worker, Looks(w)
    PROVE  /\ exec \in [Worker -> ExecType] /\ exec' \in [Worker -> ExecType]
           /\ exec'[w].pc \in {"idle", "recycle"} /\ (exec'[w].pc = "recycle" => exec'[w].recycles)
           /\ \A v \in Worker \ {w} : exec'[v] = exec[v]
<1>1. exec \in [Worker -> ExecType] /\ exec[w] \in ExecType /\ Idle \in ExecType
  BY Typed, Constants DEF Inv, ServerTyped
<1>2. PICK e : /\ exec' = [exec EXCEPT ![w] = e]
               /\ e = IF exec[w].cfd > FD_RECYCLE_THRESHOLD
                      THEN [exec[w] EXCEPT !.pc = "recycle", !.recycles = TRUE] ELSE Idle
  BY DEF Looks
<1>3. e \in ExecType /\ e.pc \in {"idle", "recycle"} /\ (e.pc = "recycle" => e.recycles)
  <2>1. LET r == [exec[w] EXCEPT !.pc = "recycle", !.recycles = TRUE]
        IN r \in ExecType /\ r.pc = "recycle" /\ r.recycles
    BY <1>1 DEF ExecType
  <2> QED
    BY <1>1, <1>2, <2>1 DEF Idle
<1> QED
  BY <1>1, <1>2, <1>3, ExecTyped

\* What becomes of the others when worker w has done with a message.
LEMMA MessageDone ==
    ASSUME Inv, NEW w \in Worker, exec[w].pc \in Handling, Looks(w)
    PROVE  /\ \A v \in Worker : exec'[v].pc \notin {"idle", "recycle"} => v # w /\ exec'[v] = exec[v]
           /\ \A v \in Worker : exec[v].pc \in {"rest", "recv"} => exec'[v] = exec[v]
           /\ exec[w].conn \in Client /\ conn[exec[w].conn].state # "none" /\ conn[exec[w].conn].fd \in Fd
           /\ \A v \in Worker : exec'[v].pc \in Handling => exec'[v] = exec[v] /\ exec[v].conn # exec[w].conn
           /\ \A f \in Fd : sock[f].peer = exec[w].conn => Len(sock[f].inbox) # 1
           /\ \A c : ServedBy(exec', c) \subseteq ServedBy(exec, c) /\ w \notin ServedBy(exec', c)
           /\ w \in ServedBy(exec, exec[w].conn)
<1> USE DEF Inv
<1>1. /\ exec'[w].pc \in {"idle", "recycle"} /\ \A v \in Worker \ {w} : exec'[v] = exec[v]
  BY LooksEffect
<1>2. exec[w].conn \in Client /\ conn[exec[w].conn].state # "none" /\ conn[exec[w].conn].fd \in Fd
  BY DEF WorkersRight, WorkerRight, ClientsRight, Handling, Serving
<1>3. \A f \in Fd : sock[f].peer = exec[w].conn => Len(sock[f].inbox) # 1
  BY <1>2, Constants DEF MessagesRight, InboxRight
<1>4. \A v \in Worker : exec'[v].pc \in Handling => exec'[v] = exec[v] /\ exec[v].conn # exec[w].conn
  BY <1>1 DEF MessagesRight, Handling
<1> QED
  BY <1>1, <1>2, <1>3, <1>4 DEF Handling, Serving, ServedBy

LEMMA MarkStep ==
    ASSUME Inv, NEW w \in Worker, Mark(w)
    PROVE  Inv'
<1> USE DEF Inv
<1>1. /\ exec[w].pc = "mark" /\ Looks(w) /\ conn' = [conn EXCEPT ![exec[w].conn].close = TRUE]
      /\ UNCHANGED <<client, backlog, knock, sock, conn_table, events, tasks>>
  BY DEF Mark, In
<1>2. exec[w].pc \in Handling
  BY <1>1 DEF Handling
<1>3. PICK d : d = exec[w].conn
  OBVIOUS
<1>4. d \in Client /\ conn[d].state # "none" /\ client[d].pc \in Gone
  BY <1>1, <1>2, <1>3, MessageDone DEF MessagesRight
<1>5. conn \in [Client -> ConnType]
  BY Typed DEF ServerTyped
<1>6. /\ conn' \in [Client -> ConnType] /\ conn'[d].close
      /\ \A c \in Client : conn'[c].state = conn[c].state /\ conn'[c].fd = conn[c].fd
      /\ \A c \in Client : conn[c].close => conn'[c].close
      /\ \A c \in Client : c # d => conn'[c] = conn[c]
  BY <1>1, <1>3, <1>4, <1>5 DEF ConnType
<1>7. /\ exec' \in [Worker -> ExecType]
      /\ exec'[w].pc \in {"idle", "recycle"} /\ (exec'[w].pc = "recycle" => exec'[w].recycles)
      /\ \A v \in Worker \ {w} : exec'[v] = exec[v]
  BY <1>1, LooksEffect
<1>8. /\ \A v \in Worker : exec'[v].pc \notin {"idle", "recycle"} => v # w /\ exec'[v] = exec[v]
      /\ \A v \in Worker : exec[v].pc \in {"rest", "recv"} => exec'[v] = exec[v]
      /\ \A v \in Worker : exec'[v].pc \in Handling => exec'[v] = exec[v] /\ exec[v].conn # d
      /\ \A f \in Fd : sock[f].peer = d => Len(sock[f].inbox) # 1
  BY <1>1, <1>2, <1>3, MessageDone
<1>9. ConnTypeOK'
  BY <1>1, <1>6, <1>7, Typed DEF NetTyped, ServerTyped
<1>10. ClientsRight'
  <2>1. UNCHANGED <<client, backlog, sock, tasks>>
    BY <1>1
  <2>2. \A c \in Client : conn'[c].close => client[c].pc \in Gone
    BY <1>4, <1>6 DEF ClientsRight
  <2> QED
    BY <1>6, <2>1, <2>2 DEF ClientsRight
<1>11. \A f \in Fd : sock[f].peer # NULL => sock[f].peer \in Client
  BY Typed DEF NetTyped, SockType
<1>12. SocketsRight'
  BY <1>1, <1>6, <1>11 DEF SocketsRight
<1>13. WorkersRight'
  <2>1. ASSUME NEW v \in Worker, exec'[v].pc \notin {"idle", "recycle"} PROVE WorkerRight(v)'
    <3>1. exec'[v] = exec[v] /\ WorkerRight(v)
      BY <1>8, <2>1 DEF WorkersRight
    <3>2. {"forget", "close", "free"} \subseteq Closing
      BY DEF Closing
    <3>3. exec[v].conn \in Client =>
             /\ conn'[exec[v].conn].state = conn[exec[v].conn].state
             /\ conn'[exec[v].conn].fd = conn[exec[v].conn].fd
             /\ conn[exec[v].conn].close => conn'[exec[v].conn].close
      BY <1>6
    <3>4. UNCHANGED <<client, sock, conn_table>>
      BY <1>1
    <3> QED
      BY <3>1, <3>2, <3>3, <3>4 DEF WorkerRight
  <2>2. ASSUME NEW v \in Worker, exec'[v].pc \in {"idle", "recycle"} PROVE WorkerRight(v)'
    <3>1. exec'[v].pc = "recycle" => exec'[v].recycles
      BY <1>7, <2>2 DEF WorkersRight, WorkerRight
    <3> QED
      BY <2>2, <3>1 DEF WorkerRight, Serving, Closing
  <2>3. \A v \in Worker : exec'[v].pc \in Closing => exec'[v] = exec[v]
    BY <1>8 DEF Closing
  <2> QED
    BY <2>1, <2>2, <2>3 DEF WorkersRight
<1>14. MessagesRight'
  <2>1. ASSUME NEW f \in Fd, sock[f].peer # NULL PROVE InboxRight(f)'
    <3>1. InboxRight(f) /\ sock[f].peer \in Client
      BY <1>11, <2>1 DEF MessagesRight
    <3> QED
      BY <1>1, <1>6, <1>8, <3>1, InboxKept
  <2>2. \A v \in Worker : exec'[v].pc \in {"rest", "mark", "execute", "reply"} => exec'[v] = exec[v]
    BY <1>8
  <2> QED
    BY <1>1, <2>1, <2>2 DEF MessagesRight, Handling
<1>15. LeaversRight'
  <2>1. \A v \in Worker : exec[v].pc = "mark" /\ v # w => exec'[v] = exec[v]
    BY <1>7
  <2>2. ASSUME NEW c \in Client, client'[c].pc \in Gone, ~conn'[c].close
        PROVE  Unread(c)' \/ \E v \in Worker : exec'[v].pc = "mark" /\ exec'[v].conn = c
    <3>1. c # d /\ conn'[c] = conn[c] /\ client' = client
      BY <1>1, <1>6, <2>2
    <3>2. Unread(c) \/ \E v \in Worker : exec[v].pc = "mark" /\ exec[v].conn = c
      BY <2>2, <3>1 DEF LeaversRight
    <3>3. CASE Unread(c)
      <4>1. \A v \in Worker : exec[v].pc \in {"recv", "rest"} => exec'[v] = exec[v]
        BY <1>8
      <4> QED
        BY <1>1, <3>1, <3>3, <4>1 DEF Unread
    <3>4. CASE \E v \in Worker : exec[v].pc = "mark" /\ exec[v].conn = c
      BY <1>3, <2>1, <3>1, <3>4
    <3> QED
      BY <3>2, <3>3, <3>4
  <2> QED
    BY <2>2 DEF LeaversRight
<1>16. OneToken'
  BY <1>1, <1>4 DEF OneToken, NobodyEnded, Gone, Ended
<1> QED
  BY <1>9, <1>10, <1>12, <1>13, <1>14, <1>15, <1>16

LEMMA ReplyStep ==
    ASSUME Inv, NEW w \in Worker, Reply(w)
    PROVE  Inv'
<1> USE DEF Inv
<1>1. /\ exec[w].pc = "reply" /\ Looks(w) /\ client' = Answered(sock[conn[exec[w].conn].fd].peer)
      /\ UNCHANGED <<backlog, knock, sock, conn_table, conn, events, tasks>>
  BY DEF Reply, In
<1>2. exec[w].pc \in Handling
  BY <1>1 DEF Handling
<1>3. PICK d : d = exec[w].conn
  OBVIOUS
<1>4. /\ d \in Client /\ conn[d].state # "none" /\ client[d].pc \in {"waiting", "dead"}
      /\ sock[conn[d].fd].peer = d
  <2>1. d \in Client /\ conn[d].state # "none" /\ client[d].pc \in {"waiting", "dead"}
    BY <1>1, <1>2, <1>3, MessageDone DEF MessagesRight
  <2> QED
    BY <2>1 DEF ClientsRight, Gone
<1>5. client \in [Client -> ClientType]
  BY Typed DEF NetTyped
<1>6. /\ client' \in [Client -> ClientType]
      /\ \A c \in Client : c # d => client'[c] = client[c]
      /\ client'[d].pc = IF client[d].pc = "waiting" THEN "ready" ELSE client[d].pc
  <2>1. client' = Answered(d)
    BY <1>1, <1>3, <1>4
  <2>2. [client[d] EXCEPT !.pc = "ready"] \in ClientType /\ [client[d] EXCEPT !.pc = "ready"].pc = "ready"
    BY <1>4, <1>5 DEF ClientType
  <2> QED
    BY <1>4, <1>5, <2>1, <2>2 DEF Answered
<1>7. \A c \in Client : client'[c].pc \in Ended => client'[c].pc = client[c].pc
  BY <1>4, <1>6 DEF Ended
<1>8. \A c \in Client : client[c].pc \in Ended => client'[c].pc = client[c].pc
  BY <1>4, <1>6 DEF Ended
<1>9. /\ exec' \in [Worker -> ExecType]
      /\ exec'[w].pc \in {"idle", "recycle"} /\ (exec'[w].pc = "recycle" => exec'[w].recycles)
      /\ \A v \in Worker \ {w} : exec'[v] = exec[v]
  BY <1>1, LooksEffect
<1>10. /\ \A v \in Worker : exec'[v].pc \notin {"idle", "recycle"} => v # w /\ exec'[v] = exec[v]
       /\ \A v \in Worker : exec[v].pc \in {"rest", "recv"} => exec'[v] = exec[v]
       /\ \A v \in Worker : exec'[v].pc \in Handling => exec'[v] = exec[v] /\ exec[v].conn # d
       /\ \A f \in Fd : sock[f].peer = d => Len(sock[f].inbox) # 1
       /\ \A c : ServedBy(exec', c) \subseteq ServedBy(exec, c) /\ w \notin ServedBy(exec', c)
       /\ w \in ServedBy(exec, d)
  BY <1>1, <1>2, <1>3, MessageDone
<1>11. ConnTypeOK'
  BY <1>1, <1>6, <1>9, Typed DEF NetTyped, ServerTyped
<1>12. ClientsRight'
  BY <1>1, <1>4, <1>6 DEF ClientsRight, Gone
<1>13. SocketsRight'
  BY <1>1 DEF SocketsRight
<1>14. WorkersRight'
  <2>1. ASSUME NEW v \in Worker, exec'[v].pc \notin {"idle", "recycle"} PROVE WorkerRight(v)'
    <3>1. exec'[v] = exec[v] /\ WorkerRight(v)
      BY <1>10, <2>1 DEF WorkersRight
    <3>2. (\E c \in Client : client[c].pc \in Gone) => \E c \in Client : client'[c].pc \in Gone
      BY <1>8 DEF Gone, Ended
    <3> QED
      BY <1>1, <3>1, <3>2 DEF WorkerRight
  <2>2. ASSUME NEW v \in Worker, exec'[v].pc \in {"idle", "recycle"} PROVE WorkerRight(v)'
    <3>1. exec'[v].pc = "recycle" => exec'[v].recycles
      BY <1>9, <2>2 DEF WorkersRight, WorkerRight
    <3> QED
      BY <2>2, <3>1 DEF WorkerRight, Serving, Closing
  <2>3. \A v \in Worker : exec'[v].pc \in Closing => exec'[v] = exec[v]
    BY <1>10 DEF Closing
  <2> QED
    BY <1>1, <2>1, <2>2, <2>3 DEF WorkersRight
<1>15. MessagesRight'
  <2>1. ASSUME NEW f \in Fd, sock[f].peer # NULL PROVE InboxRight(f)'
    <3>1. CASE sock[f].peer # d
      <4>1. sock[f].peer \in Client /\ InboxRight(f)
        BY <2>1, Typed DEF NetTyped, SockType, MessagesRight
      <4>2. client'[sock[f].peer] = client[sock[f].peer]
        BY <1>6, <3>1, <4>1
      <4> QED
        BY <1>1, <1>10, <4>1, <4>2, InboxKept
    <3>2. CASE sock[f].peer = d
      BY <1>1, <1>10, <2>1, <3>2 DEF MessagesRight, InboxRight
    <3> QED
      BY <3>1, <3>2
  <2>2. \A v \in Worker : exec'[v].pc \in {"rest", "mark", "execute", "reply"} => exec'[v] = exec[v]
    BY <1>10
  <2>3. \A v \in Worker : exec'[v].pc \in Handling => exec'[v].conn \in Client /\ exec'[v].conn # d
    <3>1. Handling \subseteq Serving
      BY DEF Handling, Serving
    <3> QED
      BY <1>10, <3>1 DEF WorkersRight, WorkerRight
  <2>4. ASSUME NEW v \in Worker
        PROVE  /\ exec'[v].pc = "rest" => sock[exec'[v].cfd].peer = exec'[v].conn /\ sock[exec'[v].cfd].begun
               /\ exec'[v].pc = "mark" => client'[exec'[v].conn].pc \in Gone
               /\ exec'[v].pc \in {"execute", "reply"} => client'[exec'[v].conn].pc \in {"waiting", "dead"}
    BY <1>6, <2>2, <2>3 DEF MessagesRight, Handling
  <2>5. \A v, x \in Worker :
          /\ exec'[v].pc = "rest" /\ exec'[x].pc = "rest" /\ exec'[v].conn = exec'[x].conn => v = x
          /\ exec'[v].pc \in Handling /\ exec'[x].pc \in Handling /\ exec'[v].conn = exec'[x].conn => v = x
    BY <2>2 DEF MessagesRight, Handling
  <2> QED
    BY <1>1, <2>1, <2>4, <2>5 DEF MessagesRight
<1>16. LeaversRight'
  <2> SUFFICES ASSUME NEW c \in Client, client'[c].pc \in Gone, ~conn[c].close
               PROVE  Unread(c)' \/ \E v \in Worker : exec'[v].pc = "mark" /\ exec'[v].conn = c
    BY <1>1 DEF LeaversRight
  <2>1. \A v \in Worker : exec[v].pc = "mark" => exec'[v] = exec[v]
    BY <1>1, <1>9
  <2>2. client[c].pc \in Gone
    BY <1>7 DEF Gone, Ended
  <2>3. \A v \in Worker : exec[v].pc \in {"recv", "rest", "mark"} => exec'[v] = exec[v]
    BY <1>10, <2>1
  <2>4. CASE Unread(c)
    <3>1. Unread(c)'
      BY <1>1, <2>3, <2>4 DEF Unread
    <3> QED
      BY <3>1
  <2>5. CASE \E v \in Worker : exec[v].pc = "mark" /\ exec[v].conn = c
    BY <2>3, <2>5
  <2> QED
    BY <2>2, <2>4, <2>5 DEF LeaversRight
<1>17. OneToken'
  <2>0. NobodyEnded' => NobodyEnded
    BY <1>8 DEF NobodyEnded
  <2> SUFFICES ASSUME NobodyEnded', NEW c \in Client, conn[c].state # "none"
               PROVE  ExpectedOnce(client'[c].pc, sock[conn[c].fd].event, Places(events, conn[c].fd),
                                   Places(tasks, c), ServedBy(exec', c))
    BY <1>1, <2>0 DEF OneToken
  <2>1. NobodyEnded
    BY <2>0
  <2>2. ExpectedOnce(client[c].pc, sock[conn[c].fd].event, Places(events, conn[c].fd),
                     Places(tasks, c), ServedBy(exec, c))
    BY <2>1 DEF OneToken
  <2>3. CASE c # d
    BY <1>6, <1>10, <2>2, <2>3 DEF ExpectedOnce, AtMostOne
  <2>4. CASE c = d
    <3>1. ServedBy(exec', c) = {}
      BY <1>10, <2>2, <2>4 DEF ExpectedOnce, AtMostOne
    <3> QED
      BY <1>10, <2>2, <2>4, <3>1 DEF ExpectedOnce, AtMostOne
  <2> QED
    BY <2>3, <2>4
<1> QED
  BY <1>11, <1>12, <1>13, <1>14, <1>15, <1>16, <1>17

-----------------------------------------------------------------------------
(* conn_close *)

\* What a worker has found before it closes a connection.
LEMMA VictimKnown ==
    ASSUME Inv, NEW w \in Worker, exec[w].pc = "delete", ExecFault(w) = "none"
    PROVE  /\ Victim(w) \in Client /\ conn[Victim(w)].state = "live" /\ conn[Victim(w)].close
           /\ conn[Victim(w)].fd \in Fd /\ sock[conn[Victim(w)].fd].peer = Victim(w)
           /\ sock[conn[Victim(w)].fd].watched
<1> USE DEF Inv
<1>1. ~Lost(w)
  BY DEF ExecFault
<1>2. sock[conn[Victim(w)].fd].watched
  BY <1>1 DEF ExecFault
<1>3. sock[conn[Victim(w)].fd].peer = Victim(w) /\ conn[Victim(w)].close
  BY <1>1, <1>2 DEF ExecFault
<1>4. Victim(w) \in Client \cup {NULL}
  <2>1. conn_table \in [Fd -> Client \cup {NULL}] /\ exec[w] \in ExecType
    BY Typed DEF ServerTyped
  <2>2. SYSRESERVFD + exec[w].i \in Fd
    BY <2>1, Constants DEF ExecType
  <2> QED
    BY <2>1, <2>2 DEF Victim, ExecType
<1>5. Victim(w) \in Client /\ conn[Victim(w)].state # "freed"
  BY <1>1, <1>4 DEF Lost
<1>6. conn[Victim(w)].state = "live"
  <2>1. conn[Victim(w)].state # "none"
    BY <1>3, <1>5 DEF ClientsRight, Gone
  <2> QED
    BY <1>5, <2>1, Typed DEF ServerTyped, ConnType
<1> QED
  BY <1>2, <1>3, <1>5, <1>6 DEF ClientsRight

\* Nothing more is to come from a client whose connection is being closed.
LEMMA ClosingIsQuiet ==
    ASSUME Inv, NEW d \in Client, conn[d].close
    PROVE  /\ ~NobodyEnded /\ client[d].pc \in Gone /\ conn[d].fd \in Fd
           /\ \A f \in Fd : sock[f].peer = d => f = conn[d].fd /\ Len(sock[f].inbox) # 1 /\ ~sock[f].begun
           /\ \A v \in Worker : exec[v].pc = "rest" => sock[exec[v].cfd].peer # d /\ exec[v].cfd \in Fd
<1> USE DEF Inv
<1>1. client[d].pc \in Gone /\ conn[d].fd \in Fd
  BY DEF ClientsRight, Gone
<1>2. ~NobodyEnded
  BY <1>1 DEF NobodyEnded, Gone, Ended
<1>3. ASSUME NEW f \in Fd, sock[f].peer = d
      PROVE  f = conn[d].fd /\ Len(sock[f].inbox) # 1 /\ ~sock[f].begun
  <2>1. InboxRight(f) /\ f = conn[d].fd
    BY <1>3, Constants DEF MessagesRight, SocketsRight
  <2>2. Len(sock[f].inbox) # 1
    BY <1>1, <1>3, <2>1 DEF InboxRight, Gone
  <2> QED
    BY <2>1, <2>2 DEF InboxRight
<1>4. ASSUME NEW v \in Worker, exec[v].pc = "rest"
      PROVE  sock[exec[v].cfd].peer # d /\ exec[v].cfd \in Fd
  <2>1. exec[v].cfd \in Fd
    BY <1>4 DEF WorkersRight, WorkerRight, Serving, ClientsRight
  <2> QED
    BY <1>3, <1>4, <2>1 DEF MessagesRight
<1> QED
  BY <1>1, <1>2, <1>3, <1>4

\* Worker w goes from one step of conn_close to another, or is done.
LEMMA ClosingStep ==
    ASSUME Inv, NEW w \in Worker, exec' \in [Worker -> ExecType],
           exec[w].pc \in {"delete", "forget", "close", "free"},
           exec'[w].pc \in {"idle", "recycle", "forget", "close", "free"},
           \A v \in Worker \ {w} : exec'[v] = exec[v],
           UNCHANGED <<client, events, tasks>>,
           \A c \in Client : conn'[c].close = conn[c].close /\ conn'[c].fd = conn[c].fd,
           NEW d \in Client, conn[d].close,
           \A f \in Fd : sock[f].peer # d => sock'[f] = sock[f],
           \A f \in Fd : sock[f].peer = d => \/ sock'[f].peer = NULL
                                             \/ /\ sock'[f].peer = d /\ sock'[f].inbox = sock[f].inbox
                                                /\ sock'[f].begun = sock[f].begun
    PROVE  MessagesRight' /\ LeaversRight' /\ OneToken'
<1> USE DEF Inv
<1>1. /\ ~NobodyEnded /\ client[d].pc \in Gone /\ conn[d].fd \in Fd
      /\ \A f \in Fd : sock[f].peer = d => f = conn[d].fd /\ Len(sock[f].inbox) # 1 /\ ~sock[f].begun
      /\ \A v \in Worker : exec[v].pc = "rest" => sock[exec[v].cfd].peer # d /\ exec[v].cfd \in Fd
  BY ClosingIsQuiet
<1>2. \A v \in Worker : exec[v].pc \in Serving \/ exec'[v].pc \in Serving => exec'[v] = exec[v]
  BY DEF Serving
<1>3. MessagesRight'
  <2>1. ASSUME NEW f \in Fd, sock'[f].peer # NULL PROVE InboxRight(f)'
    <3>1. sock'[f].peer = sock[f].peer /\ sock'[f].inbox = sock[f].inbox /\ sock'[f].begun = sock[f].begun
      BY <2>1
    <3>2. InboxRight(f) /\ sock[f].peer \in Client
      BY <2>1, <3>1, Typed DEF MessagesRight, NetTyped, SockType
    <3>3. /\ \A v \in Worker : exec'[v].pc \in Handling => exec[v].pc \in Handling /\ exec'[v].conn = exec[v].conn
          /\ \A v \in Worker : exec[v].pc = "rest" /\ exec[v].conn = sock[f].peer => exec'[v] = exec[v]
      BY <1>2 DEF Handling, Serving
    <3> QED
      BY <3>1, <3>2, <3>3, InboxKept
  <2>2. \A v \in Worker : exec'[v].pc \in {"rest", "mark", "execute", "reply"} => exec'[v] = exec[v]
    BY <1>2 DEF Serving
  <2>3. \A v \in Worker : exec[v].pc = "rest" => sock'[exec[v].cfd] = sock[exec[v].cfd]
    BY <1>1
  <2> QED
    BY <2>1, <2>2, <2>3 DEF MessagesRight, Handling
<1>4. LeaversRight'
  <2> SUFFICES ASSUME NEW c \in Client, client[c].pc \in Gone, ~conn[c].close
               PROVE  Unread(c)' \/ \E v \in Worker : exec'[v].pc = "mark" /\ exec'[v].conn = c
    BY DEF LeaversRight
  <2>1. \A v \in Worker : exec[v].pc \in {"recv", "rest", "mark"} => exec'[v] = exec[v]
    BY <1>2 DEF Serving
  <2>2. CASE Unread(c)
    <3>1. conn[c].fd \in Fd /\ sock[conn[c].fd].peer = c /\ c # d
      BY DEF ClientsRight, Gone
    <3>2. Unread(c)'
      BY <2>1, <2>2, <3>1 DEF Unread
    <3> QED
      BY <3>2
  <2>3. CASE \E v \in Worker : exec[v].pc = "mark" /\ exec[v].conn = c
    BY <2>1, <2>3
  <2> QED
    BY <2>2, <2>3 DEF LeaversRight
<1>5. OneToken'
  BY <1>1 DEF OneToken, NobodyEnded
<1> QED
  BY <1>3, <1>4, <1>5

LEMMA DeleteStep ==
    ASSUME Inv, NEW w \in Worker, Delete(w)
    PROVE  Inv'
<1> USE DEF Inv
<1>1. PICK d : d = Victim(w)
  OBVIOUS
<1>2. /\ exec[w].pc = "delete" /\ sock' = [sock EXCEPT ![conn[d].fd].watched = FALSE]
      /\ exec' = [exec EXCEPT ![w].pc = "forget", ![w].conn = d]
      /\ UNCHANGED <<client, backlog, knock, conn_table, conn, events, tasks>>
  BY <1>1 DEF Delete, In
<1>3. /\ d \in Client /\ conn[d].state = "live" /\ conn[d].close
      /\ conn[d].fd \in Fd /\ sock[conn[d].fd].peer = d /\ sock[conn[d].fd].watched
  BY <1>1, VictimKnown DEF Delete, In
<1>4. exec \in [Worker -> ExecType] /\ sock \in [Fd -> SockType]
  BY Typed DEF ServerTyped, NetTyped
<1>5. /\ sock' \in [Fd -> SockType]
      /\ \A f \in Fd \ {conn[d].fd} : sock'[f] = sock[f]
      /\ \A f \in Fd : sock'[f].peer = sock[f].peer
      /\ sock'[conn[d].fd].inbox = sock[conn[d].fd].inbox /\ sock'[conn[d].fd].begun = sock[conn[d].fd].begun
      /\ ~sock'[conn[d].fd].watched
  BY <1>2, <1>3, <1>4 DEF SockType
<1>6. /\ exec' \in [Worker -> ExecType] /\ exec'[w].pc = "forget" /\ exec'[w].conn = d
      /\ \A v \in Worker \ {w} : exec'[v] = exec[v]
  <2>1. exec' = [exec EXCEPT ![w] = [@ EXCEPT !.pc = "forget", !.conn = d]]
    BY <1>2, <1>4
  <2>2. [exec[w] EXCEPT !.pc = "forget", !.conn = d] \in ExecType
    <3>1. exec[w] \in ExecType /\ d \in Client \cup {NULL}
      BY <1>3, <1>4
    <3> QED
      BY <3>1 DEF ExecType
  <2> QED
    BY <1>4, <2>1, <2>2 DEF ExecType
<1>7. ConnTypeOK'
  BY <1>2, <1>5, <1>6, Typed DEF NetTyped, ServerTyped
<1>8. ClientsRight'
  BY <1>2, <1>5 DEF ClientsRight
<1>9. SocketsRight'
  <2>1. ASSUME NEW f \in Fd \ {conn[d].fd}
        PROVE  /\ sock'[f].peer = NULL => sock'[f] = Closed
               /\ sock'[f].peer # NULL => conn[sock'[f].peer].state = "live" /\ conn[sock'[f].peer].fd = f
               /\ conn_table[f] # NULL => conn_table[f] = sock'[f].peer
               /\ sock'[f].watched => conn_table[f] = sock'[f].peer
               /\ sock'[f].peer # NULL /\ ~sock'[f].watched => conn[sock'[f].peer].close
    BY <1>5 DEF SocketsRight
  <2>2. LET f == conn[d].fd
        IN     /\ sock'[f].peer # NULL
               /\ conn[sock'[f].peer].state = "live" /\ conn[sock'[f].peer].fd = f
               /\ conn_table[f] # NULL => conn_table[f] = sock'[f].peer
               /\ ~sock'[f].watched
               /\ conn[sock'[f].peer].close
    <3>1. conn[d].fd \in Fd /\ sock'[conn[d].fd].peer = d /\ d # NULL
      BY <1>3, <1>5, Constants
    <3>2. conn_table[conn[d].fd] # NULL => conn_table[conn[d].fd] = d
      BY <1>3 DEF SocketsRight
    <3> QED
      BY <1>3, <1>5, <3>1, <3>2
  <2> QED
    BY <1>2, <2>1, <2>2 DEF SocketsRight
<1>10. \A v \in Worker : exec[v].pc \in Closing => exec[v].conn # d /\ conn[exec[v].conn].fd \in Fd /\ v # w
  <2>1. \A v \in Worker : exec[v].pc \in Closing => exec[v].conn # d
    BY <1>3 DEF WorkersRight, WorkerRight, Closing
  <2>2. \A v \in Worker : exec[v].pc \in Closing => conn[exec[v].conn].fd \in Fd
    BY DEF WorkersRight, WorkerRight, ClientsRight
  <2> QED
    BY <1>2, <2>1, <2>2 DEF Closing
<1>11. WorkersRight'
  <2>1. WorkerRight(w)'
    BY <1>2, <1>3, <1>5, <1>6 DEF WorkerRight, Serving
  <2>2. ASSUME NEW v \in Worker \ {w} PROVE WorkerRight(v)'
    <3>1. exec'[v] = exec[v] /\ WorkerRight(v)
      BY <1>6 DEF WorkersRight
    <3>2. exec[v].pc \in {"forget", "close"} => sock'[conn[exec[v].conn].fd] = sock[conn[exec[v].conn].fd]
      <4>1. exec[v].pc \in {"forget", "close"} => conn[exec[v].conn].fd # conn[d].fd
        BY <1>3, <1>10, <3>1 DEF WorkerRight, Closing
      <4> QED
        BY <1>5, <1>10, <4>1 DEF Closing
    <3>3. UNCHANGED <<client, conn_table, conn>>
      BY <1>2
    <3>4. exec[v].pc = "free" => \A f \in Fd : sock'[f].peer # exec[v].conn
      BY <1>5, <3>1 DEF WorkerRight
    <3> QED
      BY <3>1, <3>2, <3>3, <3>4 DEF WorkerRight
  <2>3. \A v \in Worker \ {w} : exec[v].pc \in Closing => exec[v].conn # d
    BY <1>10
  <2> QED
    BY <1>6, <2>1, <2>2, <2>3 DEF WorkersRight
<1>12. MessagesRight' /\ LeaversRight' /\ OneToken'
  <2>1. \A f \in Fd : sock[f].peer # d => sock'[f] = sock[f]
    BY <1>3, <1>5
  <2>2. \A f \in Fd : sock[f].peer = d => f = conn[d].fd
    BY <1>3, Constants DEF SocketsRight
  <2>3. \A f \in Fd : sock[f].peer = d =>
            sock'[f].peer = d /\ sock'[f].inbox = sock[f].inbox /\ sock'[f].begun = sock[f].begun
    BY <1>3, <1>5, <2>2
  <2>4. /\ exec[w].pc = "delete" /\ exec'[w].pc = "forget" /\ UNCHANGED <<client, events, tasks>>
        /\ \A c \in Client : conn'[c].close = conn[c].close /\ conn'[c].fd = conn[c].fd
    BY <1>2, <1>6
  <2> QED
    BY <1>3, <1>6, <2>1, <2>3, <2>4, ClosingStep
<1> QED
  BY <1>7, <1>8, <1>9, <1>11, <1>12

\* What worker w has in hand while it closes a connection.
LEMMA ClosingHas ==
    ASSUME Inv, NEW w \in Worker, exec[w].pc \in Closing
    PROVE  /\ exec[w].conn \in Client /\ conn[exec[w].conn].state = "live" /\ conn[exec[w].conn].close
           /\ conn[exec[w].conn].fd \in Fd
           /\ \A v \in Worker \ {w} : exec[v].pc \in Closing =>
                /\ exec[v].conn \in Client /\ exec[v].conn # exec[w].conn
                /\ conn[exec[v].conn].fd \in Fd
                /\ exec[v].pc \in {"forget", "close"} => sock[conn[exec[v].conn].fd].peer = exec[v].conn
  BY DEF Inv, WorkersRight, WorkerRight, ClientsRight, Closing

LEMMA ForgetStep ==
    ASSUME Inv, NEW w \in Worker, Forget(w)
    PROVE  Inv'
<1> USE DEF Inv
<1>1. PICK d : d = exec[w].conn
  OBVIOUS
<1>2. /\ exec[w].pc = "forget" /\ conn_table' = [conn_table EXCEPT ![conn[d].fd] = NULL]
      /\ exec' = [exec EXCEPT ![w] = [exec[w] EXCEPT !.pc = "close"]]
      /\ UNCHANGED <<client, backlog, knock, sock, conn, events, tasks>>
  BY <1>1 DEF Forget, In, Goto
<1>3. /\ d \in Client /\ conn[d].state = "live" /\ conn[d].close /\ conn[d].fd \in Fd
      /\ sock[conn[d].fd].peer = d /\ ~sock[conn[d].fd].watched
      /\ \A v \in Worker \ {w} : exec[v].pc \in Closing =>
            /\ exec[v].conn \in Client /\ exec[v].conn # d /\ conn[exec[v].conn].fd \in Fd
            /\ exec[v].pc \in {"forget", "close"} => sock[conn[exec[v].conn].fd].peer = exec[v].conn
  <2>1. exec[w].pc \in Closing
    BY <1>2 DEF Closing
  <2> QED
    BY <1>1, <1>2, <2>1, ClosingHas DEF WorkersRight, WorkerRight
<1>4. exec \in [Worker -> ExecType] /\ conn_table \in [Fd -> Client \cup {NULL}]
  BY Typed DEF ServerTyped
<1>5. /\ exec' \in [Worker -> ExecType] /\ exec'[w].pc = "close" /\ exec'[w].conn = d
      /\ \A v \in Worker \ {w} : exec'[v] = exec[v]
  BY <1>1, <1>2, <1>4 DEF ExecType
<1>6. /\ conn_table' \in [Fd -> Client \cup {NULL}] /\ conn_table'[conn[d].fd] = NULL
      /\ \A f \in Fd \ {conn[d].fd} : conn_table'[f] = conn_table[f]
  BY <1>2, <1>3, <1>4
<1>7. ConnTypeOK'
  BY <1>2, <1>5, <1>6, Typed DEF NetTyped, ServerTyped
<1>8. ClientsRight'
  BY <1>2 DEF ClientsRight
<1>9. SocketsRight'
  BY <1>2, <1>3, <1>6 DEF SocketsRight
<1>10. WorkersRight'
  <2>1. WorkerRight(w)'
    BY <1>2, <1>3, <1>5, <1>6 DEF WorkerRight, Serving
  <2>2. ASSUME NEW v \in Worker \ {w} PROVE WorkerRight(v)'
    <3>1. exec'[v] = exec[v] /\ WorkerRight(v)
      BY <1>5 DEF WorkersRight
    <3>2. exec[v].pc = "close" => conn_table'[conn[exec[v].conn].fd] = NULL
      BY <1>3, <1>6, <3>1 DEF WorkerRight, Closing
    <3> QED
      BY <1>2, <3>1, <3>2 DEF WorkerRight
  <2>3. \A v \in Worker \ {w} : exec[v].pc \in Closing => exec[v].conn # d
    BY <1>3
  <2> QED
    BY <1>5, <2>1, <2>2, <2>3 DEF WorkersRight
<1>11. MessagesRight' /\ LeaversRight' /\ OneToken'
  BY <1>2, <1>3, <1>5, ClosingStep
<1> QED
  BY <1>7, <1>8, <1>9, <1>10, <1>11

LEMMA CloseStep ==
    ASSUME Inv, NEW w \in Worker, Close(w)
    PROVE  Inv'
<1> USE DEF Inv
<1>1. PICK d : d = exec[w].conn
  OBVIOUS
<1>2. /\ exec[w].pc = "close" /\ sock' = [sock EXCEPT ![conn[d].fd] = Closed]
      /\ exec' = [exec EXCEPT ![w] = [exec[w] EXCEPT !.pc = "free"]]
      /\ UNCHANGED <<client, backlog, knock, conn_table, conn, events, tasks>>
  BY <1>1 DEF Close, In, Goto
<1>3. /\ d \in Client /\ conn[d].state = "live" /\ conn[d].close /\ conn[d].fd \in Fd
      /\ sock[conn[d].fd].peer = d /\ conn_table[conn[d].fd] = NULL
      /\ \A v \in Worker \ {w} : exec[v].pc \in Closing =>
            /\ exec[v].conn \in Client /\ exec[v].conn # d /\ conn[exec[v].conn].fd \in Fd
            /\ exec[v].pc \in {"forget", "close"} => sock[conn[exec[v].conn].fd].peer = exec[v].conn
  <2>1. exec[w].pc \in Closing
    BY <1>2 DEF Closing
  <2> QED
    BY <1>1, <1>2, <2>1, ClosingHas DEF WorkersRight, WorkerRight
<1>4. exec \in [Worker -> ExecType] /\ sock \in [Fd -> SockType]
  BY Typed DEF NetTyped, ServerTyped
<1>5. /\ exec' \in [Worker -> ExecType] /\ exec'[w].pc = "free" /\ exec'[w].conn = d
      /\ \A v \in Worker \ {w} : exec'[v] = exec[v]
  BY <1>1, <1>2, <1>4 DEF ExecType
<1>6. /\ sock' \in [Fd -> SockType] /\ sock'[conn[d].fd] = Closed
      /\ \A f \in Fd \ {conn[d].fd} : sock'[f] = sock[f]
  BY <1>2, <1>3, <1>4, Constants
<1>7. Closed.peer = NULL /\ ~Closed.watched
  BY DEF Closed
<1>8. \A f \in Fd : sock[f].peer = d => f = conn[d].fd
  BY <1>3, Constants DEF SocketsRight
<1>9. ConnTypeOK'
  BY <1>2, <1>5, <1>6, Typed DEF NetTyped, ServerTyped
<1>10. ClientsRight'
  <2>1. \A c \in Client : conn[c].state # "none" /\ ~conn[c].close =>
           conn[c].fd \in Fd /\ conn[c].fd # conn[d].fd
    BY <1>3 DEF ClientsRight
  <2> QED
    BY <1>2, <1>6, <2>1 DEF ClientsRight
<1>11. SocketsRight'
  BY <1>2, <1>3, <1>6, <1>7 DEF SocketsRight
<1>12. WorkersRight'
  <2>1. WorkerRight(w)'
    <3>1. \A f \in Fd : sock'[f].peer # d
      BY <1>3, <1>6, <1>7, <1>8, Constants
    <3> QED
      BY <1>2, <1>3, <1>5, <3>1 DEF WorkerRight, Serving
  <2>2. ASSUME NEW v \in Worker \ {w} PROVE WorkerRight(v)'
    <3>1. exec'[v] = exec[v] /\ WorkerRight(v)
      BY <1>5 DEF WorkersRight
    <3>2. exec[v].pc \in {"forget", "close"} => sock'[conn[exec[v].conn].fd] = sock[conn[exec[v].conn].fd]
      <4>1. exec[v].pc \in {"forget", "close"} => conn[exec[v].conn].fd # conn[d].fd
        BY <1>3, <3>1 DEF WorkerRight, Closing
      <4> QED
        BY <1>3, <1>6, <4>1 DEF Closing
    <3>3. exec[v].pc = "free" => \A f \in Fd : sock'[f].peer # exec[v].conn
      <4>1. exec[v].pc = "free" => exec[v].conn \in Client /\ \A f \in Fd : sock[f].peer # exec[v].conn
        BY <3>1 DEF WorkerRight, Closing
      <4> QED
        BY <1>6, <1>7, <4>1, Constants
    <3> QED
      BY <1>2, <3>1, <3>2, <3>3 DEF WorkerRight
  <2>3. \A v \in Worker \ {w} : exec[v].pc \in Closing => exec[v].conn # d
    BY <1>3
  <2> QED
    BY <1>5, <2>1, <2>2, <2>3 DEF WorkersRight
<1>13. MessagesRight' /\ LeaversRight' /\ OneToken'
  <2>1. \A f \in Fd : sock[f].peer # d => sock'[f] = sock[f]
    BY <1>3, <1>6
  <2>2. \A f \in Fd : sock[f].peer = d => sock'[f].peer = NULL
    BY <1>6, <1>7, <1>8
  <2> QED
    BY <1>2, <1>3, <1>5, <2>1, <2>2, ClosingStep
<1> QED
  BY <1>9, <1>10, <1>11, <1>12, <1>13

LEMMA FreeStep ==
    ASSUME Inv, NEW w \in Worker, Free(w)
    PROVE  Inv'
<1> USE DEF Inv
<1>1. PICK d : d = exec[w].conn
  OBVIOUS
<1>2. /\ exec[w].pc = "free" /\ conn' = [conn EXCEPT ![d].state = "freed"]
      /\ UNCHANGED <<client, backlog, knock, sock, conn_table, events, tasks>>
  BY <1>1 DEF Free, In
<1>3. /\ d \in Client /\ conn[d].state = "live" /\ conn[d].close /\ conn[d].fd \in Fd
      /\ \A f \in Fd : sock[f].peer # d
      /\ \A v \in Worker \ {w} : exec[v].pc \in Closing => exec[v].conn \in Client /\ exec[v].conn # d
  <2>1. exec[w].pc \in Closing
    BY <1>2 DEF Closing
  <2> QED
    BY <1>1, <1>2, <2>1, ClosingHas DEF WorkersRight, WorkerRight
<1>4. exec \in [Worker -> ExecType] /\ exec[w] \in ExecType /\ conn \in [Client -> ConnType]
  BY Typed DEF NetTyped, ServerTyped
<1>5. PICK e : /\ exec' = [exec EXCEPT ![w] = e]
               /\ e = IF exec[w].recycles THEN [exec[w] EXCEPT !.pc = "recycle"] ELSE Idle
  BY DEF Free, Goto
<1>6. e \in ExecType /\ e.pc \in {"idle", "recycle"} /\ (e.pc = "recycle" => e.recycles)
  <2>1. LET r == [exec[w] EXCEPT !.pc = "recycle"]
        IN r \in ExecType /\ r.pc = "recycle" /\ r.recycles = exec[w].recycles
    BY <1>4 DEF ExecType
  <2> QED
    BY <1>5, <2>1, Constants DEF Idle
<1>7. /\ exec' \in [Worker -> ExecType] /\ exec'[w] = e
      /\ \A v \in Worker \ {w} : exec'[v] = exec[v]
  BY <1>5, <1>6, ExecTyped
<1>8. /\ conn' \in [Client -> ConnType] /\ conn'[d].state = "freed"
      /\ \A c \in Client : conn'[c].fd = conn[c].fd /\ conn'[c].close = conn[c].close
      /\ \A c \in Client \ {d} : conn'[c] = conn[c]
  BY <1>2, <1>3, <1>4 DEF ConnType
<1>9. ConnTypeOK'
  BY <1>2, <1>7, <1>8, Typed DEF NetTyped, ServerTyped
<1>10. ClientsRight'
  BY <1>2, <1>3, <1>8 DEF ClientsRight
<1>11. SocketsRight'
  <2>1. \A f \in Fd : sock[f].peer # NULL => sock[f].peer \in Client \ {d}
    BY <1>3, Typed DEF NetTyped, SockType
  <2> QED
    BY <1>2, <1>8, <2>1 DEF SocketsRight
<1>12. WorkersRight'
  <2>1. WorkerRight(w)'
    BY <1>6, <1>7 DEF WorkerRight, Serving, Closing
  <2>2. ASSUME NEW v \in Worker \ {w} PROVE WorkerRight(v)'
    <3>1. exec'[v] = exec[v] /\ WorkerRight(v)
      BY <1>7 DEF WorkersRight
    <3>2. exec[v].pc \in Serving =>
             conn'[exec[v].conn].state # "none" /\ conn'[exec[v].conn].fd = conn[exec[v].conn].fd
      BY <1>8, <3>1 DEF WorkerRight
    <3>3. {"forget", "close", "free"} \subseteq Closing
      BY DEF Closing
    <3>4. exec[v].pc \in Closing => conn'[exec[v].conn] = conn[exec[v].conn] /\ exec[v].conn \in Client
      BY <1>3, <1>8
    <3> QED
      BY <1>2, <3>1, <3>2, <3>3, <3>4 DEF WorkerRight
  <2>3. e.pc \notin Closing
    BY <1>6 DEF Closing
  <2> QED
    BY <1>7, <2>1, <2>2, <2>3 DEF WorkersRight
<1>13. MessagesRight' /\ LeaversRight' /\ OneToken'
  BY <1>2, <1>3, <1>6, <1>7, <1>8, ClosingStep
<1> QED
  BY <1>9, <1>10, <1>11, <1>12, <1>13

-----------------------------------------------------------------------------
(* exec: a message is read *)

\* A socket with another begun flag is a socket, and the rest of it is the same.
LEMMA BegunTyped ==
    ASSUME NEW r \in SockType, NEW a \in BOOLEAN
    PROVE  \E s \in SockType :
               /\ s = [r EXCEPT !.begun = a]
               /\ s.begun = a /\ s.peer = r.peer /\ s.inbox = r.inbox
               /\ s.event = r.event /\ s.watched = r.watched
<1>1. PICK s : s = [r EXCEPT !.begun = a]
  OBVIOUS
<1>2. s \in SockType
  BY <1>1 DEF SockType
<1>3. /\ s.begun = a /\ s.peer = r.peer /\ s.inbox = r.inbox
      /\ s.event = r.event /\ s.watched = r.watched
  BY <1>1 DEF SockType
<1> QED
  BY <1>1, <1>2, <1>3

LEMMA RecvStep ==
    ASSUME Inv, NEW w \in Worker, Recv(w)
    PROVE  Inv'
<1> USE DEF Inv
<1>1. PICK c, f : c = exec[w].conn /\ f = exec[w].cfd
  OBVIOUS
<1>2. PICK pc : pc = IF sock[f].inbox # <<>> THEN "rest" ELSE IF sock[f].eof THEN "eof" ELSE "idle"
  OBVIOUS
<1>3. /\ exec[w].pc = "recv" /\ ExecFault(w) = "none"
      /\ sock' = [sock EXCEPT ![f].begun = (sock[f].inbox # <<>>)] /\ Goto(w, pc)
      /\ UNCHANGED <<client, backlog, knock, conn_table, conn, events, tasks>>
  BY <1>1, <1>2 DEF Recv, In
<1>4. /\ c \in Client /\ conn[c].state # "none" /\ f = conn[c].fd /\ f \in Fd /\ ~exec[w].recycles
  BY <1>1, <1>3 DEF WorkersRight, WorkerRight, Serving, ClientsRight
<1>5. sock[f].peer \in {c, NULL} /\ ~sock[f].begun
  <2>1. sock[f].peer \in {c, NULL}
    BY <1>1, <1>3 DEF ExecFault
  <2> QED
    BY <1>1, <1>3, <2>1 DEF ExecFault
<1>6. exec \in [Worker -> ExecType] /\ exec[w] \in ExecType /\ sock \in [Fd -> SockType]
  BY Typed DEF NetTyped, ServerTyped
<1>7. PICK e : /\ exec' = [exec EXCEPT ![w] = e]
               /\ e = IF pc = "idle" THEN Idle ELSE [exec[w] EXCEPT !.pc = pc]
  BY <1>3 DEF Goto
<1>8. e \in ExecType /\ e.pc = pc /\ (pc # "idle" => e.conn = c /\ e.cfd = f /\ ~e.recycles)
  BY <1>1, <1>2, <1>4, <1>6, <1>7, Constants DEF ExecType, Idle
<1>9. /\ exec' \in [Worker -> ExecType] /\ exec'[w] = e
      /\ \A v \in Worker \ {w} : exec'[v] = exec[v]
  BY <1>7, <1>8, ExecTyped
<1>10. PICK b \in BOOLEAN : b = (sock[f].inbox # <<>>)
  OBVIOUS
<1>11. (b => sock[f].inbox # <<>>) /\ (~b => sock[f].inbox = <<>>)
  BY <1>10
<1>12. /\ sock' \in [Fd -> SockType] /\ sock'[f].begun = b
       /\ \A g \in Fd \ {f} : sock'[g] = sock[g]
       /\ \A g \in Fd : /\ sock'[g].peer = sock[g].peer /\ sock'[g].inbox = sock[g].inbox
                        /\ sock'[g].event = sock[g].event /\ sock'[g].watched = sock[g].watched
  <2>1. sock' = [sock EXCEPT ![f].begun = b]
    BY <1>3, <1>10
  <2>2. PICK s \in SockType :
           /\ s = [sock[f] EXCEPT !.begun = b]
           /\ s.begun = b /\ s.peer = sock[f].peer /\ s.inbox = sock[f].inbox
           /\ s.event = sock[f].event /\ s.watched = sock[f].watched
    <3>1. sock[f] \in SockType
      BY <1>4, <1>6
    <3> QED
      BY <3>1, BegunTyped, Zenon
  <2>3. sock' = [sock EXCEPT ![f] = s]
    BY <2>1, <2>2
  <2> QED
    BY <1>4, <1>6, <2>2, <2>3
<1>13. ~b => sock'[f] = sock[f]
  <2>1. ASSUME ~b PROVE [sock[f] EXCEPT !.begun = FALSE] = sock[f]
    BY <1>4, <1>5, <1>6 DEF SockType
  <2> QED
    BY <1>3, <1>4, <1>6, <1>10, <2>1
<1>14. b => sock[f].peer = c /\ Len(sock[f].inbox) = 1
  <2>1. ASSUME b PROVE sock[f].peer # NULL
    BY <1>4, <1>11, <2>1 DEF SocketsRight, Closed
  <2>2. ASSUME b PROVE Len(sock[f].inbox) # 0
    BY <1>4, <1>6, <1>11, <2>2 DEF SockType
  <2> QED
    BY <1>4, <1>5, <2>1, <2>2 DEF MessagesRight, InboxRight
<1>15. pc = "rest" <=> b
  BY <1>2, <1>11
<1>16. ConnTypeOK'
  BY <1>3, <1>9, <1>12, Typed DEF NetTyped, ServerTyped
<1>17. ClientsRight'
  BY <1>3, <1>12 DEF ClientsRight
<1>18. SocketsRight'
  <2>1. \A g \in Fd : sock[g].peer = NULL => sock'[g] = sock[g]
    BY <1>4, <1>12, <1>13, <1>14, Constants
  <2> QED
    BY <1>3, <1>12, <2>1 DEF SocketsRight
<1>19. WorkersRight'
  <2>1. WorkerRight(w)'
    BY <1>2, <1>3, <1>4, <1>8, <1>9 DEF WorkerRight, Serving, Closing
  <2>2. ASSUME NEW v \in Worker \ {w} PROVE WorkerRight(v)'
    <3>1. exec'[v] = exec[v] /\ WorkerRight(v)
      BY <1>9 DEF WorkersRight
    <3>2. exec[v].pc \in {"forget", "close"} => conn[exec[v].conn].fd \in Fd
      BY <3>1 DEF WorkerRight, Closing, ClientsRight
    <3>3. exec[v].pc \in {"forget", "close"} =>
             /\ sock'[conn[exec[v].conn].fd].peer = sock[conn[exec[v].conn].fd].peer
             /\ sock'[conn[exec[v].conn].fd].watched = sock[conn[exec[v].conn].fd].watched
      BY <1>12, <3>2
    <3>4. \A g \in Fd : sock'[g].peer = sock[g].peer
      BY <1>12
    <3>5. UNCHANGED <<client, conn, conn_table>>
      BY <1>3
    <3> QED
      BY <3>1, <3>3, <3>4, <3>5 DEF WorkerRight
  <2>3. e.pc \notin Closing
    BY <1>2, <1>8 DEF Closing
  <2> QED
    BY <1>3, <1>9, <2>1, <2>2, <2>3 DEF WorkersRight
<1>20. MessagesRight'
  <2>1. \A v \in Worker : exec'[v].pc \in Handling => v # w /\ exec'[v] = exec[v]
    BY <1>2, <1>8, <1>9 DEF Handling
  <2>2. \A v \in Worker : exec[v].pc = "rest" => v # w /\ exec'[v] = exec[v] /\ exec[v].cfd \in Fd
    BY <1>3, <1>9 DEF WorkersRight, WorkerRight, Serving, ClientsRight
  <2>3. \A v \in Worker : exec[v].pc = "rest" => exec[v].cfd # f /\ exec[v].conn # c
    BY <1>4, <1>5, <2>2 DEF MessagesRight, WorkersRight, WorkerRight, Serving
  <2>4. ASSUME NEW g \in Fd, sock'[g].peer # NULL PROVE InboxRight(g)'
    <3>1. InboxRight(g) /\ sock'[g].peer = sock[g].peer /\ sock'[g].inbox = sock[g].inbox
      BY <1>12, <2>4 DEF MessagesRight
    <3>2. CASE sock'[g].begun = sock[g].begun
      BY <1>3, <2>1, <2>2, <3>1, <3>2, InboxKept
    <3>3. CASE sock'[g].begun # sock[g].begun
      <4>1. b /\ g = f
        BY <1>12, <1>13, <3>3
      <4>2. exec'[w].pc = "rest" /\ exec'[w].conn = sock'[g].peer
        BY <1>8, <1>9, <1>14, <1>15, <3>1, <4>1
      <4> QED
        BY <1>3, <1>14, <2>1, <3>1, <4>1, <4>2 DEF InboxRight
    <3> QED
      BY <3>2, <3>3
  <2>5. ASSUME NEW v \in Worker
        PROVE  /\ exec'[v].pc = "rest" => sock'[exec'[v].cfd].peer = exec'[v].conn /\ sock'[exec'[v].cfd].begun
               /\ exec'[v].pc = "mark" => client[exec'[v].conn].pc \in Gone
               /\ exec'[v].pc \in {"execute", "reply"} => client[exec'[v].conn].pc \in {"waiting", "dead"}
    <3>1. CASE v = w
      <4>1. exec'[w].pc \in {"rest", "eof", "idle"}
        BY <1>2, <1>8, <1>9
      <4>2. exec'[w].pc = "rest" => b /\ exec'[w].cfd = f /\ exec'[w].conn = c
        BY <1>8, <1>9, <1>15
      <4>3. b => sock'[f].peer = c /\ sock'[f].begun
        BY <1>4, <1>12, <1>14
      <4> QED
        BY <3>1, <4>1, <4>2, <4>3
    <3>2. CASE v # w
      BY <1>9, <1>12, <2>2, <2>3, <3>2 DEF MessagesRight
    <3> QED
      BY <3>1, <3>2
  <2>6. \A v, x \in Worker :
          /\ exec'[v].pc = "rest" /\ exec'[x].pc = "rest" /\ exec'[v].conn = exec'[x].conn => v = x
          /\ exec'[v].pc \in Handling /\ exec'[x].pc \in Handling /\ exec'[v].conn = exec'[x].conn => v = x
    BY <1>8, <1>9, <2>1, <2>3 DEF MessagesRight
  <2> QED
    BY <1>3, <2>4, <2>5, <2>6 DEF MessagesRight
<1>21. LeaversRight'
  <2> SUFFICES ASSUME NEW d \in Client, client[d].pc \in Gone, ~conn[d].close
               PROVE  Unread(d)' \/ \E v \in Worker : exec'[v].pc = "mark" /\ exec'[v].conn = d
    BY <1>3 DEF LeaversRight
  <2>1. conn[d].fd \in Fd
    BY DEF ClientsRight, Gone
  <2>2. CASE Unread(d)
    <3>1. \A v \in Worker : exec[v].pc \in {"recv", "rest"} /\ exec[v].conn = d =>
             exec'[v].pc \in {"recv", "rest"} /\ exec'[v].conn = d
      <4>1. ASSUME d = c PROVE b
        <5>1. Len(sock[f].inbox) = 1
          BY <1>4, <2>2, <4>1 DEF Unread
        <5>2. \A s : s = <<>> => Len(s) # 1
          OBVIOUS
        <5>3. sock[f].inbox # <<>>
          BY <5>1, <5>2
        <5> QED
          BY <1>11, <5>3
      <4> QED
        BY <1>1, <1>8, <1>9, <1>15, <4>1
    <3>2. Unread(d)'
      BY <1>3, <1>12, <2>1, <2>2, <3>1 DEF Unread
    <3> QED
      BY <3>2
  <2>3. CASE \E v \in Worker : exec[v].pc = "mark" /\ exec[v].conn = d
    BY <1>3, <1>9, <2>3
  <2> QED
    BY <2>2, <2>3 DEF LeaversRight
<1>22. OneToken'
  <2>1. ASSUME NEW d \in Client PROVE ServedBy(exec', d) \subseteq ServedBy(exec, d)
    BY <1>1, <1>2, <1>3, <1>8, <1>9 DEF ServedBy, Serving
  <2> SUFFICES ASSUME NobodyEnded, NEW d \in Client, conn[d].state # "none"
               PROVE  ExpectedOnce(client[d].pc, sock'[conn[d].fd].event, Places(events, conn[d].fd),
                                   Places(tasks, d), ServedBy(exec', d))
    BY <1>3, <1>12 DEF OneToken, NobodyEnded
  <2>2. sock'[conn[d].fd].event = sock[conn[d].fd].event
    BY <1>12 DEF ClientsRight
  <2>3. ExpectedOnce(client[d].pc, sock[conn[d].fd].event, Places(events, conn[d].fd),
                     Places(tasks, d), ServedBy(exec, d))
    BY DEF OneToken
  <2> QED
    BY <2>1, <2>2, <2>3 DEF ExpectedOnce, AtMostOne
<1> QED
  BY <1>16, <1>17, <1>18, <1>19, <1>20, <1>21, <1>22

LEMMA RecvRestStep ==
    ASSUME Inv, NEW w \in Worker, RecvRest(w)
    PROVE  Inv'
<1> USE DEF Inv
<1>1. PICK c, f : c = exec[w].conn /\ f = exec[w].cfd
  OBVIOUS
<1>2. PICK m, pc : m = Head(sock[f].inbox) /\ pc = IF m.do = "exit" THEN "mark" ELSE "execute"
  OBVIOUS
<1>3. /\ exec[w].pc = "rest"
      /\ sock' = [sock EXCEPT ![f].inbox = Tail(@), ![f].begun = FALSE]
      /\ exec' = [exec EXCEPT ![w].pc = pc, ![w].msg = m]
      /\ UNCHANGED <<client, backlog, knock, conn_table, conn, events, tasks>>
  BY <1>1, <1>2 DEF RecvRest, In
<1>4. /\ c \in Client /\ conn[c].state # "none" /\ f = conn[c].fd /\ f \in Fd
      /\ sock[f].peer = c /\ sock[f].begun /\ InboxRight(f) /\ Len(sock[f].inbox) = 1
  <2>1. /\ c \in Client /\ conn[c].state # "none" /\ f = conn[c].fd /\ f \in Fd
        /\ sock[f].peer = c /\ sock[f].begun
    BY <1>1, <1>3 DEF WorkersRight, WorkerRight, Serving, ClientsRight, MessagesRight
  <2> QED
    BY <2>1, Constants DEF MessagesRight, InboxRight
<1>5. exec \in [Worker -> ExecType] /\ exec[w] \in ExecType /\ sock \in [Fd -> SockType]
  BY Typed DEF NetTyped, ServerTyped
<1>6. /\ Tail(sock[f].inbox) \in Seq(Words) /\ Len(Tail(sock[f].inbox)) = 0
      /\ m = sock[f].inbox[1] /\ m \in Words
  <2>1. \A s \in Seq(Words) : Len(s) = 1 => /\ Tail(s) \in Seq(Words) /\ Len(Tail(s)) = 0
                                            /\ Head(s) = s[1] /\ Head(s) \in Words
    OBVIOUS
  <2> QED
    BY <1>2, <1>4, <1>5, <2>1 DEF SockType
<1>7. /\ sock' \in [Fd -> SockType] /\ Len(sock'[f].inbox) = 0 /\ ~sock'[f].begun
      /\ \A g \in Fd \ {f} : sock'[g] = sock[g]
      /\ \A g \in Fd : /\ sock'[g].peer = sock[g].peer /\ sock'[g].event = sock[g].event
                       /\ sock'[g].watched = sock[g].watched
  <2>1. LET r == [sock[f] EXCEPT !.inbox = Tail(sock[f].inbox), !.begun = FALSE]
        IN /\ r \in SockType /\ r.inbox = Tail(sock[f].inbox) /\ ~r.begun
           /\ r.peer = sock[f].peer /\ r.event = sock[f].event /\ r.watched = sock[f].watched
    BY <1>4, <1>5, <1>6 DEF SockType
  <2>2. PICK r : r = [sock[f] EXCEPT !.inbox = Tail(sock[f].inbox), !.begun = FALSE]
    OBVIOUS
  <2>3. sock' = [sock EXCEPT ![f] = r]
    BY <1>3, <1>4, <1>5, <2>2
  <2> QED
    BY <1>4, <1>5, <1>6, <2>1, <2>2, <2>3
<1>8. pc \in {"mark", "execute"} /\ (pc = "mark" <=> sock[f].inbox[1].do = "exit")
  BY <1>2, <1>6
<1>9. /\ exec' \in [Worker -> ExecType] /\ exec'[w].pc = pc /\ exec'[w].conn = c /\ exec'[w].cfd = f
      /\ exec'[w].recycles = exec[w].recycles
      /\ \A v \in Worker \ {w} : exec'[v] = exec[v]
  <2>1. PICK e : e = [exec[w] EXCEPT !.pc = pc, !.msg = m]
    OBVIOUS
  <2>2. e \in ExecType
    BY <1>5, <1>6, <1>8, <2>1 DEF ExecType
  <2>3. e.pc = pc /\ e.conn = c /\ e.cfd = f /\ e.recycles = exec[w].recycles
    BY <1>1, <1>5, <2>1 DEF ExecType
  <2>4. exec' = [exec EXCEPT ![w] = e]
    BY <1>3, <1>5, <2>1
  <2> QED
    BY <2>2, <2>3, <2>4, ExecTyped
<1>10. ConnTypeOK'
  BY <1>3, <1>7, <1>9, Typed DEF NetTyped, ServerTyped
<1>11. ClientsRight'
  BY <1>3, <1>7 DEF ClientsRight
<1>12. \A g \in Fd : sock[g].peer = c => g = f
  BY <1>4, Constants DEF SocketsRight
<1>13. SocketsRight'
  <2>1. \A g \in Fd : sock[g].peer = NULL => sock'[g] = sock[g]
    BY <1>4, <1>7, Constants
  <2>2. ASSUME NEW g \in Fd
        PROVE  /\ sock'[g].peer = NULL => sock'[g] = Closed
               /\ sock'[g].peer # NULL => conn[sock'[g].peer].state = "live" /\ conn[sock'[g].peer].fd = g
               /\ conn_table[g] # NULL => conn_table[g] = sock'[g].peer
               /\ sock'[g].watched => conn_table[g] = sock'[g].peer
               /\ sock'[g].peer # NULL /\ ~sock'[g].watched => conn[sock'[g].peer].close
    <3>1. sock'[g].peer = sock[g].peer /\ sock'[g].watched = sock[g].watched
      BY <1>7
    <3> QED
      BY <2>1, <3>1 DEF SocketsRight
  <2> QED
    BY <1>3, <2>2 DEF SocketsRight
<1>14. WorkersRight'
  <2>1. WorkerRight(w)'
    BY <1>3, <1>4, <1>8, <1>9 DEF WorkersRight, WorkerRight, Serving, Closing
  <2>2. ASSUME NEW v \in Worker \ {w} PROVE WorkerRight(v)'
    <3>1. exec'[v] = exec[v] /\ WorkerRight(v)
      BY <1>9 DEF WorkersRight
    <3>2. exec[v].pc \in {"forget", "close"} => conn[exec[v].conn].fd \in Fd
      BY <3>1 DEF WorkerRight, Closing, ClientsRight
    <3>3. exec[v].pc \in {"forget", "close"} =>
             /\ sock'[conn[exec[v].conn].fd].peer = sock[conn[exec[v].conn].fd].peer
             /\ sock'[conn[exec[v].conn].fd].watched = sock[conn[exec[v].conn].fd].watched
      BY <1>7, <3>2
    <3>4. \A g \in Fd : sock'[g].peer = sock[g].peer
      BY <1>7
    <3> QED
      BY <1>3, <3>1, <3>3, <3>4 DEF WorkerRight
  <2>3. exec'[w].pc \notin Closing
    BY <1>8, <1>9 DEF Closing
  <2> QED
    BY <1>3, <1>9, <2>1, <2>2, <2>3 DEF WorkersRight
<1>15. MessagesRight'
  <2>1. \A v \in Worker \ {w} : exec[v].pc = "rest" => exec[v].conn # c /\ exec[v].cfd \in Fd \ {f}
    <3>1. \A v \in Worker \ {w} : exec[v].pc = "rest" => exec[v].conn # c
      BY <1>1, <1>3 DEF MessagesRight
    <3>2. \A v \in Worker : exec[v].pc = "rest" => exec[v].cfd \in Fd
      BY DEF WorkersRight, WorkerRight, Serving, ClientsRight
    <3> QED
      BY <1>4, <3>1, <3>2 DEF MessagesRight
  <2>2. \A v \in Worker : exec[v].pc \in Handling => exec[v].conn # c
    BY <1>4 DEF InboxRight
  <2>3. ASSUME NEW g \in Fd, sock'[g].peer # NULL PROVE InboxRight(g)'
    <3>1. CASE g = f
      BY <1>7, <3>1 DEF InboxRight
    <3>2. CASE g # f
      <4>1. InboxRight(g) /\ sock'[g] = sock[g] /\ sock[g].peer # c
        BY <1>7, <1>12, <2>3, <3>2 DEF MessagesRight
      <4>2. ASSUME Len(sock'[g].inbox) = 1, NEW v \in Worker, exec'[v].pc \in Handling
            PROVE  exec'[v].conn # sock'[g].peer
        BY <1>9, <4>1, <4>2 DEF InboxRight
      <4>3. sock'[g].begun => \E v \in Worker : exec'[v].pc = "rest" /\ exec'[v].conn = sock'[g].peer
        BY <1>1, <1>9, <4>1 DEF InboxRight
      <4> QED
        BY <1>3, <4>1, <4>2, <4>3 DEF InboxRight
    <3> QED
      BY <3>1, <3>2
  <2>4. ASSUME NEW v \in Worker
        PROVE  /\ exec'[v].pc = "rest" => sock'[exec'[v].cfd].peer = exec'[v].conn /\ sock'[exec'[v].cfd].begun
               /\ exec'[v].pc = "mark" => client[exec'[v].conn].pc \in Gone
               /\ exec'[v].pc \in {"execute", "reply"} => client[exec'[v].conn].pc \in {"waiting", "dead"}
    <3>1. CASE v = w
      <4>1. pc = "mark" => client[c].pc \in Gone
        BY <1>4, <1>8 DEF InboxRight
      <4>2. pc = "execute" => client[c].pc \in {"waiting", "dead"}
        BY <1>4, <1>8 DEF InboxRight
      <4> QED
        BY <1>8, <1>9, <3>1, <4>1, <4>2
    <3>2. CASE v # w
      BY <1>7, <1>9, <2>1, <3>2 DEF MessagesRight
    <3> QED
      BY <3>1, <3>2
  <2>5. \A v, x \in Worker :
          /\ exec'[v].pc = "rest" /\ exec'[x].pc = "rest" /\ exec'[v].conn = exec'[x].conn => v = x
          /\ exec'[v].pc \in Handling /\ exec'[x].pc \in Handling /\ exec'[v].conn = exec'[x].conn => v = x
    BY <1>8, <1>9, <2>2 DEF MessagesRight
  <2> QED
    BY <1>3, <2>3, <2>4, <2>5 DEF MessagesRight
<1>16. LeaversRight'
  <2> SUFFICES ASSUME NEW d \in Client, client[d].pc \in Gone, ~conn[d].close
               PROVE  Unread(d)' \/ \E v \in Worker : exec'[v].pc = "mark" /\ exec'[v].conn = d
    BY <1>3 DEF LeaversRight
  <2>1. CASE d = c
    <3>1. sock[f].inbox[1].do = "exit"
      BY <1>4, <2>1 DEF InboxRight, Gone
    <3> QED
      BY <1>8, <1>9, <2>1, <3>1
  <2>2. CASE d # c
    <3>1. conn[d].fd \in Fd /\ sock'[conn[d].fd] = sock[conn[d].fd]
      BY <1>4, <1>7, <2>2 DEF ClientsRight, Gone
    <3>2. CASE Unread(d)
      <4>1. Unread(d)'
        BY <1>1, <1>3, <1>9, <2>2, <3>1, <3>2 DEF Unread
      <4> QED
        BY <4>1
    <3>3. CASE \E v \in Worker : exec[v].pc = "mark" /\ exec[v].conn = d
      BY <1>3, <1>9, <3>3
    <3> QED
      BY <3>2, <3>3 DEF LeaversRight
  <2> QED
    BY <2>1, <2>2
<1>17. OneToken'
  <2>1. ASSUME NEW d \in Client PROVE ServedBy(exec', d) \subseteq ServedBy(exec, d)
    BY <1>1, <1>3, <1>9 DEF ServedBy, Serving
  <2> SUFFICES ASSUME NobodyEnded, NEW d \in Client, conn[d].state # "none"
               PROVE  ExpectedOnce(client[d].pc, sock'[conn[d].fd].event, Places(events, conn[d].fd),
                                   Places(tasks, d), ServedBy(exec', d))
    BY <1>3, <1>7 DEF OneToken, NobodyEnded
  <2>2. sock'[conn[d].fd].event = sock[conn[d].fd].event
    BY <1>7 DEF ClientsRight
  <2>3. ExpectedOnce(client[d].pc, sock[conn[d].fd].event, Places(events, conn[d].fd),
                     Places(tasks, d), ServedBy(exec, d))
    BY DEF OneToken
  <2> QED
    BY <2>1, <2>2, <2>3 DEF ExpectedOnce, AtMostOne
<1> QED
  BY <1>10, <1>11, <1>13, <1>14, <1>15, <1>16, <1>17

-----------------------------------------------------------------------------
(* The queue of the thread pool, and the events *)

\* A step that touches neither clients, sockets, connections nor workers keeps
\* all but what is said of the queues.
LEMMA QueueStep ==
    ASSUME Inv, UNCHANGED <<client, sock, conn_table, conn, exec>>
    PROVE  SocketsRight' /\ WorkersRight' /\ MessagesRight'
<1>1. SocketsRight'
  BY DEF Inv, SocketsRight
<1>2. WorkersRight'
  BY DEF Inv, WorkersRight, WorkerRight
<1>3. MessagesRight'
  BY DEF Inv, MessagesRight, InboxRight
<1> QED
  BY <1>1, <1>2, <1>3

\* A task is taken, and nobody works on it: there is no connection, or it was
\* freed.
LEMMA TaskDropped ==
    ASSUME Inv, tasks # <<>>, tasks' = Tail(tasks),
           Head(tasks) \in Client => conn[Head(tasks)].state = "freed",
           UNCHANGED <<client, backlog, knock, sock, conn_table, conn, events, exec>>
    PROVE  Inv'
<1> USE DEF Inv
<1>1. tasks \in Seq(Client \cup {NULL})
  BY Typed DEF ServerTyped
<1>2. /\ tasks' \in Seq(Client \cup {NULL})
      /\ \A x : Places(tasks', x) # {} => Places(tasks, x) # {}
      /\ \A x : AtMostOne(Places(tasks, x)) => AtMostOne(Places(tasks', x))
      /\ \A x : x # Head(tasks) /\ Places(tasks, x) # {} => Places(tasks', x) # {}
  BY <1>1, PlacesTail
<1>3. ConnTypeOK'
  BY <1>2, Typed DEF ServerTyped
<1>4. ClientsRight'
  BY <1>2 DEF ClientsRight
<1>5. LeaversRight'
  <2> SUFFICES ASSUME NEW d \in Client, client[d].pc \in Gone, ~conn[d].close
               PROVE  Unread(d)' \/ \E v \in Worker : exec[v].pc = "mark" /\ exec[v].conn = d
    BY DEF LeaversRight
  <2>1. d # Head(tasks)
    BY DEF ClientsRight
  <2>2. CASE Unread(d)
    <3>1. Unread(d)'
      BY <1>2, <2>1, <2>2 DEF Unread
    <3> QED
      BY <3>1
  <2> QED
    BY <2>2 DEF LeaversRight
<1>6. OneToken'
  <2> SUFFICES ASSUME NobodyEnded, NEW d \in Client, conn[d].state # "none"
               PROVE  ExpectedOnce(client[d].pc, sock[conn[d].fd].event, Places(events, conn[d].fd),
                                   Places(tasks', d), ServedBy(exec, d))
    BY DEF OneToken, NobodyEnded
  <2>1. ExpectedOnce(client[d].pc, sock[conn[d].fd].event, Places(events, conn[d].fd),
                     Places(tasks, d), ServedBy(exec, d))
    BY DEF OneToken
  <2> QED
    BY <1>2, <2>1 DEF ExpectedOnce
<1> QED
  BY <1>3, <1>4, <1>5, <1>6, QueueStep

\* A task is taken, and its connection served.
LEMMA TaskTaken ==
    ASSUME Inv, NEW w \in Worker, exec[w].pc = "idle", tasks # <<>>, tasks' = Tail(tasks),
           NEW c \in Client, c = Head(tasks),
           exec' = [exec EXCEPT ![w] = [Idle EXCEPT !.pc = "recv", !.conn = c, !.cfd = conn[c].fd]],
           UNCHANGED <<client, backlog, knock, sock, conn_table, conn, events>>
    PROVE  Inv'
<1> USE DEF Inv
<1>1. tasks \in Seq(Client \cup {NULL}) /\ conn \in [Client -> ConnType]
  BY Typed DEF ServerTyped
<1>2. /\ tasks' \in Seq(Client \cup {NULL}) /\ Places(tasks, c) # {}
      /\ \A x : Places(tasks', x) # {} => Places(tasks, x) # {}
      /\ \A x : AtMostOne(Places(tasks, x)) => AtMostOne(Places(tasks', x))
      /\ AtMostOne(Places(tasks, c)) => Places(tasks', c) = {}
      /\ \A x : x # c /\ Places(tasks, x) # {} => Places(tasks', x) # {}
  <2>1. /\ Tail(tasks) \in Seq(Client \cup {NULL}) /\ Places(tasks, Head(tasks)) # {}
        /\ \A x : Places(Tail(tasks), x) # {} => Places(tasks, x) # {}
        /\ \A x : AtMostOne(Places(tasks, x)) => AtMostOne(Places(Tail(tasks), x))
        /\ AtMostOne(Places(tasks, Head(tasks))) => Places(Tail(tasks), Head(tasks)) = {}
        /\ \A x : x # Head(tasks) /\ Places(tasks, x) # {} => Places(Tail(tasks), x) # {}
    BY <1>1, PlacesTail
  <2> QED
    BY <2>1
<1>3. PICK e : /\ exec' = [exec EXCEPT ![w] = e]
               /\ e = [Idle EXCEPT !.pc = "recv", !.conn = c, !.cfd = conn[c].fd]
  OBVIOUS
<1>4. e \in ExecType /\ e.pc = "recv" /\ e.conn = c /\ e.cfd = conn[c].fd /\ ~e.recycles
  <2>1. conn[c].fd \in Fd \cup {0}
    BY <1>1 DEF ConnType
  <2>2. 0 \in 0..MAX_CONNECTIONS - 1
    BY Constants DEF ExecType, Idle
  <2> QED
    BY <1>3, <2>1, <2>2 DEF ExecType, Idle
<1>5. /\ exec \in [Worker -> ExecType] /\ exec' \in [Worker -> ExecType] /\ exec'[w] = e
      /\ \A v \in Worker \ {w} : exec'[v] = exec[v]
  BY <1>3, <1>4, ExecTyped
<1>6. conn[c].state # "none"
  BY <1>2 DEF ClientsRight
<1>7. ConnTypeOK'
  BY <1>2, <1>5, Typed DEF ServerTyped
<1>8. ClientsRight' /\ SocketsRight'
  BY <1>2 DEF ClientsRight, SocketsRight
<1>9. WorkersRight'
  <2>1. WorkerRight(w)'
    BY <1>4, <1>5, <1>6 DEF WorkerRight, Serving, Closing
  <2>2. ASSUME NEW v \in Worker \ {w} PROVE WorkerRight(v)'
    BY <1>5, <2>2 DEF WorkersRight, WorkerRight
  <2>3. e.pc \notin Closing
    BY <1>4 DEF Closing
  <2> QED
    BY <1>5, <2>1, <2>2, <2>3 DEF WorkersRight
<1>10. MessagesRight'
  <2>1. \A v \in Worker : exec'[v].pc \in {"rest", "mark", "execute", "reply"} => v # w /\ exec'[v] = exec[v]
    BY <1>4, <1>5
  <2>2. ASSUME NEW f \in Fd, sock[f].peer # NULL PROVE InboxRight(f)'
    <3>1. /\ \A v \in Worker : exec'[v].pc \in Handling => exec[v].pc \in Handling /\ exec'[v].conn = exec[v].conn
          /\ \A v \in Worker : exec[v].pc = "rest" /\ exec[v].conn = sock[f].peer => exec'[v] = exec[v]
      BY <1>5, <2>1 DEF Handling
    <3>2. InboxRight(f)
      BY <2>2 DEF MessagesRight
    <3>3. sock' = sock /\ client' = client /\ conn' = conn
      OBVIOUS
    <3> QED
      BY <3>1, <3>2, <3>3, InboxKept
  <2>3. ASSUME NEW v \in Worker
        PROVE  /\ exec'[v].pc = "rest" => sock[exec'[v].cfd].peer = exec'[v].conn /\ sock[exec'[v].cfd].begun
               /\ exec'[v].pc = "mark" => client[exec'[v].conn].pc \in Gone
               /\ exec'[v].pc \in {"execute", "reply"} => client[exec'[v].conn].pc \in {"waiting", "dead"}
    BY <2>1 DEF MessagesRight
  <2>4. ASSUME NEW u \in Worker, NEW v \in Worker, exec'[u].conn = exec'[v].conn,
               \/ exec'[u].pc = "rest" /\ exec'[v].pc = "rest"
               \/ exec'[u].pc \in Handling /\ exec'[v].pc \in Handling
        PROVE  u = v
    BY <2>1, <2>4 DEF MessagesRight, Handling
  <2> QED
    BY <2>2, <2>3, <2>4 DEF MessagesRight
<1>11. LeaversRight'
  <2> SUFFICES ASSUME NEW d \in Client, client[d].pc \in Gone, ~conn[d].close
               PROVE  Unread(d)' \/ \E v \in Worker : exec'[v].pc = "mark" /\ exec'[v].conn = d
    BY DEF LeaversRight
  <2>1. \A v \in Worker : exec[v].pc \in {"recv", "rest", "mark"} => exec'[v] = exec[v]
    BY <1>5
  <2>2. CASE Unread(d)
    <3>1. Len(sock[conn[d].fd].inbox) = 1
      BY <2>2 DEF Unread
    <3>2. CASE d = c
      <4>1. \E v \in Worker : exec'[v].pc \in {"recv", "rest"} /\ exec'[v].conn = d
        BY <1>4, <1>5, <3>2
      <4>2. Unread(d)'
        BY <3>1, <4>1 DEF Unread
      <4> QED
        BY <4>2
    <3>3. CASE d # c
      <4>1. Unread(d)'
        BY <1>2, <2>1, <2>2, <3>3 DEF Unread
      <4> QED
        BY <4>1
    <3> QED
      BY <3>2, <3>3
  <2>3. CASE \E v \in Worker : exec[v].pc = "mark" /\ exec[v].conn = d
    BY <2>1, <2>3
  <2> QED
    BY <2>2, <2>3 DEF LeaversRight
<1>12. OneToken'
  <2> SUFFICES ASSUME NobodyEnded, NEW d \in Client, conn[d].state # "none"
               PROVE  ExpectedOnce(client[d].pc, sock[conn[d].fd].event, Places(events, conn[d].fd),
                                   Places(tasks', d), ServedBy(exec', d))
    BY DEF OneToken, NobodyEnded
  <2>1. ExpectedOnce(client[d].pc, sock[conn[d].fd].event, Places(events, conn[d].fd),
                     Places(tasks, d), ServedBy(exec, d))
    BY DEF OneToken
  <2>2. CASE d = c
    <3>1. ServedBy(exec, c) = {} /\ Places(tasks', c) = {}
      BY <1>2, <2>1, <2>2 DEF ExpectedOnce
    <3>2. \A v \in ServedBy(exec', c) : v = w
      BY <1>5, <3>1 DEF ServedBy
    <3> QED
      BY <1>2, <2>1, <2>2, <3>1, <3>2 DEF ExpectedOnce, AtMostOne
  <2>3. CASE d # c
    <3>1. ServedBy(exec', d) \subseteq ServedBy(exec, d)
      BY <1>4, <1>5, <2>3 DEF ServedBy
    <3> QED
      BY <1>2, <2>1, <3>1 DEF ExpectedOnce, AtMostOne
  <2> QED
    BY <2>2, <2>3
<1> QED
  BY <1>7, <1>8, <1>9, <1>10, <1>11, <1>12

LEMMA FetchStep ==
    ASSUME Inv, NEW w \in Worker, Fetch(w)
    PROVE  Inv'
<1>1. /\ exec[w].pc = "idle" /\ tasks # <<>> /\ tasks' = Tail(tasks)
      /\ UNCHANGED <<client, backlog, knock, sock, conn_table, conn, events>>
  BY DEF Fetch, In
<1>2. PICK c : c = Head(tasks)
  OBVIOUS
<1>3. c \in Client \cup {NULL}
  <2>1. tasks \in Seq(Client \cup {NULL})
    BY Typed DEF Inv, ServerTyped
  <2> QED
    BY <1>1, <1>2, <2>1, PlacesTail
<1>4. CASE c = NULL
  <2>1. UNCHANGED exec
    BY <1>2, <1>4 DEF Fetch
  <2> QED
    BY <1>1, <1>2, <1>4, <2>1, Constants, TaskDropped
<1>5. CASE c # NULL /\ conn[c].state = "freed"
  <2>1. UNCHANGED exec
    BY <1>2, <1>5 DEF Fetch
  <2> QED
    BY <1>1, <1>2, <1>5, <2>1, TaskDropped
<1>6. CASE c # NULL /\ conn[c].state # "freed"
  <2>1. exec' = [exec EXCEPT ![w] = [Idle EXCEPT !.pc = "recv", !.conn = c, !.cfd = conn[c].fd]]
    BY <1>2, <1>6 DEF Fetch
  <2> QED
    BY <1>1, <1>2, <1>3, <1>6, <2>1, TaskTaken
<1> QED
  BY <1>4, <1>5, <1>6

LEMMA DispatchStep ==
    ASSUME Inv, Dispatch
    PROVE  Inv'
<1> USE DEF Inv
<1>1. PICK f, c : f = Head(events) /\ c = conn_table[f]
  OBVIOUS
<1>2. /\ events # <<>> /\ f # Listen /\ tasks' = Append(tasks, c) /\ events' = Tail(events)
      /\ UNCHANGED <<client, backlog, knock, sock, conn_table, conn, exec>>
  BY <1>1 DEF Dispatch
<1>3. /\ events \in Seq(Fd \cup {Listen}) /\ tasks \in Seq(Client \cup {NULL})
      /\ conn_table \in [Fd -> Client \cup {NULL}]
  BY Typed DEF ServerTyped
<1>4. /\ events' \in Seq(Fd \cup {Listen}) /\ f \in Fd /\ Places(events, f) # {}
      /\ \A x : Places(events', x) # {} => Places(events, x) # {}
      /\ \A x : AtMostOne(Places(events, x)) => AtMostOne(Places(events', x))
      /\ AtMostOne(Places(events, f)) => Places(events', f) = {}
      /\ \A x : x # f /\ Places(events, x) # {} => Places(events', x) # {}
  <2>1. /\ Tail(events) \in Seq(Fd \cup {Listen}) /\ Head(events) \in Fd \cup {Listen}
        /\ Places(events, Head(events)) # {}
        /\ \A x : Places(Tail(events), x) # {} => Places(events, x) # {}
        /\ \A x : AtMostOne(Places(events, x)) => AtMostOne(Places(Tail(events), x))
        /\ AtMostOne(Places(events, Head(events))) => Places(Tail(events), Head(events)) = {}
        /\ \A x : x # Head(events) /\ Places(events, x) # {} => Places(Tail(events), x) # {}
    BY <1>2, <1>3, PlacesTail
  <2> QED
    BY <1>1, <1>2, <2>1
<1>5. c \in Client \cup {NULL}
  BY <1>1, <1>3, <1>4
<1>6. /\ tasks' \in Seq(Client \cup {NULL}) /\ Places(tasks', c) # {}
      /\ \A x : x # c => Places(tasks', x) = Places(tasks, x)
      /\ \A x : Places(tasks, x) # {} => Places(tasks', x) # {}
      /\ Places(tasks, c) = {} => AtMostOne(Places(tasks', c))
  <2>1. /\ Append(tasks, c) \in Seq(Client \cup {NULL}) /\ Places(Append(tasks, c), c) # {}
        /\ \A x : x # c => Places(Append(tasks, c), x) = Places(tasks, x)
        /\ \A x : Places(tasks, x) # {} => Places(Append(tasks, c), x) # {}
        /\ Places(tasks, c) = {} => AtMostOne(Places(Append(tasks, c), c))
    BY <1>3, <1>5, PlacesAppend
  <2> QED
    BY <1>2, <2>1
<1>7. c \in Client => conn[c].state = "live" /\ conn[c].fd = f
  BY <1>1, <1>4, Constants DEF SocketsRight
<1>8. \A d \in Client : conn[d].state # "none" /\ ~conn[d].close /\ conn[d].fd = f => c = d
  BY <1>1, <1>4, Constants DEF ClientsRight, SocketsRight
<1>9. ConnTypeOK'
  BY <1>2, <1>4, <1>6, Typed DEF ServerTyped
<1>10. ClientsRight'
  <2>1. \A d \in Client : Places(tasks', d) # {} => conn[d].state # "none"
    BY <1>6, <1>7 DEF ClientsRight
  <2> QED
    BY <1>2, <2>1 DEF ClientsRight
<1>11. LeaversRight'
  <2> SUFFICES ASSUME NEW d \in Client, client[d].pc \in Gone, ~conn[d].close
               PROVE  Unread(d)' \/ \E v \in Worker : exec[v].pc = "mark" /\ exec[v].conn = d
    BY <1>2 DEF LeaversRight
  <2>1. conn[d].fd = f => c = d
    BY <1>8 DEF ClientsRight, Gone
  <2>2. CASE Unread(d)
    <3>1. Places(events, conn[d].fd) # {} => Places(events', conn[d].fd) # {} \/ Places(tasks', d) # {}
      BY <1>4, <1>6, <2>1
    <3>2. Unread(d)'
      BY <1>2, <1>6, <2>2, <3>1 DEF Unread
    <3> QED
      BY <3>2
  <2> QED
    BY <2>2 DEF LeaversRight
<1>12. OneToken'
  <2> SUFFICES ASSUME NobodyEnded, NEW d \in Client, conn[d].state # "none"
               PROVE  ExpectedOnce(client[d].pc, sock[conn[d].fd].event, Places(events', conn[d].fd),
                                   Places(tasks', d), ServedBy(exec, d))
    BY <1>2, <1>4 DEF OneToken, NobodyEnded
  <2>1. ExpectedOnce(client[d].pc, sock[conn[d].fd].event, Places(events, conn[d].fd),
                     Places(tasks, d), ServedBy(exec, d))
    BY DEF OneToken
  <2>2. ~conn[d].close
    BY DEF ClientsRight, NobodyEnded, Gone, Ended
  <2>3. CASE conn[d].fd = f
    <3>1. c = d
      BY <1>8, <2>2, <2>3
    <3> QED
      BY <1>4, <1>6, <2>1, <2>3, <3>1 DEF ExpectedOnce
  <2>4. CASE conn[d].fd # f
    <3>1. c # d
      BY <1>7, <2>4
    <3> QED
      BY <1>4, <1>6, <2>1, <3>1 DEF ExpectedOnce
  <2> QED
    BY <2>3, <2>4
<1> QED
  BY <1>2, <1>9, <1>10, <1>11, <1>12, QueueStep

\* Every ready descriptor is reported once, and no other.
LEMMA Reported ==
    ASSUME NEW S, IsFiniteSet(S), NEW s \in SetToSeqs(S)
    PROVE  /\ s \in Seq(S)
           /\ \A x : Places(s, x) # {} <=> x \in S
           /\ \A x : AtMostOne(Places(s, x))
<1>1. Cardinality(S) \in Nat
  BY FS_CardinalityType
<1>2. s \in [1..Cardinality(S) -> S] /\ \A i, j \in 1..Cardinality(S) : i # j => s[i] # s[j]
  BY DEF SetToSeqs
<1>3. s \in Seq(S) /\ Len(s) = Cardinality(S)
  BY <1>1, <1>2
<1>4. s \in Injection(1..Cardinality(S), S)
  BY <1>2 DEF Injection, IsInjective
<1>5. s \in Surjection(1..Cardinality(S), S)
  <2>1. Cardinality(1..Cardinality(S)) = Cardinality(S)
    BY <1>1, FS_Interval
  <2> QED
    BY <1>4, <2>1, FS_Injection
<1>6. \A x \in S : \E k \in 1..Cardinality(S) : s[k] = x
  BY <1>5 DEF Surjection
<1>7. \A x : Places(s, x) # {} <=> x \in S
  BY <1>2, <1>3, <1>6 DEF Places
<1>8. \A x : AtMostOne(Places(s, x))
  BY <1>2, <1>3 DEF Places, AtMostOne
<1> QED
  BY <1>3, <1>7, <1>8

LEMMA EpollStep ==
    ASSUME Inv, epoll_wait
    PROVE  Inv'
<1> USE DEF Inv
<1>1. /\ events = <<>> /\ events' \in SetToSeqs(Ready) /\ knock' = FALSE
      /\ sock' = [f \in Fd |-> [sock[f] EXCEPT !.event = @ /\ ~sock[f].watched]]
      /\ UNCHANGED <<client, backlog, conn_table, conn, tasks, exec>>
  BY DEF epoll_wait
<1>2. sock \in [Fd -> SockType]
  BY Typed DEF NetTyped
<1>3. Ready \subseteq Fd \cup {Listen} /\ IsFiniteSet(Ready)
  <2>1. Ready \subseteq Fd \cup {Listen}
    BY DEF Ready
  <2>2. IsFiniteSet(Fd \cup {Listen})
    BY Constants, FS_AddElement
  <2> QED
    BY <2>1, <2>2, FS_Subset
<1>4. /\ events' \in Seq(Ready)
      /\ \A x : Places(events', x) # {} <=> x \in Ready
      /\ \A x : AtMostOne(Places(events', x))
  BY <1>1, <1>3, Reported
<1>5. \A f \in Fd : Places(events', f) # {} <=> sock[f].event /\ sock[f].watched
  BY <1>4, Constants DEF Ready
<1>6. \A x : Places(events, x) = {}
  BY <1>1 DEF Places
<1>7. ASSUME NEW f \in Fd
      PROVE  /\ sock'[f] \in SockType
             /\ sock'[f].peer = sock[f].peer /\ sock'[f].inbox = sock[f].inbox
             /\ sock'[f].begun = sock[f].begun /\ sock'[f].watched = sock[f].watched
             /\ sock'[f].event <=> sock[f].event /\ ~sock[f].watched
             /\ ~sock[f].event => sock'[f] = sock[f]
  <2>1. PICK b \in BOOLEAN : b = (sock[f].event /\ ~sock[f].watched)
    OBVIOUS
  <2>2. sock'[f] = [sock[f] EXCEPT !.event = b]
    BY <1>1, <2>1
  <2>3. b <=> sock[f].event /\ ~sock[f].watched
    BY <2>1
  <2>4. sock'[f] \in SockType /\ sock'[f].event = b
    BY <1>2, <2>2 DEF SockType
  <2>5. ~sock[f].event => sock'[f] = sock[f]
    BY <1>2, <2>2, <2>3 DEF SockType
  <2> QED
    BY <1>2, <2>2, <2>3, <2>4, <2>5 DEF SockType
<1>8. sock' \in [Fd -> SockType]
  BY <1>1, <1>7
<1>9. ConnTypeOK'
  <2>1. events' \in Seq(Fd \cup {Listen})
    BY <1>3, <1>4
  <2>2. knock' \in BOOLEAN
    BY <1>1, Zenon
  <2> QED
    BY <1>1, <1>8, <2>1, <2>2, Typed DEF NetTyped, ServerTyped
<1>10. ClientsRight'
  BY <1>1, <1>7 DEF ClientsRight
<1>11. SocketsRight'
  <2>1. ASSUME NEW g \in Fd
        PROVE  /\ sock'[g].peer = NULL => sock'[g] = Closed
               /\ sock'[g].peer # NULL => conn[sock'[g].peer].state = "live" /\ conn[sock'[g].peer].fd = g
               /\ conn_table[g] # NULL => conn_table[g] = sock'[g].peer
               /\ sock'[g].watched => conn_table[g] = sock'[g].peer
               /\ sock'[g].peer # NULL /\ ~sock'[g].watched => conn[sock'[g].peer].close
    <3>1. ~Closed.event
      BY DEF Closed
    <3>2. sock[g].peer = NULL => sock'[g] = Closed
      BY <1>7, <3>1 DEF SocketsRight
    <3> QED
      BY <1>7, <3>2 DEF SocketsRight
  <2> QED
    BY <1>1, <2>1 DEF SocketsRight
<1>12. WorkersRight'
  <2>1. ASSUME NEW v \in Worker PROVE WorkerRight(v)'
    <3>1. exec[v].pc \in {"forget", "close"} => conn[exec[v].conn].fd \in Fd
      BY DEF WorkersRight, WorkerRight, Closing, ClientsRight
    <3>2. exec[v].pc \in {"forget", "close"} =>
             /\ sock'[conn[exec[v].conn].fd].peer = sock[conn[exec[v].conn].fd].peer
             /\ sock'[conn[exec[v].conn].fd].watched = sock[conn[exec[v].conn].fd].watched
      BY <1>7, <3>1
    <3>3. \A g \in Fd : sock'[g].peer = sock[g].peer
      BY <1>7
    <3>4. WorkerRight(v) /\ UNCHANGED <<client, conn, conn_table, exec>>
      BY <1>1 DEF WorkersRight
    <3> QED
      BY <3>2, <3>3, <3>4 DEF WorkerRight
  <2> QED
    BY <1>1, <2>1 DEF WorkersRight
<1>13. MessagesRight'
  <2>1. ASSUME NEW f \in Fd, sock'[f].peer # NULL PROVE InboxRight(f)'
    <3>1. InboxRight(f)
      BY <1>7, <2>1 DEF MessagesRight
    <3> QED
      BY <1>1, <1>7, <3>1, InboxKept
  <2>2. \A v \in Worker : exec[v].pc = "rest" => exec[v].cfd \in Fd
    BY DEF WorkersRight, WorkerRight, Serving, ClientsRight
  <2>3. \A v \in Worker : exec[v].pc = "rest" => sock'[exec[v].cfd].peer = exec[v].conn /\ sock'[exec[v].cfd].begun
    BY <1>7, <2>2 DEF MessagesRight
  <2> QED
    BY <1>1, <2>1, <2>3 DEF MessagesRight
<1>14. LeaversRight'
  <2> SUFFICES ASSUME NEW d \in Client, client[d].pc \in Gone, ~conn[d].close
               PROVE  Unread(d)' \/ \E v \in Worker : exec[v].pc = "mark" /\ exec[v].conn = d
    BY <1>1 DEF LeaversRight
  <2>1. /\ conn[d].fd \in Fd
        /\ sock[conn[d].fd].event => sock'[conn[d].fd].event \/ Places(events', conn[d].fd) # {}
    BY <1>5, <1>7 DEF ClientsRight, Gone
  <2>2. CASE Unread(d)
    <3>1. Unread(d)'
      BY <1>1, <1>6, <1>7, <2>1, <2>2 DEF Unread
    <3> QED
      BY <3>1
  <2> QED
    BY <2>2 DEF LeaversRight
<1>15. OneToken'
  <2>1. \A f \in Fd : Places(events', f) # {} => sock'[f].peer # NULL
    <3>1. ~Closed.event
      BY DEF Closed
    <3> QED
      BY <1>5, <1>7, <3>1 DEF SocketsRight
  <2> SUFFICES ASSUME NobodyEnded, NEW d \in Client, conn[d].state # "none"
               PROVE  ExpectedOnce(client[d].pc, sock'[conn[d].fd].event, Places(events', conn[d].fd),
                                   Places(tasks, d), ServedBy(exec, d))
    BY <1>1, <2>1 DEF OneToken, NobodyEnded
  <2>2. ExpectedOnce(client[d].pc, sock[conn[d].fd].event, Places(events, conn[d].fd),
                     Places(tasks, d), ServedBy(exec, d))
    BY DEF OneToken
  <2>3. /\ conn[d].fd \in Fd
        /\ sock'[conn[d].fd].event => sock[conn[d].fd].event /\ Places(events', conn[d].fd) = {}
        /\ Places(events', conn[d].fd) # {} => sock[conn[d].fd].event /\ ~sock'[conn[d].fd].event
    BY <1>5, <1>7 DEF ClientsRight
  <2> QED
    BY <1>4, <2>2, <2>3 DEF ExpectedOnce
<1> QED
  BY <1>9, <1>10, <1>11, <1>12, <1>13, <1>14, <1>15

\* The listening socket's event is handled, and no connection is made.
LEMMA AcceptOver ==
    ASSUME Inv, NEW f \in Fd, Accept(f), ~(f - SYSRESERVFD < MAX_CONNECTIONS)
    PROVE  Inv'
<1> USE DEF Inv
<1>1. /\ events # <<>> /\ Head(events) = Listen /\ backlog # <<>>
      /\ backlog' = Tail(backlog) /\ events' = Tail(events)
      /\ UNCHANGED <<client, knock, sock, conn_table, conn, tasks, exec>>
  BY DEF Accept
<1>2. events \in Seq(Fd \cup {Listen}) /\ backlog \in Seq(Client)
  BY Typed DEF NetTyped, ServerTyped
<1>3. /\ events' \in Seq(Fd \cup {Listen})
      /\ \A x : Places(events', x) # {} => Places(events, x) # {}
      /\ \A x : AtMostOne(Places(events, x)) => AtMostOne(Places(events', x))
      /\ \A x : x # Listen /\ Places(events, x) # {} => Places(events', x) # {}
  BY <1>1, <1>2, PlacesTail
<1>4. /\ backlog' \in Seq(Client)
      /\ \A x : Places(backlog', x) # {} => Places(backlog, x) # {}
      /\ \A x : AtMostOne(Places(backlog, x)) => AtMostOne(Places(backlog', x))
  BY <1>1, <1>2, PlacesTail
<1>5. ConnTypeOK'
  BY <1>1, <1>3, <1>4, Typed DEF NetTyped, ServerTyped
<1>6. ClientsRight'
  BY <1>1, <1>4 DEF ClientsRight
<1>7. LeaversRight'
  <2> SUFFICES ASSUME NEW d \in Client, client[d].pc \in Gone, ~conn[d].close
               PROVE  Unread(d)' \/ \E v \in Worker : exec[v].pc = "mark" /\ exec[v].conn = d
    BY <1>1 DEF LeaversRight
  <2>1. CASE Unread(d)
    <3>1. conn[d].fd # Listen
      BY Constants DEF ClientsRight, Gone
    <3>2. Unread(d)'
      BY <1>1, <1>3, <2>1, <3>1 DEF Unread
    <3> QED
      BY <3>2
  <2> QED
    BY <2>1 DEF LeaversRight
<1>8. OneToken'
  <2> SUFFICES ASSUME NobodyEnded, NEW d \in Client, conn[d].state # "none"
               PROVE  ExpectedOnce(client[d].pc, sock[conn[d].fd].event, Places(events', conn[d].fd),
                                   Places(tasks, d), ServedBy(exec, d))
    BY <1>1, <1>3 DEF OneToken, NobodyEnded
  <2>1. ExpectedOnce(client[d].pc, sock[conn[d].fd].event, Places(events, conn[d].fd),
                     Places(tasks, d), ServedBy(exec, d))
    BY DEF OneToken
  <2> QED
    BY <1>3, <2>1 DEF ExpectedOnce
<1> QED
  BY <1>1, <1>5, <1>6, <1>7, <1>8, QueueStep

\* A connection is made, on a descriptor that is free.
LEMMA AcceptMade ==
    ASSUME Inv, NEW f \in Fd, Accept(f), f - SYSRESERVFD < MAX_CONNECTIONS
    PROVE  Inv'
<1> USE DEF Inv
<1>1. PICK c : c = Head(backlog)
  OBVIOUS
<1>2. /\ events # <<>> /\ Head(events) = Listen /\ backlog # <<>> /\ sock[f].peer = NULL
      /\ backlog' = Tail(backlog) /\ events' = Tail(events)
      /\ UNCHANGED <<knock, tasks, exec>>
  BY DEF Accept
<1>3. /\ sock' = [sock EXCEPT ![f] = [Closed EXCEPT !.peer = c, !.watched = TRUE]]
      /\ conn' = [conn EXCEPT ![c] = [fd |-> f, close |-> FALSE, state |-> "live"]]
      /\ conn_table' = [conn_table EXCEPT ![f] = c]
      /\ client' = [client EXCEPT ![c].pc = "ready"]
  BY <1>1 DEF Accept
<1>4. /\ client \in [Client -> ClientType] /\ backlog \in Seq(Client) /\ sock \in [Fd -> SockType]
      /\ conn_table \in [Fd -> Client \cup {NULL}] /\ conn \in [Client -> ConnType]
      /\ events \in Seq(Fd \cup {Listen})
  BY Typed DEF NetTyped, ServerTyped
<1>5. /\ events' \in Seq(Fd \cup {Listen})
      /\ \A x : Places(events', x) # {} => Places(events, x) # {}
      /\ \A x : AtMostOne(Places(events, x)) => AtMostOne(Places(events', x))
      /\ \A x : x # Listen /\ Places(events, x) # {} => Places(events', x) # {}
  <2>1. events \in Seq(Fd \cup {Listen}) /\ events # <<>> /\ Head(events) = Listen /\ events' = Tail(events)
    BY <1>2, <1>4
  <2> QED
    BY <2>1, PlacesTail
<1>6. /\ Tail(backlog) \in Seq(Client) /\ Head(backlog) \in Client /\ Places(backlog, Head(backlog)) # {}
      /\ \A x : Places(Tail(backlog), x) # {} => Places(backlog, x) # {}
      /\ \A x : AtMostOne(Places(backlog, x)) => AtMostOne(Places(Tail(backlog), x))
      /\ AtMostOne(Places(backlog, Head(backlog))) => Places(Tail(backlog), Head(backlog)) = {}
  BY <1>2, <1>4, PlacesTail
<1>7. /\ c \in Client /\ backlog' \in Seq(Client)
      /\ \A x : Places(backlog', x) # {} => Places(backlog, x) # {}
      /\ \A x : AtMostOne(Places(backlog, x)) => AtMostOne(Places(backlog', x))
      /\ client[c].pc = "connecting" /\ conn[c].state = "none" /\ Places(backlog', c) = {}
      /\ ~conn[c].close
  <2>1. c \in Client /\ client[c].pc = "connecting" /\ AtMostOne(Places(backlog, c))
    BY <1>1, <1>6 DEF ClientsRight
  <2>2. Places(backlog', c) = {}
    BY <1>1, <1>2, <1>6, <2>1
  <2>3. conn[c].state = "none" /\ ~conn[c].close
    BY <2>1 DEF ClientsRight, Gone
  <2> QED
    BY <1>1, <1>2, <1>6, <2>1, <2>2, <2>3
<1>8. /\ sock' \in [Fd -> SockType]
      /\ sock'[f].peer = c /\ Len(sock'[f].inbox) = 0 /\ ~sock'[f].begun /\ ~sock'[f].event /\ sock'[f].watched
      /\ \A g \in Fd \ {f} : sock'[g] = sock[g]
  <2>1. PICK s : s = [Closed EXCEPT !.peer = c, !.watched = TRUE]
    OBVIOUS
  <2>2. s \in SockType /\ s.peer = c /\ s.inbox = <<>> /\ s.begun = FALSE /\ s.event = FALSE /\ s.watched = TRUE
    BY <1>7, <2>1, Constants DEF SockType, Closed
  <2>3. sock' = [sock EXCEPT ![f] = s]
    BY <1>3, <2>1
  <2>4. sock' \in [Fd -> SockType] /\ sock'[f] = s /\ \A g \in Fd \ {f} : sock'[g] = sock[g]
    BY <1>4, <2>2, <2>3
  <2> QED
    BY <2>2, <2>4
<1>9. /\ conn' \in [Client -> ConnType] /\ conn'[c].fd = f /\ ~conn'[c].close /\ conn'[c].state = "live"
      /\ \A d \in Client \ {c} : conn'[d] = conn[d]
  BY <1>3, <1>4, <1>7 DEF ConnType
<1>10. /\ conn_table' \in [Fd -> Client \cup {NULL}] /\ conn_table'[f] = c
       /\ \A g \in Fd \ {f} : conn_table'[g] = conn_table[g]
  BY <1>3, <1>4, <1>7
<1>11. /\ client' \in [Client -> ClientType] /\ client'[c].pc = "ready"
       /\ \A d \in Client \ {c} : client'[d] = client[d]
  BY <1>3, <1>4, <1>7 DEF ClientType
<1>12. ConnTypeOK'
  BY <1>2, <1>5, <1>7, <1>8, <1>9, <1>10, <1>11, Typed DEF NetTyped, ServerTyped
<1>13. ClientsRight'
  <2>1. ASSUME NEW d \in Client \ {c}
        PROVE  /\ conn'[d].state = "none" <=> client'[d].pc \in {"away", "connecting"}
               /\ conn'[d].state # "none" => conn'[d].fd \in Fd
               /\ conn'[d].state = "freed" => conn'[d].close
               /\ conn'[d].close => client'[d].pc \in Gone
               /\ conn'[d].state # "none" /\ ~conn'[d].close => sock'[conn'[d].fd].peer = d
               /\ Places(backlog', d) # {} => client'[d].pc = "connecting"
               /\ AtMostOne(Places(backlog', d))
               /\ Places(tasks, d) # {} => conn'[d].state # "none"
    <3>1. conn'[d] = conn[d] /\ client'[d] = client[d]
      BY <1>9, <1>11
    <3>2. conn[d].state # "none" /\ ~conn[d].close => conn[d].fd \in Fd /\ conn[d].fd # f
      BY <1>2, Constants DEF ClientsRight
    <3> QED
      BY <1>7, <1>8, <3>1, <3>2 DEF ClientsRight
  <2>2. /\ conn'[c].state # "none" /\ conn'[c].state # "freed" /\ client'[c].pc \notin {"away", "connecting"}
        /\ conn'[c].fd \in Fd /\ ~conn'[c].close /\ sock'[conn'[c].fd].peer = c
        /\ Places(backlog', c) = {} /\ AtMostOne(Places(backlog', c))
    BY <1>7, <1>8, <1>9, <1>11 DEF AtMostOne
  <2> QED
    BY <1>2, <2>1, <2>2 DEF ClientsRight
<1>14. \A g \in Fd : sock[g].peer # c
  BY <1>7, Constants DEF SocketsRight
<1>15. SocketsRight'
  <2>1. ASSUME NEW g \in Fd
        PROVE  /\ sock'[g].peer = NULL => sock'[g] = Closed
               /\ sock'[g].peer # NULL => conn'[sock'[g].peer].state = "live" /\ conn'[sock'[g].peer].fd = g
               /\ conn_table'[g] # NULL => conn_table'[g] = sock'[g].peer
               /\ sock'[g].watched => conn_table'[g] = sock'[g].peer
               /\ sock'[g].peer # NULL /\ ~sock'[g].watched => conn'[sock'[g].peer].close
    <3>1. CASE g = f
      BY <1>7, <1>8, <1>9, <1>10, <3>1, Constants
    <3>2. CASE g # f
      <4>1. sock'[g] = sock[g] /\ conn_table'[g] = conn_table[g]
        BY <1>8, <1>10, <3>2
      <4>2. sock[g].peer # NULL => conn'[sock[g].peer] = conn[sock[g].peer]
        BY <1>4, <1>9, <1>14 DEF SockType
      <4> QED
        BY <4>1, <4>2 DEF SocketsRight
    <3> QED
      BY <3>1, <3>2
  <2> QED
    BY <2>1 DEF SocketsRight
<1>16. \A v \in Worker : exec[v].pc \in Serving \cup Closing =>
          exec[v].conn \in Client \ {c} /\ conn'[exec[v].conn] = conn[exec[v].conn]
            /\ client'[exec[v].conn] = client[exec[v].conn] /\ conn[exec[v].conn].fd \in Fd
  <2>1. \A v \in Worker : exec[v].pc \in Serving \cup Closing =>
           exec[v].conn \in Client /\ conn[exec[v].conn].state # "none"
    BY DEF WorkersRight, WorkerRight
  <2> QED
    BY <1>7, <1>9, <1>11, <2>1 DEF ClientsRight
<1>17. WorkersRight'
  <2>1. ASSUME NEW v \in Worker PROVE WorkerRight(v)'
    <3>1. WorkerRight(v)
      BY DEF WorkersRight
    <3>2. (\E d \in Client : client[d].pc \in Gone) => \E d \in Client : client'[d].pc \in Gone
      BY <1>7, <1>11 DEF Gone
    <3>3. {"forget", "close", "free"} \subseteq Closing
      BY DEF Closing
    <3>4. exec[v].pc \in {"forget", "close"} => sock'[conn[exec[v].conn].fd] = sock[conn[exec[v].conn].fd]
      <4>1. exec[v].pc \in {"forget", "close"} => conn[exec[v].conn].fd # f
        BY <1>2, <1>16, <3>1, <3>3, Constants DEF WorkerRight
      <4> QED
        BY <1>8, <1>16, <3>3, <4>1
    <3>5. exec[v].pc = "close" => conn_table'[conn[exec[v].conn].fd] = conn_table[conn[exec[v].conn].fd]
      <4>1. exec[v].pc = "close" => conn[exec[v].conn].fd # f
        BY <1>2, <1>16, <3>1, <3>3, Constants DEF WorkerRight
      <4> QED
        BY <1>10, <1>16, <3>3, <4>1
    <3>6. exec[v].pc = "free" => \A g \in Fd : sock'[g].peer # exec[v].conn
      BY <1>8, <1>16, <3>1, <3>3 DEF WorkerRight
    <3> QED
      BY <1>2, <1>16, <3>1, <3>2, <3>3, <3>4, <3>5, <3>6 DEF WorkerRight
  <2> QED
    BY <1>2, <2>1 DEF WorkersRight
<1>18. MessagesRight'
  <2>1. ASSUME NEW g \in Fd, sock'[g].peer # NULL PROVE InboxRight(g)'
    <3>1. CASE g = f
      BY <1>8, <3>1 DEF InboxRight
    <3>2. CASE g # f
      <4>1. sock'[g] = sock[g]
        BY <1>8, <3>2
      <4>2. InboxRight(g) /\ sock[g].peer \in Client \ {c}
        BY <1>4, <1>14, <2>1, <4>1 DEF MessagesRight, SockType
      <4>3. client'[sock[g].peer] = client[sock[g].peer] /\ conn'[sock[g].peer] = conn[sock[g].peer]
        BY <1>9, <1>11, <4>2
      <4> QED
        BY <1>2, <4>1, <4>2, <4>3, InboxKept
    <3> QED
      BY <3>1, <3>2
  <2>2. ASSUME NEW v \in Worker
        PROVE  /\ exec[v].pc = "rest" => sock'[exec[v].cfd].peer = exec[v].conn /\ sock'[exec[v].cfd].begun
               /\ exec[v].pc = "mark" => client'[exec[v].conn].pc \in Gone
               /\ exec[v].pc \in {"execute", "reply"} => client'[exec[v].conn].pc \in {"waiting", "dead"}
    <3>1. exec[v].pc = "rest" => exec[v].cfd \in Fd /\ exec[v].conn # NULL
      BY <1>16, Constants DEF WorkersRight, WorkerRight, Serving
    <3>2. exec[v].pc = "rest" => exec[v].cfd # f
      BY <1>2, <3>1 DEF MessagesRight
    <3>3. exec[v].pc \in {"mark", "execute", "reply"} => client'[exec[v].conn] = client[exec[v].conn]
      BY <1>16 DEF Serving
    <3> QED
      BY <1>8, <3>1, <3>2, <3>3 DEF MessagesRight
  <2> QED
    BY <1>2, <2>1, <2>2 DEF MessagesRight
<1>19. LeaversRight'
  <2> SUFFICES ASSUME NEW d \in Client, client'[d].pc \in Gone, ~conn'[d].close
               PROVE  Unread(d)' \/ \E v \in Worker : exec[v].pc = "mark" /\ exec[v].conn = d
    BY <1>2 DEF LeaversRight
  <2>1. d # c /\ client[d].pc \in Gone /\ ~conn[d].close /\ conn'[d] = conn[d]
    BY <1>9, <1>11 DEF Gone
  <2>2. conn[d].fd \in Fd /\ conn[d].fd # f /\ conn[d].fd # Listen
    BY <1>2, <2>1, Constants DEF ClientsRight, Gone
  <2>3. CASE Unread(d)
    <3>1. Unread(d)'
      BY <1>2, <1>5, <1>8, <2>1, <2>2, <2>3 DEF Unread
    <3> QED
      BY <3>1
  <2> QED
    BY <2>1, <2>3 DEF LeaversRight
<1>20. OneToken'
  <2>1. NobodyEnded' => NobodyEnded
    BY <1>7, <1>11 DEF NobodyEnded, Ended
  <2>2. NobodyEnded => \A g \in Fd : Places(events', g) # {} => sock'[g].peer # NULL
    BY <1>5, <1>7, <1>8, Constants DEF OneToken
  <2> SUFFICES ASSUME NobodyEnded, NEW d \in Client, conn'[d].state # "none"
               PROVE  ExpectedOnce(client'[d].pc, sock'[conn'[d].fd].event, Places(events', conn'[d].fd),
                                   Places(tasks, d), ServedBy(exec, d))
    BY <1>2, <2>1, <2>2 DEF OneToken
  <2>3. CASE d = c
    <3>1. Places(events', f) = {}
      BY <1>2, <1>5 DEF OneToken
    <3>2. Places(tasks, c) = {} /\ ServedBy(exec, c) = {}
      BY <1>7, <1>16 DEF ClientsRight, ServedBy
    <3> QED
      BY <1>8, <1>9, <1>11, <2>3, <3>1, <3>2 DEF ExpectedOnce, AtMostOne
  <2>4. CASE d # c
    <3>1. conn'[d] = conn[d] /\ client'[d] = client[d]
      BY <1>9, <1>11, <2>4
    <3>2. ExpectedOnce(client[d].pc, sock[conn[d].fd].event, Places(events, conn[d].fd),
                       Places(tasks, d), ServedBy(exec, d))
      BY <3>1 DEF OneToken
    <3>3. ~conn[d].close
      BY DEF ClientsRight, NobodyEnded, Gone, Ended
    <3>4. conn[d].fd \in Fd /\ conn[d].fd # f
      BY <1>2, <3>1, <3>3, Constants DEF ClientsRight
    <3>5. sock'[conn[d].fd] = sock[conn[d].fd]
      BY <1>8, <3>4
    <3> QED
      BY <1>5, <3>1, <3>2, <3>5 DEF ExpectedOnce
  <2> QED
    BY <2>3, <2>4
<1> QED
  BY <1>12, <1>13, <1>15, <1>17, <1>18, <1>19, <1>20

-----------------------------------------------------------------------------
(* Every step *)

\* What the operations on tables do leaves the connections alone, and a fault
\* is seen by nobody.
LEMMA NothingMoves ==
    ASSUME Inv, UNCHANGED <<client, backlog, knock, sock, conn_table, conn, events, tasks, exec>>
    PROVE  Inv'
<1>1. ConnTypeOK' /\ ClientsRight'
  BY DEF Inv, ConnTypeOK, ClientsRight
<1>2. LeaversRight'
  BY DEF Inv, LeaversRight, Unread
<1>3. OneToken'
  BY DEF Inv, OneToken, NobodyEnded
<1> QED
  BY <1>1, <1>2, <1>3, QueueStep DEF Inv

LEMMA InvStep == Inv /\ [Next]_vars => Inv'
<1> SUFFICES ASSUME Inv, [Next]_vars PROVE Inv'
  OBVIOUS
<1>1. ASSUME NEW c \in Client, ClientStep(c) PROVE Inv'
  BY <1>1, ClientSteps
<1>2. CASE MainStep
  <2>1. ASSUME NEW f \in Fd, Accept(f) PROVE Inv'
    BY <2>1, AcceptMade, AcceptOver
  <2> QED
    BY <1>2, <2>1, EpollStep, DispatchStep DEF MainStep
<1>3. ASSUME NEW w \in Worker, ExecStep(w) PROVE Inv'
  <2>1. CASE ExecFails(w)
    BY <2>1, NothingMoves DEF ExecFails
  <2>2. CASE Fetch(w) \/ Recv(w) \/ RecvRest(w) \/ Eof(w)
    BY <2>2, FetchStep, RecvStep, RecvRestStep, EofStep
  <2>3. CASE Mark(w) \/ Reply(w) \/ Recycle(w)
    BY <2>3, MarkStep, ReplyStep, RecycleStep
  <2>4. CASE Delete(w) \/ Forget(w) \/ Close(w) \/ Free(w)
    BY <2>4, DeleteStep, ForgetStep, CloseStep, FreeStep
  <2> QED
    BY <1>3, <2>1, <2>2, <2>3, <2>4 DEF ExecStep
<1>4. ASSUME NEW w \in Worker, WorkerStep(w) PROVE Inv'
  <2>1. CASE BeginCommand(w) \/ CommandStep(w)
    BY <2>1, NothingMoves DEF BeginCommand, CommandStep, connVars
  <2>2. CASE EndCommand(w)
    BY <2>2, EndCommandStep
  <2>3. CASE ExecStep(w)
    BY <1>3, <2>3
  <2> QED
    BY <1>4, <2>1, <2>2, <2>3 DEF WorkerStep
<1>5. CASE UNCHANGED vars
  BY <1>5, NothingMoves DEF vars, connVars
<1> QED
  BY <1>1, <1>2, <1>4, <1>5 DEF Next, Main

LEMMA InvHolds == Spec => []Inv
<1>1. Init => Inv
  BY ConnInitially DEF Init
<1> QED
  BY <1>1, InvStep, PTL DEF Spec

\* The connections always have their types, a descriptor that is watched
\* belongs to the client in its slot of the table, and no slot keeps a
\* connection whose descriptor or memory is gone (net.c, db_active, exec and
\* conn_close).
THEOREM ConnectionsWellFormed == Spec => []WellFormed
<1>1. Inv => WellFormed
  BY DEF Inv, SocketsRight, WellFormed, ConnectionsMatchSockets
<1> QED
  BY <1>1, InvHolds, PTL

\* Whenever the server is at rest, every connection that its client has left is
\* marked to be closed, in whatever order the events, the tasks and the workers
\* came (exec, CINFO_CLOSE_UP).
THEOREM LeaversMarked == Spec => []LeftoversAreMarked
<1>1. Inv => LeftoversAreMarked
  <2> SUFFICES ASSUME Inv, AtRest, NEW f \in Fd, sock[f].peer # NULL, client[sock[f].peer].pc = "left",
                      ~conn[sock[f].peer].close
               PROVE  FALSE
    BY DEF LeftoversAreMarked
  <2>1. PICK c : c = sock[f].peer
    OBVIOUS
  <2>2. c \in Client /\ conn[c].fd = f /\ sock[f].watched
    BY <2>1, Typed DEF Inv, NetTyped, SockType, SocketsRight
  <2>3. /\ Ready = {} /\ \A w \in Worker : exec[w].pc = "idle"
        /\ \A x : Places(events, x) = {} /\ Places(tasks, x) = {}
    BY DEF AtRest, Places
  <2>4. Unread(c)
    BY <2>1, <2>2, <2>3 DEF Inv, LeaversRight, Gone
  <2>5. sock[f].event
    BY <2>2, <2>3, <2>4 DEF Unread
  <2> QED
    BY <2>2, <2>3, <2>5 DEF Ready
<1> QED
  BY <1>1, InvHolds, PTL

\* What a worker meets that goes wrong, a client's leaving has made possible.
LEMMA FaultNeedsExit ==
    ASSUME Inv, NEW w \in Worker, exec[w].pc # "idle"
    PROVE  /\ ExecFault(w) \in {"freed", "exit", "stolen"} => \E c \in Client : client[c].pc \in Gone
           /\ ExecFault(w) = "torn" => ~NobodyEnded
<1> USE DEF Inv
<1>1. exec \in [Worker -> ExecType] /\ sock \in [Fd -> SockType]
  BY Typed DEF NetTyped, ServerTyped
<1>2. exec[w].pc \in {"recv", "eof", "rest", "mark", "execute", "reply", "recycle", "delete", "forget", "close", "free"}
  BY <1>1 DEF ExecType
<1>3. \A c \in Client : conn[c].close \/ conn[c].state = "freed" => client[c].pc \in Gone
  BY DEF ClientsRight
<1>4. CASE exec[w].pc = "delete"
  <2>1. \E c \in Client : client[c].pc \in Gone
    BY <1>4 DEF WorkersRight, WorkerRight
  <2>2. ExecFault(w) # "torn"
    BY <1>4 DEF ExecFault
  <2> QED
    BY <2>1, <2>2
<1>5. CASE exec[w].pc \in Closing
  <2>1. \E c \in Client : client[c].pc \in Gone
    BY <1>3, <1>5 DEF WorkersRight, WorkerRight
  <2>2. ExecFault(w) # "torn"
    BY <1>5 DEF ExecFault, Closing
  <2> QED
    BY <2>1, <2>2
<1>6. CASE exec[w].pc \in {"eof", "mark", "reply"}
  <2>1. exec[w].conn \in Client
    BY <1>6 DEF WorkersRight, WorkerRight, Serving
  <2>2. Lost(w) => conn[exec[w].conn].state = "freed"
    BY <1>6, <2>1, Constants DEF Lost, Victim
  <2>3. ExecFault(w) = IF Lost(w) THEN "freed" ELSE "none"
    BY <1>6 DEF ExecFault
  <2> QED
    BY <1>3, <2>1, <2>2, <2>3
<1>7. CASE exec[w].pc \in {"execute", "recycle"}
  BY <1>7 DEF ExecFault
<1>8. CASE exec[w].pc = "rest"
  <2>1. ExecFault(w) = "none"
    BY <1>8 DEF ExecFault, MessagesRight
  <2> QED
    BY <2>1
<1>9. CASE exec[w].pc = "recv"
  <2>1. PICK c, f : c = exec[w].conn /\ f = exec[w].cfd
    OBVIOUS
  <2>2. c \in Client /\ conn[c].state # "none" /\ f = conn[c].fd /\ f \in Fd
    BY <1>9, <2>1 DEF WorkersRight, WorkerRight, Serving, ClientsRight
  <2>3. CASE sock[f].peer \notin {c, NULL}
    <3>1. client[c].pc \in Gone
      BY <1>3, <2>2, <2>3 DEF ClientsRight
    <3>2. ExecFault(w) = "stolen"
      BY <1>9, <2>1, <2>3 DEF ExecFault
    <3> QED
      BY <2>2, <3>1, <3>2
  <2>4. CASE sock[f].peer \in {c, NULL} /\ ~sock[f].begun
    <3>1. ExecFault(w) = "none"
      BY <1>9, <2>1, <2>4 DEF ExecFault
    <3> QED
      BY <3>1
  <2>5. CASE sock[f].peer \in {c, NULL} /\ sock[f].begun
    <3>1. ExecFault(w) = "torn"
      BY <1>9, <2>1, <2>5 DEF ExecFault
    <3>2. sock[f].peer = c
      BY <2>2, <2>5 DEF SocketsRight, Closed
    <3>3. PICK v \in Worker : exec[v].pc = "rest" /\ exec[v].conn = c
      BY <2>2, <2>5, <3>2, Constants DEF MessagesRight, InboxRight
    <3>4. v \in ServedBy(exec, c) /\ w \in ServedBy(exec, c) /\ v # w
      BY <1>9, <2>1, <3>3 DEF ServedBy, Serving
    <3>5. ~NobodyEnded
      BY <2>2, <3>4 DEF OneToken, ExpectedOnce, AtMostOne
    <3> QED
      BY <3>1, <3>5
  <2> QED
    BY <2>3, <2>4, <2>5
<1> QED
  BY <1>2, <1>4, <1>5, <1>6, <1>7, <1>8, <1>9 DEF Closing

LEMMA FaultStep ==
    ASSUME Inv, [Next]_vars, FaultsNeedAnExit
    PROVE  FaultsNeedAnExit'
<1>1. CASE UNCHANGED vars
  BY <1>1 DEF vars, connVars, FaultsNeedAnExit
<1>2. ASSUME NEW w \in Worker, Fetch(w) \/ ExecFails(w), fault' # "none" PROVE FaultsNeedAnExit'
  <2>1. UNCHANGED client
    BY <1>2 DEF Fetch, ExecFails
  <2>2. CASE Fetch(w)
    <3>1. PICK c : c = Head(tasks)
      OBVIOUS
    <3>2. tasks # <<>> /\ fault = "none"
      BY <2>2 DEF Fetch, In
    <3>3. c # NULL /\ conn[c].state = "freed" /\ fault' = "freed"
      BY <1>2, <2>2, <3>1, <3>2 DEF Fetch
    <3>4. c \in Client
      BY <3>1, <3>2, <3>3, Typed, PlacesTail DEF Inv, ServerTyped
    <3>5. client[c].pc \in Gone
      BY <3>3, <3>4 DEF Inv, ClientsRight
    <3> QED
      BY <2>1, <3>3, <3>4, <3>5 DEF FaultsNeedAnExit, Gone
  <2>3. CASE ExecFails(w)
    <3>1. fault' = ExecFault(w) /\ exec[w].pc # "idle"
      BY <2>3 DEF ExecFails
    <3>2. /\ fault' \in {"freed", "exit", "stolen"} => \E c \in Client : client[c].pc \in Gone
          /\ fault' = "torn" => ~NobodyEnded
      BY <3>1, FaultNeedsExit
    <3> QED
      BY <2>1, <3>2 DEF FaultsNeedAnExit, Gone, Ended, NobodyEnded
  <2> QED
    BY <1>2, <2>2, <2>3
<1>3. CASE fault' \in {"none", "overflow"}
  BY <1>3 DEF FaultsNeedAnExit
<1>4. ASSUME NEW c \in Client, ClientStep(c) PROVE fault' = "none"
  BY <1>4 DEF ClientStep, Connect, Request, Exit, Hangup, Die, At
<1>5. ASSUME MainStep PROVE fault' \in {"none", "overflow"}
  <2>1. ASSUME NEW f \in Fd, Accept(f) PROVE fault' \in {"none", "overflow"}
    BY <2>1 DEF Accept
  <2> QED
    BY <1>5, <2>1 DEF MainStep, epoll_wait, Dispatch
<1>6. ASSUME NEW w \in Worker, ExecStep(w), ~Fetch(w), ~ExecFails(w) PROVE fault' = "none"
  <2>1. CASE Recv(w) \/ RecvRest(w) \/ Eof(w) \/ Mark(w) \/ Reply(w) \/ Recycle(w)
    BY <2>1 DEF Recv, RecvRest, Eof, Mark, Reply, Recycle, In
  <2>2. CASE Delete(w) \/ Forget(w) \/ Close(w) \/ Free(w)
    BY <2>2 DEF Delete, Forget, Close, Free, In
  <2> QED
    BY <1>6, <2>1, <2>2 DEF ExecStep
<1>7. ASSUME NEW w \in Worker, WorkerStep(w) PROVE FaultsNeedAnExit'
  <2>1. CASE BeginCommand(w) \/ CommandStep(w) \/ EndCommand(w)
    <3>1. fault' = "none"
      BY <2>1 DEF BeginCommand, CommandStep, EndCommand, In, connVars
    <3> QED
      BY <1>3, <3>1
  <2>2. CASE ExecStep(w)
    BY <1>2, <1>3, <1>6, <2>2
  <2> QED
    BY <1>7, <2>1, <2>2 DEF WorkerStep
<1> QED
  BY <1>1, <1>3, <1>4, <1>5, <1>7 DEF Next, Main

\* As long as no client closes its connection in the way it should, no worker
\* uses a conn_info_s that is gone, closes a connection twice or reads another
\* client's; and as long as no client ends, no two workers read from one
\* message (exec, conn_close and the order of epoll's events).
THEOREM FaultsNeedEnd == Spec => []FaultsNeedAnExit
<1>1. Init => FaultsNeedAnExit
  BY DEF Init, ConnInit, FaultsNeedAnExit
<1>2. Inv /\ FaultsNeedAnExit /\ [Next]_vars => FaultsNeedAnExit'
  BY FaultStep
<1> QED
  BY <1>1, <1>2, InvHolds, PTL DEF Spec

-----------------------------------------------------------------------------
(***************************************************************************)
(* The open tables.  The invariant (TablesInv) says what an operation has  *)
(* at each place (OpRight), which ids a name goes with (IdsRight), what    *)
(* the hash and the directory have of a name and what operations rely on   *)
(* of it (NameRight and OpFits, in TablesRight), who is inside through     *)
(* which lock (LocksRight), and who is about to make the lock that an      *)
(* index has not got (MadeRight).  That the bucket is a list is not a      *)
(* matter of type: nodes point to older nodes (HeapTyped), and what is on  *)
(* the way from a node is known from what is on the way from its next.     *)
(***************************************************************************)

\* The bucket, for any nodes: T!Reach is Chase of those that there are.
Pointer == T!Nodes \cup {NULL, Garbage}
NodeType == [name : Name, tid : T!Tables, next : Pointer]

Chase(nd, p) ==
    IF p \notin 1..Len(nd) THEN {}
    ELSE {q \in 1..Len(nd) : \A S \in SUBSET (1..Len(nd)) :
            p \in S /\ (\A r \in S : nd[r].next \in T!Nodes => nd[r].next \in S) => q \in S}

\* A node was made after the one that it points to.
Descends(nd) ==
    /\ nd \in Seq(NodeType) /\ Len(nd) <= MaxNodes
    /\ \A q \in 1..Len(nd) : nd[q].next \in T!Nodes => nd[q].next \in 1..q - 1

\* Reach is Chase.
LEMMA ReachIsChase == \A p : T!Reach(p) = Chase(node, p)
  BY DEF T!Reach, T!Follow, Chase

\* The chain from a node has the node, and with each node its next.
LEMMA ChaseClosed ==
    ASSUME NEW nd, Descends(nd), NEW p
    PROVE  /\ Chase(nd, p) \subseteq 1..Len(nd)
           /\ p \in 1..Len(nd) => p \in Chase(nd, p)
           /\ \A r \in Chase(nd, p) : nd[r].next \in T!Nodes => nd[r].next \in Chase(nd, p)
           /\ p \notin 1..Len(nd) => Chase(nd, p) = {}
<1>0. Len(nd) \in Nat /\ Len(nd) <= MaxNodes /\ MaxNodes \in Nat  BY ServerAssumption DEF Descends
<1>1. Chase(nd, p) \subseteq 1..Len(nd)  BY DEF Chase
<1>2. p \in 1..Len(nd) => p \in Chase(nd, p)  BY <1>0 DEF Chase, T!Nodes
<1>3. ASSUME NEW r \in Chase(nd, p), nd[r].next \in T!Nodes  PROVE nd[r].next \in Chase(nd, p)
  <2>1. r \in 1..Len(nd) /\ p \in 1..Len(nd)  BY <1>3 DEF Chase
  <2>2. nd[r].next \in 1..Len(nd)  BY <2>1, <1>3, <1>0 DEF Descends
  <2>3. ASSUME NEW S \in SUBSET (1..Len(nd)), p \in S, \A q \in S : nd[q].next \in T!Nodes => nd[q].next \in S
        PROVE  nd[r].next \in S
    <3>1. r \in S  BY <1>3, <2>3 DEF Chase
    <3> QED BY <3>1, <2>3, <1>3
  <2> QED BY <2>1, <2>2, <2>3 DEF Chase
<1>4. p \notin 1..Len(nd) => Chase(nd, p) = {}  BY DEF Chase
<1> QED BY <1>1, <1>2, <1>3, <1>4

\* ... and is the least such set.
LEMMA ChaseLeast ==
    ASSUME NEW nd, NEW p, NEW S \in SUBSET (1..Len(nd)), p \in S,
           \A r \in S : nd[r].next \in T!Nodes => nd[r].next \in S
    PROVE  Chase(nd, p) \subseteq S
  BY DEF Chase

\* It goes down.
LEMMA ChaseBelow ==
    ASSUME NEW nd, Descends(nd), NEW p \in 1..Len(nd)
    PROVE  Chase(nd, p) \subseteq 1..p
<1>0. Len(nd) \in Nat /\ 1..p \subseteq 1..Len(nd) /\ p \in 1..p  BY DEF Descends
<1>1. \A r \in 1..p : nd[r].next \in T!Nodes => nd[r].next \in 1..p  BY <1>0 DEF Descends
<1> QED BY <1>0, <1>1, ChaseLeast

\* From the next of a node, the chain has the same nodes but for that one.
LEMMA ChaseNext ==
    ASSUME NEW nd, Descends(nd), NEW p \in 1..Len(nd)
    PROVE  /\ Chase(nd, p) = {p} \cup Chase(nd, nd[p].next)
           /\ p \notin Chase(nd, nd[p].next)
<1>0. Len(nd) \in Nat /\ p \in Chase(nd, p)  BY ChaseClosed DEF Descends
<1>1. CASE nd[p].next \notin T!Nodes
  <2>1. Chase(nd, nd[p].next) = {}
    <3>1. 1..Len(nd) \subseteq T!Nodes  BY <1>0, ServerAssumption DEF Descends, T!Nodes
    <3> QED BY <1>1, <3>1, ChaseClosed
  <2>2. Chase(nd, p) \subseteq {p}
    <3>1. {p} \in SUBSET (1..Len(nd)) /\ p \in {p}
      OBVIOUS
    <3>2. \A r \in {p} : nd[r].next \in T!Nodes => nd[r].next \in {p}
      BY <1>1
    <3> QED BY <3>1, <3>2, ChaseLeast
  <2> QED BY <1>0, <2>1, <2>2
<1>2. CASE nd[p].next \in T!Nodes
  <2> DEFINE n == nd[p].next
  <2>1. n \in 1..Len(nd) /\ n < p  BY <1>2, <1>0 DEF Descends
  <2>2. n \in Chase(nd, p)  BY <1>0, <1>2, ChaseClosed
  <2>3. Chase(nd, n) \subseteq Chase(nd, p)  BY <2>2, ChaseClosed, ChaseLeast
  <2>4. n \in Chase(nd, n)  BY <2>1, ChaseClosed
  <2> DEFINE S == {p} \cup Chase(nd, n)
  <2>5. S \in SUBSET (1..Len(nd)) /\ p \in S  BY ChaseClosed
  <2>6. \A r \in S : nd[r].next \in T!Nodes => nd[r].next \in S  BY <2>4, ChaseClosed
  <2>7. Chase(nd, p) \subseteq S
    <3> HIDE DEF S
    <3> QED BY <2>5, <2>6, ChaseLeast
  <2>8. p \notin Chase(nd, n)
    <3>1. Chase(nd, n) \subseteq 1..n  BY <2>1, ChaseBelow
    <3> QED BY <3>1, <2>1, <1>0
  <2> QED BY <1>0, <2>3, <2>7, <2>8
<1> QED BY <1>1, <1>2

\* Of two nodes of a chain, one is on the chain from the other.
LEMMA ChaseLinear ==
    ASSUME NEW nd, Descends(nd), NEW p, NEW r \in Chase(nd, p), NEW s \in Chase(nd, p)
    PROVE  r \in Chase(nd, s) \/ s \in Chase(nd, r)
<1> DEFINE S == {q \in Chase(nd, p) : s \in Chase(nd, q) \/ q \in Chase(nd, s)}
<1>0. p \in 1..Len(nd)  BY ChaseClosed
<1>1. S \in SUBSET (1..Len(nd)) /\ p \in S  BY <1>0, ChaseClosed
<1>2. ASSUME NEW q \in S, nd[q].next \in T!Nodes  PROVE nd[q].next \in S
  <2>1. nd[q].next \in Chase(nd, p) /\ q \in 1..Len(nd)  BY <1>2, ChaseClosed
  <2>2. CASE q \in Chase(nd, s)
    <3>1. nd[q].next \in Chase(nd, s)  BY <2>2, <1>2, ChaseClosed
    <3> QED BY <2>1, <3>1
  <2>3. CASE s \in Chase(nd, q)
    <3>1. s = q \/ s \in Chase(nd, nd[q].next)  BY <2>1, <2>3, ChaseNext
    <3>2. s = q => nd[q].next \in Chase(nd, s)  BY <2>1, <1>2, ChaseClosed
    <3> QED BY <2>1, <3>1, <3>2
  <2> QED BY <2>2, <2>3
<1>3. Chase(nd, p) \subseteq S
  <2> HIDE DEF S
  <2> QED BY <1>1, <1>2, ChaseLeast
<1> QED BY <1>3

\* A push changes no chain of the nodes that were there.
LEMMA ChasePush ==
    ASSUME NEW nd, Descends(nd), NEW x \in NodeType, Len(nd) < MaxNodes,
           x.next \in T!Nodes => x.next \in 1..Len(nd)
    PROVE  /\ Descends(Append(nd, x))
           /\ \A p : p # Len(nd) + 1 => Chase(Append(nd, x), p) = Chase(nd, p)
<1> DEFINE nx == Append(nd, x)
<1>0. nd \in Seq(NodeType) /\ Len(nd) \in Nat /\ MaxNodes \in Nat  BY ServerAssumption DEF Descends
<1>1. /\ nx \in Seq(NodeType) /\ Len(nx) = Len(nd) + 1
      /\ \A q \in 1..Len(nd) : nx[q] = nd[q]
      /\ nx[Len(nd) + 1] = x
  BY <1>0
<1> HIDE DEF nx
<1>2. Descends(nx)
  <2>1. ASSUME NEW q \in 1..Len(nx), nx[q].next \in T!Nodes  PROVE nx[q].next \in 1..q - 1
    <3>1. CASE q = Len(nd) + 1  BY <3>1, <2>1, <1>0, <1>1
    <3>2. CASE q # Len(nd) + 1
      <4>1. q \in 1..Len(nd)  BY <3>2, <1>0, <1>1
      <4> QED BY <4>1, <2>1, <1>1 DEF Descends
    <3> QED BY <3>1, <3>2
  <2> QED BY <2>1, <1>0, <1>1 DEF Descends
<1>3. ASSUME NEW p, p # Len(nd) + 1  PROVE Chase(nx, p) = Chase(nd, p)
  <2>1. CASE p \notin 1..Len(nd)
    <3>1. p \notin 1..Len(nx)  BY <2>1, <1>0, <1>1, <1>3
    <3> QED BY <2>1, <3>1 DEF Chase
  <2>2. CASE p \in 1..Len(nd)
    <3>1. p \in 1..Len(nx) /\ 1..Len(nd) \subseteq 1..Len(nx)  BY <2>2, <1>0, <1>1
    <3>2. Chase(nx, p) \subseteq Chase(nd, p)
      <4>1. Chase(nd, p) \in SUBSET (1..Len(nx)) /\ p \in Chase(nd, p)  BY <2>2, <3>1, ChaseClosed
      <4>2. \A r \in Chase(nd, p) : nx[r].next \in T!Nodes => nx[r].next \in Chase(nd, p)
        BY <1>1, ChaseClosed
      <4> QED BY <4>1, <4>2, ChaseLeast
    <3>3. Chase(nd, p) \subseteq Chase(nx, p)
      <4>0. p \in Chase(nx, p) /\ Chase(nx, p) \subseteq 1..Len(nd)
        BY <1>2, <3>1, <3>2, ChaseClosed
      <4>1. \A r \in Chase(nx, p) : nd[r].next \in T!Nodes => nd[r].next \in Chase(nx, p)
        BY <4>0, <1>1, <1>2, ChaseClosed
      <4> QED BY <4>0, <4>1, ChaseLeast
    <3> QED BY <3>2, <3>3
  <2> QED BY <2>1, <2>2
<1> QED BY <1>2, <1>3 DEF nx

\* Node m, the next of node k, is unlinked.
Unlinked(nd, k, m) == [nd EXCEPT ![k].next = nd[m].next]

\* What that makes of the nodes.
WithoutLink(nx, nd, k, m) ==
    /\ m < k /\ m \in T!Nodes
    /\ Len(nx) = Len(nd) /\ Descends(nx)
    /\ nx[k] = [name |-> nd[k].name, tid |-> nd[k].tid, next |-> nd[m].next]
    /\ \A q \in 1..Len(nd) :
          (q # k => nx[q] = nd[q]) /\ nx[q].name = nd[q].name /\ nx[q].tid = nd[q].tid

LEMMA UnlinkedNodes ==
    ASSUME NEW nd, Descends(nd), NEW k \in 1..Len(nd), NEW m \in 1..Len(nd), nd[k].next = m
    PROVE  WithoutLink(Unlinked(nd, k, m), nd, k, m)
<1> DEFINE nx == Unlinked(nd, k, m)
<1>0. nd \in Seq(NodeType) /\ Len(nd) \in Nat /\ Len(nd) <= MaxNodes /\ MaxNodes \in Nat
  BY ServerAssumption DEF Descends
<1>1. m \in T!Nodes  BY <1>0 DEF T!Nodes
<1>2. m < k  BY <1>0, <1>1 DEF Descends
<1>3. /\ Len(nx) = Len(nd) /\ DOMAIN nx = 1..Len(nd)
      /\ \A q \in 1..Len(nd) : q # k => nx[q] = nd[q]
      /\ nx[k] = [nd[k] EXCEPT !.next = nd[m].next]
  BY <1>0 DEF Unlinked
<1>4. nd[k] \in NodeType /\ nd[m] \in NodeType  BY <1>0
<1>5. nx[k] = [name |-> nd[k].name, tid |-> nd[k].tid, next |-> nd[m].next] /\ nx[k] \in NodeType
  BY <1>3, <1>4 DEF NodeType
<1>6. nx \in Seq(NodeType)
  <2>1. nx = [q \in 1..Len(nd) |-> IF q = k THEN nx[k] ELSE nd[q]]
    BY <1>0, <1>3 DEF Unlinked
  <2>2. \A q \in 1..Len(nd) : (IF q = k THEN nx[k] ELSE nd[q]) \in NodeType  BY <1>0, <1>5
  <2> HIDE DEF nx
  <2> QED BY <1>0, <2>1, <2>2
<1>7. \A q \in 1..Len(nd) : nx[q].next \in T!Nodes => nx[q].next \in 1..q - 1
  <2> SUFFICES ASSUME NEW q \in 1..Len(nd), nx[q].next \in T!Nodes  PROVE nx[q].next \in 1..q - 1
    OBVIOUS
  <2>1. CASE q = k
    <3>1. nx[q].next = nd[m].next  BY <1>5, <2>1
    <3>2. nx[q].next \in 1..m - 1  BY <3>1 DEF Descends
    <3> QED BY <3>2, <1>0, <1>2, <2>1
  <2>2. CASE q # k
    <3>1. nx[q] = nd[q]  BY <1>3, <2>2
    <3> HIDE DEF nx
    <3> QED BY <3>1 DEF Descends
  <2> QED BY <2>1, <2>2
<1>8. Descends(nx)
  <2> HIDE DEF nx
  <2> QED BY <1>0, <1>3, <1>6, <1>7 DEF Descends
<1>9. \A q \in 1..Len(nd) : nx[q].name = nd[q].name /\ nx[q].tid = nd[q].tid
  <2> HIDE DEF nx
  <2> QED BY <1>3, <1>5
<1> HIDE DEF nx
<1>10. WithoutLink(nx, nd, k, m)  BY <1>1, <1>2, <1>3, <1>5, <1>8, <1>9 DEF WithoutLink
<1> QED BY <1>10 DEF nx

LEMMA UnlinkedSame ==
    ASSUME NEW nd, Descends(nd), NEW k \in 1..Len(nd), NEW m \in 1..Len(nd), nd[k].next = m,
           NEW nx, nx = Unlinked(nd, k, m)
    PROVE  /\ Len(nx) = Len(nd) /\ Descends(nx)
           /\ \A q \in 1..Len(nd) : nx[q].name = nd[q].name /\ nx[q].tid = nd[q].tid
<1>1. WithoutLink(Unlinked(nd, k, m), nd, k, m)  BY UnlinkedNodes
<1>2. WithoutLink(nx, nd, k, m)  BY <1>1
<1> QED BY <1>2 DEF WithoutLink

\* A chain loses at most the node that is unlinked, and loses it if the node
\* before is on the chain.
LEMMA ChasePop ==
    ASSUME NEW nd, Descends(nd), NEW k \in 1..Len(nd), NEW m \in 1..Len(nd), nd[k].next = m, NEW p
    PROVE  /\ Chase(Unlinked(nd, k, m), p) \subseteq Chase(nd, p)
           /\ Chase(nd, p) \ {m} \subseteq Chase(Unlinked(nd, k, m), p)
           /\ k \in Chase(nd, p) /\ p # m => m \notin Chase(Unlinked(nd, k, m), p)
<1> DEFINE nx == Unlinked(nd, k, m)
<1>a. WithoutLink(nx, nd, k, m)  BY UnlinkedNodes
<1> HIDE DEF nx
<1>0. /\ Len(nx) = Len(nd) /\ Descends(nx) /\ m < k /\ m \in T!Nodes
      /\ nx[k].next = nd[m].next
      /\ \A q \in 1..Len(nd) : q # k => nx[q] = nd[q]
  BY <1>a DEF WithoutLink
<1>1. CASE p \notin 1..Len(nd)
  <2>1. Chase(nd, p) = {} /\ Chase(nx, p) = {}  BY <1>0, <1>1, ChaseClosed
  <2> QED BY <2>1 DEF nx
<1>2. CASE p \in 1..Len(nd)
  <2>a. Len(nd) \in Nat /\ p \in 1..Len(nx)  BY <1>0, <1>2 DEF Descends
  <2>0. Len(nd) \in Nat /\ p \in Chase(nd, p) /\ p \in Chase(nx, p)  BY <2>a, <1>0, <1>2, ChaseClosed
  <2>1. Chase(nx, p) \subseteq Chase(nd, p)
    <3>1. ASSUME NEW r \in Chase(nd, p), nx[r].next \in T!Nodes  PROVE nx[r].next \in Chase(nd, p)
      <4>1. r \in 1..Len(nd)  BY ChaseClosed
      <4>2. CASE r = k
        <5>1. m \in Chase(nd, p)  BY <4>2, <1>0, ChaseClosed
        <5> QED BY <5>1, <4>2, <3>1, <1>0, ChaseClosed
      <4>3. CASE r # k  BY <4>1, <4>3, <3>1, <1>0, ChaseClosed
      <4> QED BY <4>2, <4>3
    <3>2. Chase(nd, p) \in SUBSET (1..Len(nx))  BY <1>0, ChaseClosed
    <3> QED BY <3>1, <3>2, <2>0, ChaseLeast
  <2>2. Chase(nd, p) \ {m} \subseteq Chase(nx, p)
    <3>1. CASE k \in Chase(nx, p)
      <4> DEFINE S == Chase(nx, p) \cup {m}
      <4>1. S \in SUBSET (1..Len(nd)) /\ p \in S  BY <1>0, <2>0, ChaseClosed
      <4>2. ASSUME NEW r \in S, nd[r].next \in T!Nodes  PROVE nd[r].next \in S
        <5>1. CASE r = k  BY <5>1
        <5>2. CASE r = m
          <6>1. nd[m].next \in Chase(nx, p)  BY <3>1, <4>2, <5>2, <1>0, ChaseClosed
          <6> QED BY <6>1, <5>2
        <5>3. CASE r # k /\ r # m
          <6>1. r \in Chase(nx, p) /\ nx[r] = nd[r]  BY <4>1, <5>3, <1>0
          <6>2. nd[r].next \in Chase(nx, p)  BY <6>1, <4>2, <1>0, ChaseClosed
          <6> QED BY <6>2
        <5> QED BY <5>1, <5>2, <5>3
      <4>3. Chase(nd, p) \subseteq S
        <5> HIDE DEF S
        <5> QED BY <4>1, <4>2, ChaseLeast
      <4> QED BY <4>3
    <3>2. CASE k \notin Chase(nx, p)
      <4>1. Chase(nx, p) \in SUBSET (1..Len(nd))  BY <1>0, ChaseClosed
      <4>2. \A r \in Chase(nx, p) : nd[r].next \in T!Nodes => nd[r].next \in Chase(nx, p)
        BY <4>1, <3>2, <1>0, ChaseClosed
      <4>3. Chase(nd, p) \subseteq Chase(nx, p)  BY <4>1, <4>2, <2>0, ChaseLeast
      <4> QED BY <4>3
    <3> QED BY <3>1, <3>2
  <2>3. ASSUME k \in Chase(nd, p), p # m  PROVE m \notin Chase(nx, p)
    <3> DEFINE S == Chase(nd, p) \ {m}
    <3>1. S \in SUBSET (1..Len(nx)) /\ p \in S  BY <1>0, <2>0, <2>3, ChaseClosed
    <3>2. ASSUME NEW r \in S, nx[r].next \in T!Nodes  PROVE nx[r].next \in S
      <4>0. r \in 1..Len(nd) /\ r # m  BY ChaseClosed
      <4>1. CASE r = k
        <5>1. m \in Chase(nd, p)  BY <2>3, <1>0, ChaseClosed
        <5>2. nd[m].next \in Chase(nd, p)  BY <5>1, <4>1, <3>2, <1>0, ChaseClosed
        <5>3. nd[m].next < m  BY <4>1, <3>2, <1>0 DEF Descends
        <5> QED BY <5>2, <5>3, <4>1, <1>0
      <4>2. CASE r # k
        <5>1. nx[r] = nd[r]  BY <4>0, <4>2, <1>0
        <5>2. nd[r].next \in Chase(nd, p)  BY <5>1, <3>2, ChaseClosed
        <5>3. ASSUME nd[r].next = m  PROVE FALSE
          <6>1. r \in Chase(nd, k) \/ k \in Chase(nd, r)  BY <2>3, ChaseLinear
          <6>2. r \in Chase(nd, m) \/ k \in Chase(nd, m)  BY <6>1, <4>0, <4>2, <5>3, ChaseNext
          <6>3. Chase(nd, m) \subseteq 1..m  BY ChaseBelow
          <6>4. m < r  BY <4>0, <5>3, <1>0 DEF Descends
          <6> QED BY <6>2, <6>3, <6>4, <1>0, <4>0
        <5> QED BY <5>1, <5>2, <5>3
      <4> QED BY <4>1, <4>2
    <3>3. Chase(nx, p) \subseteq S
      <4> HIDE DEF S
      <4> QED BY <3>1, <3>2, ChaseLeast
    <3> QED BY <3>3
  <2> QED BY <2>1, <2>2, <2>3 DEF nx
<1> QED BY <1>1, <1>2

-----------------------------------------------------------------------------
Pcs == {"none", "head", "walk", "lookup", "push", "makelock", "acquire",
        "inside", "use", "insert", "remove", "drop", "stray", "free", "over"}
Dos == {m.do : m \in Words} \cup {"none"}
OpType == [pc : Pcs, do : Dos, name : Name \cup {NULL}, cur : Pointer, tid : 0..MaxTables, lock : Nat]

\* Types, with the order of the nodes.
HeapTyped ==
    /\ dir \subseteq Name \X T!Tables /\ made \in 0..MaxTables
    /\ Descends(node)
    /\ freed \subseteq 1..Len(node)
    /\ head \in (1..Len(node)) \cup {NULL, Garbage}
    /\ inside \in Seq(Int) /\ tmp \in [T!Tables -> 0..Len(inside)]
    /\ op \in [Worker -> OpType]

\* What operations are where.
OpRight(w) ==
    /\ op[w].cur \in (1..Len(node)) \cup {NULL, Garbage}
    /\ op[w].pc = "none" => op[w].do = "none" /\ op[w].tid = 0
    /\ op[w].pc # "none" => op[w].name \in Name
    /\ op[w].pc = "free" => op[w].cur \in 1..Len(node)
    /\ op[w].pc \in {"push", "makelock", "acquire", "inside"} => op[w].tid \in T!Tables
    /\ op[w].pc \in {"makelock", "acquire", "inside"} => op[w].do \in T!OfIndex
    /\ op[w].pc \in {"remove", "drop", "stray", "free"} => op[w].do = "tdelete"
    /\ op[w].do = "tdelete" => op[w].pc \in {"remove", "head", "walk", "drop", "stray", "free", "over"}
OpsRight == \A w \in Worker : OpRight(w)

\* Worker w is where the arguments say, and the others are where they were.
Now(w, pc, do, name, cur, tid, lock) ==
    /\ op' \in [Worker -> OpType]
    /\ op'[w].pc = pc /\ op'[w].do = do /\ op'[w].name = name
    /\ op'[w].cur = cur /\ op'[w].tid = tid /\ op'[w].lock = lock
    /\ \A u \in Worker \ {w} : op'[u] = op[u]
Goes(w, pc, cur, tid, lock) == Now(w, pc, op[w].do, op[w].name, cur, tid, lock)

LEMMA FieldsTyped ==
    ASSUME HeapTyped, NEW w \in Worker
    PROVE  /\ op[w] \in OpType /\ op[w].pc \in Pcs /\ op[w].do \in Dos /\ op[w].name \in Name \cup {NULL}
           /\ op[w].cur \in Pointer /\ op[w].tid \in 0..MaxTables /\ op[w].lock \in Nat
  BY DEF HeapTyped, OpType

LEMMA GoesPc ==
    ASSUME HeapTyped, NEW w \in Worker, NEW pc \in Pcs, op' = [op EXCEPT ![w].pc = pc]
    PROVE  Goes(w, pc, op[w].cur, op[w].tid, op[w].lock)
<1>1. op \in [Worker -> OpType]  BY DEF HeapTyped
<1>2. op[w] \in OpType  BY <1>1
<1>3. [op[w] EXCEPT !.pc = pc] \in OpType  BY <1>2 DEF OpType
<1>4. op' = [op EXCEPT ![w] = [op[w] EXCEPT !.pc = pc]]  OBVIOUS
<1>5. op'[w] = [op[w] EXCEPT !.pc = pc] /\ \A u \in Worker \ {w} : op'[u] = op[u]  BY <1>1, <1>4
<1>6. op' \in [Worker -> OpType]  BY <1>1, <1>3, <1>4
<1> QED BY <1>2, <1>5, <1>6 DEF Goes, Now, OpType

LEMMA GoesCur ==
    ASSUME HeapTyped, NEW w \in Worker, NEW pc \in Pcs, NEW cur \in Pointer,
           op' = [op EXCEPT ![w].pc = pc, ![w].cur = cur]
    PROVE  Goes(w, pc, cur, op[w].tid, op[w].lock)
<1>1. op \in [Worker -> OpType]  BY DEF HeapTyped
<1>2. op[w] \in OpType  BY <1>1
<1>3. [op[w] EXCEPT !.pc = pc, !.cur = cur] \in OpType  BY <1>2 DEF OpType
<1>4. op' = [op EXCEPT ![w] = [op[w] EXCEPT !.pc = pc, !.cur = cur]]  BY <1>1
<1>5. op'[w] = [op[w] EXCEPT !.pc = pc, !.cur = cur] /\ \A u \in Worker \ {w} : op'[u] = op[u]  BY <1>1, <1>4
<1>6. op' \in [Worker -> OpType]  BY <1>1, <1>3, <1>4
<1> QED BY <1>2, <1>5, <1>6 DEF Goes, Now, OpType

LEMMA GoesTid ==
    ASSUME HeapTyped, NEW w \in Worker, NEW pc \in Pcs, NEW tid \in 0..MaxTables,
           op' = [op EXCEPT ![w].pc = pc, ![w].tid = tid]
    PROVE  Goes(w, pc, op[w].cur, tid, op[w].lock)
<1>1. op \in [Worker -> OpType]  BY DEF HeapTyped
<1>2. op[w] \in OpType  BY <1>1
<1>3. [op[w] EXCEPT !.pc = pc, !.tid = tid] \in OpType  BY <1>2 DEF OpType
<1>4. op' = [op EXCEPT ![w] = [op[w] EXCEPT !.pc = pc, !.tid = tid]]  BY <1>1
<1>5. op'[w] = [op[w] EXCEPT !.pc = pc, !.tid = tid] /\ \A u \in Worker \ {w} : op'[u] = op[u]  BY <1>1, <1>4
<1>6. op' \in [Worker -> OpType]  BY <1>1, <1>3, <1>4
<1> QED BY <1>2, <1>5, <1>6 DEF Goes, Now, OpType

LEMMA GoesLock ==
    ASSUME HeapTyped, NEW w \in Worker, NEW pc \in Pcs, NEW lock \in Nat,
           op' = [op EXCEPT ![w].pc = pc, ![w].lock = lock]
    PROVE  Goes(w, pc, op[w].cur, op[w].tid, lock)
<1>1. op \in [Worker -> OpType]  BY DEF HeapTyped
<1>2. op[w] \in OpType  BY <1>1
<1>3. [op[w] EXCEPT !.pc = pc, !.lock = lock] \in OpType  BY <1>2 DEF OpType
<1>4. op' = [op EXCEPT ![w] = [op[w] EXCEPT !.pc = pc, !.lock = lock]]  BY <1>1
<1>5. op'[w] = [op[w] EXCEPT !.pc = pc, !.lock = lock] /\ \A u \in Worker \ {w} : op'[u] = op[u]  BY <1>1, <1>4
<1>6. op' \in [Worker -> OpType]  BY <1>1, <1>3, <1>4
<1> QED BY <1>2, <1>5, <1>6 DEF Goes, Now, OpType

-----------------------------------------------------------------------------
(* What the steps of a worker come to *)

LEMMA ReadHeadGoes ==
    ASSUME HeapTyped, NEW w \in Worker, T!ReadHead(w)
    PROVE  Goes(w, "walk", head, op[w].tid, op[w].lock)
<1>1. head \in Pointer  BY ServerAssumption DEF HeapTyped, Pointer, T!Nodes, Descends
<1>2. "walk" \in Pcs  BY DEF Pcs
<1> QED BY <1>1, <1>2, GoesCur DEF T!ReadHead

LEMMA FirstIn ==
    ASSUME HeapTyped, NEW p, NEW n
    PROVE  \A q \in T!First(p, n) : /\ q \in Chase(node, p) /\ q \in 1..Len(node) /\ q \in T!Nodes
                                    /\ node[q].name = n /\ node[q].tid \in T!Tables /\ node[q].next \in Pointer
<1>1. node \in Seq(NodeType) /\ Len(node) \in Nat /\ Len(node) <= MaxNodes /\ MaxNodes \in Nat
  BY ServerAssumption DEF HeapTyped, Descends
<1> SUFFICES ASSUME NEW q \in T!First(p, n)
             PROVE  /\ q \in Chase(node, p) /\ q \in 1..Len(node) /\ q \in T!Nodes
                    /\ node[q].name = n /\ node[q].tid \in T!Tables /\ node[q].next \in Pointer
  OBVIOUS
<1>2. q \in Chase(node, p) /\ node[q].name = n  BY ReachIsChase DEF T!First, T!Named, T!Seen
<1>3. q \in 1..Len(node)  BY <1>2, ChaseClosed DEF HeapTyped
<1>4. node[q] \in NodeType /\ q \in T!Nodes  BY <1>1, <1>3 DEF T!Nodes
<1> QED BY <1>2, <1>3, <1>4 DEF NodeType

LEMMA SearchGoes ==
    ASSUME HeapTyped, NEW w \in Worker, T!djb2_search(w)
    PROVE  /\ op[w].pc = "walk" /\ ~T!Popping(w)
           /\ \/ /\ op[w].do = "tdelete"
                 /\ \E pc \in {"drop", "stray"} : Goes(w, pc, op[w].cur, op[w].tid, op[w].lock)
              \/ /\ op[w].do # "tdelete" /\ T!First(op[w].cur, op[w].name) = {}
                 /\ Goes(w, "lookup", op[w].cur, op[w].tid, op[w].lock)
              \/ /\ op[w].do # "tdelete"
                 /\ \E q \in T!First(op[w].cur, op[w].name) :
                       Goes(w, IF op[w].do \in T!OfIndex THEN "acquire" ELSE "use",
                            op[w].cur, node[q].tid, op[w].lock)
<1>0. {"drop", "stray", "lookup", "acquire", "use"} \subseteq Pcs  BY DEF Pcs
<1>1. CASE op[w].do = "tdelete" /\ T!Goto(w, IF T!IsOwn(w) THEN "drop" ELSE "stray")
  <2> DEFINE pc == IF T!IsOwn(w) THEN "drop" ELSE "stray"
  <2>1. pc \in {"drop", "stray"} /\ pc \in Pcs  BY <1>0
  <2>2. op' = [op EXCEPT ![w].pc = pc]  BY <1>1 DEF T!Goto
  <2> HIDE DEF pc
  <2>3. Goes(w, pc, op[w].cur, op[w].tid, op[w].lock)  BY <2>1, <2>2, GoesPc
  <2> QED BY <2>1, <2>3, <1>1 DEF T!djb2_search, T!TAt
<1>2. CASE op[w].do # "tdelete" /\ T!First(op[w].cur, op[w].name) = {} /\ T!Goto(w, "lookup")
  <2>1. Goes(w, "lookup", op[w].cur, op[w].tid, op[w].lock)  BY <1>0, <1>2, GoesPc DEF T!Goto
  <2> QED BY <2>1, <1>2 DEF T!djb2_search, T!TAt
<1>3. CASE op[w].do # "tdelete" /\ \E q \in T!First(op[w].cur, op[w].name) :
              op' = [op EXCEPT ![w].pc = IF op[w].do \in T!OfIndex THEN "acquire" ELSE "use",
                               ![w].tid = node[q].tid]
  <2>1. PICK q \in T!First(op[w].cur, op[w].name) :
              op' = [op EXCEPT ![w].pc = IF op[w].do \in T!OfIndex THEN "acquire" ELSE "use",
                               ![w].tid = node[q].tid]
    BY <1>3
  <2>2. node[q].tid \in 0..MaxTables  BY ServerAssumption, FirstIn DEF T!Tables
  <2>3. Goes(w, IF op[w].do \in T!OfIndex THEN "acquire" ELSE "use", op[w].cur, node[q].tid, op[w].lock)
    <3> DEFINE pc == IF op[w].do \in T!OfIndex THEN "acquire" ELSE "use"
    <3>1. pc \in Pcs  BY <1>0
    <3>2. op' = [op EXCEPT ![w].pc = pc, ![w].tid = node[q].tid]  BY <2>1
    <3> HIDE DEF pc
    <3>3. Goes(w, pc, op[w].cur, node[q].tid, op[w].lock)  BY <3>1, <3>2, <2>2, GoesTid
    <3> QED BY <3>3 DEF pc
  <2> QED BY <2>3, <1>3 DEF T!djb2_search, T!TAt
<1> QED BY <1>1, <1>2, <1>3 DEF T!djb2_search

\* Where a push leads.
Pushed(w) == IF op[w].do \in T!OfIndex THEN "makelock" ELSE IF op[w].do = "tcreate" THEN "over" ELSE "use"

LEMMA PushGoes ==
    ASSUME HeapTyped, NEW w \in Worker, NEW next, T!djb2_push(w, next)
    PROVE  Goes(w, Pushed(w), op[w].cur, op[w].tid, op[w].lock)
<1>1. Pushed(w) \in Pcs  BY DEF Pushed, Pcs
<1>2. op' = [op EXCEPT ![w].pc = Pushed(w)]  BY DEF T!djb2_push, T!Goto, Pushed
<1> QED BY <1>1, <1>2, GoesPc

\* A pop finds nothing, the head, or a node further on.
PopsNothing(w) ==
    /\ T!First(op[w].cur, op[w].name) = {}
    /\ Goes(w, "over", op[w].cur, op[w].tid, op[w].lock)
    /\ T!Touch(w) /\ UNCHANGED <<node, head>>
PopsHead(w, q) ==
    /\ q = head /\ head' = node[q].next /\ UNCHANGED node
    /\ Goes(w, "free", q, op[w].tid, op[w].lock)
    /\ T!Touch(w)
PopsNext(w, q, prev) ==
    /\ q # head /\ node[prev].next = q
    /\ node' = Unlinked(node, prev, q) /\ UNCHANGED head
    /\ Goes(w, "free", q, op[w].tid, op[w].lock)
    /\ IF prev \in Chase(node, head) THEN T!Touch(w) ELSE crossed' = crossed \cup {op[w].name}

LEMMA PopGoes ==
    ASSUME HeapTyped, NEW w \in Worker, T!djb2_pop(w)
    PROVE  /\ op[w].pc = "walk" /\ T!Popping(w) /\ UNCHANGED <<dir, made, freed, tmp, inside, asTable, broken>>
           /\ \/ PopsNothing(w)
              \/ \E q \in T!First(op[w].cur, op[w].name) : PopsHead(w, q)
              \/ \E q \in T!First(op[w].cur, op[w].name), prev \in Chase(node, op[w].cur) : PopsNext(w, q, prev)
<1>0. "over" \in Pcs /\ "free" \in Pcs  BY DEF Pcs
<1>1. op[w].pc = "walk" /\ T!Popping(w) /\ UNCHANGED <<dir, made, freed, tmp, inside, asTable, broken>>
  BY DEF T!djb2_pop, T!TAt
<1>2. CASE T!First(op[w].cur, op[w].name) = {} /\ T!Goto(w, "over") /\ T!Touch(w) /\ UNCHANGED <<node, head>>
  <2>1. Goes(w, "over", op[w].cur, op[w].tid, op[w].lock)  BY <1>0, <1>2, GoesPc DEF T!Goto
  <2> QED BY <2>1, <1>1, <1>2 DEF PopsNothing
<1>3. ASSUME NEW q \in T!First(op[w].cur, op[w].name), op' = [op EXCEPT ![w].pc = "free", ![w].cur = q]
      PROVE  Goes(w, "free", q, op[w].tid, op[w].lock)
  <2>1. q \in Pointer  BY FirstIn DEF Pointer
  <2> QED BY <2>1, <1>0, <1>3, GoesCur
<1>4. ASSUME NEW q \in T!First(op[w].cur, op[w].name),
             q = head, head' = node[q].next, op' = [op EXCEPT ![w].pc = "free", ![w].cur = q], T!Touch(w),
             UNCHANGED node
      PROVE  PopsHead(w, q)
  BY <1>3, <1>4 DEF PopsHead
<1>5. ASSUME NEW q \in T!First(op[w].cur, op[w].name), NEW prev \in T!Reach(op[w].cur),
             q # head, node[prev].next = q, node' = [node EXCEPT ![prev].next = node[q].next],
             op' = [op EXCEPT ![w].pc = "free", ![w].cur = q],
             IF prev \in T!Reach(head) THEN T!Touch(w) ELSE crossed' = crossed \cup {op[w].name},
             UNCHANGED head
      PROVE  prev \in Chase(node, op[w].cur) /\ PopsNext(w, q, prev)
  BY <1>3, <1>5, ReachIsChase DEF PopsNext, Unlinked
<1> QED BY <1>1, <1>2, <1>4, <1>5 DEF T!djb2_pop

LEMMA FreeGoes ==
    ASSUME HeapTyped, NEW w \in Worker, T!Free(w)
    PROVE  Goes(w, "over", op[w].cur, op[w].tid, op[w].lock)
  BY GoesPc DEF T!Free, T!Goto, Pcs

LEMMA TidOfEntry ==
    ASSUME HeapTyped, NEW e \in dir
    PROVE  e[1] \in Name /\ e[2] \in T!Tables /\ e[2] \in 0..MaxTables /\ e = <<e[1], e[2]>>
  BY ServerAssumption DEF HeapTyped, T!Tables

LEMMA LookupGoes ==
    ASSUME HeapTyped, NEW w \in Worker, T!Lookup(w)
    PROVE  \E e \in dir : e[1] = op[w].name /\ Goes(w, "push", op[w].cur, e[2], op[w].lock)
<1>1. PICK e \in dir : e[1] = op[w].name /\ op' = [op EXCEPT ![w].pc = "push", ![w].tid = e[2]]
  BY DEF T!Lookup
<1>2. e[2] \in 0..MaxTables /\ "push" \in Pcs  BY TidOfEntry DEF Pcs
<1> QED BY <1>1, <1>2, GoesTid

LEMMA UnknownGoes ==
    ASSUME HeapTyped, NEW w \in Worker, T!Unknown(w)
    PROVE  \/ op' = op /\ broken' = "no table"
           \/ Goes(w, "over", op[w].cur, op[w].tid, op[w].lock) /\ broken' = broken
  BY GoesPc DEF T!Unknown, T!Goto, Pcs

LEMMA MakeLockGoes ==
    ASSUME HeapTyped, NEW w \in Worker, T!MakeLock(w)
    PROVE  Goes(w, IF op[w].do = "icreate" THEN "over" ELSE "acquire", op[w].cur, op[w].tid, op[w].lock)
<1> DEFINE pc == IF op[w].do = "icreate" THEN "over" ELSE "acquire"
<1>1. pc \in Pcs  BY DEF Pcs
<1>2. op' = [op EXCEPT ![w].pc = pc]  BY DEF T!MakeLock, T!Goto
<1> HIDE DEF pc
<1>3. Goes(w, pc, op[w].cur, op[w].tid, op[w].lock)  BY <1>1, <1>2, GoesPc
<1> QED BY <1>3 DEF pc

LEMMA AcquireGoes ==
    ASSUME HeapTyped, OpsRight, NEW w \in Worker, T!Acquire(w)
    PROVE  \/ tmp[op[w].tid] = 0 /\ broken' = "no lock" /\ UNCHANGED <<inside, op>>
           \/ /\ tmp[op[w].tid] \in 1..Len(inside) /\ UNCHANGED broken
              /\ inside' = [inside EXCEPT ![tmp[op[w].tid]] = @ + 1]
              /\ Goes(w, "inside", op[w].cur, op[w].tid, tmp[op[w].tid])
<1>1. CASE tmp[op[w].tid] = 0  BY <1>1 DEF T!Acquire
<1>2. CASE tmp[op[w].tid] # 0
  <2>1. op[w].tid \in T!Tables  BY DEF T!Acquire, T!TAt, OpsRight, OpRight
  <2>2. tmp[op[w].tid] \in 1..Len(inside) /\ tmp[op[w].tid] \in Nat  BY <1>2, <2>1 DEF HeapTyped
  <2>3. /\ inside' = [inside EXCEPT ![tmp[op[w].tid]] = @ + 1]
        /\ op' = [op EXCEPT ![w].pc = "inside", ![w].lock = tmp[op[w].tid]]
        /\ UNCHANGED broken
    BY <1>2 DEF T!Acquire
  <2>4. "inside" \in Pcs  BY DEF Pcs
  <2>5. Goes(w, "inside", op[w].cur, op[w].tid, tmp[op[w].tid])  BY <2>2, <2>3, <2>4, GoesLock
  <2> QED BY <2>2, <2>3, <2>5
<1> QED BY <1>1, <1>2

LEMMA LeaveGoes ==
    ASSUME HeapTyped, NEW w \in Worker, T!Leave(w)
    PROVE  Goes(w, "over", op[w].cur, op[w].tid, op[w].lock)
  BY GoesPc DEF T!Leave, T!Goto, Pcs

LEMMA UseGoes ==
    ASSUME HeapTyped, NEW w \in Worker, T!Use(w)
    PROVE  Goes(w, "over", op[w].cur, op[w].tid, op[w].lock)
  BY GoesPc DEF T!Use, T!Goto, Pcs

LEMMA InsertGoes ==
    ASSUME HeapTyped, NEW w \in Worker, T!InsertTable(w)
    PROVE  /\ made' = made + 1 /\ made' \in T!Tables
           /\ dir' = dir \cup {<<op[w].name, made + 1>>}
           /\ Goes(w, "push", op[w].cur, made + 1, op[w].lock)
<1>1. /\ made < MaxTables /\ made' = made + 1 /\ dir' = dir \cup {<<op[w].name, made + 1>>}
      /\ op' = [op EXCEPT ![w].pc = "push", ![w].tid = made + 1]
  BY DEF T!InsertTable
<1>2. made + 1 \in 0..MaxTables /\ made + 1 \in T!Tables  BY <1>1, ServerAssumption DEF HeapTyped, T!Tables
<1>3. "push" \in Pcs  BY DEF Pcs
<1>4. Goes(w, "push", op[w].cur, made + 1, op[w].lock)  BY <1>1, <1>2, <1>3, GoesTid
<1> QED BY <1>1, <1>2, <1>4

LEMMA RemoveGoes ==
    ASSUME HeapTyped, NEW w \in Worker, T!RemoveTable(w)
    PROVE  \/ \E e \in dir : /\ e[1] = op[w].name /\ dir' = dir \ {e}
                             /\ Goes(w, "head", op[w].cur, e[2], op[w].lock)
           \/ /\ \A e \in dir : e[1] # op[w].name
              /\ Goes(w, "over", op[w].cur, op[w].tid, op[w].lock) /\ UNCHANGED dir
<1>0. "head" \in Pcs /\ "over" \in Pcs  BY DEF Pcs
<1>1. CASE \E e \in dir : e[1] = op[w].name
  <2>1. PICK e \in dir : /\ e[1] = op[w].name /\ dir' = dir \ {e}
                         /\ op' = [op EXCEPT ![w].pc = "head", ![w].tid = e[2]]
    BY <1>1 DEF T!RemoveTable
  <2>2. e[2] \in 0..MaxTables  BY TidOfEntry
  <2>3. Goes(w, "head", op[w].cur, e[2], op[w].lock)  BY <2>1, <2>2, <1>0, GoesTid
  <2> QED BY <2>1, <2>3
<1>2. CASE \A e \in dir : e[1] # op[w].name
  <2>1. op' = [op EXCEPT ![w].pc = "over"] /\ UNCHANGED dir  BY <1>2 DEF T!RemoveTable, T!Goto
  <2> QED BY <2>1, <1>2, <1>0, GoesPc
<1> QED BY <1>1, <1>2

LEMMA DropGoes ==
    ASSUME HeapTyped, NEW w \in Worker, T!Drop(w)
    PROVE  Goes(w, "head", op[w].cur, 0, op[w].lock)
<1>1. 0 \in 0..MaxTables /\ "head" \in Pcs  BY ServerAssumption DEF Pcs
<1> QED BY <1>1, GoesTid DEF T!Drop

\* Where an operation begins.
Begins(do, n) ==
    CASE do = "tdelete" -> "remove"
      [] do \in T!Creates -> IF \E e \in dir : e[1] = n THEN "over" ELSE "insert"
      [] OTHER -> "head"

LEMMA BegunOp ==
    ASSUME NEW do, NEW n, NEW pc
    PROVE  [T!NoOp EXCEPT !.do = do, !.name = n, !.pc = pc]
           = [pc |-> pc, do |-> do, name |-> n, cur |-> NULL, tid |-> 0, lock |-> 0]
<1>1. T!NoOp = [pc |-> "none", do |-> "none", name |-> NULL, cur |-> NULL, tid |-> 0, lock |-> 0]
  BY DEF T!NoOp
<1>2. PICK r : r = [T!NoOp EXCEPT !.do = do]  OBVIOUS
<1>3. r = [pc |-> "none", do |-> do, name |-> NULL, cur |-> NULL, tid |-> 0, lock |-> 0]  BY <1>1, <1>2
<1>4. PICK s : s = [r EXCEPT !.name = n]  OBVIOUS
<1>5. s = [pc |-> "none", do |-> do, name |-> n, cur |-> NULL, tid |-> 0, lock |-> 0]  BY <1>3, <1>4
<1>6. [s EXCEPT !.pc = pc] = [pc |-> pc, do |-> do, name |-> n, cur |-> NULL, tid |-> 0, lock |-> 0]  BY <1>5
<1>7. [T!NoOp EXCEPT !.do = do, !.name = n, !.pc = pc] = [s EXCEPT !.pc = pc]  BY <1>2, <1>4
<1> QED BY <1>6, <1>7

LEMMA BeginGoes ==
    ASSUME HeapTyped, NEW w \in Worker, NEW do \in Dos, NEW n \in Name, T!TableOp(w, do, n)
    PROVE  Now(w, Begins(do, n), do, n, NULL, 0, 0)
<1> DEFINE r == [pc |-> Begins(do, n), do |-> do, name |-> n, cur |-> NULL, tid |-> 0, lock |-> 0]
<1>1. Begins(do, n) \in Pcs  BY DEF Begins, Pcs, T!Creates
<1>2. r \in OpType
  <2>1. 0 \in 0..MaxTables /\ 0 \in Nat /\ NULL \in Pointer  BY ServerAssumption DEF Pointer
  <2> QED BY <1>1, <2>1 DEF OpType
<1>3. [T!NoOp EXCEPT !.do = do, !.name = n, !.pc = Begins(do, n)] = r  BY BegunOp
<1>4. op' = [op EXCEPT ![w] = [T!NoOp EXCEPT !.do = do, !.name = n, !.pc = Begins(do, n)]]
  BY DEF T!TableOp, Begins
<1>5. op \in [Worker -> OpType]  BY DEF HeapTyped
<1>6. op' = [op EXCEPT ![w] = r]  BY <1>3, <1>4
<1>7. op' \in [Worker -> OpType] /\ op'[w] = r /\ \A u \in Worker \ {w} : op'[u] = op[u]
  <2> HIDE DEF r
  <2> QED BY <1>2, <1>5, <1>6
<1> QED BY <1>7 DEF Now

LEMMA EndGoes ==
    ASSUME HeapTyped, NEW w \in Worker, T!TableOpEnds(w)
    PROVE  Now(w, "none", "none", NULL, NULL, 0, 0)
<1>1. op' = [op EXCEPT ![w] = T!NoOp]  BY DEF T!TableOpEnds
<1>2. T!NoOp \in OpType  BY ServerAssumption DEF OpType, Pointer, T!NoOp, Pcs, Dos
<1>3. op \in [Worker -> OpType]  BY DEF HeapTyped
<1>4. op' \in [Worker -> OpType] /\ op'[w] = T!NoOp /\ \A u \in Worker \ {w} : op'[u] = op[u]
  BY <1>1, <1>2, <1>3
<1> QED BY <1>4 DEF Now, T!NoOp

-----------------------------------------------------------------------------
(* Types *)

\* What a worker does to tables: a step, or the beginning or the end of an operation.
TableAction(w) ==
    \/ T!TableStep(w) \/ T!TableOpEnds(w)
    \/ \E do \in Dos, n \in Name : T!TableOp(w, do, n)

LEMMA OpsKept ==
    ASSUME OpsRight, NEW w \in Worker, \A u \in Worker \ {w} : op'[u] = op[u],
           1..Len(node) \subseteq 1..Len(node'), OpRight(w)'
    PROVE  OpsRight'
<1>1. ASSUME NEW u \in Worker \ {w}  PROVE OpRight(u)'
  <2>1. op'[u] = op[u] /\ OpRight(u)  BY DEF OpsRight
  <2> QED BY <2>1 DEF OpRight
<1> QED BY <1>1 DEF OpsRight

\* A step that changes the operation alone, and one that changes nothing.
LEMMA OnlyOp ==
    ASSUME HeapTyped, OpsRight, NEW w \in Worker, NEW pc, NEW do, NEW name, NEW cur, NEW tid, NEW lock,
           Now(w, pc, do, name, cur, tid, lock), OpRight(w)',
           UNCHANGED <<dir, made, node, freed, head, tmp, inside>>
    PROVE  HeapTyped' /\ OpsRight'
<1>1. HeapTyped'  BY DEF HeapTyped, Now
<1>2. OpsRight'  BY OpsKept DEF Now
<1> QED BY <1>1, <1>2

LEMMA OnlyBroken ==
    ASSUME HeapTyped, OpsRight, UNCHANGED <<dir, made, node, freed, head, tmp, inside, op>>
    PROVE  HeapTyped' /\ OpsRight'
  BY DEF HeapTyped, OpsRight, OpRight

LEMMA StepTyped1 ==
    ASSUME HeapTyped, OpsRight, NEW w \in Worker,
           \/ T!ReadHead(w) \/ T!WalkFails(w) \/ T!djb2_search(w) \/ T!PushFails(w) \/ T!PopFails(w)
           \/ T!DropAstray(w) \/ T!Lookup(w) \/ T!Unknown(w)
    PROVE  HeapTyped' /\ OpsRight'
<1>0. OpRight(w)  BY DEF OpsRight
<1>1. CASE T!ReadHead(w)
  <2>1. Goes(w, "walk", head, op[w].tid, op[w].lock)  BY <1>1, ReadHeadGoes
  <2>2. UNCHANGED <<dir, made, node, freed, head, tmp, inside>> /\ op[w].pc = "head"
    BY <1>1 DEF T!ReadHead, T!TAt
  <2>3. OpRight(w)'  BY <1>0, <2>1, <2>2 DEF OpRight, Goes, Now, HeapTyped
  <2> QED BY <2>1, <2>2, <2>3, OnlyOp DEF Goes
<1>2. CASE T!WalkFails(w) \/ T!PushFails(w) \/ T!PopFails(w) \/ T!DropAstray(w)
  <2>1. UNCHANGED <<dir, made, node, freed, head, tmp, inside, op>>
    BY <1>2 DEF T!WalkFails, T!PushFails, T!PopFails, T!DropAstray, T!Breaks
  <2> QED BY <2>1, OnlyBroken
<1>3. CASE T!djb2_search(w)
  <2>1. UNCHANGED <<dir, made, node, freed, head, tmp, inside>>  BY <1>3 DEF T!djb2_search
  <2>2. op[w].pc = "walk"  BY <1>3, SearchGoes
  <2>3. ASSUME op[w].do = "tdelete", NEW pc \in {"drop", "stray"}, Goes(w, pc, op[w].cur, op[w].tid, op[w].lock)
        PROVE  HeapTyped' /\ OpsRight'
    <3>1. OpRight(w)'  BY <1>0, <2>1, <2>2, <2>3 DEF OpRight, Goes, Now
    <3> QED BY <2>3, <2>1, <3>1, OnlyOp DEF Goes
  <2>4. CASE op[w].do # "tdelete" /\ Goes(w, "lookup", op[w].cur, op[w].tid, op[w].lock)
    <3>1. OpRight(w)'  BY <1>0, <2>1, <2>2, <2>4 DEF OpRight, Goes, Now
    <3> QED BY <2>4, <2>1, <3>1, OnlyOp DEF Goes
  <2>5. ASSUME op[w].do # "tdelete", NEW q \in T!First(op[w].cur, op[w].name),
               Goes(w, IF op[w].do \in T!OfIndex THEN "acquire" ELSE "use", op[w].cur, node[q].tid, op[w].lock)
        PROVE  HeapTyped' /\ OpsRight'
    <3>1. node[q].tid \in T!Tables  BY FirstIn
    <3>2. OpRight(w)'  BY <1>0, <2>1, <2>2, <2>5, <3>1 DEF OpRight, Goes, Now
    <3> QED BY <2>5, <2>1, <3>2, OnlyOp DEF Goes
  <2> QED BY <1>3, <2>3, <2>4, <2>5, SearchGoes
<1>4. CASE T!Lookup(w)
  <2>1. PICK e \in dir : e[1] = op[w].name /\ Goes(w, "push", op[w].cur, e[2], op[w].lock)  BY <1>4, LookupGoes
  <2>2. UNCHANGED <<dir, made, node, freed, head, tmp, inside>> /\ op[w].pc = "lookup"
    BY <1>4 DEF T!Lookup, T!TAt
  <2>3. e[2] \in T!Tables  BY TidOfEntry
  <2>4. OpRight(w)'  BY <1>0, <2>1, <2>2, <2>3 DEF OpRight, Goes, Now
  <2> QED BY <2>1, <2>2, <2>4, OnlyOp DEF Goes
<1>5. CASE T!Unknown(w)
  <2>1. UNCHANGED <<dir, made, node, freed, head, tmp, inside>> /\ op[w].pc = "lookup"
    BY <1>5 DEF T!Unknown, T!TAt
  <2>2. CASE op' = op  BY <2>1, <2>2, OnlyBroken
  <2>3. CASE Goes(w, "over", op[w].cur, op[w].tid, op[w].lock)
    <3>1. OpRight(w)'  BY <1>0, <2>1, <2>3 DEF OpRight, Goes, Now
    <3> QED BY <2>3, <2>1, <3>1, OnlyOp DEF Goes
  <2> QED BY <1>5, <2>2, <2>3, UnknownGoes
<1> QED BY <1>1, <1>2, <1>3, <1>4, <1>5

\* What a push does to the bucket.
Adds(w, next) ==
    /\ node' = Append(node, [name |-> op[w].name, tid |-> op[w].tid, next |-> next])
    /\ head' = Len(node) + 1

LEMMA PushEffect ==
    ASSUME HeapTyped, OpsRight, NEW w \in Worker, NEW next, T!djb2_push(w, next)
    PROVE  /\ op[w].pc = "push" /\ op[w].name \in Name /\ op[w].tid \in T!Tables /\ op[w].do # "tdelete"
           /\ head # Garbage /\ broken = "none"
           /\ [name |-> op[w].name, tid |-> op[w].tid, next |-> next] \in NodeType
           /\ next \in T!Nodes => next \in 1..Len(node)
           /\ head = NULL => next \in {NULL, Garbage}
           /\ head # NULL => next = head
           /\ Len(node) < MaxNodes
           /\ \/ head \in 1..Len(node) /\ node[head].name = op[w].name /\ UNCHANGED <<node, head>>
              \/ (head = NULL \/ node[head].name # op[w].name) /\ Adds(w, next)
           /\ UNCHANGED <<dir, made, freed, tmp, inside, broken>>
           /\ T!Touch(w)
           /\ asTable' = IF op[w].do \in T!OfIndex THEN asTable ELSE asTable \cup {op[w].name}
<1>0. /\ node \in Seq(NodeType) /\ Len(node) \in Nat /\ Len(node) <= MaxNodes /\ MaxNodes \in Nat
      /\ head \in 1..Len(node) \cup {NULL, Garbage} /\ NULL # Garbage
  BY ServerAssumption DEF HeapTyped, Descends
<1>1. /\ op[w].pc = "push" /\ head # Garbage /\ broken = "none" /\ Len(node) < MaxNodes
      /\ next \in (IF head = NULL THEN {NULL, Garbage} ELSE {head})
      /\ UNCHANGED <<dir, made, freed, tmp, inside, broken>> /\ T!Touch(w)
      /\ asTable' = IF op[w].do \in T!OfIndex THEN asTable ELSE asTable \cup {op[w].name}
  BY DEF T!djb2_push, T!TAt
<1>2. OpRight(w)  BY DEF OpsRight
<1>3. op[w].name \in Name /\ op[w].tid \in T!Tables /\ op[w].do # "tdelete"  BY <1>1, <1>2 DEF OpRight
<1>4. (head = NULL => next \in {NULL, Garbage}) /\ (head # NULL => next = head)  BY <1>1
<1>5. next \in Pointer /\ (next \in T!Nodes => next \in 1..Len(node))
  BY <1>0, <1>1, <1>4, ServerAssumption DEF Pointer, T!Nodes
<1>6. [name |-> op[w].name, tid |-> op[w].tid, next |-> next] \in NodeType  BY <1>3, <1>5 DEF NodeType
<1>7. \/ head \in 1..Len(node) /\ node[head].name = op[w].name /\ UNCHANGED <<node, head>>
      \/ (head = NULL \/ node[head].name # op[w].name) /\ Adds(w, next)
  <2>1. CASE head # NULL /\ node[head].name = op[w].name
    <3>1. UNCHANGED <<node, head>>  BY <2>1 DEF T!djb2_push
    <3> QED BY <2>1, <3>1, <1>0, <1>1
  <2>2. CASE ~ (head # NULL /\ node[head].name = op[w].name)
    <3>1. /\ node' = Append(node, [name |-> op[w].name, tid |-> op[w].tid, next |-> next])
          /\ head' = Len(node')
      BY <2>2 DEF T!djb2_push
    <3>2. Len(node') = Len(node) + 1  BY <3>1, <1>0, <1>6
    <3> QED BY <2>2, <3>1, <3>2 DEF Adds
  <2> QED BY <2>1, <2>2
<1> QED BY <1>1, <1>3, <1>4, <1>5, <1>6, <1>7

LEMMA PushTyped ==
    ASSUME HeapTyped, OpsRight, NEW w \in Worker, NEW next, T!djb2_push(w, next)
    PROVE  HeapTyped' /\ OpsRight' /\ 1..Len(node) \subseteq 1..Len(node')
<1>0. OpRight(w) /\ Goes(w, Pushed(w), op[w].cur, op[w].tid, op[w].lock)  BY PushGoes DEF OpsRight
<1> DEFINE x == [name |-> op[w].name, tid |-> op[w].tid, next |-> next]
<1>1. /\ op[w].pc = "push" /\ op[w].name \in Name /\ op[w].tid \in T!Tables /\ op[w].do # "tdelete"
      /\ x \in NodeType /\ (x.next \in T!Nodes => x.next \in 1..Len(node)) /\ Len(node) < MaxNodes
      /\ UNCHANGED <<dir, made, freed, tmp, inside, broken>>
      /\ UNCHANGED <<node, head>> \/ (node' = Append(node, x) /\ head' = Len(node) + 1)
  BY PushEffect DEF Adds
<1> HIDE DEF x
<1>2. Descends(node) /\ node \in Seq(NodeType) /\ Len(node) \in Nat  BY DEF HeapTyped, Descends
<1>3. 1..Len(node) \subseteq 1..Len(node') /\ Descends(node') /\ head' \in 1..Len(node') \cup {NULL, Garbage}
  <2>1. CASE UNCHANGED <<node, head>>  BY <2>1 DEF HeapTyped
  <2>2. CASE node' = Append(node, x) /\ head' = Len(node) + 1
    <3>1. Len(node') = Len(node) + 1  BY <2>2, <1>1, <1>2
    <3>2. Descends(node')  BY <2>2, <1>1, <1>2, ChasePush
    <3> QED BY <2>2, <3>1, <3>2, <1>2
  <2> QED BY <2>1, <2>2, <1>1
<1>4. HeapTyped'  BY <1>0, <1>1, <1>3 DEF HeapTyped, Goes, Now
<1>5. OpRight(w)'  BY <1>0, <1>1, <1>3 DEF OpRight, Goes, Now, Pushed
<1> QED BY <1>0, <1>3, <1>4, <1>5, OpsKept DEF Goes, Now

LEMMA PopTyped ==
    ASSUME HeapTyped, OpsRight, NEW w \in Worker, T!djb2_pop(w)
    PROVE  HeapTyped' /\ OpsRight' /\ Len(node') = Len(node)
<1>0. OpRight(w) /\ op[w].pc = "walk" /\ UNCHANGED <<dir, made, freed, tmp, inside, asTable, broken>>
      /\ T!Popping(w)
  BY PopGoes DEF OpsRight
<1>a. op[w].do = "tdelete"  BY <1>0 DEF T!Popping
<1>1. CASE PopsNothing(w)
  <2>1. OpRight(w)'  BY <1>0, <1>1, <1>a DEF PopsNothing, OpRight, Goes, Now
  <2>2. Goes(w, "over", op[w].cur, op[w].tid, op[w].lock) /\ UNCHANGED <<node, head>>  BY <1>1 DEF PopsNothing
  <2> QED BY <2>1, <2>2, <1>0, OnlyOp DEF Goes
<1>2. ASSUME NEW q \in T!First(op[w].cur, op[w].name), PopsHead(w, q)
      PROVE  HeapTyped' /\ OpsRight' /\ Len(node') = Len(node)
  <2>1. q \in 1..Len(node) /\ node[q].next \in Pointer  BY FirstIn
  <2>2. head' = node[q].next /\ UNCHANGED node /\ Goes(w, "free", q, op[w].tid, op[w].lock)
    BY <1>2 DEF PopsHead
  <2>3. head' \in 1..Len(node) \cup {NULL, Garbage}
    BY <2>1, <2>2, ServerAssumption DEF HeapTyped, Descends, Pointer
  <2>4. HeapTyped'  BY <1>0, <2>2, <2>3 DEF HeapTyped, Goes, Now
  <2>5. OpRight(w)'  BY <1>0, <1>a, <2>1, <2>2 DEF OpRight, Goes, Now
  <2> QED BY <2>2, <2>4, <2>5, OpsKept DEF Goes, Now
<1>3. ASSUME NEW q \in T!First(op[w].cur, op[w].name), NEW prev \in Chase(node, op[w].cur), PopsNext(w, q, prev)
      PROVE  HeapTyped' /\ OpsRight' /\ Len(node') = Len(node)
  <2>1. q \in 1..Len(node) /\ prev \in 1..Len(node) /\ Descends(node)  BY FirstIn, ChaseClosed DEF HeapTyped
  <2>2. /\ node[prev].next = q /\ node' = Unlinked(node, prev, q) /\ UNCHANGED head
        /\ Goes(w, "free", q, op[w].tid, op[w].lock)
    BY <1>3 DEF PopsNext
  <2>3. Descends(node') /\ Len(node') = Len(node)  BY <2>1, <2>2, UnlinkedNodes DEF WithoutLink
  <2>4. HeapTyped'  BY <1>0, <2>2, <2>3 DEF HeapTyped, Goes, Now
  <2>5. OpRight(w)'  BY <1>0, <1>a, <2>1, <2>2, <2>3 DEF OpRight, Goes, Now
  <2> QED BY <2>2, <2>3, <2>4, <2>5, OpsKept DEF Goes, Now
<1> QED BY <1>1, <1>2, <1>3, PopGoes

LEMMA StepTyped2 ==
    ASSUME HeapTyped, OpsRight, NEW w \in Worker,
           T!Free(w) \/ T!MakeLock(w) \/ T!Acquire(w) \/ T!Leave(w) \/ T!Use(w)
    PROVE  HeapTyped' /\ OpsRight'
<1>0. OpRight(w)  BY DEF OpsRight
<1>1. CASE T!Free(w)
  <2>1. Goes(w, "over", op[w].cur, op[w].tid, op[w].lock)  BY <1>1, FreeGoes
  <2>2. /\ UNCHANGED <<dir, made, node, head, tmp, inside>> /\ op[w].pc = "free"
        /\ freed' = freed \cup {op[w].cur}
    BY <1>1 DEF T!Free, T!TAt
  <2>3. HeapTyped'  BY <1>0, <2>1, <2>2 DEF HeapTyped, OpRight, Goes, Now
  <2>4. OpRight(w)'  BY <1>0, <2>1, <2>2 DEF OpRight, Goes, Now
  <2> QED BY <2>1, <2>2, <2>3, <2>4, OpsKept DEF Goes, Now
<1>2. CASE T!MakeLock(w)
  <2>1. Goes(w, IF op[w].do = "icreate" THEN "over" ELSE "acquire", op[w].cur, op[w].tid, op[w].lock)
    BY <1>2, MakeLockGoes
  <2>2. /\ UNCHANGED <<dir, made, node, freed, head>> /\ op[w].pc = "makelock"
        /\ inside' = Append(inside, 0) /\ tmp' = [tmp EXCEPT ![op[w].tid] = Len(inside')]
    BY <1>2 DEF T!MakeLock, T!TAt
  <2>3. inside' \in Seq(Int) /\ Len(inside') = Len(inside) + 1 /\ Len(inside) \in Nat  BY <2>2 DEF HeapTyped
  <2>4. tmp' \in [T!Tables -> 0..Len(inside')]
    <3>1. tmp \in [T!Tables -> 0..Len(inside')] /\ Len(inside') \in 0..Len(inside')  BY <2>3 DEF HeapTyped
    <3> QED BY <2>2, <3>1
  <2>5. HeapTyped'  BY <2>1, <2>2, <2>3, <2>4 DEF HeapTyped, Goes, Now
  <2>6. OpRight(w)'  BY <1>0, <2>1, <2>2 DEF OpRight, Goes, Now
  <2> QED BY <2>1, <2>2, <2>5, <2>6, OpsKept DEF Goes, Now
<1>3. CASE T!Acquire(w)
  <2>0. UNCHANGED <<dir, made, node, freed, head, tmp>> /\ op[w].pc = "acquire"  BY <1>3 DEF T!Acquire, T!TAt
  <2>1. CASE UNCHANGED <<inside, op>>  BY <2>0, <2>1, OnlyBroken
  <2>2. CASE /\ tmp[op[w].tid] \in 1..Len(inside)
             /\ inside' = [inside EXCEPT ![tmp[op[w].tid]] = @ + 1]
             /\ Goes(w, "inside", op[w].cur, op[w].tid, tmp[op[w].tid])
    <3>1. inside' \in Seq(Int) /\ Len(inside') = Len(inside)  BY <2>2 DEF HeapTyped
    <3>2. HeapTyped'  BY <2>0, <2>2, <3>1 DEF HeapTyped, Goes, Now
    <3>3. OpRight(w)'  BY <1>0, <2>0, <2>2 DEF OpRight, Goes, Now
    <3> QED BY <2>0, <2>2, <3>2, <3>3, OpsKept DEF Goes, Now
  <2> QED BY <1>3, <2>1, <2>2, AcquireGoes
<1>4. CASE T!Leave(w)
  <2>1. Goes(w, "over", op[w].cur, op[w].tid, op[w].lock)  BY <1>4, LeaveGoes
  <2>2. /\ UNCHANGED <<dir, made, node, freed, head, tmp>> /\ op[w].pc = "inside"
        /\ inside' = [inside EXCEPT ![tmp[op[w].tid]] = @ - 1]
    BY <1>4 DEF T!Leave, T!TAt
  <2>3. inside' \in Seq(Int) /\ Len(inside') = Len(inside)
    <3>1. inside \in Seq(Int)  BY DEF HeapTyped
    <3>2. CASE tmp[op[w].tid] \in 1..Len(inside)  BY <3>1, <3>2, <2>2
    <3>3. CASE tmp[op[w].tid] \notin 1..Len(inside)
      <4>1. inside' = inside  BY <3>1, <3>3, <2>2
      <4> QED BY <3>1, <4>1
    <3> QED BY <3>2, <3>3
  <2>4. HeapTyped'  BY <2>1, <2>2, <2>3 DEF HeapTyped, Goes, Now
  <2>5. OpRight(w)'  BY <1>0, <2>1, <2>2 DEF OpRight, Goes, Now
  <2> QED BY <2>1, <2>2, <2>4, <2>5, OpsKept DEF Goes, Now
<1>5. CASE T!Use(w)
  <2>1. Goes(w, "over", op[w].cur, op[w].tid, op[w].lock)  BY <1>5, UseGoes
  <2>2. UNCHANGED <<dir, made, node, freed, head, tmp, inside>> /\ op[w].pc = "use"  BY <1>5 DEF T!Use, T!TAt
  <2>3. OpRight(w)'  BY <1>0, <2>1, <2>2 DEF OpRight, Goes, Now
  <2> QED BY <2>1, <2>2, <2>3, OnlyOp DEF Goes
<1> QED BY <1>1, <1>2, <1>3, <1>4, <1>5

LEMMA StepTyped3 ==
    ASSUME HeapTyped, OpsRight, NEW w \in Worker,
           \/ T!InsertTable(w) \/ T!RemoveTable(w) \/ T!Drop(w) \/ T!TableOpEnds(w)
           \/ \E do \in Dos, n \in Name : T!TableOp(w, do, n)
    PROVE  HeapTyped' /\ OpsRight'
<1>0. OpRight(w)  BY DEF OpsRight
<1>1. CASE T!InsertTable(w)
  <2>1. /\ made' = made + 1 /\ made' \in T!Tables
        /\ dir' = dir \cup {<<op[w].name, made + 1>>}
        /\ Goes(w, "push", op[w].cur, made + 1, op[w].lock)
    BY <1>1, InsertGoes
  <2>2. UNCHANGED <<node, freed, head, tmp, inside>> /\ op[w].pc = "insert"  BY <1>1 DEF T!InsertTable, T!TAt
  <2>3. op[w].name \in Name  BY <1>0, <2>2 DEF OpRight
  <2>4. made' \in 0..MaxTables  BY <2>1, ServerAssumption DEF T!Tables
  <2>5. HeapTyped'  BY <2>1, <2>2, <2>3, <2>4 DEF HeapTyped, Goes, Now
  <2>6. OpRight(w)'  BY <1>0, <2>1, <2>2 DEF OpRight, Goes, Now
  <2> QED BY <2>1, <2>2, <2>5, <2>6, OpsKept DEF Goes, Now
<1>2. CASE T!RemoveTable(w)
  <2>0. UNCHANGED <<made, node, freed, head, tmp, inside>> /\ op[w].pc = "remove"  BY <1>2 DEF T!RemoveTable, T!TAt
  <2>1. ASSUME NEW e \in dir, e[1] = op[w].name, dir' = dir \ {e}, Goes(w, "head", op[w].cur, e[2], op[w].lock)
        PROVE  HeapTyped' /\ OpsRight'
    <3>1. HeapTyped'  BY <2>0, <2>1 DEF HeapTyped, Goes, Now
    <3>2. OpRight(w)'  BY <1>0, <2>0, <2>1 DEF OpRight, Goes, Now
    <3> QED BY <2>0, <2>1, <3>1, <3>2, OpsKept DEF Goes, Now
  <2>2. CASE Goes(w, "over", op[w].cur, op[w].tid, op[w].lock) /\ UNCHANGED dir
    <3>1. OpRight(w)'  BY <1>0, <2>0, <2>2 DEF OpRight, Goes, Now
    <3> QED BY <2>0, <2>2, <3>1, OnlyOp DEF Goes
  <2> QED BY <1>2, <2>1, <2>2, RemoveGoes
<1>3. CASE T!Drop(w)
  <2>1. Goes(w, "head", op[w].cur, 0, op[w].lock)  BY <1>3, DropGoes
  <2>2. UNCHANGED <<dir, made, node, freed, head, tmp, inside>> /\ op[w].pc = "drop"  BY <1>3 DEF T!Drop, T!TAt
  <2>3. OpRight(w)'  BY <1>0, <2>1, <2>2 DEF OpRight, Goes, Now
  <2> QED BY <2>1, <2>2, <2>3, OnlyOp DEF Goes
<1>4. CASE T!TableOpEnds(w)
  <2>1. Now(w, "none", "none", NULL, NULL, 0, 0)  BY <1>4, EndGoes
  <2>2. UNCHANGED <<dir, made, node, freed, head, tmp, inside>>  BY <1>4 DEF T!TableOpEnds
  <2>3. OpRight(w)'  BY <2>1, <2>2 DEF OpRight, Now
  <2> QED BY <2>1, <2>2, <2>3, OnlyOp
<1>5. ASSUME NEW do \in Dos, NEW n \in Name, T!TableOp(w, do, n)
      PROVE  HeapTyped' /\ OpsRight'
  <2>1. Now(w, Begins(do, n), do, n, NULL, 0, 0)  BY <1>5, BeginGoes
  <2>2. UNCHANGED <<dir, made, node, freed, head, tmp, inside>>  BY <1>5 DEF T!TableOp
  <2>3. /\ do = "tdelete" => Begins(do, n) = "remove"
        /\ do # "tdelete" => Begins(do, n) \in {"over", "insert", "head"}
    BY DEF Begins, T!Creates
  <2>4. OpRight(w)'  BY <2>1, <2>2, <2>3 DEF OpRight, Now
  <2> QED BY <2>1, <2>2, <2>4, OnlyOp
<1> QED BY <1>1, <1>2, <1>3, <1>4, <1>5

LEMMA TablesTypedStep ==
    ASSUME HeapTyped, OpsRight, NEW w \in Worker, TableAction(w)
    PROVE  HeapTyped' /\ OpsRight'
  BY StepTyped1, StepTyped2, StepTyped3, PushTyped, PopTyped DEF TableAction, T!TableStep

-----------------------------------------------------------------------------
(* Ids *)

\* The directory, the hash or an operation has table t by the name n.
Known(n, t) ==
    \/ <<n, t>> \in dir
    \/ \E q \in 1..Len(node) : node[q].name = n /\ node[q].tid = t
    \/ \E w \in Worker : op[w].name = n /\ op[w].tid = t

\* An id is given once.
IdsRight ==
    /\ \A n, m \in Name, t \in T!Tables : Known(n, t) /\ Known(m, t) => n = m
    /\ \A n \in Name, t \in T!Tables : Known(n, t) => t <= made
    /\ \A t \in T!Tables : tmp[t] # 0 => t <= made

\* No id was unknown that has a lock.
NothingNew == \A n \in Name, t \in T!Tables : Known(n, t)' => Known(n, t) \/ tmp[t] = 0

\* No id is new to the directory, the nodes and the worker.
LEMMA KnownKept ==
    ASSUME NEW w \in Worker, \A u \in Worker \ {w} : op'[u] = op[u],
           op'[w].tid \in T!Tables => Known(op'[w].name, op'[w].tid),
           dir' \subseteq dir,
           \A q \in 1..Len(node') : Known(node'[q].name, node'[q].tid)
    PROVE  \A n \in Name, t \in T!Tables : Known(n, t)' => Known(n, t)
<1> SUFFICES ASSUME NEW n \in Name, NEW t \in T!Tables, Known(n, t)'  PROVE Known(n, t)
  OBVIOUS
<1>1. CASE <<n, t>> \in dir'  BY <1>1 DEF Known
<1>2. CASE \E q \in 1..Len(node') : node'[q].name = n /\ node'[q].tid = t  BY <1>2
<1>3. ASSUME NEW u \in Worker, op'[u].name = n, op'[u].tid = t  PROVE Known(n, t)
  <2>1. CASE u = w  BY <1>3, <2>1
  <2>2. CASE u # w
    <3>1. op[u].name = n /\ op[u].tid = t  BY <1>3, <2>2
    <3> QED BY <3>1 DEF Known
  <2> QED BY <2>1, <2>2
<1> QED BY <1>1, <1>2, <1>3 DEF Known

LEMMA IdsKept ==
    ASSUME IdsRight, UNCHANGED made, \A n \in Name, t \in T!Tables : Known(n, t)' => Known(n, t),
           \A t \in T!Tables : tmp'[t] # 0 => tmp[t] # 0 \/ \E n \in Name : Known(n, t)
    PROVE  IdsRight' /\ NothingNew
  BY DEF IdsRight, NothingNew

LEMMA NodesKnown ==
    ASSUME HeapTyped, Len(node') = Len(node),
           \A q \in 1..Len(node) : node'[q].name = node[q].name /\ node'[q].tid = node[q].tid
    PROVE  \A q \in 1..Len(node') : Known(node'[q].name, node'[q].tid)
  BY DEF Known

LEMMA OwnKnown ==
    ASSUME NEW w \in Worker
    PROVE  Known(op[w].name, op[w].tid)
  BY DEF Known

LEMMA FirstKnown ==
    ASSUME HeapTyped, NEW p, NEW n, NEW q \in T!First(p, n)
    PROVE  Known(n, node[q].tid)
  BY FirstIn DEF Known

\* The steps that only make an operation go on.
LEMMA IdsGo ==
    ASSUME HeapTyped, IdsRight, NEW w \in Worker, NEW pc, NEW do, NEW name, NEW cur, NEW tid, NEW lock,
           Now(w, pc, do, name, cur, tid, lock), tid \in T!Tables => Known(name, tid),
           dir' \subseteq dir, UNCHANGED <<made, node, tmp>>
    PROVE  IdsRight' /\ NothingNew
<1>1. \A q \in 1..Len(node') : Known(node'[q].name, node'[q].tid)  BY NodesKnown
<1>2. \A n \in Name, t \in T!Tables : Known(n, t)' => Known(n, t)  BY <1>1, KnownKept DEF Now
<1> QED BY <1>2, IdsKept

LEMMA IdsStand ==
    ASSUME IdsRight, UNCHANGED <<dir, made, node, tmp, op>>
    PROVE  IdsRight' /\ NothingNew
  BY DEF IdsRight, Known, NothingNew

LEMMA IdsStep1 ==
    ASSUME HeapTyped, OpsRight, IdsRight, NEW w \in Worker,
           \/ T!ReadHead(w) \/ T!WalkFails(w) \/ T!djb2_search(w) \/ T!PushFails(w) \/ T!PopFails(w)
           \/ T!DropAstray(w) \/ T!Lookup(w) \/ T!Unknown(w) \/ T!Free(w) \/ T!Leave(w) \/ T!Use(w) \/ T!Drop(w)
    PROVE  IdsRight' /\ NothingNew
<1>0. Known(op[w].name, op[w].tid)  BY OwnKnown
<1>1. CASE T!ReadHead(w)
  <2>1. UNCHANGED <<dir, made, node, tmp>>  BY <1>1 DEF T!ReadHead
  <2> QED BY <2>1, <1>0, <1>1, ReadHeadGoes, IdsGo DEF Goes
<1>2. CASE T!WalkFails(w) \/ T!PushFails(w) \/ T!PopFails(w) \/ T!DropAstray(w)
  <2>1. UNCHANGED <<dir, made, node, tmp, op>>  BY <1>2 DEF T!WalkFails, T!PushFails, T!PopFails, T!DropAstray, T!Breaks
  <2> QED BY <2>1, IdsStand
<1>3. CASE T!djb2_search(w)
  <2>1. UNCHANGED <<dir, made, node, tmp>>  BY <1>3 DEF T!djb2_search
  <2>2. \/ \E pc \in {"drop", "stray"} : Goes(w, pc, op[w].cur, op[w].tid, op[w].lock)
        \/ Goes(w, "lookup", op[w].cur, op[w].tid, op[w].lock)
        \/ \E q \in T!First(op[w].cur, op[w].name) :
              Goes(w, IF op[w].do \in T!OfIndex THEN "acquire" ELSE "use", op[w].cur, node[q].tid, op[w].lock)
    BY <1>3, SearchGoes
  <2> QED BY <2>1, <2>2, <1>0, FirstKnown, IdsGo DEF Goes
<1>4. CASE T!Lookup(w)
  <2>1. UNCHANGED <<dir, made, node, tmp>>  BY <1>4 DEF T!Lookup
  <2>2. PICK e \in dir : e[1] = op[w].name /\ Goes(w, "push", op[w].cur, e[2], op[w].lock)  BY <1>4, LookupGoes
  <2>3. Known(op[w].name, e[2])  BY <2>2, TidOfEntry DEF Known
  <2> QED BY <2>1, <2>2, <2>3, IdsGo DEF Goes
<1>5. CASE T!Unknown(w)
  <2>1. UNCHANGED <<dir, made, node, tmp>>  BY <1>5 DEF T!Unknown
  <2>2. op' = op \/ Goes(w, "over", op[w].cur, op[w].tid, op[w].lock)  BY <1>5, UnknownGoes
  <2> QED BY <2>1, <2>2, <1>0, IdsGo, IdsStand DEF Goes
<1>6. CASE T!Free(w) \/ T!Leave(w) \/ T!Use(w)
  <2>1. UNCHANGED <<dir, made, node, tmp>>  BY <1>6 DEF T!Free, T!Leave, T!Use
  <2>2. Goes(w, "over", op[w].cur, op[w].tid, op[w].lock)  BY <1>6, FreeGoes, LeaveGoes, UseGoes
  <2> QED BY <2>1, <2>2, <1>0, IdsGo DEF Goes
<1>7. CASE T!Drop(w)
  <2>1. UNCHANGED <<dir, made, node, tmp>>  BY <1>7 DEF T!Drop
  <2>2. 0 \notin T!Tables  BY ServerAssumption DEF T!Tables
  <2> QED BY <2>1, <2>2, <1>7, DropGoes, IdsGo DEF Goes
<1> QED BY <1>1, <1>2, <1>3, <1>4, <1>5, <1>6, <1>7

LEMMA IdsStep2 ==
    ASSUME HeapTyped, OpsRight, IdsRight, NEW w \in Worker,
           \/ T!MakeLock(w) \/ T!Acquire(w) \/ T!RemoveTable(w) \/ T!TableOpEnds(w) \/ T!djb2_pop(w)
           \/ \E do \in Dos, n \in Name : T!TableOp(w, do, n)
    PROVE  IdsRight' /\ NothingNew
<1>0. Known(op[w].name, op[w].tid)  BY OwnKnown
<1>a. 0 \notin T!Tables  BY ServerAssumption DEF T!Tables
<1>1. CASE T!MakeLock(w)
  <2>1. UNCHANGED <<dir, made, node>> /\ tmp' = [tmp EXCEPT ![op[w].tid] = Len(inside')] /\ op[w].pc = "makelock"
    BY <1>1 DEF T!MakeLock, T!TAt
  <2>2. Goes(w, IF op[w].do = "icreate" THEN "over" ELSE "acquire", op[w].cur, op[w].tid, op[w].lock)
    BY <1>1, MakeLockGoes
  <2>3. op[w].name \in Name  BY <2>1 DEF OpsRight, OpRight
  <2>4. \A t \in T!Tables : tmp'[t] # 0 => tmp[t] # 0 \/ \E n \in Name : Known(n, t)
    BY <2>1, <2>3, <1>0 DEF HeapTyped
  <2>5. \A q \in 1..Len(node') : Known(node'[q].name, node'[q].tid)  BY <2>1, NodesKnown
  <2>6. \A n \in Name, t \in T!Tables : Known(n, t)' => Known(n, t)
    BY <2>1, <2>2, <2>5, <1>0, KnownKept DEF Goes, Now
  <2> QED BY <2>1, <2>4, <2>6, IdsKept
<1>2. CASE T!Acquire(w)
  <2>1. UNCHANGED <<dir, made, node, tmp>>  BY <1>2 DEF T!Acquire
  <2>2. op' = op \/ Goes(w, "inside", op[w].cur, op[w].tid, tmp[op[w].tid])  BY <1>2, AcquireGoes
  <2> QED BY <2>1, <2>2, <1>0, IdsGo, IdsStand DEF Goes
<1>3. CASE T!RemoveTable(w)
  <2>1. UNCHANGED <<made, node, tmp>>  BY <1>3 DEF T!RemoveTable
  <2>2. ASSUME NEW e \in dir, e[1] = op[w].name, dir' = dir \ {e}, Goes(w, "head", op[w].cur, e[2], op[w].lock)
        PROVE  IdsRight' /\ NothingNew
    <3>1. Known(op[w].name, e[2])  BY <2>2, TidOfEntry DEF Known
    <3> QED BY <2>1, <2>2, <3>1, IdsGo DEF Goes
  <2>3. CASE Goes(w, "over", op[w].cur, op[w].tid, op[w].lock) /\ UNCHANGED dir
    BY <2>1, <2>3, <1>0, IdsGo DEF Goes
  <2> QED BY <1>3, <2>2, <2>3, RemoveGoes
<1>4. CASE T!TableOpEnds(w)
  <2>1. UNCHANGED <<dir, made, node, tmp>>  BY <1>4 DEF T!TableOpEnds
  <2> QED BY <2>1, <1>a, <1>4, EndGoes, IdsGo
<1>5. CASE T!djb2_pop(w)
  <2>1. UNCHANGED <<dir, made, tmp>>  BY <1>5, PopGoes
  <2>2. CASE PopsNothing(w)  BY <2>1, <2>2, <1>0, IdsGo DEF PopsNothing, Goes
  <2>3. ASSUME NEW q \in T!First(op[w].cur, op[w].name), PopsHead(w, q)  PROVE IdsRight' /\ NothingNew
    BY <2>1, <2>3, <1>0, IdsGo DEF PopsHead, Goes
  <2>4. ASSUME NEW q \in T!First(op[w].cur, op[w].name), NEW prev \in Chase(node, op[w].cur), PopsNext(w, q, prev)
        PROVE  IdsRight' /\ NothingNew
    <3>1. q \in 1..Len(node) /\ prev \in 1..Len(node) /\ Descends(node)  BY FirstIn, ChaseClosed DEF HeapTyped
    <3>2. node[prev].next = q /\ node' = Unlinked(node, prev, q) /\ Goes(w, "free", q, op[w].tid, op[w].lock)
      BY <2>4 DEF PopsNext
    <3>3. Len(node') = Len(node) /\ \A k \in 1..Len(node) : node'[k].name = node[k].name /\ node'[k].tid = node[k].tid
      BY <3>1, <3>2, UnlinkedSame
    <3>4. \A k \in 1..Len(node') : Known(node'[k].name, node'[k].tid)  BY <3>3, NodesKnown
    <3>5. \A n \in Name, t \in T!Tables : Known(n, t)' => Known(n, t)
      BY <2>1, <3>2, <3>4, <1>0, KnownKept DEF Goes, Now
    <3> QED BY <2>1, <3>5, IdsKept
  <2> QED BY <1>5, <2>2, <2>3, <2>4, PopGoes
<1>6. ASSUME NEW do \in Dos, NEW n \in Name, T!TableOp(w, do, n)  PROVE IdsRight' /\ NothingNew
  <2>1. UNCHANGED <<dir, made, node, tmp>>  BY <1>6 DEF T!TableOp
  <2> QED BY <2>1, <1>a, <1>6, BeginGoes, IdsGo
<1> QED BY <1>1, <1>2, <1>3, <1>4, <1>5, <1>6

LEMMA IdsPush ==
    ASSUME HeapTyped, OpsRight, IdsRight, NEW w \in Worker, NEW next, T!djb2_push(w, next)
    PROVE  IdsRight' /\ NothingNew
<1>0. Known(op[w].name, op[w].tid)  BY OwnKnown
<1>1. Goes(w, Pushed(w), op[w].cur, op[w].tid, op[w].lock)  BY PushGoes
<1> DEFINE x == [name |-> op[w].name, tid |-> op[w].tid, next |-> next]
<1>2. UNCHANGED <<dir, made, tmp>> /\ (UNCHANGED node \/ node' = Append(node, x)) /\ x \in NodeType
  BY PushEffect DEF Adds
<1>3. x.name = op[w].name /\ x.tid = op[w].tid  OBVIOUS
<1> HIDE DEF x
<1>4. \A q \in 1..Len(node') : Known(node'[q].name, node'[q].tid)
  <2>1. CASE UNCHANGED node  BY <2>1, NodesKnown
  <2>2. CASE node' = Append(node, x)
    <3>1. node \in Seq(NodeType) /\ Len(node) \in Nat  BY DEF HeapTyped, Descends
    <3>2. /\ Len(node') = Len(node) + 1 /\ node'[Len(node) + 1] = x
          /\ \A q \in 1..Len(node) : node'[q] = node[q]
      BY <3>1, <2>2, <1>2
    <3>3. ASSUME NEW q \in 1..Len(node')  PROVE Known(node'[q].name, node'[q].tid)
      <4>1. CASE q = Len(node) + 1  BY <4>1, <3>2, <1>0, <1>3
      <4>2. CASE q # Len(node) + 1
        <5>1. q \in 1..Len(node) /\ node'[q] = node[q]  BY <4>2, <3>1, <3>2
        <5> QED BY <5>1 DEF Known
      <4> QED BY <4>1, <4>2
    <3> QED BY <3>3
  <2> QED BY <2>1, <2>2, <1>2
<1>5. \A n \in Name, t \in T!Tables : Known(n, t)' => Known(n, t)
  BY <1>0, <1>1, <1>2, <1>4, KnownKept DEF Goes, Now
<1> QED BY <1>2, <1>5, IdsKept

LEMMA IdsInsert ==
    ASSUME HeapTyped, OpsRight, IdsRight, NEW w \in Worker, T!InsertTable(w)
    PROVE  /\ IdsRight' /\ NothingNew
           /\ \A n \in Name, t \in T!Tables : Known(n, t)' => Known(n, t) \/ (n = op[w].name /\ t = made + 1)
           /\ tmp[made + 1] = 0
<1>1. /\ made' = made + 1 /\ made' \in T!Tables /\ dir' = dir \cup {<<op[w].name, made + 1>>}
      /\ Goes(w, "push", op[w].cur, made + 1, op[w].lock)
  BY InsertGoes
<1>2. UNCHANGED <<node, tmp>> /\ op[w].pc = "insert"  BY DEF T!InsertTable, T!TAt
<1>3. op[w].name \in Name /\ made \in Nat  BY <1>2, ServerAssumption DEF OpsRight, OpRight, HeapTyped
<1>4. ASSUME NEW n \in Name, NEW t \in T!Tables, Known(n, t)'
      PROVE  Known(n, t) \/ (n = op[w].name /\ t = made + 1)
  <2>1. CASE <<n, t>> \in dir'  BY <2>1, <1>1 DEF Known
  <2>2. CASE \E q \in 1..Len(node') : node'[q].name = n /\ node'[q].tid = t  BY <2>2, <1>2 DEF Known
  <2>3. ASSUME NEW u \in Worker, op'[u].name = n, op'[u].tid = t
        PROVE  Known(n, t) \/ (n = op[w].name /\ t = made + 1)
    <3>1. CASE u = w  BY <3>1, <2>3, <1>1 DEF Goes, Now
    <3>2. CASE u # w
      <4>1. op'[u] = op[u]  BY <3>2, <1>1 DEF Goes, Now
      <4> QED BY <4>1, <2>3 DEF Known
    <3> QED BY <3>1, <3>2
  <2> QED BY <1>4, <2>1, <2>2, <2>3 DEF Known
<1>5. \A n \in Name, t \in T!Tables : Known(n, t) => t <= made  BY DEF IdsRight
<1>6. \A t \in T!Tables : t \in Nat  BY ServerAssumption DEF T!Tables
<1>7. \A n \in Name : ~Known(n, made + 1)  BY <1>1, <1>3, <1>5
<1>8. tmp[made + 1] = 0  BY <1>1, <1>3 DEF IdsRight
<1>9. IdsRight'
  <2>1. \A n, m \in Name, t \in T!Tables : Known(n, t)' /\ Known(m, t)' => n = m
    BY <1>4, <1>7 DEF IdsRight
  <2>2. \A n \in Name, t \in T!Tables : Known(n, t)' => t <= made'
    BY <1>1, <1>3, <1>4, <1>5, <1>6
  <2>3. \A t \in T!Tables : tmp'[t] # 0 => t <= made'  BY <1>1, <1>2, <1>3, <1>6 DEF IdsRight
  <2> QED BY <2>1, <2>2, <2>3 DEF IdsRight
<1> QED BY <1>4, <1>8, <1>9 DEF NothingNew

LEMMA IdsStep ==
    ASSUME HeapTyped, OpsRight, IdsRight, NEW w \in Worker, TableAction(w)
    PROVE  IdsRight' /\ NothingNew
  BY IdsStep1, IdsStep2, IdsPush, IdsInsert DEF TableAction, T!TableStep

-----------------------------------------------------------------------------
(* The hash and the directory *)

\* The nodes with name n on the way from p.
Entries(nd, p, n) == {q \in Chase(nd, p) : nd[q].name = n}

DeletedBy(w, n) == op[w].do = "tdelete" /\ op[w].name = n /\ op[w].pc \notin {"remove", "over"}

\* The directory and the hash have a name once, and agree; while it is being
\* deleted only the hash has it.  An index that has a lock is in the hash.
NameRight(n) ==
    /\ \A e, f \in dir : e[1] = n /\ f[1] = n => e = f
    /\ \A p, q \in Entries(node, head, n) : p = q
    /\ (\A w \in Worker : ~DeletedBy(w, n)) => \A p \in Entries(node, head, n) : <<n, node[p].tid>> \in dir
    /\ \A w \in Worker : DeletedBy(w, n) => \A e \in dir : e[1] # n
    /\ \A t \in T!Tables : <<n, t>> \in dir /\ tmp[t] # 0 => Entries(node, head, n) # {}

\* What an operation has found still holds: that a name is not there, where it
\* is in the directory and that the hash has not got it, what is on the way from
\* where a walk begins, and that an index has no lock yet.
OpFits(w) ==
    /\ op[w].pc = "insert" => \A e \in dir : e[1] # op[w].name
    /\ op[w].pc \in {"lookup", "push", "free"} => Entries(node, head, op[w].name) = {}
    /\ op[w].pc \in {"push", "makelock"} => <<op[w].name, op[w].tid>> \in dir
    /\ op[w].pc = "walk" => Entries(node, op[w].cur, op[w].name) = Entries(node, head, op[w].name)
    /\ op[w].pc = "makelock" =>
         /\ tmp[op[w].tid] = 0 /\ Entries(node, head, op[w].name) # {}
         /\ \A p \in Entries(node, head, op[w].name) : node[p].tid = op[w].tid

TablesRight ==
    \A n \in Name \ crossed : NameRight(n) /\ \A w \in Worker : op[w].name = n => OpFits(w)

LEMMA OpenIsEntries == \A n : T!Open(n) = Entries(node, head, n)
  BY ReachIsChase DEF T!Open, T!Named, Entries

\* A step that leaves directory, hash and locks as they are.
LEMMA QuietStep ==
    ASSUME TablesRight, NEW w \in Worker, \A u \in Worker \ {w} : op'[u] = op[u],
           UNCHANGED <<dir, node, head, tmp>>, crossed \subseteq crossed',
           op'[w].name \in Name \ crossed' => OpFits(w)',
           \A n \in Name \ crossed' : DeletedBy(w, n)' => DeletedBy(w, n),
           \A n \in Name \ crossed' : DeletedBy(w, n) => DeletedBy(w, n)' \/ Entries(node, head, n) = {}
    PROVE  TablesRight'
<1> SUFFICES ASSUME NEW n \in Name \ crossed'
             PROVE  NameRight(n)' /\ \A u \in Worker : op'[u].name = n => OpFits(u)'
  BY DEF TablesRight
<1>0. NameRight(n) /\ \A u \in Worker : op[u].name = n => OpFits(u)  BY DEF TablesRight
<1>1. \A u \in Worker \ {w} : DeletedBy(u, n)' <=> DeletedBy(u, n)  BY DEF DeletedBy
<1>2. (\A u \in Worker : ~DeletedBy(u, n)') =>
          (\A u \in Worker : ~DeletedBy(u, n)) \/ Entries(node, head, n) = {}
  BY <1>1
<1>3. \A u \in Worker : DeletedBy(u, n)' => DeletedBy(u, n)  BY <1>1
<1>4. NameRight(n)'
  <2>1. (\A u \in Worker : ~DeletedBy(u, n)') => \A p \in Entries(node, head, n) : <<n, node[p].tid>> \in dir
    BY <1>0, <1>2 DEF NameRight
  <2>2. \A u \in Worker : DeletedBy(u, n)' => \A e \in dir : e[1] # n  BY <1>0, <1>3 DEF NameRight
  <2>3. /\ \A e, f \in dir : e[1] = n /\ f[1] = n => e = f
        /\ \A p, q \in Entries(node, head, n) : p = q
        /\ \A t \in T!Tables : <<n, t>> \in dir /\ tmp[t] # 0 => Entries(node, head, n) # {}
    BY <1>0 DEF NameRight
  <2> HIDE DEF DeletedBy, Entries
  <2> QED BY <2>1, <2>2, <2>3 DEF NameRight
<1>5. ASSUME NEW u \in Worker, op'[u].name = n  PROVE OpFits(u)'
  <2>1. CASE u = w  BY <1>5, <2>1
  <2>2. CASE u # w
    <3>1. op'[u] = op[u] /\ OpFits(u)  BY <2>2, <1>0, <1>5
    <3> QED BY <3>1 DEF OpFits
  <2> QED BY <2>1, <2>2
<1> QED BY <1>4, <1>5

\* Nobody else is on the way to the table of worker w.
Alone(w) == \A u \in Worker \ {w} : ~T!Opening(u, op[w].name)

LEMMA TouchAlone ==
    ASSUME NEW w \in Worker, T!Touch(w)
    PROVE  crossed \subseteq crossed' /\ (op[w].name \notin crossed' => Alone(w))
  BY DEF T!Touch, Alone

\* The step of an operation that changes what is known of its own table.
LEMMA LoudStep ==
    ASSUME OpsRight, TablesRight, NEW w \in Worker,
           op[w].name \in Name, op'[w].name = op[w].name, \A u \in Worker \ {w} : op'[u] = op[u],
           crossed \subseteq crossed', op[w].name \notin crossed' => Alone(w),
           \A n \in Name \ {op[w].name} :
               /\ \A e : e[1] = n => (e \in dir' <=> e \in dir)
               /\ Entries(node', head', n) = Entries(node, head, n)
               /\ \A u \in Worker : op[u].name = n /\ op[u].pc = "walk" =>
                     Entries(node', op[u].cur, n) = Entries(node, op[u].cur, n)
               /\ \A t \in T!Tables : <<n, t>> \in dir => tmp'[t] = tmp[t],
           \A q \in 1..Len(node) : node'[q].tid = node[q].tid, Descends(node),
           op[w].name \notin crossed' /\ Alone(w) => NameRight(op[w].name)' /\ OpFits(w)'
    PROVE  TablesRight'
<1> SUFFICES ASSUME NEW n \in Name \ crossed'
             PROVE  NameRight(n)' /\ \A u \in Worker : op'[u].name = n => OpFits(u)'
  BY DEF TablesRight
<1>0. NameRight(n) /\ \A u \in Worker : op[u].name = n => OpFits(u)  BY DEF TablesRight
<1>1. CASE n = op[w].name
  <2>1. NameRight(n)' /\ OpFits(w)' /\ Alone(w)  BY <1>1
  <2>2. ASSUME NEW u \in Worker \ {w}, op'[u].name = n  PROVE OpFits(u)'
    <3>1. op'[u] = op[u]  OBVIOUS
    <3>2. op[u].pc \in {"none", "acquire", "inside", "use", "over"}
      BY <2>1, <2>2, <3>1, <1>1 DEF Alone, T!Opening
    <3> QED BY <3>1, <3>2 DEF OpFits
  <2> QED BY <2>1, <2>2
<1>2. CASE n # op[w].name
  <2>1. /\ \A e : e[1] = n => (e \in dir' <=> e \in dir)
        /\ Entries(node', head', n) = Entries(node, head, n)
        /\ \A u \in Worker : op[u].name = n /\ op[u].pc = "walk" =>
              Entries(node', op[u].cur, n) = Entries(node, op[u].cur, n)
        /\ \A t \in T!Tables : <<n, t>> \in dir => tmp'[t] = tmp[t]
    BY <1>2
  <2>2. \A p \in Entries(node, head, n) : node'[p].tid = node[p].tid
    BY ChaseClosed DEF Entries
  <2>3. \A u \in Worker : DeletedBy(u, n)' <=> DeletedBy(u, n)
    <3>1. ~DeletedBy(w, n) /\ ~DeletedBy(w, n)'  BY <1>2 DEF DeletedBy
    <3>2. \A u \in Worker \ {w} : DeletedBy(u, n)' <=> DeletedBy(u, n)  BY DEF DeletedBy
    <3> QED BY <3>1, <3>2
  <2>4. NameRight(n)'
    <3>1. \A e, f \in dir' : e[1] = n /\ f[1] = n => e = f  BY <2>1, <1>0 DEF NameRight
    <3>2. \A p, q \in Entries(node', head', n) : p = q  BY <2>1, <1>0 DEF NameRight
    <3>3. (\A u \in Worker : ~DeletedBy(u, n)') => \A p \in Entries(node', head', n) : <<n, node'[p].tid>> \in dir'
      BY <2>1, <2>2, <2>3, <1>0 DEF NameRight
    <3>4. \A u \in Worker : DeletedBy(u, n)' => \A e \in dir' : e[1] # n  BY <2>1, <2>3, <1>0 DEF NameRight
    <3>5. \A t \in T!Tables : <<n, t>> \in dir' /\ tmp'[t] # 0 => Entries(node', head', n) # {}
      BY <2>1, <1>0 DEF NameRight
    <3> HIDE DEF DeletedBy, Entries
    <3> QED BY <3>1, <3>2, <3>3, <3>4, <3>5 DEF NameRight
  <2>5. ASSUME NEW u \in Worker, op'[u].name = n  PROVE OpFits(u)'
    <3>1. op'[u] = op[u] /\ op[u].name = n /\ OpFits(u) /\ OpRight(u)  BY <1>0, <1>2, <2>5 DEF OpsRight
    <3>2. op[u].pc = "insert" => \A e \in dir' : e[1] # n  BY <2>1, <3>1 DEF OpFits
    <3>3. op[u].pc \in {"lookup", "push", "free"} => Entries(node', head', n) = {}  BY <2>1, <3>1 DEF OpFits
    <3>4. op[u].pc \in {"push", "makelock"} => <<n, op[u].tid>> \in dir'  BY <2>1, <3>1 DEF OpFits
    <3>5. op[u].pc = "walk" => Entries(node', op[u].cur, n) = Entries(node', head', n)  BY <2>1, <3>1 DEF OpFits
    <3>6. op[u].pc = "makelock" =>
             /\ tmp'[op[u].tid] = 0 /\ Entries(node', head', n) # {}
             /\ \A p \in Entries(node', head', n) : node'[p].tid = op[u].tid
      <4>1. op[u].pc = "makelock" => op[u].tid \in T!Tables  BY <3>1 DEF OpRight
      <4> QED BY <2>1, <2>2, <3>1, <4>1 DEF OpFits
    <3> HIDE DEF Entries
    <3> QED BY <3>1, <3>2, <3>3, <3>4, <3>5, <3>6 DEF OpFits
  <2> QED BY <2>4, <2>5
<1> QED BY <1>1, <1>2

\* A walk to a name that is there at most once finds it.
LEMMA WalkFinds ==
    ASSUME HeapTyped, TablesRight, NEW w \in Worker, op[w].pc = "walk",
           op[w].name \in Name \ crossed
    PROVE  T!First(op[w].cur, op[w].name) = Entries(node, head, op[w].name)
<1> DEFINE n == op[w].name
           F == T!First(op[w].cur, n)
           E == Entries(node, op[w].cur, n)
<1>0. OpFits(w) /\ NameRight(n)  BY DEF TablesRight
<1>1. E = Entries(node, head, n) /\ \A p, q \in E : p = q
  BY <1>0 DEF OpFits, NameRight
<1>2. E = T!Named(T!Reach(op[w].cur), n)  BY ReachIsChase DEF T!Named, Entries
<1>3. F \subseteq E  BY <1>2 DEF T!First, T!Named, T!Seen
<1>4. ASSUME NEW q \in E  PROVE q \in F
  <2>1. E \subseteq {q} /\ q \in Chase(node, op[w].cur) /\ node[q].name = n  BY <1>1 DEF Entries
  <2>2. q \in 1..Len(node)  BY <2>1, ChaseClosed DEF HeapTyped
  <2>3. q \in Chase(node, q)  BY <2>2, ChaseClosed DEF HeapTyped
  <2>4. q \in T!Seen(op[w].cur, n)  BY <2>1, <2>3, <1>2, ReachIsChase DEF T!Seen
  <2> QED BY <2>1, <2>4 DEF T!First, T!Named
<1> QED BY <1>1, <1>3, <1>4

-----------------------------------------------------------------------------
LEMMA QuietSteps1 ==
    ASSUME HeapTyped, OpsRight, TablesRight, NEW w \in Worker,
           \/ T!ReadHead(w) \/ T!WalkFails(w) \/ T!djb2_search(w) \/ T!PushFails(w) \/ T!PopFails(w)
           \/ T!DropAstray(w) \/ T!Lookup(w) \/ T!Unknown(w)
    PROVE  TablesRight'
<1>0. OpRight(w)  BY DEF OpsRight
<1>1. CASE T!ReadHead(w)
  <2>1. Goes(w, "walk", head, op[w].tid, op[w].lock)  BY <1>1, ReadHeadGoes
  <2>2. UNCHANGED <<dir, node, head, tmp, crossed>> /\ op[w].pc = "head"  BY <1>1 DEF T!ReadHead, T!TAt
  <2>3. OpFits(w)'  BY <2>1, <2>2 DEF OpFits, Goes, Now
  <2>4. \A n : DeletedBy(w, n)' <=> DeletedBy(w, n)  BY <2>1, <2>2 DEF DeletedBy, Goes, Now
  <2> QED BY <2>1, <2>2, <2>3, <2>4, QuietStep DEF Goes, Now
<1>2. CASE T!WalkFails(w) \/ T!PushFails(w) \/ T!PopFails(w) \/ T!DropAstray(w)
  <2>1. UNCHANGED <<dir, node, head, tmp, op, crossed>>
    BY <1>2 DEF T!WalkFails, T!PushFails, T!PopFails, T!DropAstray, T!Breaks
  <2> QED BY <2>1 DEF TablesRight, NameRight, OpFits, DeletedBy
<1>3. CASE T!djb2_search(w)
  <2>1. UNCHANGED <<dir, node, head, tmp, crossed>>  BY <1>3 DEF T!djb2_search
  <2>2. op[w].pc = "walk"  BY <1>3, SearchGoes
  <2>3. ASSUME op[w].do = "tdelete", NEW pc \in {"drop", "stray"}, Goes(w, pc, op[w].cur, op[w].tid, op[w].lock)
        PROVE  TablesRight'
    <3>1. OpFits(w)'  BY <2>3 DEF OpFits, Goes, Now
    <3>2. \A n : DeletedBy(w, n)' <=> DeletedBy(w, n)  BY <2>2, <2>3 DEF DeletedBy, Goes, Now
    <3> QED BY <2>1, <2>3, <3>1, <3>2, QuietStep DEF Goes, Now
  <2>4. CASE /\ op[w].do # "tdelete" /\ T!First(op[w].cur, op[w].name) = {}
             /\ Goes(w, "lookup", op[w].cur, op[w].tid, op[w].lock)
    <3>1. op'[w].name = op[w].name /\ op'[w].pc = "lookup" /\ op'[w].do = op[w].do  BY <2>4 DEF Goes, Now
    <3>2. ASSUME op'[w].name \in Name \ crossed'  PROVE OpFits(w)'
      <4>1. Entries(node, head, op[w].name) = {}  BY <3>1, <3>2, <2>1, <2>2, <2>4, WalkFinds
      <4> QED BY <4>1, <3>1, <2>1 DEF OpFits
    <3>3. \A n : DeletedBy(w, n)' <=> DeletedBy(w, n)  BY <2>4, <3>1 DEF DeletedBy
    <3> QED BY <2>1, <2>4, <3>2, <3>3, QuietStep DEF Goes, Now
  <2>5. ASSUME op[w].do # "tdelete", NEW q \in T!First(op[w].cur, op[w].name),
               Goes(w, IF op[w].do \in T!OfIndex THEN "acquire" ELSE "use", op[w].cur, node[q].tid, op[w].lock)
        PROVE  TablesRight'
    <3>1. op'[w].pc \in {"acquire", "use"} /\ op'[w].do = op[w].do  BY <2>5 DEF Goes, Now
    <3>2. OpFits(w)'  BY <3>1 DEF OpFits
    <3>3. \A n : DeletedBy(w, n)' <=> DeletedBy(w, n)  BY <2>5, <3>1 DEF DeletedBy
    <3> QED BY <2>1, <2>5, <3>2, <3>3, QuietStep DEF Goes, Now
  <2> QED BY <1>3, <2>3, <2>4, <2>5, SearchGoes
<1>4. CASE T!Lookup(w)
  <2>1. PICK e \in dir : e[1] = op[w].name /\ Goes(w, "push", op[w].cur, e[2], op[w].lock)  BY <1>4, LookupGoes
  <2>2. UNCHANGED <<dir, node, head, tmp, crossed>> /\ op[w].pc = "lookup"  BY <1>4 DEF T!Lookup, T!TAt
  <2>3. /\ op'[w].name = op[w].name /\ op'[w].pc = "push" /\ op'[w].do = op[w].do /\ op'[w].tid = e[2]
        /\ op[w].do # "tdelete" /\ <<op[w].name, e[2]>> \in dir
    BY <1>0, <2>1, <2>2, TidOfEntry DEF Goes, Now, OpRight
  <2>4. ASSUME op'[w].name \in Name \ crossed'  PROVE OpFits(w)'
    <3>1. Entries(node, head, op[w].name) = {}  BY <2>2, <2>3, <2>4 DEF TablesRight, OpFits
    <3> QED BY <3>1, <2>2, <2>3 DEF OpFits
  <2>5. \A n : DeletedBy(w, n)' <=> DeletedBy(w, n)  BY <2>3 DEF DeletedBy
  <2> QED BY <2>1, <2>2, <2>4, <2>5, QuietStep DEF Goes, Now
<1>5. CASE T!Unknown(w)
  <2>1. UNCHANGED <<dir, node, head, tmp, crossed>> /\ op[w].pc = "lookup"  BY <1>5 DEF T!Unknown, T!TAt
  <2>2. CASE op' = op  BY <2>1, <2>2 DEF TablesRight, NameRight, OpFits, DeletedBy
  <2>3. CASE Goes(w, "over", op[w].cur, op[w].tid, op[w].lock)
    <3>1. OpFits(w)'  BY <2>3 DEF OpFits, Goes, Now
    <3>2. \A n : DeletedBy(w, n)' <=> DeletedBy(w, n)  BY <1>0, <2>1, <2>3 DEF DeletedBy, Goes, Now, OpRight
    <3> QED BY <2>1, <2>3, <3>1, <3>2, QuietStep DEF Goes, Now
  <2> QED BY <1>5, <2>2, <2>3, UnknownGoes
<1> QED BY <1>1, <1>2, <1>3, <1>4, <1>5

LEMMA QuietSteps2 ==
    ASSUME HeapTyped, OpsRight, TablesRight, NEW w \in Worker,
           \/ T!Free(w) \/ T!Acquire(w) \/ T!Leave(w) \/ T!Use(w) \/ T!Drop(w) \/ T!TableOpEnds(w)
           \/ \E do \in Dos, n \in Name : T!TableOp(w, do, n)
    PROVE  TablesRight'
<1>0. OpRight(w)  BY DEF OpsRight
<1>1. CASE T!Free(w)
  <2>1. Goes(w, "over", op[w].cur, op[w].tid, op[w].lock)  BY <1>1, FreeGoes
  <2>2. UNCHANGED <<dir, node, head, tmp, crossed>> /\ op[w].pc = "free"  BY <1>1 DEF T!Free, T!TAt
  <2>3. OpFits(w)'  BY <2>1 DEF OpFits, Goes, Now
  <2>4. \A n : ~DeletedBy(w, n)'  BY <2>1 DEF DeletedBy, Goes, Now
  <2>5. \A n \in Name \ crossed' : DeletedBy(w, n) => Entries(node, head, n) = {}
    BY <2>2 DEF DeletedBy, TablesRight, OpFits
  <2> QED BY <2>1, <2>2, <2>3, <2>4, <2>5, QuietStep DEF Goes, Now
<1>2. CASE T!Acquire(w)
  <2>1. UNCHANGED <<dir, node, head, tmp, crossed>> /\ op[w].pc = "acquire"  BY <1>2 DEF T!Acquire, T!TAt
  <2>2. CASE op' = op  BY <2>1, <2>2 DEF TablesRight, NameRight, OpFits, DeletedBy
  <2>3. CASE Goes(w, "inside", op[w].cur, op[w].tid, tmp[op[w].tid])
    <3>1. OpFits(w)'  BY <2>3 DEF OpFits, Goes, Now
    <3>2. \A n : DeletedBy(w, n)' <=> DeletedBy(w, n)  BY <2>1, <2>3 DEF DeletedBy, Goes, Now
    <3> QED BY <2>1, <2>3, <3>1, <3>2, QuietStep DEF Goes, Now
  <2> QED BY <1>2, <2>2, <2>3, AcquireGoes
<1>3. CASE T!Leave(w) \/ T!Use(w)
  <2>1. UNCHANGED <<dir, node, head, tmp, crossed>> /\ op[w].pc \in {"inside", "use"}
    BY <1>3 DEF T!Leave, T!Use, T!TAt
  <2>2. Goes(w, "over", op[w].cur, op[w].tid, op[w].lock)  BY <1>3, LeaveGoes, UseGoes
  <2>3. OpFits(w)'  BY <2>2 DEF OpFits, Goes, Now
  <2>4. op[w].do # "tdelete"  BY <1>0, <2>1 DEF OpRight
  <2>5. \A n : DeletedBy(w, n)' <=> DeletedBy(w, n)  BY <2>2, <2>4 DEF DeletedBy, Goes, Now
  <2> QED BY <2>1, <2>2, <2>3, <2>5, QuietStep DEF Goes, Now
<1>4. CASE T!Drop(w)
  <2>1. UNCHANGED <<dir, node, head, tmp, crossed>> /\ op[w].pc = "drop"  BY <1>4 DEF T!Drop, T!TAt
  <2>2. Goes(w, "head", op[w].cur, 0, op[w].lock)  BY <1>4, DropGoes
  <2>3. OpFits(w)'  BY <2>2 DEF OpFits, Goes, Now
  <2>4. \A n : DeletedBy(w, n)' <=> DeletedBy(w, n)  BY <2>1, <2>2 DEF DeletedBy, Goes, Now
  <2> QED BY <2>1, <2>2, <2>3, <2>4, QuietStep DEF Goes, Now
<1>5. CASE T!TableOpEnds(w)
  <2>1. UNCHANGED <<dir, node, head, tmp, crossed>> /\ op[w].pc = "over"  BY <1>5 DEF T!TableOpEnds, T!TAt
  <2>2. Now(w, "none", "none", NULL, NULL, 0, 0)  BY <1>5, EndGoes
  <2>3. OpFits(w)'  BY <2>2 DEF OpFits, Now
  <2>4. \A n : DeletedBy(w, n)' <=> DeletedBy(w, n)  BY <2>1, <2>2 DEF DeletedBy, Now
  <2> QED BY <2>1, <2>2, <2>3, <2>4, QuietStep DEF Now
<1>6. ASSUME NEW do \in Dos, NEW n \in Name, T!TableOp(w, do, n)  PROVE TablesRight'
  <2>1. UNCHANGED <<dir, node, head, tmp, crossed>> /\ op[w].pc = "none"  BY <1>6 DEF T!TableOp, T!TAt
  <2>2. Now(w, Begins(do, n), do, n, NULL, 0, 0)  BY <1>6, BeginGoes
  <2>3. /\ do = "tdelete" => Begins(do, n) = "remove"
        /\ do # "tdelete" => Begins(do, n) \in {"over", "insert", "head"}
        /\ Begins(do, n) = "insert" => \A e \in dir : e[1] # n
    BY DEF Begins, T!Creates
  <2>4. OpFits(w)'  BY <2>1, <2>2, <2>3 DEF OpFits, Now
  <2>5. \A m : ~DeletedBy(w, m)' /\ ~DeletedBy(w, m)  BY <1>0, <2>1, <2>2, <2>3 DEF DeletedBy, Now, OpRight
  <2> QED BY <2>1, <2>2, <2>4, <2>5, QuietStep DEF Now
<1> QED BY <1>1, <1>2, <1>3, <1>4, <1>5, <1>6

-----------------------------------------------------------------------------
(* The steps that change directory, hash or locks *)

LEMMA AloneDeletes ==
    ASSUME OpsRight, NEW w \in Worker, Alone(w), \A u \in Worker \ {w} : op'[u] = op[u],
           op'[w].name = op[w].name
    PROVE  \A u \in Worker \ {w} : ~DeletedBy(u, op[w].name) /\ ~DeletedBy(u, op[w].name)'
<1> SUFFICES ASSUME NEW u \in Worker \ {w}  PROVE ~DeletedBy(u, op[w].name) /\ ~DeletedBy(u, op[w].name)'
  OBVIOUS
<1>1. OpRight(u) /\ op'[u] = op[u]  BY DEF OpsRight
<1>2. op[u].name = op[w].name => op[u].pc \in {"none", "acquire", "inside", "use", "over"}
  BY DEF Alone, T!Opening
<1>3. ~DeletedBy(u, op[w].name)  BY <1>1, <1>2 DEF DeletedBy, OpRight
<1> QED BY <1>1, <1>3 DEF DeletedBy

LEMMA SameEntries ==
    ASSUME UNCHANGED node
    PROVE  \A p, n : Entries(node', p, n) = Entries(node, p, n)
  BY DEF Entries

\* A push, and what it does to the way from any node.
LEMMA PushEntries ==
    ASSUME HeapTyped, OpsRight, NEW w \in Worker, NEW next, T!djb2_push(w, next)
    PROVE  /\ \A n : \A p \in 1..Len(node) \cup {NULL, Garbage} : Entries(node', p, n) = Entries(node, p, n)
           /\ \A q \in 1..Len(node) : node'[q].tid = node[q].tid
           /\ \A n \in Name \ {op[w].name} : Entries(node', head', n) = Entries(node, head, n)
           /\ Entries(node, head, op[w].name) = {} =>
                 /\ head' \in Entries(node', head', op[w].name)
                 /\ \A q \in Entries(node', head', op[w].name) : q = head' /\ node'[q].tid = op[w].tid
<1> DEFINE x == [name |-> op[w].name, tid |-> op[w].tid, next |-> next]
           k == Len(node) + 1
<1>0. /\ x \in NodeType /\ (next \in T!Nodes => next \in 1..Len(node)) /\ Len(node) < MaxNodes
      /\ head # Garbage /\ (head = NULL => next \in {NULL, Garbage}) /\ (head # NULL => next = head)
      /\ \/ head \in 1..Len(node) /\ node[head].name = op[w].name /\ UNCHANGED <<node, head>>
         \/ node' = Append(node, x) /\ head' = k
  BY PushEffect DEF Adds
<1>1. Descends(node) /\ node \in Seq(NodeType) /\ Len(node) \in Nat /\ MaxNodes \in Nat
      /\ head \in 1..Len(node) \cup {NULL, Garbage} /\ NULL \notin T!Nodes /\ Garbage \notin T!Nodes
  BY ServerAssumption DEF HeapTyped, Descends, T!Nodes
<1>x. x.name = op[w].name /\ x.tid = op[w].tid /\ x.next = next  OBVIOUS
<1> HIDE DEF x
<1>2. CASE head \in 1..Len(node) /\ node[head].name = op[w].name /\ UNCHANGED <<node, head>>
  <2>1. head \in Entries(node, head, op[w].name)  BY <1>1, <1>2, ChaseClosed DEF Entries
  <2> QED BY <1>2, <2>1 DEF Entries
<1>3. CASE node' = Append(node, x) /\ head' = k
  <2>1. /\ Len(node') = k /\ node'[k] = x /\ \A q \in 1..Len(node) : node'[q] = node[q]
    BY <1>0, <1>1, <1>3
  <2>2. Descends(node') /\ \A p : p # k => Chase(node', p) = Chase(node, p)
    BY <1>0, <1>1, <1>3, <1>x, ChasePush
  <2>3. k \in T!Nodes /\ k \in 1..Len(node') /\ k \notin 1..Len(node) \cup {NULL, Garbage}
    BY <1>0, <1>1, <2>1 DEF T!Nodes
  <2>4. \A p \in 1..Len(node) \cup {NULL, Garbage} : Chase(node', p) = Chase(node, p)
    BY <2>2, <2>3
  <2>5. \A n : \A p \in 1..Len(node) \cup {NULL, Garbage} : Entries(node', p, n) = Entries(node, p, n)
    <3>1. \A p : \A q \in Chase(node, p) : node'[q] = node[q]  BY <1>1, <2>1, ChaseClosed
    <3> QED BY <2>4, <3>1 DEF Entries
  <2>6. Chase(node', k) = {k} \cup Chase(node, head)
    <3>1. Chase(node', k) = {k} \cup Chase(node', next)  BY <2>1, <2>2, <2>3, <1>x, ChaseNext
    <3>2. Chase(node', next) = Chase(node, head)
      <4>1. CASE head = NULL
        <5>1. next \in {NULL, Garbage} /\ next \notin 1..Len(node) /\ NULL \notin 1..Len(node)
          BY <4>1, <1>0, <1>1, ServerAssumption DEF T!Nodes
        <5>2. Chase(node, next) = {} /\ Chase(node, head) = {}  BY <5>1, <4>1, <1>1, ChaseClosed
        <5> QED BY <5>1, <5>2, <2>4
      <4>2. CASE head # NULL  BY <4>2, <1>0, <1>1, <2>4
      <4> QED BY <4>1, <4>2
    <3> QED BY <3>1, <3>2
  <2>7. Chase(node, head) \subseteq 1..Len(node)  BY <1>1, ChaseClosed
  <2>8. ASSUME NEW n \in Name \ {op[w].name}  PROVE Entries(node', head', n) = Entries(node, head, n)
    <3>1. node'[k].name # n  BY <2>1, <1>x
    <3> QED BY <3>1, <2>6, <2>7, <2>1, <1>3 DEF Entries
  <2>9. Entries(node, head, op[w].name) = {} =>
            /\ head' \in Entries(node', head', op[w].name)
            /\ \A q \in Entries(node', head', op[w].name) : q = head' /\ node'[q].tid = op[w].tid
    BY <2>1, <2>6, <2>7, <1>3, <1>x DEF Entries
  <2> QED BY <2>1, <2>5, <2>8, <2>9
<1> QED BY <1>0, <1>2, <1>3

LEMMA PushRight ==
    ASSUME HeapTyped, OpsRight, TablesRight, NEW w \in Worker, NEW next, T!djb2_push(w, next)
    PROVE  TablesRight'
<1> DEFINE n == op[w].name
<1>0. /\ op[w].pc = "push" /\ n \in Name /\ op[w].do # "tdelete" /\ op[w].tid \in T!Tables
      /\ UNCHANGED <<dir, tmp>> /\ T!Touch(w)
      /\ Goes(w, Pushed(w), op[w].cur, op[w].tid, op[w].lock)
      /\ (head \in 1..Len(node) /\ node[head].name = n) \/ head' = Len(node) + 1
  BY PushEffect, PushGoes DEF Adds
<1>1. /\ op'[w].name = n /\ op'[w].do = op[w].do /\ op'[w].pc = Pushed(w) /\ op'[w].tid = op[w].tid
      /\ \A u \in Worker \ {w} : op'[u] = op[u]
  BY <1>0 DEF Goes, Now
<1>2. /\ \A m : \A p \in 1..Len(node) \cup {NULL, Garbage} : Entries(node', p, m) = Entries(node, p, m)
      /\ \A q \in 1..Len(node) : node'[q].tid = node[q].tid
      /\ \A m \in Name \ {n} : Entries(node', head', m) = Entries(node, head, m)
      /\ Entries(node, head, n) = {} =>
            /\ head' \in Entries(node', head', n)
            /\ \A q \in Entries(node', head', n) : q = head' /\ node'[q].tid = op[w].tid
  BY PushEntries
<1>3. \A m \in Name \ {n} :
        /\ \A e : e[1] = m => (e \in dir' <=> e \in dir)
        /\ Entries(node', head', m) = Entries(node, head, m)
        /\ \A u \in Worker : op[u].name = m /\ op[u].pc = "walk" =>
              Entries(node', op[u].cur, m) = Entries(node, op[u].cur, m)
        /\ \A t \in T!Tables : <<m, t>> \in dir => tmp'[t] = tmp[t]
  BY <1>0, <1>2 DEF OpsRight, OpRight
<1>4. crossed \subseteq crossed' /\ (n \notin crossed' => Alone(w))  BY <1>0, TouchAlone
<1>5. ASSUME n \notin crossed', Alone(w)  PROVE NameRight(n)' /\ OpFits(w)'
  <2>1. NameRight(n) /\ OpFits(w)  BY <1>0, <1>4, <1>5 DEF TablesRight
  <2>2. Entries(node, head, n) = {} /\ <<n, op[w].tid>> \in dir  BY <2>1, <1>0 DEF OpFits
  <2>3. /\ head' \in Entries(node', head', n)
        /\ \A q \in Entries(node', head', n) : q = head' /\ node'[q].tid = op[w].tid
    BY <1>2, <2>2
  <2>4. \A u \in Worker : ~DeletedBy(u, n) /\ ~DeletedBy(u, n)'
    <3>1. ~DeletedBy(w, n) /\ ~DeletedBy(w, n)'  BY <1>0, <1>1 DEF DeletedBy
    <3> QED BY <3>1, <1>1, <1>5, AloneDeletes
  <2>5. tmp[op[w].tid] = 0
    BY <2>1, <2>2, <1>0 DEF NameRight
  <2>6. \A e, f \in dir : e[1] = n /\ f[1] = n => e = f  BY <2>1 DEF NameRight
  <2>7. \A t \in T!Tables : <<n, t>> \in dir => tmp[t] = 0
    BY <2>1, <2>2 DEF NameRight
  <2>8. NameRight(n)'
    <3> HIDE DEF DeletedBy, Entries, n
    <3>1. \A p, q \in Entries(node', head', n) : p = q  BY <2>3
    <3>2. \A p \in Entries(node', head', n) : <<n, node'[p].tid>> \in dir'  BY <2>2, <2>3, <1>0
    <3>3. n' = n  BY <1>1 DEF n
    <3> QED BY <3>1, <3>2, <3>3, <2>4, <2>6, <2>7, <1>0 DEF NameRight
  <2>9. OpFits(w)'
    <3>1. Pushed(w) \in {"makelock", "over", "use"}  BY DEF Pushed
    <3> HIDE DEF Entries
    <3> QED BY <3>1, <1>0, <1>1, <2>2, <2>3, <2>5 DEF OpFits
  <2> QED BY <2>8, <2>9
<1>6. Descends(node)  BY DEF HeapTyped
<1> HIDE DEF Alone, NameRight, OpFits, Entries
<1>7. NameRight(n)' <=> NameRight(op[w].name)'  OBVIOUS
<1> QED BY <1>0, <1>1, <1>2, <1>3, <1>4, <1>5, <1>6, LoudStep

\* A pop, of the head or of a node further on.
LEMMA PopHeadEntries ==
    ASSUME HeapTyped, NEW w \in Worker, NEW q \in T!First(op[w].cur, op[w].name), PopsHead(w, q)
    PROVE  /\ \A p, n : Entries(node', p, n) = Entries(node, p, n)
           /\ \A n : n # op[w].name => Entries(node', head', n) = Entries(node, head, n)
           /\ Entries(node', head', op[w].name) = Entries(node, head, op[w].name) \ {head}
           /\ head \in Entries(node, head, op[w].name)
<1>1. q = head /\ q \in 1..Len(node) /\ node[q].name = op[w].name /\ UNCHANGED node /\ head' = node[q].next
  BY FirstIn DEF PopsHead
<1>2. Descends(node)  BY DEF HeapTyped
<1>3. Chase(node, head) = {head} \cup Chase(node, head') /\ head \notin Chase(node, head')
  BY <1>1, <1>2, ChaseNext
<1> QED BY <1>1, <1>3 DEF Entries

LEMMA PopNextEntries ==
    ASSUME HeapTyped, NEW w \in Worker, NEW q \in T!First(op[w].cur, op[w].name),
           NEW prev \in Chase(node, op[w].cur), PopsNext(w, q, prev)
    PROVE  /\ \A p, n : n # op[w].name => Entries(node', p, n) = Entries(node, p, n)
           /\ Entries(node', head', op[w].name) \subseteq Entries(node, head, op[w].name)
           /\ prev \in Chase(node, head) =>
                q \in Entries(node, head, op[w].name) /\ q \notin Entries(node', head', op[w].name)
           /\ \A k \in 1..Len(node) : node'[k].tid = node[k].tid
<1>1. /\ q \in 1..Len(node) /\ node[q].name = op[w].name /\ q \in T!Nodes
      /\ prev \in 1..Len(node) /\ Descends(node)
  BY FirstIn, ChaseClosed DEF HeapTyped
<1>2. q # head /\ node[prev].next = q /\ node' = Unlinked(node, prev, q) /\ UNCHANGED head
  BY DEF PopsNext
<1>3. \A k \in 1..Len(node) : node'[k].name = node[k].name /\ node'[k].tid = node[k].tid
  BY <1>1, <1>2, UnlinkedSame
<1>4. \A p : /\ Chase(node', p) \subseteq Chase(node, p)
             /\ Chase(node, p) \ {q} \subseteq Chase(node', p)
             /\ prev \in Chase(node, p) /\ p # q => q \notin Chase(node', p)
  BY <1>1, <1>2, ChasePop
<1>5. \A p : Chase(node, p) \subseteq 1..Len(node)  BY <1>1, ChaseClosed
<1>6. prev \in Chase(node, head) => q \in Chase(node, head)  BY <1>1, <1>2, ChaseClosed
<1>7. \A p, n : n # op[w].name => Entries(node', p, n) = Entries(node, p, n)
  BY <1>1, <1>3, <1>4, <1>5 DEF Entries
<1>8. Entries(node', head', op[w].name) \subseteq Entries(node, head, op[w].name)
  BY <1>2, <1>3, <1>4, <1>5 DEF Entries
<1>9. prev \in Chase(node, head) =>
        q \in Entries(node, head, op[w].name) /\ q \notin Entries(node', head', op[w].name)
  BY <1>1, <1>2, <1>4, <1>6 DEF Entries
<1> QED BY <1>3, <1>7, <1>8, <1>9

\* What is left to show of a pop: when it is over the name is not in the hash.
LEMMA PopRight ==
    ASSUME HeapTyped, OpsRight, TablesRight, NEW w \in Worker, T!djb2_pop(w)
    PROVE  TablesRight'
<1> DEFINE n == op[w].name
<1>0. /\ op[w].pc = "walk" /\ op[w].do = "tdelete" /\ UNCHANGED <<dir, tmp>> /\ n \in Name
      /\ Descends(node)
  BY PopGoes DEF T!Popping, OpsRight, OpRight, HeapTyped
<1>1. CASE PopsNothing(w)
  <2>1. /\ T!First(op[w].cur, n) = {} /\ Goes(w, "over", op[w].cur, op[w].tid, op[w].lock)
        /\ T!Touch(w) /\ UNCHANGED <<node, head>>
    BY <1>1 DEF PopsNothing
  <2>2. OpFits(w)'  BY <2>1 DEF OpFits, Goes, Now
  <2>3. \A m : ~DeletedBy(w, m)'  BY <2>1 DEF DeletedBy, Goes, Now
  <2>4. crossed \subseteq crossed'  BY <2>1, TouchAlone
  <2>5. \A m \in Name \ crossed' : DeletedBy(w, m) => Entries(node, head, m) = {}
    BY <2>1, <2>4, <1>0, WalkFinds DEF DeletedBy
  <2> QED BY <1>0, <2>1, <2>2, <2>3, <2>4, <2>5, QuietStep DEF Goes, Now
<1>2. ASSUME NEW q, Goes(w, "free", q, op[w].tid, op[w].lock), crossed \subseteq crossed',
             n \notin crossed' => Alone(w) /\ Entries(node', head', n) = {},
             \A p, m : m # n => Entries(node', p, m) = Entries(node, p, m),
             \A m : m # n => Entries(node', head', m) = Entries(node, head, m),
             \A k \in 1..Len(node) : node'[k].tid = node[k].tid
      PROVE  TablesRight'
  <2>1. /\ op'[w].name = n /\ op'[w].do = "tdelete" /\ op'[w].pc = "free"
        /\ \A u \in Worker \ {w} : op'[u] = op[u]
    BY <1>0, <1>2 DEF Goes, Now
  <2>2. \A m \in Name \ {n} :
          /\ \A e : e[1] = m => (e \in dir' <=> e \in dir)
          /\ Entries(node', head', m) = Entries(node, head, m)
          /\ \A u \in Worker : op[u].name = m /\ op[u].pc = "walk" =>
                Entries(node', op[u].cur, m) = Entries(node, op[u].cur, m)
          /\ \A t \in T!Tables : <<m, t>> \in dir => tmp'[t] = tmp[t]
    BY <1>0, <1>2
  <2>3. ASSUME n \notin crossed', Alone(w)  PROVE NameRight(n)' /\ OpFits(w)'
    <3>1. NameRight(n) /\ OpFits(w)  BY <1>0, <1>2, <2>3 DEF TablesRight
    <3>2. DeletedBy(w, n) /\ DeletedBy(w, n)'  BY <1>0, <2>1 DEF DeletedBy
    <3>3. \A e \in dir : e[1] # n  BY <3>1, <3>2 DEF NameRight
    <3>4. Entries(node', head', n) = {}  BY <1>2, <2>3
    <3>5. \A t : <<n, t>> \notin dir  BY <3>3
    <3>6. NameRight(n)'
      <4> HIDE DEF DeletedBy, Entries, n
      <4>1. n' = n  BY <2>1 DEF n
      <4> QED BY <4>1, <3>2, <3>3, <3>4, <3>5, <1>0 DEF NameRight
    <3>7. OpFits(w)'
      <4> HIDE DEF Entries
      <4> QED BY <2>1, <3>4 DEF OpFits
    <3> QED BY <3>6, <3>7
  <2> HIDE DEF Alone, NameRight, OpFits, Entries
  <2> QED BY <1>0, <1>2, <2>1, <2>2, <2>3, LoudStep
<1>3. ASSUME NEW q \in T!First(op[w].cur, op[w].name), PopsHead(w, q)  PROVE TablesRight'
  <2>1. Goes(w, "free", q, op[w].tid, op[w].lock) /\ T!Touch(w) /\ UNCHANGED node  BY <1>3 DEF PopsHead
  <2>2. crossed \subseteq crossed' /\ (n \notin crossed' => Alone(w))  BY <2>1, TouchAlone
  <2>3. /\ \A p, m : Entries(node', p, m) = Entries(node, p, m)
        /\ \A m : m # n => Entries(node', head', m) = Entries(node, head, m)
        /\ Entries(node', head', n) = Entries(node, head, n) \ {head}
        /\ head \in Entries(node, head, n)
    BY <1>3, PopHeadEntries
  <2>4. ASSUME n \notin crossed'  PROVE Entries(node', head', n) = {}
    <3>1. NameRight(n)  BY <1>0, <2>2, <2>4 DEF TablesRight
    <3>2. \A p, r \in Entries(node, head, n) : p = r  BY <3>1 DEF NameRight
    <3> QED BY <3>2, <2>3
  <2> HIDE DEF Alone, Entries
  <2> QED BY <2>1, <2>2, <2>3, <2>4, <1>2
<1>4. ASSUME NEW q \in T!First(op[w].cur, op[w].name), NEW prev \in Chase(node, op[w].cur), PopsNext(w, q, prev)
      PROVE  TablesRight'
  <2>1. /\ Goes(w, "free", q, op[w].tid, op[w].lock) /\ UNCHANGED head
        /\ IF prev \in Chase(node, head) THEN T!Touch(w) ELSE crossed' = crossed \cup {n}
    BY <1>4 DEF PopsNext
  <2>2. crossed \subseteq crossed' /\ (n \notin crossed' => Alone(w) /\ prev \in Chase(node, head))
    BY <2>1, TouchAlone
  <2>3. /\ \A p, m : m # n => Entries(node', p, m) = Entries(node, p, m)
        /\ Entries(node', head', n) \subseteq Entries(node, head, n)
        /\ prev \in Chase(node, head) => q \in Entries(node, head, n) /\ q \notin Entries(node', head', n)
        /\ \A k \in 1..Len(node) : node'[k].tid = node[k].tid
    BY <1>4, PopNextEntries
  <2>4. ASSUME n \notin crossed'  PROVE Entries(node', head', n) = {}
    <3>1. NameRight(n)  BY <1>0, <2>2, <2>4 DEF TablesRight
    <3>2. \A p, r \in Entries(node, head, n) : p = r  BY <3>1 DEF NameRight
    <3>3. q \in Entries(node, head, n) /\ q \notin Entries(node', head', n)  BY <2>2, <2>3, <2>4
    <3> HIDE DEF Entries
    <3> QED BY <3>2, <3>3, <2>3
  <2>5. \A m : m # n => Entries(node', head', m) = Entries(node, head, m)  BY <2>1, <2>3
  <2> HIDE DEF Alone, Entries
  <2> QED BY <2>1, <2>2, <2>3, <2>4, <2>5, <1>2
<1> QED BY <1>1, <1>3, <1>4, PopGoes

LEMMA InsertRight ==
    ASSUME HeapTyped, OpsRight, IdsRight, TablesRight, NEW w \in Worker, T!InsertTable(w)
    PROVE  TablesRight'
<1> DEFINE n == op[w].name
<1>0. /\ op[w].pc = "insert" /\ n \in Name /\ UNCHANGED <<node, head, tmp>> /\ T!Touch(w) /\ Descends(node)
      /\ op[w].do # "tdelete"
  BY DEF T!InsertTable, T!TAt, OpsRight, OpRight, HeapTyped
<1>1. /\ made + 1 \in T!Tables /\ dir' = dir \cup {<<n, made + 1>>}
      /\ Goes(w, "push", op[w].cur, made + 1, op[w].lock) /\ tmp[made + 1] = 0
  BY InsertGoes, IdsInsert
<1>2. /\ op'[w].name = n /\ op'[w].do = op[w].do /\ op'[w].pc = "push" /\ op'[w].tid = made + 1
      /\ \A u \in Worker \ {w} : op'[u] = op[u]
  BY <1>1 DEF Goes, Now
<1>3. \A p, m : Entries(node', p, m) = Entries(node, p, m)  BY <1>0, SameEntries
<1>4. crossed \subseteq crossed' /\ (n \notin crossed' => Alone(w))  BY <1>0, TouchAlone
<1>5. \A m \in Name \ {n} :
        /\ \A e : e[1] = m => (e \in dir' <=> e \in dir)
        /\ Entries(node', head', m) = Entries(node, head, m)
        /\ \A u \in Worker : op[u].name = m /\ op[u].pc = "walk" =>
              Entries(node', op[u].cur, m) = Entries(node, op[u].cur, m)
        /\ \A t \in T!Tables : <<m, t>> \in dir => tmp'[t] = tmp[t]
  BY <1>0, <1>1, <1>3
<1>6. ASSUME n \notin crossed', Alone(w)  PROVE NameRight(n)' /\ OpFits(w)'
  <2>1. NameRight(n) /\ OpFits(w)  BY <1>0, <1>4, <1>6 DEF TablesRight
  <2>2. \A u \in Worker : ~DeletedBy(u, n) /\ ~DeletedBy(u, n)'
    <3>1. ~DeletedBy(w, n) /\ ~DeletedBy(w, n)'  BY <1>0, <1>2 DEF DeletedBy
    <3> QED BY <3>1, <1>2, <1>6, AloneDeletes
  <2>3. \A e \in dir : e[1] # n  BY <2>1, <1>0 DEF OpFits
  <2>4. Entries(node, head, n) = {}
    <3>1. \A p \in Entries(node, head, n) : <<n, node[p].tid>> \in dir  BY <2>1, <2>2 DEF NameRight
    <3> QED BY <3>1, <2>3
  <2>5. \A e, f \in dir' : e[1] = n /\ f[1] = n => e = f  BY <2>3, <1>1
  <2>6. \A t \in T!Tables : <<n, t>> \in dir' => tmp'[t] = 0  BY <2>3, <1>0, <1>1
  <2>7. NameRight(n)'
    <3> HIDE DEF DeletedBy, Entries, n
    <3>1. n' = n  BY <1>2 DEF n
    <3> QED BY <3>1, <2>2, <2>4, <2>5, <2>6, <1>0 DEF NameRight
  <2>8. OpFits(w)'
    <3>1. <<n, made + 1>> \in dir'  BY <1>1
    <3> HIDE DEF Entries
    <3> QED BY <3>1, <1>0, <1>2, <2>4 DEF OpFits
  <2> QED BY <2>7, <2>8
<1>7. \A q \in 1..Len(node) : node'[q].tid = node[q].tid  BY <1>0
<1> HIDE DEF Alone, NameRight, OpFits, Entries
<1> QED BY <1>0, <1>2, <1>4, <1>5, <1>6, <1>7, LoudStep

LEMMA RemoveRight ==
    ASSUME HeapTyped, OpsRight, TablesRight, NEW w \in Worker, T!RemoveTable(w)
    PROVE  TablesRight'
<1> DEFINE n == op[w].name
<1>0. /\ op[w].pc = "remove" /\ n \in Name /\ UNCHANGED <<node, head, tmp>> /\ T!Touch(w) /\ Descends(node)
      /\ op[w].do = "tdelete"
  BY DEF T!RemoveTable, T!TAt, OpsRight, OpRight, HeapTyped
<1>1. crossed \subseteq crossed' /\ (n \notin crossed' => Alone(w))  BY <1>0, TouchAlone
<1>2. CASE Goes(w, "over", op[w].cur, op[w].tid, op[w].lock) /\ UNCHANGED dir
  <2>1. OpFits(w)'  BY <1>2 DEF OpFits, Goes, Now
  <2>2. \A m : ~DeletedBy(w, m)' /\ ~DeletedBy(w, m)  BY <1>0, <1>2 DEF DeletedBy, Goes, Now
  <2> QED BY <1>0, <1>1, <1>2, <2>1, <2>2, QuietStep DEF Goes, Now
<1>3. ASSUME NEW e \in dir, e[1] = n, dir' = dir \ {e}, Goes(w, "head", op[w].cur, e[2], op[w].lock)
      PROVE  TablesRight'
  <2>1. /\ op'[w].name = n /\ op'[w].do = "tdelete" /\ op'[w].pc = "head"
        /\ \A u \in Worker \ {w} : op'[u] = op[u]
    BY <1>0, <1>3 DEF Goes, Now
  <2>2. \A p, m : Entries(node', p, m) = Entries(node, p, m)  BY <1>0, SameEntries
  <2>3. \A m \in Name \ {n} :
          /\ \A f : f[1] = m => (f \in dir' <=> f \in dir)
          /\ Entries(node', head', m) = Entries(node, head, m)
          /\ \A u \in Worker : op[u].name = m /\ op[u].pc = "walk" =>
                Entries(node', op[u].cur, m) = Entries(node, op[u].cur, m)
          /\ \A t \in T!Tables : <<m, t>> \in dir => tmp'[t] = tmp[t]
    BY <1>0, <1>3, <2>2
  <2>4. ASSUME n \notin crossed', Alone(w)  PROVE NameRight(n)' /\ OpFits(w)'
    <3>1. NameRight(n)  BY <1>0, <1>1, <2>4 DEF TablesRight
    <3>2. \A f \in dir' : f[1] # n  BY <3>1, <1>3 DEF NameRight
    <3>3. DeletedBy(w, n)'  BY <2>1 DEF DeletedBy
    <3>4. \A p, q \in Entries(node, head, n) : p = q  BY <3>1 DEF NameRight
    <3>5. \A t : <<n, t>> \notin dir'  BY <3>2
    <3>6. NameRight(n)'
      <4> HIDE DEF DeletedBy, Entries, n
      <4>1. n' = n  BY <2>1 DEF n
      <4> QED BY <4>1, <3>2, <3>3, <3>4, <3>5, <1>0 DEF NameRight
    <3>7. OpFits(w)'  BY <2>1 DEF OpFits
    <3> QED BY <3>6, <3>7
  <2>5. \A q \in 1..Len(node) : node'[q].tid = node[q].tid  BY <1>0
  <2> HIDE DEF Alone, NameRight, OpFits, Entries
  <2> QED BY <1>0, <1>1, <2>1, <2>3, <2>4, <2>5, LoudStep
<1> QED BY <1>2, <1>3, RemoveGoes

LEMMA MakeLockRight ==
    ASSUME HeapTyped, OpsRight, IdsRight, TablesRight, NEW w \in Worker, T!MakeLock(w)
    PROVE  TablesRight'
<1> DEFINE n == op[w].name
<1>0. /\ op[w].pc = "makelock" /\ n \in Name /\ UNCHANGED <<dir, node, head>> /\ T!Touch(w) /\ Descends(node)
      /\ op[w].do # "tdelete" /\ op[w].tid \in T!Tables /\ tmp' = [tmp EXCEPT ![op[w].tid] = Len(inside')]
  BY DEF T!MakeLock, T!TAt, OpsRight, OpRight, HeapTyped
<1>1. crossed \subseteq crossed' /\ (n \notin crossed' => Alone(w))  BY <1>0, TouchAlone
<1>2. Goes(w, IF op[w].do = "icreate" THEN "over" ELSE "acquire", op[w].cur, op[w].tid, op[w].lock)
  BY MakeLockGoes
<1>3. /\ op'[w].name = n /\ op'[w].do = op[w].do /\ op'[w].pc \in {"over", "acquire"}
      /\ \A u \in Worker \ {w} : op'[u] = op[u]
  BY <1>2 DEF Goes, Now
<1>4. \A p, m : Entries(node', p, m) = Entries(node, p, m)  BY <1>0, SameEntries
<1>5. ASSUME NEW m \in Name \ {n}, NEW t \in T!Tables, <<m, t>> \in dir  PROVE tmp'[t] = tmp[t]
  <2>1. Known(m, t) /\ Known(n, op[w].tid)  BY <1>5 DEF Known
  <2>2. t # op[w].tid  BY <2>1, <1>0 DEF IdsRight
  <2> QED BY <2>2, <1>0 DEF HeapTyped
<1>6. \A m \in Name \ {n} :
        /\ \A e : e[1] = m => (e \in dir' <=> e \in dir)
        /\ Entries(node', head', m) = Entries(node, head, m)
        /\ \A u \in Worker : op[u].name = m /\ op[u].pc = "walk" =>
              Entries(node', op[u].cur, m) = Entries(node, op[u].cur, m)
        /\ \A t \in T!Tables : <<m, t>> \in dir => tmp'[t] = tmp[t]
  BY <1>0, <1>4, <1>5
<1>7. ASSUME n \notin crossed', Alone(w)  PROVE NameRight(n)' /\ OpFits(w)'
  <2>1. NameRight(n) /\ OpFits(w)  BY <1>0, <1>1, <1>7 DEF TablesRight
  <2>2. \A u \in Worker : ~DeletedBy(u, n) /\ ~DeletedBy(u, n)'
    <3>1. ~DeletedBy(w, n) /\ ~DeletedBy(w, n)'  BY <1>0, <1>3 DEF DeletedBy
    <3> QED BY <3>1, <1>3, <1>7, AloneDeletes
  <2>3. ASSUME NEW t \in T!Tables, <<n, t>> \in dir, tmp'[t] # 0  PROVE Entries(node, head, n) # {}
    BY <2>1, <1>0 DEF OpFits
  <2>7. NameRight(n)'
    <3> HIDE DEF DeletedBy, Entries, n
    <3>1. n' = n  BY <1>3 DEF n
    <3> QED BY <3>1, <2>1, <2>2, <2>3, <1>0 DEF NameRight
  <2>8. OpFits(w)'  BY <1>3 DEF OpFits
  <2> QED BY <2>7, <2>8
<1>8. \A q \in 1..Len(node) : node'[q].tid = node[q].tid  BY <1>0
<1> HIDE DEF Alone, NameRight, OpFits, Entries
<1> QED BY <1>0, <1>1, <1>3, <1>6, <1>7, <1>8, LoudStep

LEMMA TablesStep ==
    ASSUME HeapTyped, OpsRight, IdsRight, TablesRight, NEW w \in Worker, TableAction(w)
    PROVE  TablesRight'
  BY QuietSteps1, QuietSteps2, PushRight, PopRight, InsertRight, RemoveRight, MakeLockRight
     DEF TableAction, T!TableStep

-----------------------------------------------------------------------------
(* Locks *)

\* Who is inside through lock k.
Users(k) == {u \in Worker : op[u].pc = "inside" /\ op[u].lock = k}

\* A lock is of one table; who is inside came in through the lock of his table,
\* and through no other's; and the lock counts those who are inside.
LocksRight ==
    /\ \A t, s \in T!Tables : tmp[t] # 0 /\ tmp[t] = tmp[s] => t = s
    /\ \A w \in Worker : op[w].pc = "inside" =>
          /\ op[w].lock \in 1..Len(inside)
          /\ \A t \in T!Tables : tmp[t] = op[w].lock => t = op[w].tid
          /\ op[w].name \notin crossed => op[w].lock = tmp[op[w].tid]
    /\ \A n \in Name \ crossed, t \in T!Tables :
          Known(n, t) /\ tmp[t] # 0 => inside[tmp[t]] = Cardinality(Users(tmp[t]))

LEMMA UsersKept ==
    ASSUME NEW w \in Worker, \A u \in Worker \ {w} : op'[u] = op[u],
           op[w].pc # "inside", op'[w].pc # "inside"
    PROVE  \A k : Users(k)' = Users(k)
<1> SUFFICES ASSUME NEW k, NEW u \in Worker
             PROVE  op'[u].pc = "inside" /\ op'[u].lock = k <=> op[u].pc = "inside" /\ op[u].lock = k
  BY DEF Users
<1>1. CASE u = w  BY <1>1
<1>2. CASE u # w
  <2>1. op'[u] = op[u]  BY <1>2
  <2> QED BY <2>1
<1> QED BY <1>1, <1>2

\* A step that makes no lock, and nobody comes in or goes out.
LEMMA LocksKept ==
    ASSUME LocksRight, NothingNew, NEW w \in Worker, \A u \in Worker \ {w} : op'[u] = op[u],
           op[w].pc # "inside", op'[w].pc # "inside",
           UNCHANGED <<tmp, inside>>, crossed \subseteq crossed'
    PROVE  LocksRight'
<1>1. \A k : Users(k)' = Users(k)  BY UsersKept
<1>2. \A t, s \in T!Tables : tmp'[t] # 0 /\ tmp'[t] = tmp'[s] => t = s  BY DEF LocksRight
<1>3. ASSUME NEW u \in Worker, op'[u].pc = "inside"
      PROVE  /\ op'[u].lock \in 1..Len(inside')
             /\ \A t \in T!Tables : tmp'[t] = op'[u].lock => t = op'[u].tid
             /\ op'[u].name \notin crossed' => op'[u].lock = tmp'[op'[u].tid]
  <2>1. op'[u] = op[u]  BY <1>3
  <2> QED BY <2>1, <1>3 DEF LocksRight
<1>4. ASSUME NEW n \in Name \ crossed', NEW t \in T!Tables, Known(n, t)', tmp'[t] # 0
      PROVE  inside'[tmp'[t]] = Cardinality(Users(tmp[t]))
  BY <1>4 DEF LocksRight, NothingNew
<1>5. \A t : Users(tmp[t])' = Users(tmp[t])  BY <1>1
<1>6. \A n \in Name \ crossed', t \in T!Tables :
         Known(n, t)' /\ tmp'[t] # 0 => inside'[tmp'[t]] = Cardinality(Users(tmp[t])')
  BY <1>4, <1>5
<1> QED BY <1>2, <1>3, <1>6 DEF LocksRight

\* The other steps go from outside to outside.
Outside(w) ==
    /\ op[w].pc # "inside" /\ op'[w].pc # "inside"
    /\ \A u \in Worker \ {w} : op'[u] = op[u]
    /\ crossed \subseteq crossed' /\ UNCHANGED <<tmp, inside>>

LEMMA Outside1 ==
    ASSUME HeapTyped, OpsRight, NEW w \in Worker,
           \/ T!ReadHead(w) \/ T!WalkFails(w) \/ T!djb2_search(w) \/ T!PushFails(w) \/ T!PopFails(w)
           \/ T!DropAstray(w) \/ T!Lookup(w) \/ T!Unknown(w)
    PROVE  Outside(w) /\ UNCHANGED asTable
<1>1. CASE T!ReadHead(w)
  <2>1. UNCHANGED <<tmp, inside, crossed, asTable>> /\ op[w].pc = "head"  BY <1>1 DEF T!ReadHead, T!TAt
  <2> QED BY <2>1, <1>1, ReadHeadGoes DEF Goes, Now, Outside
<1>2. CASE T!WalkFails(w) \/ T!PushFails(w) \/ T!PopFails(w) \/ T!DropAstray(w)
  <2>1. UNCHANGED <<tmp, inside, op, crossed, asTable>> /\ op[w].pc \in {"walk", "push", "drop", "stray"}
    BY <1>2 DEF T!WalkFails, T!PushFails, T!PopFails, T!DropAstray, T!Breaks, T!TAt
  <2> QED BY <2>1 DEF Outside
<1>3. CASE T!djb2_search(w)
  <2>1. UNCHANGED <<tmp, inside, crossed, asTable>>  BY <1>3 DEF T!djb2_search
  <2>2. op[w].pc = "walk" /\ op'[w].pc # "inside" /\ \A u \in Worker \ {w} : op'[u] = op[u]
    BY <1>3, SearchGoes DEF Goes, Now
  <2> QED BY <2>1, <2>2 DEF Outside
<1>4. CASE T!Lookup(w)
  <2>1. UNCHANGED <<tmp, inside, crossed, asTable>> /\ op[w].pc = "lookup"  BY <1>4 DEF T!Lookup, T!TAt
  <2> QED BY <2>1, <1>4, LookupGoes DEF Goes, Now, Outside
<1>5. CASE T!Unknown(w)
  <2>1. UNCHANGED <<tmp, inside, crossed, asTable>> /\ op[w].pc = "lookup"  BY <1>5 DEF T!Unknown, T!TAt
  <2> QED BY <2>1, <1>5, UnknownGoes DEF Goes, Now, Outside
<1> QED BY <1>1, <1>2, <1>3, <1>4, <1>5

LEMMA Outside2 ==
    ASSUME HeapTyped, OpsRight, NEW w \in Worker,
           \/ T!Free(w) \/ T!Use(w) \/ T!Drop(w) \/ T!TableOpEnds(w)
           \/ \E do \in Dos, n \in Name : T!TableOp(w, do, n)
           \/ T!InsertTable(w) \/ T!RemoveTable(w) \/ T!djb2_pop(w)
    PROVE  Outside(w) /\ UNCHANGED asTable
<1>1. CASE T!Free(w) \/ T!Use(w) \/ T!Drop(w)
  <2>1. UNCHANGED <<tmp, inside, crossed, asTable>> /\ op[w].pc \in {"free", "use", "drop"}
    BY <1>1 DEF T!Free, T!Use, T!Drop, T!TAt
  <2> QED BY <2>1, <1>1, FreeGoes, UseGoes, DropGoes DEF Goes, Now, Outside
<1>2. CASE T!TableOpEnds(w)
  <2>1. UNCHANGED <<tmp, inside, crossed, asTable>> /\ op[w].pc = "over"  BY <1>2 DEF T!TableOpEnds, T!TAt
  <2> QED BY <2>1, <1>2, EndGoes DEF Now, Outside
<1>3. ASSUME NEW do \in Dos, NEW n \in Name, T!TableOp(w, do, n)  PROVE Outside(w) /\ UNCHANGED asTable
  <2>1. UNCHANGED <<tmp, inside, crossed, asTable>> /\ op[w].pc = "none"  BY <1>3 DEF T!TableOp, T!TAt
  <2>2. Begins(do, n) # "inside"  BY DEF Begins
  <2> QED BY <2>1, <2>2, <1>3, BeginGoes DEF Now, Outside
<1>4. CASE T!InsertTable(w)
  <2>1. UNCHANGED <<tmp, inside, asTable>> /\ op[w].pc = "insert" /\ T!Touch(w)
    BY <1>4 DEF T!InsertTable, T!TAt
  <2> QED BY <2>1, <1>4, InsertGoes, TouchAlone DEF Goes, Now, Outside
<1>5. CASE T!RemoveTable(w)
  <2>1. UNCHANGED <<tmp, inside, asTable>> /\ op[w].pc = "remove" /\ T!Touch(w)
    BY <1>5 DEF T!RemoveTable, T!TAt
  <2> QED BY <2>1, <1>5, RemoveGoes, TouchAlone DEF Goes, Now, Outside
<1>6. CASE T!djb2_pop(w)
  <2>1. /\ op[w].pc = "walk" /\ UNCHANGED <<tmp, inside, asTable>>
        /\ crossed \subseteq crossed'
        /\ op'[w].pc # "inside" /\ \A u \in Worker \ {w} : op'[u] = op[u]
    BY <1>6, PopGoes, TouchAlone DEF PopsNothing, PopsHead, PopsNext, Goes, Now
  <2> QED BY <2>1 DEF Outside
<1> QED BY <1>1, <1>2, <1>3, <1>4, <1>5, <1>6

LEMMA PushOutside ==
    ASSUME HeapTyped, OpsRight, NEW w \in Worker, NEW next, T!djb2_push(w, next)
    PROVE  Outside(w) /\ asTable \subseteq asTable'
<1>1. /\ op[w].pc = "push" /\ UNCHANGED <<tmp, inside>> /\ T!Touch(w)
      /\ asTable' = IF op[w].do \in T!OfIndex THEN asTable ELSE asTable \cup {op[w].name}
  BY PushEffect
<1>2. Pushed(w) # "inside"  BY DEF Pushed
<1> QED BY <1>1, <1>2, PushGoes, TouchAlone DEF Goes, Now, Outside

\* Everything but coming in, going out and making a lock.
LEMMA LocksOutside ==
    ASSUME LocksRight, NothingNew, NEW w \in Worker, Outside(w)
    PROVE  LocksRight'
  BY LocksKept DEF Outside

LEMMA LocksMakeLock ==
    ASSUME HeapTyped, OpsRight, IdsRight, TablesRight, LocksRight, NothingNew, NEW w \in Worker, T!MakeLock(w)
    PROVE  LocksRight'
<1> DEFINE t0 == op[w].tid
           k == Len(inside) + 1
<1>0. /\ op[w].pc = "makelock" /\ op[w].name \in Name /\ t0 \in T!Tables /\ T!Touch(w)
      /\ inside' = Append(inside, 0) /\ tmp' = [tmp EXCEPT ![t0] = Len(inside')]
      /\ inside \in Seq(Int) /\ Len(inside) \in Nat /\ tmp \in [T!Tables -> 0..Len(inside)]
  BY DEF T!MakeLock, T!TAt, OpsRight, OpRight, HeapTyped
<1>1. /\ Len(inside') = k /\ inside'[k] = 0 /\ \A i \in 1..Len(inside) : inside'[i] = inside[i]
      /\ tmp'[t0] = k /\ \A t \in T!Tables \ {t0} : tmp'[t] = tmp[t]
  BY <1>0
<1>2. /\ crossed \subseteq crossed' /\ op'[w].pc \in {"over", "acquire"}
      /\ \A u \in Worker \ {w} : op'[u] = op[u]
  BY <1>0, TouchAlone, MakeLockGoes DEF Goes, Now
<1>3. \A i : Users(i)' = Users(i)  BY <1>0, <1>2, UsersKept
<1>4. \A t \in T!Tables : tmp[t] \in Nat /\ tmp[t] < k  BY <1>0
<1>5. \A t, s \in T!Tables : tmp'[t] # 0 /\ tmp'[t] = tmp'[s] => t = s
  BY <1>1, <1>4 DEF LocksRight
<1>6. ASSUME NEW u \in Worker, op'[u].pc = "inside"
      PROVE  /\ op'[u].lock \in 1..Len(inside')
             /\ \A t \in T!Tables : tmp'[t] = op'[u].lock => t = op'[u].tid
             /\ op'[u].name \notin crossed' => op'[u].lock = tmp'[op'[u].tid]
  <2>1. op'[u] = op[u] /\ OpRight(u)  BY <1>2, <1>6 DEF OpsRight
  <2>2. /\ op[u].lock \in 1..Len(inside)
        /\ \A t \in T!Tables : tmp[t] = op[u].lock => t = op[u].tid
        /\ op[u].name \notin crossed => op[u].lock = tmp[op[u].tid]
    BY <2>1, <1>6 DEF LocksRight
  <2>3. op[u].tid \in T!Tables /\ op[u].name \in Name  BY <2>1, <1>6 DEF OpRight
  <2>4. op[u].lock \in 1..Len(inside')  BY <2>2, <1>0, <1>1
  <2>5. ASSUME NEW t \in T!Tables, tmp'[t] = op[u].lock  PROVE t = op[u].tid
    <3>1. t # t0  BY <2>2, <2>5, <1>0, <1>1
    <3> QED BY <3>1, <2>2, <2>5, <1>1
  <2>6. ASSUME op[u].name \notin crossed'  PROVE op[u].lock = tmp'[op[u].tid]
    <3>1. op[u].name \notin crossed /\ op[u].lock = tmp[op[u].tid]  BY <2>2, <2>6, <1>2
    <3>2. CASE op[u].tid = t0
      <4>1. Known(op[u].name, t0) /\ Known(op[w].name, t0)  BY <3>2, OwnKnown
      <4>2. op[u].name = op[w].name  BY <4>1, <2>3, <1>0 DEF IdsRight
      <4>3. tmp[t0] = 0  BY <4>2, <3>1, <2>3, <1>0 DEF TablesRight, OpFits
      <4> QED BY <4>3, <3>1, <3>2, <2>2, <1>0
    <3>3. CASE op[u].tid # t0  BY <3>1, <3>3, <2>3, <1>1
    <3> QED BY <3>2, <3>3
  <2> QED BY <2>1, <2>4, <2>5, <2>6
<1>7. ASSUME NEW n \in Name \ crossed', NEW t \in T!Tables, Known(n, t)', tmp'[t] # 0
      PROVE  inside'[tmp'[t]] = Cardinality(Users(tmp'[t]))
  <2>1. CASE t = t0
    <3>1. \A u \in Worker : op[u].pc = "inside" => op[u].lock \in 1..Len(inside)  BY DEF LocksRight
    <3>2. k \notin 1..Len(inside)  BY <1>0
    <3>3. Users(k) = {}  BY <3>1, <3>2 DEF Users
    <3> QED BY <3>3, <2>1, <1>1, FS_EmptySet
  <2>2. CASE t # t0
    <3>1. tmp'[t] = tmp[t] /\ tmp[t] \in 1..Len(inside)  BY <2>2, <1>0, <1>1, <1>7
    <3>2. Known(n, t) /\ n \notin crossed  BY <3>1, <1>0, <1>2, <1>7 DEF NothingNew
    <3>3. inside[tmp[t]] = Cardinality(Users(tmp[t]))  BY <3>1, <3>2, <1>0 DEF LocksRight
    <3> QED BY <3>1, <3>3, <1>1
  <2> QED BY <2>1, <2>2
<1>8. \A n \in Name \ crossed', t \in T!Tables :
         Known(n, t)' /\ tmp'[t] # 0 => inside'[tmp'[t]] = Cardinality(Users(tmp[t])')
  <2>1. \A t : Users(tmp[t])' = Users(tmp'[t])  BY <1>0, <1>2 DEF Users
  <2> QED BY <2>1, <1>7
<1> QED BY <1>5, <1>6, <1>8 DEF LocksRight

LEMMA WorkersCounted ==
    ASSUME NEW S \in SUBSET Worker
    PROVE  /\ IsFiniteSet(S) /\ Cardinality(S) \in Nat
           /\ \A w \in Worker : Cardinality(S \cup {w}) = IF w \in S THEN Cardinality(S) ELSE Cardinality(S) + 1
           /\ \A w \in Worker : Cardinality(S \ {w}) = IF w \in S THEN Cardinality(S) - 1 ELSE Cardinality(S)
<1>1. IsFiniteSet(S)  BY ServerAssumption, FS_Subset
<1> QED BY <1>1, FS_CardinalityType, FS_AddElement, FS_RemoveElement

LEMMA LocksAcquire ==
    ASSUME HeapTyped, OpsRight, LocksRight, NothingNew, NEW w \in Worker, T!Acquire(w)
    PROVE  LocksRight'
<1> DEFINE t0 == op[w].tid
           k == tmp[t0]
<1>a. op[w].pc = "acquire" /\ UNCHANGED <<tmp, crossed>>  BY DEF T!Acquire, T!TAt
<1>0. /\ op[w].pc = "acquire" /\ op[w].name \in Name /\ t0 \in T!Tables /\ UNCHANGED <<tmp, crossed>>
      /\ inside \in Seq(Int) /\ Len(inside) \in Nat /\ tmp \in [T!Tables -> 0..Len(inside)]
  BY <1>a DEF OpsRight, OpRight, HeapTyped
<1>1. CASE UNCHANGED <<inside, op>>
  <2>1. op[w].pc # "inside" /\ op'[w].pc # "inside" /\ \A u \in Worker \ {w} : op'[u] = op[u]
    BY <1>0, <1>1
  <2> QED BY <2>1, <1>0, <1>1, LocksKept
<1>2. CASE /\ k \in 1..Len(inside) /\ inside' = [inside EXCEPT ![k] = @ + 1]
           /\ Goes(w, "inside", op[w].cur, op[w].tid, k)
  <2>1. /\ op'[w].pc = "inside" /\ op'[w].lock = k /\ op'[w].tid = t0
        /\ \A u \in Worker \ {w} : op'[u] = op[u]
    BY <1>2 DEF Goes, Now
  <2>2. /\ Len(inside') = Len(inside) /\ inside'[k] = inside[k] + 1
        /\ \A i \in 1..Len(inside) : i # k => inside'[i] = inside[i]
    BY <1>0, <1>2
  <2>3. \A t, s \in T!Tables : tmp'[t] # 0 /\ tmp'[t] = tmp'[s] => t = s  BY <1>0 DEF LocksRight
  <2>4. ASSUME NEW u \in Worker, op'[u].pc = "inside"
        PROVE  /\ op'[u].lock \in 1..Len(inside')
               /\ \A t \in T!Tables : tmp'[t] = op'[u].lock => t = op'[u].tid
               /\ op'[u].name \notin crossed' => op'[u].lock = tmp'[op'[u].tid]
    <3>1. CASE u = w
      <4>1. \A t \in T!Tables : tmp[t] = k => t = t0  BY <1>0, <1>2 DEF LocksRight
      <4> QED BY <4>1, <3>1, <2>1, <2>2, <1>0, <1>2
    <3>2. CASE u # w
      <4>1. op'[u] = op[u]  BY <3>2, <2>1
      <4> QED BY <4>1, <2>2, <2>4, <1>0 DEF LocksRight
    <3> QED BY <3>1, <3>2
  <2>5. ASSUME NEW n \in Name \ crossed', NEW t \in T!Tables, Known(n, t)', tmp'[t] # 0
        PROVE  inside'[tmp'[t]] = Cardinality(Users(tmp[t])')
    <3>1. /\ Known(n, t) /\ n \notin crossed /\ tmp[t] \in 1..Len(inside)
          /\ inside[tmp[t]] = Cardinality(Users(tmp[t]))
      BY <2>5, <1>0 DEF LocksRight, NothingNew
    <3>2. CASE tmp[t] = k
      <4>1. w \notin Users(k)  BY <1>0 DEF Users
      <4>2. Cardinality(Users(k) \cup {w}) = Cardinality(Users(k)) + 1
        <5>1. Users(k) \in SUBSET Worker  BY DEF Users
        <5> HIDE DEF Users, k
        <5> QED BY <4>1, <5>1, WorkersCounted
      <4>3. Users(tmp[t])' = Users(k) \cup {w}  BY <3>2, <2>1, <1>0 DEF Users
      <4> QED BY <4>2, <4>3, <3>1, <3>2, <2>2, <1>0
    <3>3. CASE tmp[t] # k
      <4>1. Users(tmp[t])' = Users(tmp[t])  BY <3>3, <2>1, <1>0 DEF Users
      <4> QED BY <4>1, <3>1, <3>3, <2>2, <1>0
    <3> QED BY <3>2, <3>3
  <2> QED BY <2>3, <2>4, <2>5 DEF LocksRight
<1> QED BY <1>1, <1>2, AcquireGoes

LEMMA LocksLeave ==
    ASSUME HeapTyped, OpsRight, IdsRight, LocksRight, NothingNew, NEW w \in Worker, T!Leave(w)
    PROVE  LocksRight'
<1> DEFINE t0 == op[w].tid
           k == tmp[t0]
<1>0. /\ op[w].pc = "inside" /\ op[w].name \in Name /\ t0 \in T!Tables /\ UNCHANGED <<tmp, crossed>>
      /\ inside' = [inside EXCEPT ![k] = @ - 1]
      /\ inside \in Seq(Int) /\ Len(inside) \in Nat /\ tmp \in [T!Tables -> 0..Len(inside)]
  BY DEF T!Leave, T!TAt, OpsRight, OpRight, HeapTyped
<1>1. op'[w].pc = "over" /\ op'[w].tid = t0 /\ \A u \in Worker \ {w} : op'[u] = op[u]  BY LeaveGoes DEF Goes, Now
<1>2. /\ Len(inside') = Len(inside) /\ (k \in 1..Len(inside) => inside'[k] = inside[k] - 1)
      /\ \A i \in 1..Len(inside) : i # k => inside'[i] = inside[i]
  BY <1>0
<1>3. \A t, s \in T!Tables : tmp'[t] # 0 /\ tmp'[t] = tmp'[s] => t = s  BY <1>0 DEF LocksRight
<1>4. ASSUME NEW u \in Worker, op'[u].pc = "inside"
      PROVE  /\ op'[u].lock \in 1..Len(inside')
             /\ \A t \in T!Tables : tmp'[t] = op'[u].lock => t = op'[u].tid
             /\ op'[u].name \notin crossed' => op'[u].lock = tmp'[op'[u].tid]
  <2>1. op'[u] = op[u]  BY <1>1, <1>4
  <2> QED BY <2>1, <1>0, <1>2, <1>4 DEF LocksRight
<1>5. ASSUME NEW n \in Name \ crossed', NEW t \in T!Tables, Known(n, t)', tmp'[t] # 0
      PROVE  inside'[tmp'[t]] = Cardinality(Users(tmp[t])')
  <2>1. /\ Known(n, t) /\ n \notin crossed /\ tmp[t] \in 1..Len(inside)
        /\ inside[tmp[t]] = Cardinality(Users(tmp[t]))
    BY <1>5, <1>0 DEF LocksRight, NothingNew
  <2>2. CASE t = t0
    <3>1. n = op[w].name  BY <2>1, <2>2, <1>0, OwnKnown DEF IdsRight
    <3>2. op[w].lock = k  BY <3>1, <2>1, <1>0 DEF LocksRight
    <3>3. w \in Users(k) /\ Users(k)' = Users(k) \ {w}  BY <3>2, <1>0, <1>1, <2>2 DEF Users
    <3>4. Cardinality(Users(k) \ {w}) = Cardinality(Users(k)) - 1
      <4>1. Users(k) \in SUBSET Worker  BY DEF Users
      <4> HIDE DEF Users, k
      <4> QED BY <3>3, <4>1, WorkersCounted
    <3>5. Users(tmp[t])' = Users(k) \ {w}  BY <3>3, <2>2, <1>0, <1>1 DEF Users
    <3> QED BY <3>4, <3>5, <2>1, <2>2, <1>0, <1>2
  <2>3. CASE t # t0
    <3>1. tmp[t] # k /\ tmp[t] # op[w].lock  BY <2>3, <1>0, <1>5 DEF LocksRight
    <3>2. Users(tmp[t])' = Users(tmp[t])  BY <3>1, <1>0, <1>1 DEF Users
    <3> QED BY <3>1, <3>2, <2>1, <1>0, <1>2
  <2> QED BY <2>2, <2>3
<1> QED BY <1>3, <1>4, <1>5 DEF LocksRight

LEMMA LocksStep ==
    ASSUME HeapTyped, OpsRight, IdsRight, TablesRight, LocksRight, NEW w \in Worker, TableAction(w)
    PROVE  LocksRight'
<1>1. NothingNew  BY IdsStep
<1>2. CASE T!Acquire(w)  BY <1>1, <1>2, LocksAcquire
<1>3. CASE T!Leave(w)  BY <1>1, <1>3, LocksLeave
<1>4. CASE T!MakeLock(w)  BY <1>1, <1>4, LocksMakeLock
<1>5. CASE Outside(w)  BY <1>1, <1>5, LocksOutside
<1> QED BY <1>2, <1>3, <1>4, <1>5, Outside1, Outside2, PushOutside DEF TableAction, T!TableStep

-----------------------------------------------------------------------------
(* An index has a lock when it is wanted *)

\* With the locks tm and the operations o.
Making(o, n, t) == \E u \in Worker : o[u].pc = "makelock" /\ o[u].name = n /\ o[u].tid = t
HasLock(tm, o, n, t) == tm[t] # 0 \/ Making(o, n, t)

\* Whoever finds an index in the hash finds a lock, or somebody about to make it.
MadeRight ==
    \A n \in Name \ (crossed \cup asTable) :
        /\ \A p \in Entries(node, head, n) : HasLock(tmp, op, n, node[p].tid)
        /\ \A w \in Worker : op[w].pc = "acquire" /\ op[w].name = n => HasLock(tmp, op, n, op[w].tid)

\* The server breaks for want of a lock only where one was not to be expected.
LockMissing ==
    broken = "no lock" => \E w \in Worker :
        /\ op[w].pc = "acquire" /\ tmp[op[w].tid] = 0
        /\ op[w].name \in crossed \cup asTable \/ Making(op, op[w].name, op[w].tid)

LEMMA MadeKept ==
    ASSUME HeapTyped, OpsRight, MadeRight, NEW w \in Worker, \A u \in Worker \ {w} : op'[u] = op[u],
           crossed \subseteq crossed', asTable \subseteq asTable',
           op[w].pc = "makelock" => op'[w] = op[w] \/ tmp'[op[w].tid] # 0,
           \A t \in T!Tables : tmp[t] # 0 => tmp'[t] # 0,
           \A n \in Name \ (crossed' \cup asTable') :
               /\ \A p \in Entries(node', head', n) :
                     \/ p \in Entries(node, head, n) /\ node'[p].tid = node[p].tid /\ node[p].tid \in T!Tables
                     \/ HasLock(tmp', op', n, node'[p].tid)
               /\ op'[w].pc = "acquire" /\ op'[w].name = n => op'[w] = op[w] \/ HasLock(tmp', op', n, op'[w].tid)
    PROVE  MadeRight'
<1>1. \A n, t : Making(op, n, t) => Making(op', n, t) \/ tmp'[t] # 0
  <2> SUFFICES ASSUME NEW n, NEW t, NEW u \in Worker, op[u].pc = "makelock", op[u].name = n, op[u].tid = t
               PROVE  Making(op', n, t) \/ tmp'[t] # 0
    BY DEF Making
  <2>1. CASE op'[u] = op[u]  BY <2>1 DEF Making
  <2>2. CASE op'[u] # op[u]  BY <2>2
  <2> QED BY <2>1, <2>2
<1>2. \A n, t : t \in T!Tables /\ HasLock(tmp, op, n, t) => HasLock(tmp', op', n, t)  BY <1>1 DEF HasLock
<1> SUFFICES ASSUME NEW n \in Name \ (crossed' \cup asTable')
             PROVE  /\ \A p \in Entries(node', head', n) : HasLock(tmp', op', n, node'[p].tid)
                    /\ \A u \in Worker : op'[u].pc = "acquire" /\ op'[u].name = n => HasLock(tmp', op', n, op'[u].tid)
  BY DEF MadeRight, HasLock, Making
<1>3. n \in Name \ (crossed \cup asTable)  OBVIOUS
<1>4. \A p \in Entries(node, head, n) : HasLock(tmp, op, n, node[p].tid)  BY <1>3 DEF MadeRight
<1>5. ASSUME NEW p \in Entries(node', head', n)  PROVE HasLock(tmp', op', n, node'[p].tid)
  <2>1. CASE HasLock(tmp', op', n, node'[p].tid)  BY <2>1
  <2>2. CASE p \in Entries(node, head, n) /\ node'[p].tid = node[p].tid /\ node[p].tid \in T!Tables
    <3>1. HasLock(tmp', op', n, node[p].tid)  BY <2>2, <1>2, <1>4
    <3> QED BY <2>2, <3>1 DEF HasLock, Making
  <2> QED BY <2>1, <2>2
<1>6. ASSUME NEW u \in Worker, op'[u].pc = "acquire", op'[u].name = n  PROVE HasLock(tmp', op', n, op'[u].tid)
  <2>1. CASE op'[u] = op[u]
    <3>1. op[u].tid \in T!Tables /\ HasLock(tmp, op, n, op[u].tid)
      BY <2>1, <1>3, <1>6 DEF MadeRight, OpsRight, OpRight
    <3>2. HasLock(tmp', op', n, op[u].tid)  BY <3>1, <1>2
    <3> QED BY <2>1, <3>2 DEF HasLock, Making
  <2>2. CASE op'[u] # op[u]  BY <2>2, <1>6
  <2> QED BY <2>1, <2>2
<1> QED BY <1>5, <1>6

LEMMA EntryTyped ==
    ASSUME HeapTyped
    PROVE  \A q, n : \A p \in Entries(node, q, n) : node[p].tid \in T!Tables
<1> SUFFICES ASSUME NEW q, NEW n, NEW p \in Entries(node, q, n)  PROVE node[p].tid \in T!Tables
  OBVIOUS
<1>1. node \in Seq(NodeType) /\ p \in 1..Len(node)  BY ChaseClosed DEF HeapTyped, Descends, Entries
<1>2. node[p] \in NodeType  BY <1>1
<1> QED BY <1>2 DEF NodeType

LEMMA MadeQuiet ==
    ASSUME HeapTyped, OpsRight, MadeRight, NEW w \in Worker, UNCHANGED <<node, head, tmp>>,
           \A u \in Worker \ {w} : op'[u] = op[u], crossed \subseteq crossed', asTable \subseteq asTable',
           op[w].pc # "makelock", op'[w].pc = "acquire" => op'[w] = op[w]
    PROVE  MadeRight'
<1>1. \A n : \A p \in Entries(node, head, n) : node[p].tid \in T!Tables  BY EntryTyped
<1> HIDE DEF Entries
<1> QED BY <1>1, MadeKept

LEMMA MadeQuietSteps ==
    ASSUME HeapTyped, OpsRight, MadeRight, NEW w \in Worker,
           \/ T!ReadHead(w) \/ T!WalkFails(w) \/ T!PushFails(w) \/ T!PopFails(w) \/ T!Lookup(w) \/ T!Unknown(w)
           \/ T!DropAstray(w) \/ T!Free(w) \/ T!Use(w) \/ T!Drop(w) \/ T!TableOpEnds(w) \/ T!InsertTable(w) \/ T!RemoveTable(w)
           \/ T!Acquire(w) \/ T!Leave(w)
           \/ \E do \in Dos, n \in Name : T!TableOp(w, do, n)
    PROVE  MadeRight'
<1>1. UNCHANGED <<node, head>> /\ op[w].pc # "makelock"
  BY DEF T!ReadHead, T!WalkFails, T!PushFails, T!PopFails, T!DropAstray, T!Lookup, T!Unknown, T!Free, T!Use, T!Drop,
         T!TableOpEnds, T!InsertTable, T!RemoveTable, T!Acquire, T!Leave, T!TableOp, T!Breaks, T!TAt
<1>2. op'[w].pc = "acquire" => op'[w] = op[w]
  <2>1. ASSUME NEW do \in Dos, NEW n \in Name, T!TableOp(w, do, n)  PROVE op'[w].pc # "acquire"
    <3>1. Begins(do, n) # "acquire"  BY DEF Begins
    <3> QED BY <2>1, <3>1, BeginGoes DEF Now
  <2>2. CASE T!WalkFails(w) \/ T!PushFails(w) \/ T!PopFails(w) \/ T!DropAstray(w)
    BY <2>2 DEF T!WalkFails, T!PushFails, T!PopFails, T!DropAstray, T!Breaks
  <2>3. CASE \/ T!ReadHead(w) \/ T!Lookup(w) \/ T!Unknown(w) \/ T!Free(w) \/ T!Use(w) \/ T!Drop(w)
    BY <2>3, ReadHeadGoes, LookupGoes, UnknownGoes, FreeGoes, UseGoes, DropGoes DEF Goes, Now
  <2>4. CASE \/ T!TableOpEnds(w) \/ T!InsertTable(w) \/ T!RemoveTable(w) \/ T!Acquire(w) \/ T!Leave(w)
    BY <2>4, EndGoes, InsertGoes, RemoveGoes, AcquireGoes, LeaveGoes DEF Goes, Now
  <2> QED BY <2>1, <2>2, <2>3, <2>4
<1>3. CASE Outside(w) /\ UNCHANGED asTable  BY <1>1, <1>2, <1>3, MadeQuiet DEF Outside
<1>4. CASE T!Acquire(w) \/ T!Leave(w)
  <2>1. UNCHANGED <<tmp, crossed, asTable>>  BY <1>4 DEF T!Acquire, T!Leave
  <2>2. \A u \in Worker \ {w} : op'[u] = op[u]  BY <1>4, AcquireGoes, LeaveGoes DEF Goes, Now
  <2> QED BY <1>1, <1>2, <2>1, <2>2, MadeQuiet
<1> QED BY <1>3, <1>4, Outside1, Outside2

LEMMA MadeSearch ==
    ASSUME HeapTyped, OpsRight, TablesRight, MadeRight, NEW w \in Worker, T!djb2_search(w)
    PROVE  MadeRight'
<1>1. UNCHANGED <<node, head>>  BY DEF T!djb2_search
<1>2. Outside(w) /\ UNCHANGED asTable  BY Outside1
<1>3. op[w].pc = "walk"  BY SearchGoes
<1>4. op[w].name \in Name  BY <1>3 DEF OpsRight, OpRight
<1>5. \A n : \A p \in Entries(node, head, n) : node[p].tid \in T!Tables  BY EntryTyped
<1>6. ASSUME NEW n \in Name \ (crossed' \cup asTable'), op'[w].pc = "acquire", op'[w].name = n
      PROVE  HasLock(tmp', op', n, op'[w].tid)
  <2>1. PICK q \in T!First(op[w].cur, op[w].name) :
             Goes(w, IF op[w].do \in T!OfIndex THEN "acquire" ELSE "use", op[w].cur, node[q].tid, op[w].lock)
    BY <1>6, SearchGoes DEF Goes, Now
  <2>2. op[w].name = n /\ op'[w].tid = node[q].tid  BY <2>1, <1>6 DEF Goes, Now
  <2>3. n \notin crossed /\ n \notin asTable  BY <1>2 DEF Outside
  <2>4. q \in Entries(node, op[w].cur, n)  BY <2>2, FirstIn DEF Entries
  <2>5. q \in Entries(node, head, n)  BY <2>2, <2>3, <2>4, <1>3, <1>4 DEF TablesRight, OpFits
  <2>6. HasLock(tmp, op, n, node[q].tid)  BY <2>3, <2>5 DEF MadeRight
  <2>7. Making(op, n, node[q].tid) => Making(op', n, node[q].tid)
    <3> SUFFICES ASSUME NEW u \in Worker, op[u].pc = "makelock", op[u].name = n, op[u].tid = node[q].tid
                 PROVE  Making(op', n, node[q].tid)
      BY DEF Making
    <3>1. op'[u] = op[u]  BY <1>2, <1>3 DEF Outside
    <3> QED BY <3>1 DEF Making
  <2> QED BY <2>2, <2>6, <2>7, <1>2 DEF HasLock, Outside
<1> HIDE DEF Entries
<1> QED BY <1>1, <1>2, <1>3, <1>5, <1>6, MadeKept DEF Outside

LEMMA MadePop ==
    ASSUME HeapTyped, OpsRight, MadeRight, NEW w \in Worker, T!djb2_pop(w)
    PROVE  MadeRight'
<1>1. op[w].pc = "walk" /\ op'[w].pc # "acquire"  BY PopGoes DEF PopsNothing, PopsHead, PopsNext, Goes, Now
<1>2. Outside(w) /\ UNCHANGED asTable  BY Outside2
<1>3. \A n : \A p \in Entries(node, head, n) : node[p].tid \in T!Tables /\ p \in 1..Len(node)
  BY EntryTyped, ChaseClosed DEF HeapTyped, Entries
<1>4. ASSUME NEW n
      PROVE  \A p \in Entries(node', head', n) : p \in Entries(node, head, n) /\ node'[p].tid = node[p].tid
  <2>1. CASE PopsNothing(w)  BY <2>1 DEF PopsNothing
  <2>2. ASSUME NEW q \in T!First(op[w].cur, op[w].name), PopsHead(w, q)
        PROVE  Entries(node', head', n) \subseteq Entries(node, head, n) /\ UNCHANGED node
    <3>1. UNCHANGED node  BY <2>2 DEF PopsHead
    <3>2. /\ n # op[w].name => Entries(node', head', n) = Entries(node, head, n)
          /\ Entries(node', head', op[w].name) = Entries(node, head, op[w].name) \ {head}
      BY <2>2, PopHeadEntries
    <3> HIDE DEF Entries
    <3> QED BY <3>1, <3>2
  <2>3. ASSUME NEW q \in T!First(op[w].cur, op[w].name), NEW prev \in Chase(node, op[w].cur), PopsNext(w, q, prev)
        PROVE  \A p \in Entries(node', head', n) : p \in Entries(node, head, n) /\ node'[p].tid = node[p].tid
    <3>1. /\ n # op[w].name => Entries(node', head', n) = Entries(node, head', n)
          /\ Entries(node', head', op[w].name) \subseteq Entries(node, head, op[w].name)
          /\ \A k \in 1..Len(node) : node'[k].tid = node[k].tid
      BY <2>3, PopNextEntries
    <3>2. head' = head  BY <2>3 DEF PopsNext
    <3> HIDE DEF Entries
    <3> QED BY <3>1, <3>2, <1>3
  <2> QED BY <2>1, <2>2, <2>3, PopGoes
<1> HIDE DEF Entries
<1> QED BY <1>1, <1>2, <1>3, <1>4, MadeKept DEF Outside

LEMMA MadePush ==
    ASSUME HeapTyped, OpsRight, TablesRight, MadeRight, NEW w \in Worker, NEW next, T!djb2_push(w, next)
    PROVE  MadeRight'
<1>1. /\ op[w].pc = "push" /\ op[w].name \in Name
      /\ asTable' = IF op[w].do \in T!OfIndex THEN asTable ELSE asTable \cup {op[w].name}
  BY PushEffect
<1>2. Outside(w) /\ asTable \subseteq asTable'  BY PushOutside
<1>3. op'[w].pc = Pushed(w) /\ op'[w].name = op[w].name /\ op'[w].tid = op[w].tid  BY PushGoes DEF Goes, Now
<1>4. \A n : \A p \in Entries(node, head, n) : node[p].tid \in T!Tables /\ p \in 1..Len(node)
  BY EntryTyped, ChaseClosed DEF HeapTyped, Entries
<1>5. ASSUME NEW n \in Name \ (crossed' \cup asTable'), NEW p \in Entries(node', head', n)
      PROVE  \/ p \in Entries(node, head, n) /\ node'[p].tid = node[p].tid
             \/ HasLock(tmp', op', n, node'[p].tid)
  <2>1. CASE n # op[w].name
    <3>1. /\ Entries(node', head', n) = Entries(node, head, n)
          /\ \A q \in 1..Len(node) : node'[q].tid = node[q].tid
      BY <2>1, PushEntries
    <3> HIDE DEF Entries
    <3> QED BY <3>1, <1>4
  <2>2. CASE n = op[w].name
    <3>1. Entries(node, head, n) = {}  BY <2>2, <1>1, <1>2 DEF TablesRight, OpFits, Outside
    <3>2. node'[p].tid = op[w].tid  BY <3>1, <2>2, PushEntries
    <3>3. Pushed(w) = "makelock"  BY <2>2, <1>1 DEF Pushed
    <3> QED BY <3>2, <3>3, <2>2, <1>3 DEF HasLock, Making
  <2> QED BY <2>1, <2>2
<1>6. op'[w].pc # "acquire"  BY <1>3 DEF Pushed
<1> HIDE DEF Entries
<1> QED BY <1>1, <1>2, <1>4, <1>5, <1>6, MadeKept DEF Outside

LEMMA MadeMakeLock ==
    ASSUME HeapTyped, OpsRight, MadeRight, NEW w \in Worker, T!MakeLock(w)
    PROVE  MadeRight'
<1>0. /\ op[w].pc = "makelock" /\ op[w].tid \in T!Tables /\ T!Touch(w) /\ UNCHANGED <<node, head, asTable>>
      /\ inside' = Append(inside, 0) /\ tmp' = [tmp EXCEPT ![op[w].tid] = Len(inside')]
      /\ inside \in Seq(Int) /\ tmp \in [T!Tables -> 0..Len(inside)]
  BY DEF T!MakeLock, T!TAt, OpsRight, OpRight, HeapTyped
<1>1. /\ tmp'[op[w].tid] # 0 /\ \A t \in T!Tables : tmp[t] # 0 => tmp'[t] # 0
  BY <1>0
<1>2. /\ op'[w].tid = op[w].tid /\ \A u \in Worker \ {w} : op'[u] = op[u]  BY MakeLockGoes DEF Goes, Now
<1>3. \A n : \A p \in Entries(node, head, n) : node[p].tid \in T!Tables  BY EntryTyped
<1>4. \A n : HasLock(tmp', op', n, op'[w].tid)  BY <1>1, <1>2 DEF HasLock
<1>5. crossed \subseteq crossed'  BY <1>0, TouchAlone
<1> HIDE DEF Entries
<1> QED BY <1>0, <1>1, <1>2, <1>3, <1>4, <1>5, MadeKept

LEMMA MadeStep ==
    ASSUME HeapTyped, OpsRight, TablesRight, MadeRight, NEW w \in Worker, TableAction(w)
    PROVE  MadeRight'
  BY MadeQuietSteps, MadeSearch, MadePop, MadePush, MadeMakeLock DEF TableAction, T!TableStep

-----------------------------------------------------------------------------
LEMMA FaultNames ==
    ASSUME NEW p, NEW n
    PROVE  T!WalkFault(p, n) \in {"garbage", "freed", "none"}
  BY DEF T!WalkFault

LEMMA OnlyAcquireWants ==
    ASSUME HeapTyped, NEW w \in Worker, TableAction(w), ~T!Acquire(w)
    PROVE  broken' # "no lock"
<1>1. broken = "none"
  BY DEF TableAction, T!TableStep, T!ReadHead, T!WalkFails, T!djb2_search, T!djb2_push, T!PushFails, T!djb2_pop,
         T!PopFails, T!Free, T!Lookup, T!Unknown, T!MakeLock, T!Acquire, T!Leave, T!Use, T!InsertTable,
         T!RemoveTable, T!Drop, T!DropAstray, T!TableOpEnds, T!TableOp, T!TAt
<1>2. CASE T!WalkFails(w)
  <2>1. broken' = T!WalkFault(op[w].cur, op[w].name)  BY <1>2 DEF T!WalkFails, T!Breaks
  <2> QED BY <2>1, FaultNames
<1>3. CASE T!PushFails(w) \/ T!PopFails(w) \/ T!DropAstray(w) \/ T!Unknown(w)
  BY <1>1, <1>3 DEF T!PushFails, T!PopFails, T!DropAstray, T!Unknown, T!Breaks
<1>4. CASE UNCHANGED broken  BY <1>1, <1>4
<1> QED
  BY <1>2, <1>3, <1>4
     DEF TableAction, T!TableStep, T!ReadHead, T!djb2_search, T!djb2_push, T!djb2_pop,
         T!Free, T!Lookup, T!MakeLock, T!Leave, T!Use, T!InsertTable, T!RemoveTable, T!Drop, T!TableOpEnds, T!TableOp

LEMMA MissingStep ==
    ASSUME HeapTyped, OpsRight, MadeRight, NEW w \in Worker, TableAction(w)
    PROVE  LockMissing'
<1>1. CASE broken' # "no lock"  BY <1>1 DEF LockMissing
<1>2. CASE T!Acquire(w) /\ broken' = "no lock"
  <2>1. /\ op[w].pc = "acquire" /\ broken = "none" /\ UNCHANGED <<tmp, crossed, asTable>>
    BY <1>2 DEF T!Acquire, T!TAt
  <2>2. tmp[op[w].tid] = 0 /\ UNCHANGED op  BY <1>2, <2>1, AcquireGoes
  <2>3. op[w].name \in Name  BY <2>1 DEF OpsRight, OpRight
  <2>4. op[w].name \in crossed \cup asTable \/ Making(op, op[w].name, op[w].tid)
    BY <2>1, <2>2, <2>3 DEF MadeRight, HasLock
  <2>5. op[w].name \in crossed' \cup asTable' \/ Making(op', op[w].name, op[w].tid)
    BY <2>1, <2>2, <2>4 DEF Making
  <2> HIDE DEF Making
  <2> QED BY <2>1, <2>2, <2>5 DEF LockMissing
<1> QED BY <1>1, <1>2, OnlyAcquireWants

-----------------------------------------------------------------------------
(* The inductive invariant *)

TablesInv == HeapTyped /\ OpsRight /\ IdsRight /\ TablesRight /\ LocksRight /\ MadeRight /\ LockMissing

LEMMA TablesInvStep ==
    ASSUME TablesInv, NEW w \in Worker, TableAction(w)
    PROVE  TablesInv'
  BY TablesTypedStep, IdsStep, TablesStep, LocksStep, MadeStep, MissingStep DEF TablesInv

LEMMA TablesInvStands ==
    ASSUME TablesInv, UNCHANGED tableVars
    PROVE  TablesInv'
<1>0. /\ HeapTyped /\ OpsRight /\ IdsRight /\ TablesRight /\ LocksRight /\ MadeRight /\ LockMissing
      /\ UNCHANGED <<dir, made, node, freed, head, tmp, inside, op, crossed, asTable, broken>>
  BY DEF TablesInv, tableVars
<1>1. HeapTyped' /\ OpsRight' /\ IdsRight'  BY <1>0 DEF HeapTyped, OpsRight, OpRight, IdsRight, Known
<1>2. TablesRight'  BY <1>0 DEF TablesRight, NameRight, OpFits, DeletedBy
<1>3. LocksRight'  BY <1>0 DEF LocksRight, Users, Known
<1>4. MadeRight'  BY <1>0 DEF MadeRight
<1>5. LockMissing'  BY <1>0 DEF LockMissing
<1> QED BY <1>1, <1>2, <1>3, <1>4, <1>5 DEF TablesInv

\* The instance of OpenTables has its own name for the number of elements.
LEMMA SameCardinality == \A S : T!Cardinality(S) = Cardinality(S)
  BY DEF T!Cardinality, Cardinality

LEMMA TablesInitially == T!TablesInit => TablesInv
<1> SUFFICES ASSUME T!TablesInit PROVE TablesInv
  OBVIOUS
<1>0. /\ dir = Stored /\ made = Cardinality(Stored) /\ node = <<>> /\ freed = {} /\ head = NULL
      /\ tmp = [i \in T!Tables |-> 0] /\ inside = <<>> /\ op = [w \in Worker |-> T!NoOp]
      /\ crossed = {} /\ asTable = {} /\ broken = "none"
  BY SameCardinality DEF T!TablesInit
<1>1. /\ made \in Nat /\ made <= MaxTables /\ made \in 0..MaxTables /\ MaxTables \in Nat /\ MaxNodes \in Nat
      /\ dir \subseteq Name \X (1..made) /\ dir \subseteq Name \X T!Tables
      /\ \A e, f \in dir : e[1] = f[1] \/ e[2] = f[2] => e = f
      /\ 0 \notin T!Tables
  <2>1. made \in Nat  BY <1>0, ServerAssumption, FS_CardinalityType
  <2>2. made <= MaxTables /\ MaxTables \in Nat /\ MaxNodes \in Nat /\ dir \subseteq Name \X (1..made)
    BY <1>0, ServerAssumption
  <2>3. 1..made \subseteq T!Tables  BY <2>1, <2>2 DEF T!Tables
  <2> QED BY <2>1, <2>2, <2>3, <1>0, ServerAssumption DEF T!Tables
<1>2. \A w \in Worker : /\ op[w] = T!NoOp /\ op[w].pc = "none" /\ op[w].do = "none" /\ op[w].tid = 0
                        /\ op[w].cur = NULL /\ op[w].name = NULL
  BY <1>0 DEF T!NoOp
<1>3. Len(node) = 0 /\ Len(inside) = 0 /\ node \in Seq(NodeType) /\ inside \in Seq(Int)  BY <1>0
<1>4. T!NoOp \in OpType
  BY <1>1 DEF OpType, Pointer, T!NoOp, Pcs, Dos
<1>5. HeapTyped
  <2>1. Descends(node)  BY <1>1, <1>3 DEF Descends
  <2>2. op \in [Worker -> OpType]  BY <1>0, <1>4
  <2>3. tmp \in [T!Tables -> 0..Len(inside)]  BY <1>0, <1>3
  <2>4. freed \subseteq 1..Len(node) /\ head \in (1..Len(node)) \cup {NULL, Garbage}  BY <1>0
  <2> QED BY <1>1, <1>3, <2>1, <2>2, <2>3, <2>4 DEF HeapTyped
<1>6. OpsRight  BY <1>2 DEF OpsRight, OpRight
<1>7. \A n, t : t \in T!Tables /\ Known(n, t) => <<n, t>> \in dir  BY <1>1, <1>2, <1>3 DEF Known
<1>8. \A t \in T!Tables : tmp[t] = 0  BY <1>0
<1>9. IdsRight
  <2>1. \A n, m \in Name, t \in T!Tables : <<n, t>> \in dir /\ <<m, t>> \in dir => n = m
    <3> SUFFICES ASSUME NEW n \in Name, NEW m \in Name, NEW t \in T!Tables, <<n, t>> \in dir, <<m, t>> \in dir
                 PROVE  n = m
      OBVIOUS
    <3>1. <<n, t>> = <<m, t>>  BY <1>1
    <3> QED BY <3>1
  <2>2. \A n \in Name, t \in T!Tables : <<n, t>> \in dir => t <= made  BY <1>1
  <2> QED BY <1>7, <1>8, <2>1, <2>2 DEF IdsRight
<1>10. \A n : Entries(node, head, n) = {}  BY <1>0, <1>3 DEF Entries, Chase
<1>11. TablesRight
  <2>1. \A n : \A w \in Worker : ~DeletedBy(w, n)  BY <1>2 DEF DeletedBy
  <2>2. \A w \in Worker : OpFits(w)  BY <1>2 DEF OpFits
  <2>3. ASSUME NEW n \in Name  PROVE NameRight(n)
    <3>1. \A e, f \in dir : e[1] = n /\ f[1] = n => e = f  BY <1>1
    <3> HIDE DEF Entries, DeletedBy
    <3> QED BY <3>1, <1>8, <1>10, <2>1 DEF NameRight
  <2> QED BY <2>2, <2>3 DEF TablesRight
<1>12. LocksRight  BY <1>2, <1>8 DEF LocksRight
<1>13. MadeRight
  <2> HIDE DEF Entries
  <2> QED BY <1>2, <1>10 DEF MadeRight
<1>14. LockMissing  BY <1>0 DEF LockMissing
<1> QED BY <1>5, <1>6, <1>9, <1>11, <1>12, <1>13, <1>14 DEF TablesInv

LEMMA AtMostOneIn ==
    ASSUME NEW S, \A x, y \in S : x = y
    PROVE  Cardinality(S) <= 1
<1>1. CASE S = {}  BY <1>1, FS_EmptySet
<1>2. ASSUME NEW x \in S  PROVE Cardinality(S) <= 1
  <2>1. S = {x}  BY <1>2
  <2> QED BY <2>1, FS_Singleton
<1> QED BY <1>1, <1>2

\* What the invariant says.
LEMMA TablesInvGives == TablesInv => OpenTablesAreRight
<1> SUFFICES ASSUME TablesInv PROVE OpenTablesAreRight
  OBVIOUS
<1>0. HeapTyped /\ OpsRight /\ TablesRight /\ LocksRight /\ LockMissing  BY DEF TablesInv
<1>1. T!TablesTypeOK
  <2>1. node \in Seq([name : Name, tid : T!Tables, next : T!Nodes \cup {NULL, Garbage}])
    BY <1>0 DEF HeapTyped, Descends, NodeType, Pointer
  <2>2. \A w \in Worker : op[w].pc \in Pcs  BY <1>0, FieldsTyped
  <2> QED BY <1>0, <2>1, <2>2 DEF HeapTyped, T!TablesTypeOK, Pcs
<1>2. T!CacheMatchesDirectory
  <2> SUFFICES ASSUME NEW n \in Name \ crossed
               PROVE  /\ ~T!BeingDeleted(n) => \A p \in T!Open(n) : <<n, node[p].tid>> \in dir
                      /\ Cardinality(T!Open(n)) <= 1
                      /\ Cardinality({e \in dir : e[1] = n}) <= 1
    BY SameCardinality DEF T!CacheMatchesDirectory
  <2>1. NameRight(n) /\ T!Open(n) = Entries(node, head, n)  BY <1>0, OpenIsEntries DEF TablesRight
  <2>2. T!BeingDeleted(n) <=> \E w \in Worker : DeletedBy(w, n)  BY DEF T!BeingDeleted, DeletedBy
  <2>3. ~T!BeingDeleted(n) => \A p \in T!Open(n) : <<n, node[p].tid>> \in dir
    <3> HIDE DEF DeletedBy, Entries
    <3> QED BY <2>1, <2>2 DEF NameRight
  <2>4. \A p, q \in T!Open(n) : p = q
    <3> HIDE DEF DeletedBy, Entries
    <3> QED BY <2>1 DEF NameRight
  <2>5. \A e, f \in {e \in dir : e[1] = n} : e = f  BY <2>1 DEF NameRight
  <2> QED BY <2>3, <2>4, <2>5, AtMostOneIn
<1>3. T!LocksBalance
  <2>1. ASSUME NEW w \in Worker, op[w].pc = "inside", op[w].name \notin crossed
        PROVE  op[w].lock = tmp[op[w].tid] /\ inside[op[w].lock] = Cardinality(Users(op[w].lock))
    <3>1. op[w].lock = tmp[op[w].tid] /\ op[w].lock \in 1..Len(inside)  BY <1>0, <2>1 DEF LocksRight
    <3>2. op[w].name \in Name /\ op[w].tid \in T!Tables  BY <1>0, <2>1 DEF OpsRight, OpRight
    <3>3. Known(op[w].name, op[w].tid) /\ tmp[op[w].tid] # 0  BY <3>1, <1>0, OwnKnown DEF HeapTyped
    <3> QED BY <3>1, <3>2, <3>3, <2>1, <1>0 DEF LocksRight
  <2>2. broken = "no lock" => \E w \in Worker :
          /\ op[w].pc = "acquire" /\ tmp[op[w].tid] = 0
          /\ \/ op[w].name \in crossed \cup asTable
             \/ \E u \in Worker : op[u].pc = "makelock" /\ op[u].name = op[w].name
    BY <1>0 DEF LockMissing, Making
  <2> QED BY <2>1, <2>2, SameCardinality DEF T!LocksBalance, Users
<1> QED BY <1>1, <1>2, <1>3 DEF OpenTablesAreRight

-----------------------------------------------------------------------------
(* What arrives and is executed are requests *)

Sent == {m \in Words : m.do \notin {"die", "stay"}}

RequestsOnly ==
    /\ \A f \in Fd : sock[f].inbox \in Seq(Sent)
    /\ \A w \in Worker : exec[w].pc = "execute" => exec[w].msg \in Sent /\ exec[w].msg.do # "exit"

InboxesKept == \A f \in Fd : sock'[f].inbox \in {sock[f].inbox, <<>>}
NoneBegins == \A w \in Worker : exec'[w].pc = "execute" => exec'[w] = exec[w]

LEMMA RequestsKept ==
    ASSUME RequestsOnly, InboxesKept, NoneBegins
    PROVE  RequestsOnly'
<1>1. <<>> \in Seq(Sent)  OBVIOUS
<1> QED BY <1>1 DEF RequestsOnly, InboxesKept, NoneBegins

LEMMA SocketFields ==
    ASSUME NEW r \in SockType, NEW a
    PROVE  /\ [r EXCEPT !.event = a].inbox = r.inbox /\ [r EXCEPT !.begun = a].inbox = r.inbox
           /\ [r EXCEPT !.watched = a].inbox = r.inbox
           /\ \A b : [r EXCEPT !.inbox = a, !.begun = b].inbox = a
           /\ \A b : [Closed EXCEPT !.peer = a, !.watched = b].inbox = <<>>
  BY DEF SockType, Closed

LEMMA GotoElsewhere ==
    ASSUME Inv, NEW w \in Worker, NEW pc, pc # "execute", Goto(w, pc)
    PROVE  NoneBegins
<1>1. exec \in [Worker -> ExecType]  BY Typed DEF Inv, ServerTyped
<1>2. PICK e : exec' = [exec EXCEPT ![w] = e] /\ e = IF pc = "idle" THEN Idle ELSE [exec[w] EXCEPT !.pc = pc]
  BY DEF Goto
<1>3. e.pc # "execute"
  <2>1. [exec[w] EXCEPT !.pc = pc].pc = pc  BY <1>1 DEF ExecType
  <2>2. Idle.pc = "idle"  BY DEF Idle
  <2> QED BY <2>1, <2>2, <1>2
<1>4. exec'[w] = e /\ \A v \in Worker \ {w} : exec'[v] = exec[v]  BY <1>1, <1>2
<1> QED BY <1>3, <1>4 DEF NoneBegins

LEMMA ClientRequests ==
    ASSUME Inv, RequestsOnly, NEW c \in Client, ClientStep(c)
    PROVE  RequestsOnly'
<1>1. UNCHANGED exec  BY DEF ClientStep, Connect, Request, Exit, Hangup, Die
<1>2. NoneBegins  BY <1>1 DEF NoneBegins
<1>3. ConnTypeOK /\ client \in [Client -> ClientType]  BY Typed DEF Inv, NetTyped
<1>4. CASE UNCHANGED sock
  <2>1. InboxesKept  BY <1>4 DEF InboxesKept
  <2> QED BY <2>1, <1>2, RequestsKept
<1>5. ASSUME NEW msgs \in Seq(Sent), Arrives(c, msgs)  PROVE RequestsOnly'
  <2>1. msgs \in Seq(Words)
    <3>1. Sent \subseteq Words  BY DEF Sent
    <3> QED BY <3>1
  <2>2. \A f \in Fd : sock'[f].inbox \in {sock[f].inbox, sock[f].inbox \o msgs}
    <3>1. /\ \A f \in Fd : sock[f].peer # c => sock'[f] = sock[f]
          /\ \A f \in Fd : sock[f].peer = c => sock'[f].inbox = sock[f].inbox \o msgs
      BY <1>3, <1>5, <2>1, ArrivesEffect
    <3> QED BY <3>1
  <2>3. \A f \in Fd : sock[f].inbox \in Seq(Sent) /\ sock[f].inbox \o msgs \in Seq(Sent)
    BY DEF RequestsOnly
  <2>4. \A f \in Fd : sock'[f].inbox \in Seq(Sent)  BY <2>2, <2>3
  <2> QED BY <2>4, <1>1 DEF RequestsOnly
<1>6. CASE Request(c) \/ Exit(c)
  <2>1. client[c].todo \in Seq(Words) /\ client[c].todo # <<>>
    BY <1>3, <1>6 DEF Request, Exit, ClientType
  <2>2. Head(client[c].todo) \in Sent  BY <2>1, <1>6 DEF Request, Exit, Next1, Sent
  <2>3. Arrives(c, <<Head(client[c].todo)>>)  BY <1>6 DEF Request, Exit
  <2>4. <<Head(client[c].todo)>> \in Seq(Sent)  BY <2>2
  <2> QED BY <2>3, <2>4, <1>5
<1>7. CASE Hangup(c) \/ Die(c)
  <2>1. <<>> \in Seq(Sent) /\ Arrives(c, <<>>)  BY <1>7 DEF Hangup, Die
  <2> QED BY <2>1, <1>5
<1> QED BY <1>4, <1>6, <1>7 DEF ClientStep, Connect

LEMMA MainRequests ==
    ASSUME Inv, RequestsOnly, MainStep
    PROVE  RequestsOnly'
<1>1. UNCHANGED exec  BY DEF MainStep, epoll_wait, Accept, Dispatch
<1>2. NoneBegins  BY <1>1 DEF NoneBegins
<1>3. sock \in [Fd -> SockType]  BY Typed DEF Inv, NetTyped
<1>4. CASE UNCHANGED sock
  <2>1. InboxesKept  BY <1>4 DEF InboxesKept
  <2> QED BY <2>1, <1>2, RequestsKept
<1>5. CASE epoll_wait
  <2>1. sock' = [f \in Fd |-> [sock[f] EXCEPT !.event = @ /\ ~sock[f].watched]]  BY <1>5 DEF epoll_wait
  <2>2. \A f \in Fd : sock'[f].inbox = sock[f].inbox
    <3> TAKE f \in Fd
    <3>1. PICK a : sock'[f] = [sock[f] EXCEPT !.event = a]  BY <2>1
    <3> QED BY <3>1, <1>3, SocketFields
  <2>3. InboxesKept  BY <2>2 DEF InboxesKept
  <2> QED BY <2>3, <1>2, RequestsKept
<1>6. ASSUME NEW f \in Fd, Accept(f)  PROVE RequestsOnly'
  <2>1. CASE sock' = [sock EXCEPT ![f] = [Closed EXCEPT !.peer = Head(backlog), !.watched = TRUE]]
    <3>1. sock'[f] = [Closed EXCEPT !.peer = Head(backlog), !.watched = TRUE] /\ \A g \in Fd \ {f} : sock'[g] = sock[g]
      BY <2>1, <1>3
    <3>2. sock'[f].inbox = <<>>  BY <3>1, Constants, SocketFields
    <3>3. InboxesKept  BY <3>1, <3>2 DEF InboxesKept
    <3> QED BY <3>3, <1>2, RequestsKept
  <2> QED BY <2>1, <1>4, <1>6 DEF Accept
<1>7. CASE Dispatch  BY <1>4, <1>7 DEF Dispatch
<1> QED BY <1>5, <1>6, <1>7 DEF MainStep

LEMMA RecvRequests ==
    ASSUME Inv, RequestsOnly, NEW w \in Worker, Recv(w)
    PROVE  RequestsOnly'
<1>1. sock \in [Fd -> SockType]  BY Typed DEF Inv, NetTyped
<1>2. NoneBegins
  <2>1. PICK pc \in {"rest", "eof", "idle"} : Goto(w, pc)  BY DEF Recv
  <2> QED BY <2>1, GotoElsewhere
<1>3. PICK a : sock' = [sock EXCEPT ![exec[w].cfd].begun = a]  BY DEF Recv
<1>4. InboxesKept
  <2> SUFFICES ASSUME NEW f \in Fd  PROVE sock'[f].inbox = sock[f].inbox
    BY DEF InboxesKept
  <2>1. sock'[f] = sock[f] \/ sock'[f] = [sock[f] EXCEPT !.begun = a]  BY <1>1, <1>3
  <2>2. sock[f] \in SockType  BY <1>1
  <2>3. [sock[f] EXCEPT !.begun = a].inbox = sock[f].inbox  BY <2>2, SocketFields
  <2> QED BY <2>1, <2>3
<1> QED BY <1>2, <1>4, RequestsKept

LEMMA RestRequests ==
    ASSUME Inv, RequestsOnly, NEW w \in Worker, RecvRest(w)
    PROVE  RequestsOnly'
<1> DEFINE f0 == exec[w].cfd
           m == Head(sock[f0].inbox)
<1>1. sock \in [Fd -> SockType] /\ exec \in [Worker -> ExecType]  BY Typed DEF Inv, NetTyped, ServerTyped
<1>2. exec[w].pc = "rest"  BY DEF RecvRest, In
<1>3. exec[w].conn \in Client /\ f0 \in Fd /\ sock[f0].peer = exec[w].conn /\ sock[f0].begun
  BY <1>2 DEF Inv, WorkersRight, WorkerRight, ClientsRight, MessagesRight, Serving
<1>4. sock[f0].inbox # <<>>
  <2>1. InboxRight(f0)  BY <1>3, Constants DEF Inv, MessagesRight
  <2>2. Len(sock[f0].inbox) = 1  BY <2>1, <1>3 DEF InboxRight
  <2> QED BY <2>2
<1>5. m \in Sent /\ Tail(sock[f0].inbox) \in Seq(Sent)  BY <1>3, <1>4 DEF RequestsOnly
<1>6. ASSUME NEW f \in Fd  PROVE sock'[f].inbox \in Seq(Sent)
  <2>1. sock'[f0] = [sock[f0] EXCEPT !.inbox = Tail(sock[f0].inbox), !.begun = FALSE]
    BY <1>1, <1>3 DEF RecvRest
  <2>2. f # f0 => sock'[f] = sock[f]  BY <1>1 DEF RecvRest
  <2>3. sock'[f0].inbox = Tail(sock[f0].inbox)  BY <2>1, <1>1, <1>3, SocketFields
  <2> QED BY <2>2, <2>3, <1>5 DEF RequestsOnly
<1>7. ASSUME NEW v \in Worker, exec'[v].pc = "execute"  PROVE exec'[v].msg \in Sent /\ exec'[v].msg.do # "exit"
  <2>1. PICK pc : /\ exec' = [exec EXCEPT ![w].pc = pc, ![w].msg = m]
                  /\ pc = IF m.do = "exit" THEN "mark" ELSE "execute"
    BY DEF RecvRest
  <2>2. exec'[w] = [exec[w] EXCEPT !.pc = pc, !.msg = m] /\ \A u \in Worker \ {w} : exec'[u] = exec[u]
    BY <1>1, <2>1
  <2>3. exec'[w].pc = pc /\ exec'[w].msg = m  BY <1>1, <2>2 DEF ExecType
  <2>4. CASE v = w
    <3>1. pc = "execute"  BY <2>3, <2>4, <1>7
    <3>2. m.do # "exit"  BY <2>1, <3>1
    <3>3. m \in Sent  BY <1>5
    <3> HIDE DEF m
    <3> QED BY <2>3, <2>4, <3>2, <3>3
  <2>5. CASE v # w  BY <2>2, <2>5, <1>7 DEF RequestsOnly
  <2> QED BY <2>4, <2>5
<1> QED BY <1>6, <1>7 DEF RequestsOnly

LEMMA ExecRequests ==
    ASSUME Inv, RequestsOnly, NEW w \in Worker, ExecStep(w)
    PROVE  RequestsOnly'
<1>1. sock \in [Fd -> SockType] /\ exec \in [Worker -> ExecType]  BY Typed DEF Inv, NetTyped, ServerTyped
<1>2. ASSUME UNCHANGED sock, NoneBegins  PROVE RequestsOnly'
  <2>1. InboxesKept  BY <1>2 DEF InboxesKept
  <2> QED BY <2>1, <1>2, RequestsKept
<1>3. CASE Mark(w) \/ Reply(w)
  <2>1. NoneBegins  BY <1>3, LooksEffect DEF Mark, Reply, NoneBegins
  <2> QED BY <2>1, <1>2, <1>3 DEF Mark, Reply
<1>4. CASE Eof(w) \/ Forget(w) \/ Free(w)
  <2>1. PICK pc \in {"delete", "idle", "close", "recycle"} : Goto(w, pc)  BY <1>4 DEF Eof, Forget, Free
  <2>2. NoneBegins  BY <2>1, GotoElsewhere
  <2> QED BY <2>2, <1>2, <1>4 DEF Eof, Forget, Free
<1>5. CASE ExecFails(w)
  <2>1. NoneBegins  BY <1>5 DEF ExecFails, NoneBegins
  <2> QED BY <2>1, <1>2, <1>5 DEF ExecFails
<1>6. CASE Fetch(w)
  <2>1. UNCHANGED exec \/ \E c : exec' = [exec EXCEPT ![w] = [Idle EXCEPT !.pc = "recv", !.conn = c, !.cfd = conn[c].fd]]
    BY <1>6 DEF Fetch
  <2>2. \A c, d : [Idle EXCEPT !.pc = "recv", !.conn = c, !.cfd = d].pc = "recv"  BY DEF Idle
  <2>3. ASSUME UNCHANGED exec  PROVE NoneBegins  BY <2>3 DEF NoneBegins
  <2>4. ASSUME NEW c, exec' = [exec EXCEPT ![w] = [Idle EXCEPT !.pc = "recv", !.conn = c, !.cfd = conn[c].fd]]
        PROVE NoneBegins
    <3>1. exec'[w].pc = "recv"  BY <2>2, <2>4, <1>1
    <3>2. \A v \in Worker \ {w} : exec'[v] = exec[v]  BY <2>4, <1>1
    <3> QED BY <3>1, <3>2 DEF NoneBegins
  <2>5. NoneBegins  BY <2>1, <2>3, <2>4
  <2> QED BY <2>5, <1>2, <1>6 DEF Fetch
<1>7. CASE Recycle(w)
  <2>1. CASE Goto(w, "delete")
    <3>1. NoneBegins  BY <2>1, GotoElsewhere
    <3> QED BY <3>1, <1>2, <1>7 DEF Recycle
  <2>2. CASE exec' = [exec EXCEPT ![w] = IF @.i + 1 < MAX_CONNECTIONS THEN [@ EXCEPT !.i = exec[w].i + 1] ELSE Idle]
    <3>1. PICK e : /\ exec' = [exec EXCEPT ![w] = e]
                   /\ e \in {[exec[w] EXCEPT !.i = exec[w].i + 1], Idle}
      BY <2>2
    <3>2. exec[w].pc = "recycle"  BY <1>7 DEF Recycle, In
    <3>3. [exec[w] EXCEPT !.i = exec[w].i + 1].pc = exec[w].pc /\ Idle.pc = "idle"  BY <1>1 DEF ExecType, Idle
    <3>4. e.pc # "execute"  BY <3>1, <3>2, <3>3
    <3>5. NoneBegins  BY <3>1, <3>4, <1>1 DEF NoneBegins
    <3> QED BY <3>5, <1>2, <1>7 DEF Recycle
  <2> QED BY <2>1, <2>2, <1>7 DEF Recycle
<1>8. CASE Delete(w)
  <2>1. exec' = [exec EXCEPT ![w] = [exec[w] EXCEPT !.pc = "forget", !.conn = Victim(w)]]
    BY <1>1, <1>8 DEF Delete
  <2>2. [exec[w] EXCEPT !.pc = "forget", !.conn = Victim(w)].pc = "forget"  BY <1>1 DEF ExecType
  <2>3. NoneBegins  BY <2>1, <2>2, <1>1 DEF NoneBegins
  <2>4. InboxesKept
    <3> SUFFICES ASSUME NEW f \in Fd  PROVE sock'[f].inbox = sock[f].inbox
      BY DEF InboxesKept
    <3>1. sock'[f] = sock[f] \/ sock'[f] = [sock[f] EXCEPT !.watched = FALSE]  BY <1>1, <1>8 DEF Delete
    <3>2. sock[f] \in SockType  BY <1>1
    <3>3. [sock[f] EXCEPT !.watched = FALSE].inbox = sock[f].inbox  BY <3>2, SocketFields
    <3> QED BY <3>1, <3>3
  <2> QED BY <2>3, <2>4, RequestsKept
<1>9. CASE Close(w)
  <2>1. Goto(w, "free") /\ sock' = [sock EXCEPT ![conn[exec[w].conn].fd] = Closed]  BY <1>9 DEF Close
  <2>2. NoneBegins  BY <2>1, GotoElsewhere
  <2>3. \A f \in Fd : sock'[f] = sock[f] \/ sock'[f] = Closed  BY <2>1, <1>1
  <2>4. InboxesKept  BY <2>3 DEF InboxesKept, Closed
  <2> QED BY <2>2, <2>4, RequestsKept
<1> QED
  BY <1>3, <1>4, <1>5, <1>6, <1>7, <1>8, <1>9, RecvRequests, RestRequests DEF ExecStep

-----------------------------------------------------------------------------
ServerInv == Inv /\ RequestsOnly /\ TablesInv

\* Every step of the server is one of the open tables, or leaves them alone.
LEMMA ServerInvStep == ServerInv /\ [Next]_vars => ServerInv'
<1> SUFFICES ASSUME ServerInv, [Next]_vars PROVE ServerInv'
  OBVIOUS
<1>0. Inv /\ RequestsOnly /\ TablesInv /\ Inv'  BY InvStep DEF ServerInv
<1>1. CASE UNCHANGED vars
  <2>1. UNCHANGED sock /\ UNCHANGED exec /\ UNCHANGED tableVars  BY <1>1 DEF vars, connVars
  <2>2. InboxesKept /\ NoneBegins  BY <2>1 DEF InboxesKept, NoneBegins
  <2> QED BY <2>1, <2>2, <1>0, RequestsKept, TablesInvStands DEF ServerInv
<1>2. ASSUME NEW c \in Client, ClientStep(c), UNCHANGED tableVars  PROVE ServerInv'
  BY <1>0, <1>2, ClientRequests, TablesInvStands DEF ServerInv
<1>3. CASE Main
  BY <1>0, <1>3, MainRequests, TablesInvStands DEF ServerInv, Main
<1>4. ASSUME NEW w \in Worker, ExecStep(w), UNCHANGED tableVars  PROVE ServerInv'
  BY <1>0, <1>4, ExecRequests, TablesInvStands DEF ServerInv
<1>5. ASSUME NEW w \in Worker, BeginCommand(w) \/ CommandStep(w)  PROVE ServerInv'
  <2>1. UNCHANGED sock /\ UNCHANGED exec /\ exec[w].pc = "execute"
    BY <1>5 DEF BeginCommand, CommandStep, connVars, In
  <2>2. InboxesKept /\ NoneBegins  BY <2>1 DEF InboxesKept, NoneBegins
  <2>3. exec[w].msg.do \in Dos /\ exec[w].msg.name \in Name
    BY <2>1, <1>0, ServerAssumption DEF RequestsOnly, Sent, Dos
  <2>4. TableAction(w)  BY <2>3, <1>5 DEF BeginCommand, CommandStep, TableAction
  <2> QED BY <2>2, <2>4, <1>0, RequestsKept, TablesInvStep DEF ServerInv
<1>6. ASSUME NEW w \in Worker, EndCommand(w)  PROVE ServerInv'
  <2>1. UNCHANGED sock /\ Goto(w, "reply") /\ TableAction(w)  BY <1>6 DEF EndCommand, TableAction
  <2>2. InboxesKept /\ NoneBegins  BY <2>1, <1>0, GotoElsewhere DEF InboxesKept
  <2> QED BY <2>1, <2>2, <1>0, RequestsKept, TablesInvStep DEF ServerInv
<1> QED BY <1>1, <1>2, <1>3, <1>4, <1>5, <1>6 DEF Next, WorkerStep

\* Whatever operations the workers perform on whatever tables, the hash of open
\* tables (djb2_search, djb2_push and djb2_pop) has a table once and as the
\* directory has it, those inside an index came in through the lock of its block,
\* which counts them, and a lock is missed only where one was not to be expected
\* (db_1_iinsert, db_1_isearch and the creations and deletions of interface.c).
THEOREM TablesRightHold == Spec => []OpenTablesAreRight
<1>1. Init => ServerInv
  <2> SUFFICES ASSUME Init PROVE ServerInv
    OBVIOUS
  <2>1. ConnInit /\ T!TablesInit  BY DEF Init
  <2>2. RequestsOnly
    <3>1. \A f \in Fd : sock[f].inbox = <<>>  BY <2>1 DEF ConnInit, Closed
    <3>2. \A w \in Worker : exec[w].pc = "idle"  BY <2>1 DEF ConnInit, Idle
    <3>3. <<>> \in Seq(Sent)  OBVIOUS
    <3>4. \A f \in Fd : sock[f].inbox \in Seq(Sent)  BY <3>1, <3>3
    <3>5. \A w \in Worker : exec[w].pc # "execute"  BY <3>2
    <3> QED BY <3>4, <3>5 DEF RequestsOnly
  <2> QED BY <2>1, <2>2, ConnInitially, TablesInitially DEF ServerInv
<1>2. ServerInv => OpenTablesAreRight  BY TablesInvGives DEF ServerInv
<1> QED BY <1>1, <1>2, ServerInvStep, PTL DEF Spec
=============================================================================
