-------------------------------- MODULE Server --------------------------------
(***************************************************************************)
(* The server: what arrives on the connections is executed by the workers  *)
(* of the thread pool (simple_db_executer, src/cmd/cmd.c), each with an    *)
(* operation on the open tables.                                           *)
(***************************************************************************)
EXTENDS Connections

CONSTANTS Name, Stored, Bare, MaxTables, MaxNodes, Garbage

ASSUME ServerAssumption ==
    /\ MaxTables \in Nat /\ MaxNodes \in Nat /\ IsFiniteSet(Worker)
    /\ IsFiniteSet(Stored) /\ Cardinality(Stored) <= MaxTables
    /\ Stored \subseteq Name \X (1..Cardinality(Stored))
    /\ \A e, f \in Stored : e[1] = f[1] \/ e[2] = f[2] => e = f
    /\ \A m \in Words : m.do \in {"exit", "die", "stay"} \/ m.name \in Name
    /\ Bare \subseteq Name /\ \A m \in Words : m.do = "icreate" => m.name \notin Bare
    /\ NULL \notin 1..MaxNodes /\ Garbage \notin 1..MaxNodes /\ NULL # Garbage

VARIABLES dir, made, node, freed, head, tmp, inside, op, crossed, asTable, broken

T == INSTANCE OpenTables

tableVars == <<dir, made, node, freed, head, tmp, inside, op, crossed, asTable, broken>>
vars == <<connVars, tableVars>>

Init == ConnInit /\ T!TablesInit

\* The operation that a request asks for: begun, under way, and over.
BeginCommand(w) ==
    /\ In(w, "execute")
    /\ T!TableOp(w, exec[w].msg.do, exec[w].msg.name)
    /\ UNCHANGED connVars

CommandStep(w) == In(w, "execute") /\ T!TableStep(w) /\ UNCHANGED connVars

EndCommand(w) ==
    /\ In(w, "execute") /\ T!TableOpEnds(w)
    /\ Goto(w, "reply")
    /\ UNCHANGED <<client, backlog, knock, sock, conn_table, conn, events, tasks, fault>>

\* Nothing moves after a fault of either kind.
Runs == broken = "none"

WorkerStep(w) ==
    Runs /\ (BeginCommand(w) \/ CommandStep(w) \/ EndCommand(w) \/ (ExecStep(w) /\ UNCHANGED tableVars))

Main == Runs /\ MainStep /\ UNCHANGED tableVars

Next ==
    \/ \E c \in Client : Runs /\ ClientStep(c) /\ UNCHANGED tableVars
    \/ Main
    \/ \E w \in Worker : WorkerStep(w)

\* The kernel runs every thread of the server; clients do as they like.
Spec == Init /\ [][Next]_vars /\ WF_vars(Main) /\ \A w \in Worker : WF_vars(WorkerStep(w))

-----------------------------------------------------------------------------
\* Types, and what the table of connections says of the sockets.
WellFormed == ConnTypeOK /\ ConnectionsMatchSockets

\* The hash agrees with the directory, and locks with those who are inside.
OpenTablesAreRight == T!TablesTypeOK /\ T!CacheMatchesDirectory /\ T!LocksBalance

\* A client that connects is served, and one that makes a request is answered,
\* unless the server breaks or the client was passed over.
RequestsAreAnswered ==
    \A c \in Client :
        client[c].pc \in {"connecting", "waiting"} ~>
            \/ client[c].pc \notin {"connecting", "waiting"} \/ PassedOver(c)
            \/ fault # "none" \/ broken # "none"
=============================================================================
