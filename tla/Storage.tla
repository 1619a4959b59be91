------------------------------ MODULE Storage ------------------------------
(***************************************************************************)
(* Database of apppw-storage: the SQLite file appwatch.db, which outlives  *)
(* the process.  Every statement commits on its own and may fail; the      *)
(* caller ignores the result.                                              *)
(*                                                                         *)
(* processes has a surrogate key, but its pid column is UNIQUE and rows    *)
(* are never deleted, so a pid names a process row.  The text columns of a *)
(* request are left out.                                                   *)
(***************************************************************************)
EXTENDS AppCore

CONSTANT StatementsFail   \* whether a statement can fail (disk full, lock)

ASSUME FailureAssumption == StatementsFail \in BOOLEAN

VARIABLES
    process_rows,      \* pid -> name
    connection_rows,   \* id  -> [key, process_id, bytes..., started_at]
    request_rows,      \* id  -> connection_id or None
    \* auxiliary
    lost_connections,  \* ids of connections whose last save failed
    lost_requests      \* ids of requests lost by a failure, their own or that
                       \* of their connection's last save

storageVars == <<process_rows, connection_rows, request_rows,
                 lost_connections, lost_requests>>

ConnectionRow ==
    [key            : ConnectionKey,
     process_id     : Pid \cup {None},
     bytes_sent     : U64,
     bytes_received : U64,
     started_at     : Time]

InitStorage ==
    /\ process_rows = EmptyMap
    /\ connection_rows = EmptyMap
    /\ request_rows = EmptyMap
    /\ lost_connections = {} /\ lost_requests = {}

\* save_process: upsert by pid; name and path are those of the last save.
SaveProcess(process) ==
    process_rows' = Insert(process_rows, process.pid, process.name)

\* Mutant: a row that exists is left as it is (ON CONFLICT DO NOTHING).
UpsertConnectionOnce(connection, now) ==
    connection_rows' =
        IF connection.id \in DOMAIN connection_rows THEN connection_rows
        ELSE Insert(connection_rows, connection.id,
                [key            |-> connection.key,
                 process_id     |-> IF connection.process = None
                                      THEN None ELSE connection.process.pid,
                 bytes_sent     |-> connection.bytes_sent,
                 bytes_received |-> connection.bytes_received,
                 started_at     |-> now])

\* The second statement of save_connection: upsert by id.  The subselect
\* finds the pid saved just before; started_at survives a conflict.
UpsertConnection(connection, now) ==
    connection_rows' =
        Insert(connection_rows, connection.id,
            [key            |-> connection.key,
             process_id     |-> IF connection.process = None
                                  THEN None ELSE connection.process.pid,
             bytes_sent     |-> connection.bytes_sent,
             bytes_received |-> connection.bytes_received,
             started_at     |-> IF connection.id \in DOMAIN connection_rows
                                  THEN connection_rows[connection.id].started_at
                                  ELSE now])

SaveOwner(connection) ==
    IF connection.process = None THEN UNCHANGED process_rows
                                 ELSE SaveProcess(connection.process)

\* save_connection: two statements without a transaction.  The first failing
\* leaves both undone, the second failing leaves the process row written.
SaveConnection(connection, now) ==
    /\ \/ /\ SaveOwner(connection) /\ UpsertConnection(connection, now)
          /\ lost_connections' = lost_connections \ {connection.id}
       \/ /\ StatementsFail
          /\ SaveOwner(connection) \/ UNCHANGED process_rows
          /\ lost_connections' = lost_connections \cup {connection.id}
          /\ UNCHANGED connection_rows
    /\ UNCHANGED <<request_rows, lost_requests>>

\* save_http_request: upsert by id.  foreign_keys is ON: a connection_id that
\* names no row fails the statement.
SaveHttpRequest(id, connection_id) ==
    /\ \/ /\ connection_id \in DOMAIN connection_rows \cup {None}
          /\ request_rows' = Insert(request_rows, id, connection_id)
          /\ UNCHANGED lost_requests
       \/ /\ connection_id \notin DOMAIN connection_rows \cup {None}
          /\ lost_requests' = IF connection_id \in lost_connections
                                THEN lost_requests \cup {id} ELSE lost_requests
          /\ UNCHANGED request_rows
       \/ /\ StatementsFail
          /\ lost_requests' = lost_requests \cup {id}
          /\ UNCHANGED request_rows
    /\ UNCHANGED <<process_rows, connection_rows, lost_connections>>
=============================================================================
