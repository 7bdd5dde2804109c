---------------------------- MODULE SearchDaemon ----------------------------
(***************************************************************************)
(* The search daemon and its clients (inference/parallel_search/daemon.py, *)
(* client.py): daemon processes that start, stop and crash around one Unix *)
(* socket path, a handler thread per connection, one engine per daemon     *)
(* shared by its handlers, and clients that open a fresh connection for    *)
(* every call and give up on it after a timeout.                           *)
(*                                                                         *)
(* A connection is the pair of its client and the number of the call.      *)
(***************************************************************************)
EXTENDS Naturals, FiniteSets

CONSTANTS
  Clients,     \* worker threads that call DaemonClient.execute
  Daemons,     \* daemon processes; a process is started at most once
  Strategies,  \* what last_stats may say of a command
  Calls,       \* bound: calls each client makes
  Crashes,     \* TRUE iff a daemon may be killed
  None

ASSUME ConstantsAssumption ==
  /\ IsFiniteSet(Clients) /\ IsFiniteSet(Daemons)
  /\ Calls \in Nat \ {0}
  /\ Crashes \in BOOLEAN
  /\ None \notin Clients \cup Daemons \cup Strategies

Connections == Clients \X (1..Calls)

VARIABLES
  path,       \* the daemon the socket file belongs to, None without a file
  daemon,     \* where each daemon is
  lastStats,  \* the engine's last_stats, one engine per daemon
  handler,    \* where the handler thread of each connection is
  peer,       \* the daemon each connection leads to
  wire,       \* the reply in each connection's buffer, None before it
  client,     \* where each client is
  call,       \* number of each client's current call
  strategy,   \* the strategy each call's command deserves
  returned    \* what each client's last execute() returned or raised

vars == <<path, daemon, lastStats, handler, peer, wire, client, call,
          strategy, returned>>

daemonVars == <<path, daemon>>
clientVars == <<client, call, strategy, returned>>

Open(c) == <<c, call[c]>>

(* A reply names the connection whose command it answers.                  *)
Reply(conn, rc, stats) == [to |-> conn, rc |-> rc, stats |-> stats]
-----------------------------------------------------------------------------
(* Daemons: serve().                                                       *)

(* An existing socket file is removed, whoever it belongs to.              *)
RemoveStale(d) ==
  /\ daemon[d] = "new"
  /\ path' = None
  /\ daemon' = [daemon EXCEPT ![d] = "bind"]
  /\ UNCHANGED <<lastStats, handler, peer, wire, clientVars>>

(* bind() fails if another daemon got there first.                         *)
Bind(d) ==
  /\ daemon[d] = "bind"
  /\ IF path = None
       THEN path' = d /\ daemon' = [daemon EXCEPT ![d] = "serving"]
       ELSE daemon' = [daemon EXCEPT ![d] = "failed"] /\ UNCHANGED path
  /\ UNCHANGED <<lastStats, handler, peer, wire, clientVars>>

(* Handler threads are daemon threads: they end with the process, and the  *)
(* connections close.                                                      *)
HandlersEnd(d) ==
  handler' = [conn \in Connections |-> IF peer[conn] = d THEN "closed" ELSE handler[conn]]

(* Mutant: the socket file stays.                                          *)
StopOnly(d) ==
  /\ daemon[d] = "serving"
  /\ daemon' = [daemon EXCEPT ![d] = "stopped"]
  /\ HandlersEnd(d)
  /\ UNCHANGED <<path, lastStats, peer, wire, clientVars>>

(* SIGTERM: serve_forever ends and the socket file is removed.             *)
Stop(d) ==
  /\ daemon[d] = "serving"
  /\ daemon' = [daemon EXCEPT ![d] = "stopped"]
  /\ path' = None
  /\ HandlersEnd(d)
  /\ UNCHANGED <<lastStats, peer, wire, clientVars>>

Crash(d) ==
  /\ Crashes
  /\ daemon[d] = "serving"
  /\ daemon' = [daemon EXCEPT ![d] = "crashed"]
  /\ HandlersEnd(d)
  /\ UNCHANGED <<path, lastStats, peer, wire, clientVars>>
-----------------------------------------------------------------------------
(* Handler threads: _Handler.handle, one command for each connection.      *)

(* engine.execute ends: last_stats is written.                             *)
Executed(conn) ==
  /\ handler[conn] = "execute"
  /\ lastStats' = [lastStats EXCEPT ![peer[conn]] = strategy[conn]]
  /\ handler' = [handler EXCEPT ![conn] = "stats"]
  /\ UNCHANGED <<daemonVars, peer, wire, clientVars>>

(* The client still has the connection open.                               *)
Waiting(conn) == client[conn[1]] = "recv" /\ Open(conn[1]) = conn

Send(conn, reply) ==
  /\ wire' = IF Waiting(conn) THEN [wire EXCEPT ![conn] = reply] ELSE wire
  /\ handler' = [handler EXCEPT ![conn] = "closed"]

(* Mutant: a client keeps one connection for all its calls.                *)
SendOnSharedConnection(conn) ==
  /\ handler[conn] = "stats"
  /\ wire' = [wire EXCEPT ![Open(conn[1])] = Reply(conn, "done", lastStats[peer[conn]])]
  /\ handler' = [handler EXCEPT ![conn] = "closed"]
  /\ UNCHANGED <<daemonVars, lastStats, peer, clientVars>>

(* last_stats is read back and the reply sent; the client may be gone.     *)
SendReply(conn) ==
  /\ handler[conn] = "stats"
  /\ Send(conn, Reply(conn, "done", lastStats[peer[conn]]))
  /\ UNCHANGED <<daemonVars, lastStats, peer, clientVars>>

(* Mutant: the error reply has no return code.                             *)
EngineRaisesBare(conn) ==
  /\ handler[conn] = "execute"
  /\ Send(conn, Reply(conn, None, None))
  /\ UNCHANGED <<daemonVars, lastStats, peer, clientVars>>

(* execute() raises: the error is the reply, with a return code of -2.     *)
EngineRaises(conn) ==
  /\ handler[conn] = "execute"
  /\ Send(conn, Reply(conn, "error", None))
  /\ UNCHANGED <<daemonVars, lastStats, peer, clientVars>>
-----------------------------------------------------------------------------
(* Clients: DaemonClient.execute.                                          *)

Return(c, result) ==
  /\ client' = [client EXCEPT ![c] = "idle"]
  /\ returned' = [returned EXCEPT ![c] = result]

(* A fresh connection; without a daemon behind the path connect() raises.  *)
Connect(c) ==
  /\ client[c] = "idle" /\ call[c] < Calls
  /\ call' = [call EXCEPT ![c] = @ + 1]
  /\ LET conn == <<c, call[c] + 1>> IN
     \E s \in Strategies :
       /\ strategy' = [strategy EXCEPT ![conn] = s]
       /\ IF path # None /\ daemon[path] = "serving"
            THEN /\ peer' = [peer EXCEPT ![conn] = path]
                 /\ handler' = [handler EXCEPT ![conn] = "execute"]
                 /\ client' = [client EXCEPT ![c] = "recv"]
                 /\ returned' = [returned EXCEPT ![c] = None]
            ELSE /\ returned' = [returned EXCEPT ![c] = Reply(conn, "raised", None)]
                 /\ UNCHANGED <<peer, handler, client>>
  /\ UNCHANGED <<daemonVars, lastStats, wire>>

Receive(c) ==
  /\ client[c] = "recv"
  /\ wire[Open(c)] # None
  /\ Return(c, wire[Open(c)])
  /\ wire' = [wire EXCEPT ![Open(c)] = None]
  /\ UNCHANGED <<daemonVars, lastStats, handler, peer, call, strategy>>

(* The socket timeout: the connection is closed, the handler runs on.      *)
TimeOut(c) ==
  /\ client[c] = "recv"
  /\ Return(c, Reply(Open(c), "timeout", None))
  /\ wire' = [wire EXCEPT ![Open(c)] = None]
  /\ UNCHANGED <<daemonVars, lastStats, handler, peer, call, strategy>>

(* The daemon died: recv_msg returns None before a header, and raises      *)
(* ConnectionError in the middle of the body.                              *)
PeerClosed(c) ==
  /\ client[c] = "recv"
  /\ handler[Open(c)] = "closed" /\ wire[Open(c)] = None
  /\ \E rc \in {"closed", "raised"} : Return(c, Reply(Open(c), rc, None))
  /\ UNCHANGED <<daemonVars, lastStats, handler, peer, wire, call, strategy>>

(* Every client has made its calls.                                        *)
Done ==
  /\ \A c \in Clients : client[c] = "idle" /\ call[c] = Calls
  /\ UNCHANGED vars
-----------------------------------------------------------------------------
Init ==
  /\ path = None
  /\ daemon = [d \in Daemons |-> "new"]
  /\ lastStats = [d \in Daemons |-> None]
  /\ handler = [conn \in Connections |-> "closed"]
  /\ peer = [conn \in Connections |-> None]
  /\ wire = [conn \in Connections |-> None]
  /\ client = [c \in Clients |-> "idle"]
  /\ call = [c \in Clients |-> 0]
  /\ strategy = [conn \in Connections |-> None]
  /\ returned = [c \in Clients |-> None]

Handle(conn) == Executed(conn) \/ SendReply(conn) \/ EngineRaises(conn)

Execute(c) == Connect(c) \/ Receive(c) \/ TimeOut(c) \/ PeerClosed(c)

Next ==
  \/ \E d \in Daemons : RemoveStale(d) \/ Bind(d) \/ Stop(d) \/ Crash(d)
  \/ \E conn \in Connections : Handle(conn)
  \/ \E c \in Clients : Execute(c)
  \/ Done

Spec == Init /\ [][Next]_vars

(* A client thread that waits is woken by its reply, by the end of the     *)
(* connection or by the socket's timeout.                                  *)
-----------------------------------------------------------------------------
(* Properties.                                                             *)

Results ==
  [to : Connections, rc : {"done", "error", "raised", "timeout", "closed"},
   stats : Strategies \cup {None}]

(* The type invariant of the daemons, the connections and the clients.     *)
TypeOK ==
  /\ path \in Daemons \cup {None}
  /\ daemon \in [Daemons -> {"new", "bind", "serving", "failed", "stopped", "crashed"}]
  /\ lastStats \in [Daemons -> Strategies \cup {None}]
  /\ handler \in [Connections -> {"closed", "execute", "stats"}]
  /\ peer \in [Connections -> Daemons \cup {None}]
  /\ wire \in [Connections -> Results \cup {None}]
  /\ client \in [Clients -> {"idle", "recv"}]
  /\ call \in [Clients -> 0..Calls]
  /\ strategy \in [Connections -> Strategies \cup {None}]
  /\ returned \in [Clients -> Results \cup {None}]

(* A call is answered with the output of its own command: the late reply   *)
(* to a call that timed out never reaches a later call of the same client. *)
OwnReply ==
  \A c \in Clients : returned[c] # None => returned[c].to = Open(c)

(* A daemon that stops leaves no socket file behind: a file no daemon      *)
(* listens on is the trace of a crash.                                     *)
StaleOnlyAfterCrash ==
  path # None => daemon[path] \in {"serving", "crashed"}
=============================================================================
