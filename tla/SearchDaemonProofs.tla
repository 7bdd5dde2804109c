------------------------- MODULE SearchDaemonProofs -------------------------
(* Proofs about SearchDaemon, for any clients, daemons and number of calls. *)
EXTENDS SearchDaemon, TLAPS

(* A handler at work has a daemon, a waiting client has a connection.       *)
HandlersHaveDaemons == \A conn \in Connections : handler[conn] # "closed" => peer[conn] \in Daemons

WaitingHaveCalled == \A c \in Clients : client[c] = "recv" => call[c] \in 1..Calls

(* A reply travels on the connection of the command it answers, and on no   *)
(* other: what makes OwnReply inductive.                                    *)
RepliesOnOwnWire == \A conn \in Connections : wire[conn] # None => wire[conn].to = conn

IInv ==
  /\ TypeOK
  /\ HandlersHaveDaemons
  /\ WaitingHaveCalled
  /\ RepliesOnOwnWire
  /\ OwnReply
  /\ StaleOnlyAfterCrash
-----------------------------------------------------------------------------
LEMMA InitIInv == Init => IInv
BY ConstantsAssumption
   DEF Init, IInv, TypeOK, HandlersHaveDaemons, WaitingHaveCalled, RepliesOnOwnWire,
       OwnReply, StaleOnlyAfterCrash

LEMMA ReplyType ==
  ASSUME NEW conn \in Connections, NEW stats \in Strategies \cup {None},
         NEW rc \in {"done", "error", "raised", "timeout", "closed"}
  PROVE  Reply(conn, rc, stats) \in Results /\ Reply(conn, rc, stats).to = conn
BY DEF Reply, Results

LEMMA OpenIsConnection ==
  ASSUME IInv, NEW c \in Clients, client[c] = "recv"
  PROVE  Open(c) \in Connections
BY DEF IInv, WaitingHaveCalled, Open, Connections

(* Daemons start, stop and crash: no reply and no client is touched.        *)
LEMMA DaemonStep ==
  ASSUME IInv, NEW d \in Daemons, RemoveStale(d) \/ Bind(d) \/ Stop(d) \/ Crash(d)
  PROVE  IInv'
<1>1. UNCHANGED <<lastStats, peer, wire, clientVars>>
  BY DEF RemoveStale, Bind, Stop, Crash
<1>2. /\ path' \in Daemons \cup {None}
      /\ daemon' \in [Daemons -> {"new", "bind", "serving", "failed", "stopped", "crashed"}]
  BY DEF RemoveStale, Bind, Stop, Crash, IInv, TypeOK
<1>3. /\ handler' \in [Connections -> {"closed", "execute", "stats"}]
      /\ \A conn \in Connections : handler'[conn] # "closed" => handler'[conn] = handler[conn]
  BY DEF RemoveStale, Bind, Stop, Crash, HandlersEnd, IInv, TypeOK
<1>4. StaleOnlyAfterCrash'
  BY ConstantsAssumption
     DEF RemoveStale, Bind, Stop, Crash, IInv, TypeOK, StaleOnlyAfterCrash
<1>5. TypeOK'
  BY <1>1, <1>2, <1>3 DEF IInv, TypeOK, clientVars
<1>6. /\ HandlersHaveDaemons' /\ WaitingHaveCalled'
      /\ RepliesOnOwnWire' /\ OwnReply'
  BY <1>1, <1>3 DEF IInv, HandlersHaveDaemons, WaitingHaveCalled, RepliesOnOwnWire,
                    OwnReply, Open, clientVars
<1> QED
  BY <1>4, <1>5, <1>6 DEF IInv

LEMMA ExecutedStep ==
  ASSUME IInv, NEW conn \in Connections, Executed(conn)
  PROVE  IInv'
<1>1. peer[conn] \in Daemons /\ strategy[conn] \in Strategies \cup {None}
  BY DEF Executed, IInv, TypeOK, HandlersHaveDaemons
<1>2. TypeOK'
  BY <1>1 DEF Executed, IInv, TypeOK, daemonVars, clientVars
<1>3. /\ HandlersHaveDaemons' /\ WaitingHaveCalled'
      /\ RepliesOnOwnWire' /\ OwnReply' /\ StaleOnlyAfterCrash'
  BY <1>1 DEF Executed, IInv, TypeOK, HandlersHaveDaemons, WaitingHaveCalled, RepliesOnOwnWire,
         OwnReply, StaleOnlyAfterCrash, Open, daemonVars, clientVars
<1> QED
  BY <1>2, <1>3 DEF IInv

(* A reply goes out on the handler's own connection, if it is still open.   *)
LEMMA SendStep ==
  ASSUME IInv, NEW conn \in Connections, NEW reply \in Results, reply.to = conn,
         Send(conn, reply), UNCHANGED <<daemonVars, lastStats, peer, clientVars>>
  PROVE  IInv'
<1>1. /\ wire' \in [Connections -> Results \cup {None}]
      /\ \A other \in Connections : wire'[other] = wire[other] \/ (other = conn /\ wire'[other] = reply)
  BY DEF Send, IInv, TypeOK
<1>2. /\ handler' \in [Connections -> {"closed", "execute", "stats"}]
      /\ \A other \in Connections : handler'[other] # "closed" => handler[other] # "closed"
  BY DEF Send, IInv, TypeOK
<1>3. TypeOK'
  BY <1>1, <1>2 DEF IInv, TypeOK, daemonVars, clientVars
<1>4. /\ HandlersHaveDaemons' /\ WaitingHaveCalled'
      /\ RepliesOnOwnWire' /\ OwnReply' /\ StaleOnlyAfterCrash'
  BY <1>1, <1>2 DEF IInv, HandlersHaveDaemons, WaitingHaveCalled, RepliesOnOwnWire,
         OwnReply, StaleOnlyAfterCrash, Open, daemonVars, clientVars
<1> QED
  BY <1>3, <1>4 DEF IInv

LEMMA HandleStep ==
  ASSUME IInv, NEW conn \in Connections, Handle(conn)
  PROVE  IInv'
<1>1. CASE Executed(conn)
  BY <1>1, ExecutedStep
<1>2. CASE SendReply(conn)
  <2>1. lastStats[peer[conn]] \in Strategies \cup {None}
    BY <1>2 DEF SendReply, IInv, TypeOK, HandlersHaveDaemons
  <2> QED
    BY <1>2, <2>1, ReplyType, SendStep DEF SendReply
<1>3. CASE EngineRaises(conn)
  BY <1>3, ReplyType, SendStep DEF EngineRaises
<1> QED
  BY <1>1, <1>2, <1>3 DEF Handle

(* Steps of the waiting client c end its call and empty its wire at most.   *)
LEMMA ReturnStep ==
  ASSUME IInv, NEW c \in Clients, client[c] = "recv",
         NEW result \in Results, result.to = Open(c), Return(c, result),
         wire' = wire \/ wire' = [wire EXCEPT ![Open(c)] = None],
         UNCHANGED <<daemonVars, lastStats, handler, peer, call, strategy>>
  PROVE  IInv'
<1>1. Open(c) \in Connections
  BY OpenIsConnection
<1>2. /\ wire' \in [Connections -> Results \cup {None}]
      /\ \A conn \in Connections : wire'[conn] # None => wire'[conn] = wire[conn]
  BY <1>1 DEF IInv, TypeOK
<1>3. /\ client' \in [Clients -> {"idle", "recv"}]
      /\ \A d \in Clients : client'[d] = "recv" => client[d] = "recv"
      /\ returned' \in [Clients -> Results \cup {None}]
      /\ \A d \in Clients : returned'[d] = IF d = c THEN result ELSE returned[d]
  BY DEF Return, IInv, TypeOK
<1>4. TypeOK'
  BY <1>2, <1>3 DEF IInv, TypeOK, daemonVars
<1>5. /\ HandlersHaveDaemons' /\ WaitingHaveCalled'
      /\ RepliesOnOwnWire' /\ OwnReply' /\ StaleOnlyAfterCrash'
  BY <1>2, <1>3 DEF IInv, HandlersHaveDaemons, WaitingHaveCalled, RepliesOnOwnWire,
         OwnReply, StaleOnlyAfterCrash, Open, daemonVars
<1> QED
  BY <1>4, <1>5 DEF IInv

LEMMA ConnectStep ==
  ASSUME IInv, NEW c \in Clients, Connect(c)
  PROVE  IInv'
<1> DEFINE conn == <<c, call[c] + 1>>
<1>1. /\ call[c] \in Nat /\ call[c] + 1 \in 1..Calls /\ conn \in Connections
      /\ call' = [call EXCEPT ![c] = @ + 1]
  BY ConstantsAssumption DEF Connect, IInv, TypeOK, Connections
<1>2. /\ call' \in [Clients -> 0..Calls] /\ call'[c] = call[c] + 1
      /\ \A d \in Clients : d # c => call'[d] = call[d]
  BY <1>1, ConstantsAssumption DEF IInv, TypeOK
<1>3. UNCHANGED <<daemonVars, lastStats, wire>>
  BY DEF Connect
<1>4. strategy' \in [Connections -> Strategies \cup {None}]
  BY <1>1 DEF Connect, IInv, TypeOK
<1>5. \/ /\ path \in Daemons
         /\ peer' = [peer EXCEPT ![conn] = path]
         /\ handler' = [handler EXCEPT ![conn] = "execute"]
         /\ client' = [client EXCEPT ![c] = "recv"]
         /\ returned' = [returned EXCEPT ![c] = None]
      \/ /\ returned' = [returned EXCEPT ![c] = Reply(conn, "raised", None)]
         /\ UNCHANGED <<peer, handler, client>>
  BY DEF Connect, IInv, TypeOK
<1>6. Reply(conn, "raised", None) \in Results /\ Reply(conn, "raised", None).to = conn
  BY <1>1, ReplyType
<1> HIDE DEF conn
<1>7. /\ returned' \in [Clients -> Results \cup {None}]
      /\ \A d \in Clients : d # c => returned'[d] = returned[d]
      /\ returned'[c] # None => returned'[c].to = conn
  BY <1>5, <1>6 DEF IInv, TypeOK
<1>8. /\ client' \in [Clients -> {"idle", "recv"}]
      /\ \A d \in Clients : d # c => client'[d] = client[d]
  BY <1>5 DEF IInv, TypeOK
<1>9. /\ handler' \in [Connections -> {"closed", "execute", "stats"}]
      /\ peer' \in [Connections -> Daemons \cup {None}]
      /\ \A other \in Connections : handler'[other] # "closed" => peer'[other] \in Daemons
  BY <1>1, <1>5 DEF IInv, TypeOK, HandlersHaveDaemons
<1>10. TypeOK'
  BY <1>2, <1>3, <1>4, <1>7, <1>8, <1>9 DEF IInv, TypeOK, daemonVars
<1>11. WaitingHaveCalled'
  BY <1>1, <1>2, <1>8 DEF IInv, WaitingHaveCalled
<1>12. Open(c)' = conn /\ \A d \in Clients : d # c => Open(d)' = Open(d)
  BY <1>2 DEF Open, conn
<1>13. OwnReply'
  BY <1>7, <1>12 DEF IInv, OwnReply
<1>14. HandlersHaveDaemons' /\ RepliesOnOwnWire' /\ StaleOnlyAfterCrash'
  BY <1>3, <1>9 DEF IInv, HandlersHaveDaemons, RepliesOnOwnWire, StaleOnlyAfterCrash, daemonVars
<1> QED
  BY <1>10, <1>11, <1>13, <1>14 DEF IInv

LEMMA ExecuteStep ==
  ASSUME IInv, NEW c \in Clients, Execute(c)
  PROVE  IInv'
<1>1. CASE Connect(c)
  BY <1>1, ConnectStep
<1>2. CASE Receive(c)
  <2>1. client[c] = "recv" /\ Open(c) \in Connections
    BY <1>2, OpenIsConnection DEF Receive
  <2>2. wire[Open(c)] \in Results /\ wire[Open(c)].to = Open(c)
    BY <1>2, <2>1 DEF Receive, IInv, TypeOK, RepliesOnOwnWire
  <2> QED
    BY <1>2, <2>1, <2>2, ReturnStep DEF Receive
<1>3. CASE TimeOut(c)
  <2>1. client[c] = "recv" /\ Open(c) \in Connections
    BY <1>3, OpenIsConnection DEF TimeOut
  <2> QED
    BY <1>3, <2>1, ReplyType, ReturnStep DEF TimeOut
<1>4. CASE PeerClosed(c)
  <2>1. client[c] = "recv" /\ Open(c) \in Connections
    BY <1>4, OpenIsConnection DEF PeerClosed
  <2> QED
    BY <1>4, <2>1, ReplyType, ReturnStep DEF PeerClosed
<1> QED
  BY <1>1, <1>2, <1>3, <1>4 DEF Execute
-----------------------------------------------------------------------------
LEMMA Inductive == Spec => []IInv
<1>1. IInv /\ [Next]_vars => IInv'
  <2> SUFFICES ASSUME IInv, [Next]_vars PROVE IInv'
    OBVIOUS
  <2>1. CASE Next
    BY <2>1, DaemonStep, HandleStep, ExecuteStep DEF Next, Done, vars, IInv, TypeOK,
       HandlersHaveDaemons, WaitingHaveCalled, RepliesOnOwnWire, OwnReply,
       StaleOnlyAfterCrash, Open
  <2>2. CASE UNCHANGED vars
    BY <2>2 DEF vars, IInv, TypeOK, HandlersHaveDaemons, WaitingHaveCalled,
       RepliesOnOwnWire, OwnReply, StaleOnlyAfterCrash, Open
  <2> QED
    BY <2>1, <2>2
<1> QED
  BY <1>1, InitIInv, PTL DEF Spec

(* Daemons, connections and clients are well typed, whatever stops, crashes *)
(* or times out (daemon.py, client.py).                                     *)
THEOREM TypeCorrect == Spec => []TypeOK
<1>1. IInv => TypeOK
  BY DEF IInv
<1>2. QED
  BY <1>1, Inductive, PTL

(* What DaemonClient.execute returns answers its own command: no late       *)
(* reply, restart or timeout gives a call the output of another.            *)
THEOREM RepliesAreOwn == Spec => []OwnReply
<1>1. IInv => OwnReply
  BY DEF IInv
<1>2. QED
  BY <1>1, Inductive, PTL

(* A socket file that nothing listens on was left by a crash: serve()'s     *)
(* clean-up leaves none, whatever daemons start on the same path.           *)
THEOREM StaleMeansCrash == Spec => []StaleOnlyAfterCrash
<1>1. IInv => StaleOnlyAfterCrash
  BY DEF IInv
<1>2. QED
  BY <1>1, Inductive, PTL
=============================================================================
