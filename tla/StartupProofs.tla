---------------------------- MODULE StartupProofs ----------------------------
(***************************************************************************)
(* Startup's safety properties hold for any number of daemons, calls, IDs  *)
(* and deaths.                                                             *)
(***************************************************************************)
EXTENDS Startup, TLAPS

\* A path that appeared since d's unlink() was bound by a racer.
RaceInv == \A d \in Daemons : pc[d] = "unlinked" /\ path # NULL => d \in raced

\* Calls and daemons agree about who is connected to whom.
QueueInv ==
  /\ \A d \in Daemons : \A i \in DOMAIN queue[d] :
       to[queue[d][i]] = d /\ request[queue[d][i]] # NULL
  /\ \A k \in Calls : answer[k] # NULL \/ to[k] # NULL => request[k] # NULL

\* What a daemon acknowledged it holds until it ends.
MemoryInv ==
  \A d \in Daemons : \A id \in IDs :
    d \in Acknowledged(id) /\ pc[d] # "dead" => id \in blocks[d]

AckedInv ==
  /\ \A k \in Calls : request[k] = NULL => acked[k] = {}
  /\ \A k \in Calls : \A d \in acked[k] : pc[d] # "dead" => request[k].id \in blocks[d]

StartupInv ==
  /\ TypeOK /\ RaceInv /\ QueueInv /\ MemoryInv /\ AckedInv
  /\ StartFailsOnlyInARace /\ BlocksStayWithTheirDaemon

\* No daemon has started; a stale socket file may be there.
LEMMA InitStartupInv == Init => StartupInv
<1> SUFFICES ASSUME Init PROVE StartupInv
  OBVIOUS
<1>1. TypeOK
  <2>1. <<>> \in Seq(Calls)
    OBVIOUS
  <2> QED
    BY <2>1 DEF Init, TypeOK, Places
<1>2. MemoryInv
  BY StartupAssumption DEF Init, MemoryInv, Acknowledged
<1> QED
  BY <1>1, <1>2, StartupAssumption DEF Init, StartupInv, RaceInv, QueueInv, AckedInv,
     StartFailsOnlyInARace, BlocksStayWithTheirDaemon, Results

(***************************************************************************)
(* Coming up moves a daemon that is not dead to a place that is not dead;  *)
(* calls and memory see nothing of it.                                     *)
(***************************************************************************)
LEMMA MemoryUntouched ==
  ASSUME StartupInv, MemoryStays,
         \A d \in Daemons : pc[d] = "dead" => pc'[d] = "dead"
  PROVE  QueueInv' /\ MemoryInv' /\ AckedInv' /\ BlocksStayWithTheirDaemon'
<1>1. \A d \in Daemons : pc'[d] # "dead" => pc[d] # "dead"
  OBVIOUS
<1>2. QueueInv' /\ BlocksStayWithTheirDaemon'
  BY DEF StartupInv, MemoryStays, callVars, QueueInv, BlocksStayWithTheirDaemon
<1>3. MemoryInv'
  BY <1>1 DEF StartupInv, MemoryStays, callVars, MemoryInv, Acknowledged
<1>4. AckedInv'
  <2>1. \A k \in Calls : acked[k] \subseteq Daemons
    BY DEF StartupInv, TypeOK
  <2> QED
    BY <1>1, <2>1 DEF StartupInv, MemoryStays, callVars, AckedInv
<1> QED
  BY <1>2, <1>3, <1>4

\* The steps of a daemon that starts.
LEMMA ComesUpStep ==
  ASSUME StartupInv, NEW d \in Daemons, daemonize(d) \/ ComesUp(d)
  PROVE  StartupInv'
<1> USE DEF StartupInv
<1>1. MemoryStays
  BY DEF daemonize, ComesUp, initSocket, UnlinkPath, Bind, Listen
<1>2. PICK p \in Places \ {"dead"} : pc' = [pc EXCEPT ![d] = p]
  BY DEF daemonize, ComesUp, initSocket, UnlinkPath, Bind, Listen, Places
<1>3. pc[d] # "dead"
  BY DEF daemonize, ComesUp, initSocket, UnlinkPath, Bind, Listen
<1>4. /\ path' \in Daemons \cup {Stale, NULL}
      /\ raced' \subseteq Daemons /\ raced \subseteq raced'
  BY DEF daemonize, ComesUp, initSocket, UnlinkPath, Bind, Listen, TypeOK
<1>5. TypeOK'
  BY <1>1, <1>2, <1>4 DEF TypeOK, MemoryStays, callVars
<1>6. \A e \in Daemons : pc[e] = "dead" => pc'[e] = "dead"
  BY <1>2, <1>3 DEF TypeOK
<1>7. RaceInv'
  <2>1. CASE UnlinkPath(d)
    BY <2>1 DEF UnlinkPath, RaceInv
  <2>2. CASE Bind(d)
    BY <2>2 DEF Bind, RaceInv, TypeOK
  <2>3. CASE daemonize(d) \/ initSocket(d) \/ Listen(d)
    BY <2>3 DEF daemonize, initSocket, Listen, RaceInv, TypeOK
  <2> QED
    BY <2>1, <2>2, <2>3 DEF ComesUp
<1>8. StartFailsOnlyInARace'
  <2>1. CASE Bind(d)
    BY <2>1 DEF Bind, RaceInv, StartFailsOnlyInARace, TypeOK
  <2>2. CASE daemonize(d) \/ initSocket(d) \/ UnlinkPath(d) \/ Listen(d)
    BY <2>2 DEF daemonize, initSocket, UnlinkPath, Listen, StartFailsOnlyInARace, TypeOK
  <2> QED
    BY <2>1, <2>2 DEF ComesUp
<1> QED
  BY <1>1, <1>5, <1>6, <1>7, <1>8, MemoryUntouched

\* A daemon that serves has not ended, so what it acknowledged it still holds.
LEMMA ServeStep ==
  ASSUME StartupInv, NEW d \in Daemons, Serve(d)
  PROVE  StartupInv'
<1> USE DEF StartupInv
<1> DEFINE k == Head(queue[d])
           r == request[k]
           known == r.id \in blocks[d]
<1>1. /\ queue' = [queue EXCEPT ![d] = Tail(@)]
      /\ blocks' = [blocks EXCEPT ![d] = IF r.op = "SEND" /\ ~known THEN @ \cup {r.id} ELSE @]
      /\ answer' = [answer EXCEPT ![k] = Code(r.op, known)]
      /\ UNCHANGED <<pc, path, request, to, raced, acked>>
  BY DEF Serve, ServeFirst, Stored
<1>2. pc[d] = "listening" /\ queue[d] # <<>> /\ queue[d] \in Seq(Calls)
  BY DEF Serve, TypeOK
<1>3. /\ k \in Calls /\ to[k] = d /\ r \in Requests
      /\ Tail(queue[d]) \in Seq(Calls)
      /\ \A i \in DOMAIN Tail(queue[d]) : i + 1 \in DOMAIN queue[d] /\ Tail(queue[d])[i] = queue[d][i + 1]
  <2>1. 1 \in DOMAIN queue[d] /\ k = queue[d][1]
    BY <1>2
  <2>2. k \in Calls /\ to[k] = d /\ request[k] # NULL
    BY <1>2, <2>1 DEF QueueInv
  <2> QED
    BY <1>2, <2>2 DEF TypeOK
<1> HIDE DEF k
<1>4. r.id \in IDs /\ Code(r.op, known) \in Results
  BY <1>3 DEF Requests, Code, Results
<1>5. TypeOK'
  BY <1>1, <1>3, <1>4 DEF TypeOK
<1>6. RaceInv' /\ StartFailsOnlyInARace'
  BY <1>1 DEF RaceInv, StartFailsOnlyInARace
<1>7. QueueInv'
  <2>1. ASSUME NEW e \in Daemons, NEW i \in DOMAIN queue'[e]
        PROVE  to[queue'[e][i]] = e /\ request[queue'[e][i]] # NULL
    BY <1>1, <1>3, <2>1 DEF QueueInv, TypeOK
  <2>2. \A c \in Calls : answer'[c] # NULL => request[c] # NULL
    BY <1>1, <1>3, StartupAssumption DEF QueueInv, TypeOK
  <2> QED
    BY <1>1, <2>1, <2>2 DEF QueueInv
<1>8. \A e \in Daemons : blocks[e] \subseteq blocks'[e]
  BY <1>1 DEF TypeOK
<1>9. MemoryInv'
  <2> SUFFICES ASSUME NEW e \in Daemons, NEW id \in IDs, NEW c \in Calls, pc[e] # "dead",
                      request[c] = [op |-> "SEND", id |-> id], to[c] = e, answer'[c] = "SUCCESS"
               PROVE  id \in blocks'[e]
    BY <1>1 DEF MemoryInv, Acknowledged
  <2>1. CASE c = k
    <3>1. r.op = "SEND" /\ r.id = id /\ e = d
      BY <1>3, <2>1
    <3>2. ~known
      BY <1>1, <1>3, <2>1, <3>1 DEF Code, TypeOK
    <3> QED
      BY <1>1, <3>1, <3>2 DEF TypeOK
  <2>2. CASE c # k
    <3>1. answer[c] = "SUCCESS"
      BY <1>1, <1>3, <2>2 DEF TypeOK
    <3> QED
      BY <1>8, <3>1 DEF MemoryInv, Acknowledged
  <2> QED
    BY <2>1, <2>2
<1>10. AckedInv'
  <2>1. \A c \in Calls : acked[c] \subseteq Daemons
    BY DEF TypeOK
  <2> QED
    BY <1>1, <1>8, <2>1 DEF AckedInv
<1>11. BlocksStayWithTheirDaemon'
  <2> SUFFICES ASSUME NEW c \in Calls, answer'[c] = "NOT_FOUND" PROVE to[c] \notin acked[c]
    BY <1>1 DEF BlocksStayWithTheirDaemon
  <2>1. CASE c = k
    <3>1. r.id \notin blocks[d]
      BY <1>1, <1>3, <2>1 DEF Code, TypeOK
    <3> QED
      BY <1>2, <1>3, <2>1, <3>1 DEF AckedInv
  <2>2. CASE c # k
    BY <1>1, <1>3, <2>2 DEF BlocksStayWithTheirDaemon, TypeOK
  <2> QED
    BY <2>1, <2>2
<1> QED
  BY <1>5, <1>6, <1>7, <1>9, <1>10, <1>11

\* The end of a daemon: what it held is nobody's any more.
LEMMA DieStep ==
  ASSUME StartupInv, NEW d \in Daemons, Die(d)
  PROVE  StartupInv'
<1> USE DEF StartupInv
<1>1. /\ pc' = [pc EXCEPT ![d] = "dead"]
      /\ blocks' = [blocks EXCEPT ![d] = {}]
      /\ queue' = [queue EXCEPT ![d] = <<>>]
      /\ answer' = [k \in Calls |-> IF to[k] = d /\ answer[k] = NULL THEN "FAIL" ELSE answer[k]]
      /\ UNCHANGED <<path, request, to, raced, acked>>
  BY DEF Die
<1>2. /\ pc'[d] = "dead" /\ queue'[d] = <<>>
      /\ \A e \in Daemons : e # d => /\ pc'[e] = pc[e] /\ blocks'[e] = blocks[e]
                                     /\ queue'[e] = queue[e]
  BY <1>1 DEF TypeOK
<1>3. \A k \in Calls : answer'[k] = answer[k] \/ (answer'[k] = "FAIL" /\ to[k] = d)
  BY <1>1
<1>4. TypeOK'
  <2>1. <<>> \in Seq(Calls)
    OBVIOUS
  <2> QED
    BY <1>1, <2>1 DEF TypeOK, Places, Results
<1>5. RaceInv' /\ StartFailsOnlyInARace'
  BY <1>1, <1>2 DEF RaceInv, StartFailsOnlyInARace
<1>6. QueueInv'
  BY <1>1, <1>2, <1>3, StartupAssumption DEF QueueInv
<1>7. MemoryInv'
  BY <1>1, <1>2, <1>3 DEF MemoryInv, Acknowledged
<1>8. AckedInv'
  <2>1. \A k \in Calls : acked[k] \subseteq Daemons
    BY DEF TypeOK
  <2> QED
    BY <1>1, <1>2, <2>1 DEF AckedInv
<1>9. BlocksStayWithTheirDaemon'
  BY <1>1, <1>3 DEF BlocksStayWithTheirDaemon
<1> QED
  BY <1>4, <1>5, <1>6, <1>7, <1>8, <1>9

\* A call begins: it has no answer yet, or FAIL.
LEMMA CallStep ==
  ASSUME StartupInv, NEW k \in Calls, Call(k)
  PROVE  StartupInv'
<1> USE DEF StartupInv
<1>1. PICK r \in Requests : /\ request' = [request EXCEPT ![k] = r]
                            /\ acked' = [acked EXCEPT ![k] = Acknowledged(r.id)]
  BY DEF Call
<1>2. /\ request[k] = NULL /\ answer[k] = NULL /\ to[k] = NULL
      /\ UNCHANGED <<pc, path, blocks, raced>>
  BY DEF Call, QueueInv
<1>3. /\ request'[k] = r /\ r # NULL /\ r.id \in IDs
      /\ acked'[k] = Acknowledged(r.id) /\ Acknowledged(r.id) \subseteq Daemons
      /\ \A c \in Calls : c # k => request'[c] = request[c] /\ acked'[c] = acked[c]
  BY <1>1, StartupAssumption DEF TypeOK, Acknowledged, Requests
<1>4. /\ answer'[k] \in {NULL, "FAIL"}
      /\ \A c \in Calls : c # k => answer'[c] = answer[c] /\ to'[c] = to[c]
  BY <1>2 DEF Call, connectDaemon, TypeOK
<1>5. TypeOK'
  <2>1. request' \in [Calls -> Requests \cup {NULL}] /\ acked' \in [Calls -> SUBSET Daemons]
    BY <1>1, <1>3 DEF TypeOK
  <2>2. /\ queue' \in [Daemons -> Seq(Calls)] /\ to' \in [Calls -> Daemons \cup {NULL}]
        /\ answer' \in [Calls -> Results \cup {NULL}]
    <3>1. CASE Reachable
      <4>1. /\ path \in Daemons /\ to' = [to EXCEPT ![k] = path] /\ UNCHANGED answer
            /\ queue' = [queue EXCEPT ![path] = Append(@, k)]
        BY <3>1 DEF Call, connectDaemon, Reachable
      <4>2. Append(queue[path], k) \in Seq(Calls)
        BY <4>1 DEF TypeOK
      <4> QED
        BY <4>1, <4>2 DEF TypeOK
    <3>2. CASE ~Reachable
      BY <3>2 DEF Call, connectDaemon, TypeOK, Results
    <3> QED
      BY <3>1, <3>2
  <2> QED
    BY <1>2, <2>1, <2>2 DEF TypeOK
<1>6. RaceInv' /\ StartFailsOnlyInARace'
  BY <1>2 DEF RaceInv, StartFailsOnlyInARace
<1>7. QueueInv'
  <2>1. \A c \in Calls : answer'[c] # NULL \/ to'[c] # NULL => request'[c] # NULL
    BY <1>3, <1>4 DEF QueueInv
  <2>2. ASSUME NEW d \in Daemons, NEW i \in DOMAIN queue[d]
        PROVE  to'[queue[d][i]] = d /\ request'[queue[d][i]] # NULL
    <3>1. queue[d][i] \in Calls /\ queue[d][i] # k
      BY <1>2 DEF QueueInv, TypeOK
    <3> QED
      BY <1>3, <1>4, <3>1 DEF QueueInv
  <2>3. CASE Reachable
    <3>1. /\ path \in Daemons /\ to'[k] = path
          /\ queue' = [queue EXCEPT ![path] = Append(@, k)]
      BY <2>3 DEF Call, connectDaemon, Reachable, TypeOK
    <3>2. ASSUME NEW d \in Daemons, NEW i \in DOMAIN queue'[d]
          PROVE  (i \in DOMAIN queue[d] /\ queue'[d][i] = queue[d][i]) \/ (queue'[d][i] = k /\ d = path)
      BY <3>1, <3>2 DEF TypeOK
    <3> QED
      BY <1>3, <2>1, <2>2, <3>1, <3>2 DEF QueueInv
  <2>4. CASE ~Reachable
    BY <2>1, <2>2, <2>4 DEF Call, connectDaemon, QueueInv
  <2> QED
    BY <2>3, <2>4
<1>8. \A id \in IDs : Acknowledged(id)' \subseteq Acknowledged(id)
  <2> SUFFICES ASSUME NEW id \in IDs, NEW d \in Daemons, NEW c \in Calls,
                      request'[c] = [op |-> "SEND", id |-> id], to'[c] = d, answer'[c] = "SUCCESS"
               PROVE  request[c] = request'[c] /\ to[c] = to'[c] /\ answer[c] = answer'[c]
    BY DEF Acknowledged
  <2>1. c # k
    BY <1>4, StartupAssumption DEF Results
  <2> QED
    BY <1>3, <1>4, <2>1
<1>9. MemoryInv'
  BY <1>2, <1>8 DEF MemoryInv
<1>10. AckedInv'
  <2>1. \A d \in Acknowledged(r.id) : pc[d] # "dead" => r.id \in blocks[d]
    BY <1>3 DEF MemoryInv
  <2> QED
    BY <1>2, <1>3, <2>1 DEF AckedInv
<1>11. BlocksStayWithTheirDaemon'
  BY <1>3, <1>4, StartupAssumption DEF BlocksStayWithTheirDaemon, Results
<1> QED
  BY <1>5, <1>6, <1>7, <1>9, <1>10, <1>11

-----------------------------------------------------------------------------
\* The invariant holds in every behaviour of the daemons and their callers.
THEOREM StartupInvHolds == Spec => []StartupInv
<1>1. StartupInv /\ [Next]_vars => StartupInv'
  <2> SUFFICES ASSUME StartupInv, [Next]_vars PROVE StartupInv'
    OBVIOUS
  <2>1. CASE UNCHANGED vars
    <3>1. MemoryStays /\ UNCHANGED <<pc, path, raced>>
      BY <2>1 DEF vars, MemoryStays, callVars
    <3>2. TypeOK' /\ RaceInv' /\ StartFailsOnlyInARace'
      BY <3>1 DEF StartupInv, TypeOK, RaceInv, StartFailsOnlyInARace, MemoryStays, callVars
    <3> QED
      BY <3>1, <3>2, MemoryUntouched DEF StartupInv
  <2> QED
    BY <2>1, ComesUpStep, ServeStep, DieStep, CallStep DEF Next
<1> QED
  BY <1>1, InitStartupInv, PTL DEF Spec

\* Sockets, paths and calls keep their types, for any number of daemons.
THEOREM StartupTypeCorrect == Spec => []TypeOK
<1>1. StartupInv => TypeOK
  BY DEF StartupInv
<1> QED
  BY <1>1, StartupInvHolds, PTL

\* bind() fails only in a race between two daemons: for any number of them, and
\* whatever socket file was left behind (bindListen).
THEOREM OnlyRacersFail == Spec => []StartFailsOnlyInARace
<1>1. StartupInv => StartFailsOnlyInARace
  BY DEF StartupInv
<1> QED
  BY <1>1, StartupInvHolds, PTL

\* A daemon never answers NOT_FOUND for a block it acknowledged before the call.
THEOREM BlocksStay == Spec => []BlocksStayWithTheirDaemon
<1>1. StartupInv => BlocksStayWithTheirDaemon
  BY DEF StartupInv
<1> QED
  BY <1>1, StartupInvHolds, PTL

-----------------------------------------------------------------------------
(***************************************************************************)
(* What makes the service come up, and calls come back, once the scheduler *)
(* runs everybody: while no daemon has ended the path is held by one that  *)
(* listens or is about to, or by nobody and the next one is about to bind; *)
(* and a call is answered or in the queue of a daemon that serves it.      *)
(***************************************************************************)
PathInv ==
  ~Disturbed =>
    \/ path \in Daemons /\ pc[path] \in {"bound", "listening"}
    \/ path = NULL /\ \E d \in Daemons : pc[d] = "unlinked"
    \/ path \notin Daemons /\ \A d \in Daemons : pc[d] \in {"off", "forked", "socket"}

WaitingInv ==
  /\ \A k \in Calls : to[k] # NULL /\ answer[k] = NULL =>
       pc[to[k]] = "listening" /\ \E i \in DOMAIN queue[to[k]] : queue[to[k]][i] = k
  /\ \A k \in Calls : request[k] # NULL => to[k] # NULL \/ answer[k] # NULL

\* No daemon has started: the path is free or stale.
LEMMA InitPathInv == Init => PathInv /\ WaitingInv
<1> SUFFICES ASSUME Init PROVE PathInv /\ WaitingInv
  OBVIOUS
<1>1. PathInv
  BY StartupAssumption DEF Init, PathInv
<1> QED
  BY <1>1 DEF Init, WaitingInv

\* A daemon that ended stays so, and an undisturbed start stays undisturbed.
LEMMA PathStep ==
  ASSUME StartupInv, PathInv, [Next]_vars
  PROVE  PathInv'
<1> SUFFICES ASSUME ~Disturbed' PROVE PathInv'
  BY DEF PathInv
<1>1. TypeOK
  BY DEF StartupInv
<1>2. CASE UNCHANGED vars \/ (\E d \in Daemons : Serve(d)) \/ (\E k \in Calls : Call(k))
  <2>1. UNCHANGED <<pc, path>>
    BY <1>2 DEF vars, Serve, ServeFirst, Call
  <2> QED
    BY <2>1 DEF PathInv, Disturbed
<1>3. ASSUME NEW d \in Daemons, daemonize(d) \/ ComesUp(d) PROVE PathInv'
  <2>1. PICK p \in Places : pc' = [pc EXCEPT ![d] = p]
    BY <1>3 DEF daemonize, ComesUp, initSocket, UnlinkPath, Bind, Listen, Places
  <2>2. pc'[d] = p /\ \A e \in Daemons : e # d => pc'[e] = pc[e]
    BY <1>1, <2>1 DEF TypeOK
  <2>3. pc[d] \notin {"dead", "exited"}
    BY <1>3 DEF daemonize, ComesUp, initSocket, UnlinkPath, Bind, Listen
  <2>4. ~Disturbed /\ p # "exited"
    BY <2>2, <2>3 DEF Disturbed
  <2>5. CASE daemonize(d) \/ initSocket(d)
    <3>1. pc[d] \in {"off", "forked"} /\ p \in {"forked", "socket"} /\ UNCHANGED path
      BY <1>1, <2>2, <2>4, <2>5 DEF daemonize, initSocket, TypeOK
    <3> QED
      BY <2>2, <2>4, <3>1 DEF PathInv
  <2>6. CASE UnlinkPath(d)
    BY <1>1, <2>6 DEF UnlinkPath, PathInv, TypeOK
  <2>7. CASE Bind(d)
    <3>1. CASE path = NULL
      BY <1>1, <2>7, <3>1 DEF Bind, PathInv, TypeOK
    <3>2. CASE path # NULL
      <4>1. pc[d] = "unlinked" /\ p = "bind failed" /\ UNCHANGED path
        BY <1>1, <2>2, <2>7, <3>2 DEF Bind, TypeOK
      <4>2. path \in Daemons /\ pc[path] \in {"bound", "listening"} /\ path # d
        BY <2>4, <3>2, <4>1 DEF PathInv
      <4> QED
        BY <2>2, <4>1, <4>2 DEF PathInv
    <3> QED
      BY <3>1, <3>2
  <2>8. CASE Listen(d)
    <3>1. pc[d] = "bound" /\ p = "listening" /\ UNCHANGED path
      BY <1>1, <2>2, <2>8 DEF Listen, TypeOK
    <3> QED
      BY <2>2, <2>4, <3>1 DEF PathInv
  <2> QED
    BY <1>3, <2>5, <2>6, <2>7, <2>8 DEF ComesUp
<1>4. ASSUME NEW d \in Daemons, Die(d) PROVE FALSE
  BY <1>1, <1>4 DEF Die, Disturbed, TypeOK
<1> QED
  BY <1>2, <1>3, <1>4 DEF Next

\* Who is connected is in a queue until it is answered.
LEMMA WaitingStep ==
  ASSUME StartupInv, WaitingInv, [Next]_vars
  PROVE  WaitingInv'
<1>1. TypeOK /\ QueueInv
  BY DEF StartupInv
<1>2. CASE UNCHANGED vars
  BY <1>2 DEF vars, callVars, WaitingInv
<1>3. ASSUME NEW d \in Daemons, daemonize(d) \/ ComesUp(d) PROVE WaitingInv'
  <2>1. MemoryStays /\ \A e \in Daemons : pc[e] = "listening" => pc'[e] = "listening"
    BY <1>1, <1>3 DEF daemonize, ComesUp, initSocket, UnlinkPath, Bind, Listen, TypeOK
  <2> QED
    BY <1>1, <2>1 DEF MemoryStays, callVars, WaitingInv, TypeOK
<1>4. ASSUME NEW d \in Daemons, Serve(d) PROVE WaitingInv'
  <2>1. /\ queue' = [queue EXCEPT ![d] = Tail(@)]
        /\ answer' = [answer EXCEPT ![Head(queue[d])] =
             Code(request[Head(queue[d])].op, request[Head(queue[d])].id \in blocks[d])]
        /\ UNCHANGED <<pc, path, request, to, raced, acked>>
    BY <1>4 DEF Serve, ServeFirst
  <2>2. queue[d] # <<>> /\ queue[d] \in Seq(Calls) /\ Head(queue[d]) \in Calls
    BY <1>1, <1>4 DEF Serve, TypeOK
  <2>3. \A op, known : Code(op, known) # NULL
    BY StartupAssumption DEF Code, Results
  <2>4. /\ answer'[Head(queue[d])] # NULL
        /\ \A k \in Calls : k # Head(queue[d]) => answer'[k] = answer[k]
    BY <1>1, <2>1, <2>2, <2>3 DEF TypeOK
  <2>5. ASSUME NEW k \in Calls, to[k] # NULL, answer'[k] = NULL
        PROVE  pc[to[k]] = "listening" /\ \E i \in DOMAIN queue'[to[k]] : queue'[to[k]][i] = k
    <3>1. k # Head(queue[d]) /\ answer[k] = NULL
      BY <2>4, <2>5
    <3>2. to[k] \in Daemons /\ pc[to[k]] = "listening"
      BY <1>1, <2>5, <3>1 DEF WaitingInv, TypeOK
    <3>3. PICK i \in DOMAIN queue[to[k]] : queue[to[k]][i] = k
      BY <2>5, <3>1 DEF WaitingInv
    <3>4. CASE to[k] = d
      <4>1. i # 1 /\ i \in 1 .. Len(queue[d])
        BY <2>2, <3>1, <3>3, <3>4
      <4>2. i - 1 \in DOMAIN Tail(queue[d]) /\ Tail(queue[d])[i - 1] = k
        BY <2>2, <3>3, <3>4, <4>1
      <4>3. queue'[d] = Tail(queue[d])
        BY <1>1, <2>1 DEF TypeOK
      <4> QED
        BY <3>2, <3>4, <4>2, <4>3
    <3>5. CASE to[k] # d
      <4>1. queue'[to[k]] = queue[to[k]]
        BY <1>1, <2>1, <3>2, <3>5 DEF TypeOK
      <4> QED
        BY <3>2, <3>3, <4>1
    <3> QED
      BY <3>4, <3>5
  <2>6. \A k \in Calls : request[k] # NULL => to[k] # NULL \/ answer'[k] # NULL
    BY <2>4 DEF WaitingInv
  <2> QED
    BY <2>1, <2>5, <2>6 DEF WaitingInv
<1>5. ASSUME NEW d \in Daemons, Die(d) PROVE WaitingInv'
  <2>1. /\ pc' = [pc EXCEPT ![d] = "dead"]
        /\ queue' = [queue EXCEPT ![d] = <<>>]
        /\ answer' = [k \in Calls |-> IF to[k] = d /\ answer[k] = NULL THEN "FAIL" ELSE answer[k]]
        /\ UNCHANGED <<path, request, to, raced, acked>>
    BY <1>5 DEF Die
  <2>2. \A k \in Calls : answer'[k] = NULL => answer[k] = NULL /\ to[k] # d
    BY <2>1, StartupAssumption DEF Results
  <2>3. \A e \in Daemons : e # d => pc'[e] = pc[e] /\ queue'[e] = queue[e]
    BY <1>1, <2>1 DEF TypeOK
  <2>4. \A k \in Calls : to[k] # NULL => to[k] \in Daemons
    BY <1>1 DEF TypeOK
  <2> QED
    BY <2>1, <2>2, <2>3, <2>4 DEF WaitingInv
<1>6. ASSUME NEW k \in Calls, Call(k) PROVE WaitingInv'
  <2>1. PICK r \in Requests : request' = [request EXCEPT ![k] = r]
    BY <1>6 DEF Call
  <2>2. /\ request[k] = NULL /\ UNCHANGED <<pc, path>>
        /\ \A c \in Calls : c # k => request'[c] = request[c]
    BY <1>1, <1>6, <2>1 DEF Call, TypeOK
  <2>3. CASE Reachable
    <3>1. /\ path \in Daemons /\ pc[path] = "listening" /\ UNCHANGED answer
          /\ to' = [to EXCEPT ![k] = path]
          /\ queue' = [queue EXCEPT ![path] = Append(@, k)]
      BY <1>6, <2>3 DEF Call, connectDaemon, Reachable
    <3>2. /\ to'[k] = path /\ path # NULL
          /\ \A c \in Calls : c # k => to'[c] = to[c]
          /\ queue'[path] = Append(queue[path], k) /\ queue[path] \in Seq(Calls)
          /\ \A e \in Daemons : e # path => queue'[e] = queue[e]
      BY <1>1, <3>1, StartupAssumption DEF TypeOK
    <3>3. /\ Len(queue[path]) + 1 \in DOMAIN queue'[path]
          /\ queue'[path][Len(queue[path]) + 1] = k
          /\ \A i \in DOMAIN queue[path] : i \in DOMAIN queue'[path] /\ queue'[path][i] = queue[path][i]
      BY <3>2
    <3>4. ASSUME NEW c \in Calls, c # k, to[c] # NULL, answer[c] = NULL
          PROVE  pc[to[c]] = "listening" /\ \E i \in DOMAIN queue'[to[c]] : queue'[to[c]][i] = c
      <4>1. to[c] \in Daemons /\ pc[to[c]] = "listening"
        BY <1>1, <3>4 DEF WaitingInv, TypeOK
      <4>2. PICK i \in DOMAIN queue[to[c]] : queue[to[c]][i] = c
        BY <3>4 DEF WaitingInv
      <4> QED
        BY <3>2, <3>3, <4>1, <4>2
    <3> QED
      BY <2>2, <3>1, <3>2, <3>3, <3>4 DEF WaitingInv
  <2>4. CASE ~Reachable
    <3>1. /\ UNCHANGED <<to, queue>> /\ answer'[k] = "FAIL" /\ "FAIL" # NULL
          /\ \A c \in Calls : c # k => answer'[c] = answer[c]
      BY <1>1, <1>6, <2>4, StartupAssumption DEF Call, connectDaemon, TypeOK, Results
    <3> QED
      BY <2>2, <3>1 DEF WaitingInv
  <2> QED
    BY <2>3, <2>4
<1> QED
  BY <1>2, <1>3, <1>4, <1>5, <1>6 DEF Next

LEMMA PathInvHolds == Spec => [](PathInv /\ WaitingInv)
<1>1. StartupInv /\ PathInv /\ WaitingInv /\ [Next]_vars => (PathInv /\ WaitingInv)'
  BY PathStep, WaitingStep
<1> QED
  BY <1>1, InitPathInv, StartupInvHolds, PTL DEF Spec

\* Of any number of daemons that start together, in whatever order they unlink, bind and
\* listen, one keeps the path: when all have finished, clients reach it.
THEOREM OneDaemonIsReached == Spec => []OneKeepsThePath
<1>1. PathInv => OneKeepsThePath
  BY DEF PathInv, OneKeepsThePath, Reachable
<1> QED
  BY <1>1, PathInvHolds, PTL

\* A call that was made and not answered is in the queue of a daemon that listens, even
\* when that daemon has lost the path: no connection is forgotten.
THEOREM UnansweredCallsAreQueued ==
  Spec => [](\A k \in Calls : request[k] # NULL /\ answer[k] = NULL =>
               /\ to[k] \in Daemons /\ pc[to[k]] = "listening"
               /\ \E i \in DOMAIN queue[to[k]] : queue[to[k]][i] = k)
<1>1. TypeOK /\ WaitingInv =>
        \A k \in Calls : request[k] # NULL /\ answer[k] = NULL =>
          /\ to[k] \in Daemons /\ pc[to[k]] = "listening"
          /\ \E i \in DOMAIN queue[to[k]] : queue[to[k]][i] = k
  BY DEF WaitingInv, TypeOK
<1> QED
  BY <1>1, PathInvHolds, StartupTypeCorrect, PTL
=============================================================================
