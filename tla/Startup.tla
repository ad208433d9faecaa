------------------------------ MODULE Startup ------------------------------
(****************************************************************************)
(* How socket_coursework/daemon.c comes up: main() forks, creates a socket, *)
(* unlinks SOCKET_PATH, binds the socket to it and listens.  Nothing tells  *)
(* a second daemon that a first one runs, and nothing removes the path when *)
(* a daemon ends: cleanup() lies behind an endless loop.  So any number of  *)
(* daemons start, take the path from each other and die, while clients      *)
(* connect to whatever the path names at that moment.                       *)
(*                                                                          *)
(* Each execution of the program is a daemon of its own, and a restart is   *)
(* the start of another one.  A call is served in one step: Service and     *)
(* BlockStore show that its daemon answers it as if it were.                *)
(*                                                                          *)
(* A definition marked "slip" is a mistake one could make in the definition *)
(* that follows it; PROJECT.json names the property that notices.           *)
(****************************************************************************)
EXTENDS Naturals, Sequences, FiniteSets

CONSTANTS
  Daemons,     \* executions of the daemon program
  Calls,       \* library calls, at most as many as the listen queue holds
  IDs,         \* block identifiers
  MaxDeaths,   \* bound: daemons that end by a signal
  Stale,       \* the socket of a daemon of an earlier time
  NULL

Requests == [op : {"SEND", "GET"}, id : IDs]

Results == {"SUCCESS", "FAIL", "NOT_FOUND", "ALREADY_EXISTS"}

ASSUME StartupAssumption ==
  /\ NULL \notin Daemons \cup Calls \cup IDs
  /\ NULL \notin Requests /\ NULL \notin Results
  /\ Stale \notin Daemons \cup {NULL}
  /\ MaxDeaths \in Nat

VARIABLES
  pc,       \* pc[d]: how far daemon d's main() has come
  path,     \* whose socket SOCKET_PATH names: a daemon's, dead or alive, or NULL
  blocks,   \* blocks[d]: the IDs in d's memory
  queue,    \* queue[d]: connections made to d and not served
  request,  \* request[k]: the operation and ID of call k, NULL before the call
  to,       \* to[k]: the daemon call k is connected to
  answer,   \* answer[k]: what call k returned
  raced,    \* history: daemons for which another one bound the path between
            \* their unlink() and their bind()
  acked     \* history: acked[k] is who had acknowledged k's ID when k connected

vars == <<pc, path, blocks, queue, request, to, answer, raced, acked>>
callVars == <<request, to, answer, acked>>

Places == {"off", "forked", "socket", "unlinked", "bound", "listening",
           "bind failed", "exited", "dead"}

\* Every variable ranges over the values the code can give it.
TypeOK ==
  /\ pc \in [Daemons -> Places]
  /\ path \in Daemons \cup {Stale, NULL}
  /\ blocks \in [Daemons -> SUBSET IDs]
  /\ queue \in [Daemons -> Seq(Calls)]
  /\ request \in [Calls -> Requests \cup {NULL}]
  /\ to \in [Calls -> Daemons \cup {NULL}]
  /\ answer \in [Calls -> Results \cup {NULL}]
  /\ raced \subseteq Daemons
  /\ acked \in [Calls -> SUBSET Daemons]

\* No daemon runs; one that ended long ago may have left its socket file.
Init ==
  /\ pc = [d \in Daemons |-> "off"]
  /\ path \in {NULL, Stale}
  /\ blocks = [d \in Daemons |-> {}]
  /\ queue = [d \in Daemons |-> <<>>]
  /\ request = [k \in Calls |-> NULL]
  /\ to = [k \in Calls |-> NULL]
  /\ answer = [k \in Calls |-> NULL]
  /\ raced = {}
  /\ acked = [k \in Calls |-> {}]

-----------------------------------------------------------------------------
(***************************************************************************)
(* main() up to connectionHandling().                                      *)
(***************************************************************************)
MemoryStays == UNCHANGED <<blocks, queue, callVars>>

\* daemonize(): the parent exits and gives the terminal back at once; the
\* child goes on, or exits when setsid() or chdir() fails.
daemonize(d) ==
  /\ pc[d] = "off"
  /\ \E p \in {"forked", "exited"} : pc' = [pc EXCEPT ![d] = p]
  /\ MemoryStays /\ UNCHANGED <<path, raced>>

initSocket(d) ==
  /\ pc[d] = "forked"
  /\ \E p \in {"socket", "exited"} : pc' = [pc EXCEPT ![d] = p]
  /\ MemoryStays /\ UNCHANGED <<path, raced>>

\* slip: the old socket file is left where it is
KeepPath(d) ==
  /\ pc[d] = "socket"
  /\ pc' = [pc EXCEPT ![d] = "unlinked"]
  /\ MemoryStays /\ UNCHANGED <<path, raced>>

\* bindListen(): unlink(), whoever's socket it is.
UnlinkPath(d) ==
  /\ pc[d] = "socket"
  /\ pc' = [pc EXCEPT ![d] = "unlinked"]
  /\ path' = NULL
  /\ MemoryStays /\ UNCHANGED raced

\* bindListen(): bind() fails when the path exists.
Bind(d) ==
  /\ pc[d] = "unlinked"
  /\ \/ /\ path = NULL
        /\ path' = d
        /\ pc' = [pc EXCEPT ![d] = "bound"]
        /\ raced' = raced \cup {e \in Daemons \ {d} : pc[e] = "unlinked"}
     \/ /\ path # NULL
        /\ pc' = [pc EXCEPT ![d] = "bind failed"]
        /\ UNCHANGED <<path, raced>>
  /\ MemoryStays

\* slip: the path is removed once the socket listens
ListenAndUnlink(d) ==
  /\ pc[d] = "bound"
  /\ pc' = [pc EXCEPT ![d] = "listening"]
  /\ path' = NULL
  /\ MemoryStays /\ UNCHANGED raced

\* bindListen(): listen(), on a socket whose path may be gone again.
Listen(d) ==
  /\ pc[d] = "bound"
  /\ pc' = [pc EXCEPT ![d] = "listening"]
  /\ MemoryStays /\ UNCHANGED <<path, raced>>

-----------------------------------------------------------------------------
(***************************************************************************)
(* connectionHandling(), one call in one step.                             *)
(***************************************************************************)
\* slip: the block is filled in and never linked
NotLinked(d, id) == blocks[d]

Stored(d, id) == blocks[d] \cup {id}

Code(op, known) ==
  IF op = "SEND" THEN IF known THEN "ALREADY_EXISTS" ELSE "SUCCESS"
  ELSE IF known THEN "SUCCESS" ELSE "NOT_FOUND"

ServeFirst(d) ==
  LET k == Head(queue[d])  r == request[k]  known == r.id \in blocks[d] IN
  /\ queue' = [queue EXCEPT ![d] = Tail(@)]
  /\ blocks' = [blocks EXCEPT ![d] = IF r.op = "SEND" /\ ~known THEN Stored(d, r.id) ELSE @]
  /\ answer' = [answer EXCEPT ![k] = Code(r.op, known)]
  /\ UNCHANGED <<pc, path, request, to, raced, acked>>

\* slip: a daemon that lost the path stops serving
ServeOnPath(d) == pc[d] = "listening" /\ path = d /\ queue[d] # <<>> /\ ServeFirst(d)

Serve(d) == pc[d] = "listening" /\ queue[d] # <<>> /\ ServeFirst(d)

Alive(d) == pc[d] \in {"forked", "socket", "unlinked", "bound", "listening"}

\* A signal ends the daemon anywhere: its memory is lost, its connections end,
\* the path stays.
Die(d) ==
  /\ Alive(d)
  /\ Cardinality({e \in Daemons : pc[e] = "dead"}) < MaxDeaths
  /\ pc' = [pc EXCEPT ![d] = "dead"]
  /\ blocks' = [blocks EXCEPT ![d] = {}]
  /\ queue' = [queue EXCEPT ![d] = <<>>]
  /\ answer' = [k \in Calls |-> IF to[k] = d /\ answer[k] = NULL THEN "FAIL" ELSE answer[k]]
  /\ UNCHANGED <<path, request, to, raced, acked>>

-----------------------------------------------------------------------------
(***************************************************************************)
(* connectDaemon() of lib.c, and a call that rests on it.                  *)
(***************************************************************************)
Reachable == path \in Daemons /\ pc[path] = "listening"

Acknowledged(id) ==
  {d \in Daemons : \E k \in Calls :
     request[k] = [op |-> "SEND", id |-> id] /\ to[k] = d /\ answer[k] = "SUCCESS"}

connectDaemon(k) ==
  \/ /\ Reachable
     /\ to' = [to EXCEPT ![k] = path]
     /\ queue' = [queue EXCEPT ![path] = Append(@, k)]
     /\ UNCHANGED answer
  \/ /\ ~Reachable
     /\ answer' = [answer EXCEPT ![k] = "FAIL"]
     /\ UNCHANGED <<to, queue>>

Call(k) ==
  /\ request[k] = NULL
  /\ \E r \in Requests :
       /\ request' = [request EXCEPT ![k] = r]
       /\ acked' = [acked EXCEPT ![k] = Acknowledged(r.id)]
  /\ connectDaemon(k)
  /\ UNCHANGED <<pc, path, blocks, raced>>

-----------------------------------------------------------------------------
ComesUp(d) == initSocket(d) \/ UnlinkPath(d) \/ Bind(d) \/ Listen(d)

Next ==
  \/ \E d \in Daemons : daemonize(d) \/ ComesUp(d) \/ Serve(d) \/ Die(d)
  \/ \E k \in Calls : Call(k)

Spec == Init /\ [][Next]_vars

\* The scheduler runs every daemon that was started; nobody has to start one,
\* to end one or to call.
FairSpec ==
  /\ Spec
  /\ \A d \in Daemons : WF_vars(ComesUp(d)) /\ WF_vars(Serve(d))

-----------------------------------------------------------------------------
(***************************************************************************)
(* Properties.                                                             *)
(***************************************************************************)
\* bind() fails only because another daemon got in between unlink() and
\* bind(): a socket file left behind by a daemon that ended never stops one
\* that starts alone.
StartFailsOnlyInARace == \A d \in Daemons : pc[d] = "bind failed" => d \in raced

\* A GET is not told NOT_FOUND by a daemon that had acknowledged the block
\* before: a block is lost with its daemon or when another one takes the path,
\* and in no other way.
BlocksStayWithTheirDaemon ==
  \A k \in Calls : answer[k] = "NOT_FOUND" => to[k] \notin acked[k]

Disturbed == \E d \in Daemons : pc[d] \in {"dead", "exited"}

\* As long as no daemon ends by a signal or a failed call, a service that was
\* started becomes reachable, and again so after every takeover: of daemons
\* that start together, one keeps the path.
ServiceComesUp ==
  (\E d \in Daemons : pc[d] # "off") ~> Reachable \/ Disturbed

\* Why that is so: when nobody is on its way up any more, one of those that
\* started has the path and listens on it.
OneKeepsThePath ==
  /\ ~Disturbed
  /\ \E d \in Daemons : pc[d] # "off"
  /\ \A d \in Daemons : pc[d] \notin {"forked", "socket", "unlinked", "bound"}
  => Reachable

\* A connection made to a daemon that then loses the path is still served:
\* every call is answered, by that daemon or by its end.
ConnectedCallsAreAnswered == \A k \in Calls : to[k] # NULL ~> answer[k] # NULL
=============================================================================
