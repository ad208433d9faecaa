------------------------------ MODULE Library ------------------------------
(****************************************************************************)
(* socket_coursework/lib.c: the four calls a client program makes.  Each    *)
(* connects, sends its request field by field, waits for a response code,   *)
(* for a read also for a length and the data, and closes its descriptor on  *)
(* every way out.  Neither lib.c nor its clients ignore SIGPIPE or pass     *)
(* MSG_NOSIGNAL, so a send() on a connection the daemon has closed may end  *)
(* the client process.                                                      *)
(*                                                                          *)
(* A definition marked "slip" is a mistake one could make in the definition *)
(* that follows it; PROJECT.json names the property that notices.           *)
(****************************************************************************)
EXTENDS Wire

CONSTANTS
  ClientHeap,     \* malloc(n) in a client succeeds iff n <= ClientHeap
  MayInterrupt    \* whether a user may kill a client during a call

ASSUME LibraryAssumption ==
  /\ ClientHeap \in Nat
  /\ MayInterrupt \in BOOLEAN
  /\ NULL \notin {"SIGPIPE", "SIGINT"}

VARIABLES
  cpc,   \* where call k is in the library
  ret    \* what call k returned, or the signal that ended its process

libraryVars == <<cpc, ret>>

Results == Codes \cup {NULL, "SIGPIPE", "SIGINT"}

LibraryTypeOK ==
  /\ cpc \in [Calls -> {"idle", "send", "response", "length", "data", "done"}]
  /\ ret \in [Calls -> Results]

LibraryInit ==
  /\ cpc = [k \in Calls |-> "idle"]
  /\ ret = [k \in Calls |-> NULL]

\* close(sockfd); return v -- or the process ends and the kernel closes it.
Return(k, v) ==
  /\ cpc' = [cpc EXCEPT ![k] = "done"]
  /\ ret' = [ret EXCEPT ![k] = v]
  /\ clientEnd' = [clientEnd EXCEPT ![k] = "closed"]

GoOn(k, pc) ==
  /\ cpc' = [cpc EXCEPT ![k] = pc]
  /\ UNCHANGED <<ret, clientEnd>>

-----------------------------------------------------------------------------
(***************************************************************************)
(* connectDaemon(): the connection waits in the listen queue; with no      *)
(* daemon listening connect() fails and the call returns FAIL.  With the   *)
(* queue full some systems refuse the connection and some make the caller  *)
(* wait, which is a call that has not begun.                               *)
(***************************************************************************)
ConnectSucceeds(k) ==
  /\ listening
  /\ Len(backlog) < BACKLOG
  /\ backlog' = Append(backlog, k)
  /\ clientEnd' = [clientEnd EXCEPT ![k] = "open"]
  /\ serverEnd' = [serverEnd EXCEPT ![k] = "open"]
  /\ cpc' = [cpc EXCEPT ![k] = "send"]
  /\ UNCHANGED ret

ConnectFails(k) ==
  /\ ~listening \/ Len(backlog) = BACKLOG
  /\ Return(k, "FAIL")
  /\ UNCHANGED <<backlog, serverEnd>>

Call(k) ==
  /\ cpc[k] = "idle"
  /\ \E r \in Requests : req' = [req EXCEPT ![k] = r]
  /\ ConnectSucceeds(k) \/ ConnectFails(k)
  /\ UNCHANGED <<sent, answer, listening>>

(****************************************************************************)
(* sendOpCode, sendIDAndLength (twice), sendSecret, then sendDataLength and *)
(* sendActualData or sendBeginText and sendLengthText.                      *)
(****************************************************************************)
SendField(k) ==
  /\ cpc[k] = "send"
  /\ serverEnd[k] = "open"
  /\ sent' = [sent EXCEPT ![k] = @ + 1]
  /\ GoOn(k, IF sent[k] + 1 = Fields(req[k]) THEN "response" ELSE "send")
  /\ UNCHANGED <<req, answer, listening, backlog, serverEnd>>

\* The daemon has closed its end: send() raises SIGPIPE, or returns an error
\* when the connection was reset with bytes unread, which handleErr() turns
\* into FAIL.
SendFails(k) ==
  /\ cpc[k] = "send"
  /\ serverEnd[k] = "closed"
  /\ \E v \in {"SIGPIPE", "FAIL"} : Return(k, v)
  /\ UNCHANGED <<req, sent, answer, listening, backlog, serverEnd>>

(****************************************************************************)
(* recv() on a connection returns what the daemon has sent, and end of file *)
(* only once the daemon's end is closed and everything sent was read.       *)
(****************************************************************************)
EndOfFile(k) == serverEnd[k] = "closed"

UnchangedByReading == UNCHANGED <<req, sent, answer, listening, backlog, serverEnd>>

\* partialGetBlock allocates length_text + 1 bytes, in uint32_t arithmetic,
\* after the response and before it reads anything else.
BufferAllocated(r) ==
  r.op = "PARTIAL_GET" => (r.length + 1) % Word <= ClientHeap

ReceiveResponse(k) ==
  /\ cpc[k] = "response"
  /\ \/ /\ answer[k].code = "SUCCESS"
        /\ ~CarriesData(req[k])
        /\ IF BufferAllocated(req[k]) THEN GoOn(k, "length") ELSE Return(k, "FAIL")
     \/ /\ answer[k].code # NULL
        /\ answer[k].code = "SUCCESS" => CarriesData(req[k])
        /\ Return(k, answer[k].code)
     \/ /\ answer[k].code = NULL
        /\ EndOfFile(k)
        /\ Return(k, "FAIL")
  /\ UnchangedByReading

(***************************************************************************)
(* The length announced: getBlock refuses one larger than its buffer,      *)
(* receivePartData one that differs from the length the caller asked for.  *)
(* A length of zero leaves the receive loop at once.                       *)
(***************************************************************************)
\* slip: >= for > in getBlock
LengthBelowBuffer(r, n) ==
  IF r.op = "GET" THEN n < r.size ELSE n = r.length

LengthAccepted(r, n) ==
  IF r.op = "GET" THEN n <= r.size ELSE n = r.length

ReceiveLength(k) ==
  /\ cpc[k] = "length"
  /\ \/ /\ answer[k].length # NULL
        /\ LengthAccepted(req[k], answer[k].length)
        /\ IF answer[k].length = 0 THEN Return(k, "SUCCESS") ELSE GoOn(k, "data")
     \/ /\ answer[k].length # NULL
        /\ ~LengthAccepted(req[k], answer[k].length)
        /\ Return(k, "FAIL")
     \/ /\ answer[k].length = NULL
        /\ EndOfFile(k)
        /\ Return(k, "FAIL")
  /\ UnchangedByReading

\* slip: end of file ends the receive loop
EndOfFileEndsData(k) ==
  /\ cpc[k] = "data"
  /\ answer[k].data # NULL \/ EndOfFile(k)
  /\ Return(k, "SUCCESS")
  /\ UnchangedByReading

ReceiveData(k) ==
  /\ cpc[k] = "data"
  /\ \/ answer[k].data # NULL /\ Return(k, "SUCCESS")
     \/ answer[k].data = NULL /\ EndOfFile(k) /\ Return(k, "FAIL")
  /\ UnchangedByReading

\* A user may end a client at any point of a call; the kernel closes its end.
Interrupt(k) ==
  /\ MayInterrupt
  /\ cpc[k] \in {"send", "response", "length", "data"}
  /\ Return(k, "SIGINT")
  /\ UnchangedByReading

LibraryStep(k) ==
  \/ SendField(k)
  \/ SendFails(k)
  \/ ReceiveResponse(k)
  \/ ReceiveLength(k)
  \/ ReceiveData(k)
=============================================================================
