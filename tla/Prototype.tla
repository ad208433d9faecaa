----------------------------- MODULE Prototype -----------------------------
(****************************************************************************)
(* The first version of the service: daemon.c and sharedlib.c of            *)
(* "Prototype daemon code/UNIX_DOMAIN_SOCKET_CODE".  It knows SEND and GET, *)
(* and the two programs disagree in two places:                             *)
(*  - handleSendBlock answers every failure and no success, and the loop    *)
(*    does not close connections: a caller whose block was stored waits;    *)
(*  - getBlock sends the ID padded to 256 bytes, of which handleGetBlock    *)
(*    receives id_len, and takes the sixteen that follow for the secret.    *)
(*                                                                          *)
(* Here the bytes of IDs and secrets count.                                 *)
(* Calls, requests and connections are those of Wire; the caller is         *)
(* sharedlib.c, the rest is daemon.c.  Unknown opcodes are never sent.      *)
(*                                                                          *)
(* A definition marked "slip" is a mistake one could make in the definition *)
(* that follows it; PROJECT.json names the property that notices.           *)
(****************************************************************************)
EXTENDS Wire, FiniteSets

CONSTANTS
  Text,          \* Text[id]: the characters of an ID
  SecretBytes,   \* SecretBytes[s]: the sixteen bytes of a secret
  MAX_STORAGE,   \* slots of the static array
  Descriptors    \* connections the daemon may hold before accept() fails

IDBuffer == 256     \* sizeof(id_buffer)
SecretSize == 16    \* uint8_t secret[16]
Pointer == 8        \* sizeof(secret), where secret is a parameter

ASSUME PrototypeAssumption ==
  /\ Ops \subseteq {"SEND", "GET"}
  /\ MAX_STORAGE \in Nat \ {0}
  /\ Descriptors \in Nat \ {0}
  /\ NULL \notin {"SIGPIPE", "SIGINT"}

\* No ID is so long that handleGetBlock gets beyond the padding: 241 characters
\* and more are not modelled.
ASSUME BytesAssumption ==
  /\ \A id \in IDs : Text[id] \in Seq(1 .. 255) /\ Len(Text[id]) <= IDBuffer - SecretSize
  /\ \A s \in Secrets : SecretBytes[s] \in [1 .. SecretSize -> 0 .. 255]

VARIABLES
  cpc,       \* where call k is in sharedlib.c
  ret,       \* what it returned, or the signal that ended its process
  dpc,       \* where the daemon is
  cur,       \* client_sock: the call being served
  got,       \* fields of its request received
  data,      \* whether handleSendBlock holds a malloc'd buffer
  heap,      \* the number of buffers allocated and not freed
  storage    \* the static array

callerVars == <<req, sent, clientEnd, cpc, ret>>
daemonVars == <<dpc, cur, got, data, heap, storage>>
vars == <<wireVars, cpc, ret, daemonVars>>

Slots == 0 .. MAX_STORAGE - 1

DataBlock ==
  [is_used : BOOLEAN, ID : IDs \cup {NULL}, secret : Secrets \cup {NULL},
   data : Payloads \cup {NULL}]

NoBlock == [is_used |-> FALSE, ID |-> NULL, secret |-> NULL, data |-> NULL]

\* Every variable ranges over the values the code can give it.
TypeOK ==
  /\ WireTypeOK
  /\ cpc \in [Calls -> {"idle", "send", "response", "length", "data", "done"}]
  /\ ret \in [Calls -> Codes \cup {NULL, "SIGPIPE", "SIGINT"}]
  /\ dpc \in {"accept", "opcode", "request", "length", "data", "dead"}
  /\ cur \in Calls \cup {NULL}
  /\ got \in 0 .. 5
  /\ data \in BOOLEAN
  /\ heap \in Nat
  /\ storage \in [Slots -> DataBlock]

Init ==
  /\ WireInit
  /\ cpc = [k \in Calls |-> "idle"]
  /\ ret = [k \in Calls |-> NULL]
  /\ dpc = "accept"
  /\ cur = NULL
  /\ got = 0
  /\ data = FALSE
  /\ heap = 0
  /\ storage = [s \in Slots |-> NoBlock]

\* opcode, ID, secret, data_length, data; or opcode, id_len, ID, secret.
FieldsSent(r) == IF r.op = "SEND" THEN 5 ELSE 4

-----------------------------------------------------------------------------
(***************************************************************************)
(* sharedlib.c                                                             *)
(***************************************************************************)
\* close() and return v -- or the process ends and the kernel closes.
Return(k, v) ==
  /\ cpc' = [cpc EXCEPT ![k] = "done"]
  /\ ret' = [ret EXCEPT ![k] = v]
  /\ clientEnd' = [clientEnd EXCEPT ![k] = "closed"]

GoOn(k, pc) ==
  /\ cpc' = [cpc EXCEPT ![k] = pc]
  /\ UNCHANGED <<ret, clientEnd>>

connectDaemon(k) ==
  /\ listening
  /\ Len(backlog) < BACKLOG
  /\ backlog' = Append(backlog, k)
  /\ serverEnd' = [serverEnd EXCEPT ![k] = "open"]
  /\ clientEnd' = [clientEnd EXCEPT ![k] = "open"]
  /\ cpc' = [cpc EXCEPT ![k] = "send"]
  /\ UNCHANGED ret

\* No daemon listens, or (on some systems) its queue is full.
connectFails(k) ==
  /\ ~listening \/ Len(backlog) = BACKLOG
  /\ Return(k, "FAIL")
  /\ UNCHANGED <<backlog, serverEnd>>

\* sendNewBlock() or getBlock() is called.
Call(k) ==
  /\ cpc[k] = "idle"
  /\ \E r \in Requests : req' = [req EXCEPT ![k] = r]
  /\ connectDaemon(k) \/ connectFails(k)
  /\ UNCHANGED <<sent, answer, listening>>

WireStays == UNCHANGED <<answer, listening, backlog, serverEnd>>

sendAllData(k) ==
  /\ cpc[k] = "send"
  /\ \/ /\ serverEnd[k] = "open"
        /\ sent' = [sent EXCEPT ![k] = @ + 1]
        /\ GoOn(k, IF sent[k] + 1 = FieldsSent(req[k]) THEN "response" ELSE "send")
     \/ /\ serverEnd[k] = "closed"
        /\ \E v \in {"SIGPIPE", "FAIL"} : Return(k, v)
        /\ UNCHANGED sent
  /\ WireStays /\ UNCHANGED req

\* End of file comes only when the daemon has ended.
EndOfFile(k) == serverEnd[k] = "closed"

\* sendNewBlock returns the daemon's code, getBlock turns every failure
\* into FAIL.
ReceiveResponse(k) ==
  /\ cpc[k] = "response"
  /\ \/ /\ answer[k].code # NULL
        /\ IF req[k].op = "SEND" THEN Return(k, answer[k].code)
           ELSE IF answer[k].code = "SUCCESS" THEN GoOn(k, "length")
           ELSE Return(k, "FAIL")
     \/ answer[k].code = NULL /\ EndOfFile(k) /\ Return(k, "FAIL")
  /\ WireStays /\ UNCHANGED <<req, sent>>

ReceiveLength(k) ==
  /\ cpc[k] = "length"
  /\ \/ /\ answer[k].length # NULL
        /\ IF answer[k].length > req[k].size THEN Return(k, "FAIL")
           ELSE IF answer[k].length = 0 THEN Return(k, "SUCCESS")
           ELSE GoOn(k, "data")
     \/ answer[k].length = NULL /\ EndOfFile(k) /\ Return(k, "FAIL")
  /\ WireStays /\ UNCHANGED <<req, sent>>

ReceiveData(k) ==
  /\ cpc[k] = "data"
  /\ \/ answer[k].data # NULL /\ Return(k, "SUCCESS")
     \/ answer[k].data = NULL /\ EndOfFile(k) /\ Return(k, "FAIL")
  /\ WireStays /\ UNCHANGED <<req, sent>>

\* The user's way out of a call that does not return.
Interrupt(k) ==
  /\ cpc[k] \in {"send", "response", "length", "data"}
  /\ Return(k, "SIGINT")
  /\ WireStays /\ UNCHANGED <<req, sent>>

LibraryStep(k) ==
  sendAllData(k) \/ ReceiveResponse(k) \/ ReceiveLength(k) \/ ReceiveData(k)

-----------------------------------------------------------------------------
(***************************************************************************)
(* daemon.c                                                                *)
(***************************************************************************)
Used == {s \in Slots : storage[s].is_used}

Holding(id) == {s \in Used : storage[s].ID = id}

\* findIndxById() # -1, and the index it returns.
Known(id) == Holding(id) # {}

findIndxById(id) == CHOOSE s \in Holding(id) : \A t \in Holding(id) : s <= t

findFreeBlockIndx == CHOOSE s \in Slots \ Used : \A t \in Slots \ Used : s <= t

\* What getBlock sends after id_len: the ID padded with zeros, and as much of the
\* secret as a pointer is long.
GetStream(r) ==
  [i \in 1 .. IDBuffer + Pointer |->
    IF i > IDBuffer THEN SecretBytes[r.secret][i - IDBuffer]
    ELSE IF i <= Len(Text[r.id]) THEN Text[r.id][i] ELSE 0]

\* handleGetBlock takes id_len bytes of it for the ID, and the next sixteen for
\* the secret.
SecretRead16(r) == [i \in 1 .. SecretSize |-> GetStream(r)[Len(Text[r.id]) + i]]

\* SIGPIPE or exit(): the kernel closes every descriptor; the blocks are gone.
Die ==
  /\ dpc' = "dead"
  /\ listening' = FALSE
  /\ backlog' = <<>>
  /\ serverEnd' = [k \in Calls |-> IF serverEnd[k] = "open" THEN "closed" ELSE serverEnd[k]]
  /\ cur' = NULL /\ got' = 0 /\ data' = FALSE /\ heap' = 0
  /\ storage' = [s \in Slots |-> NoBlock]
  /\ UNCHANGED answer

ClientGone == clientEnd[cur] = "closed"

\* Connections accepted and not closed, the callers' ends closed or not.
Held == {k \in Calls : serverEnd[k] = "open" /\ \A i \in DOMAIN backlog : backlog[i] # k}

\* Back to accept(); nothing is closed.
NextConnection == dpc' = "accept" /\ cur' = NULL /\ got' = 0 /\ data' = FALSE

Accept ==
  /\ dpc = "accept"
  /\ Cardinality(Held) < Descriptors
  /\ backlog # <<>>
  /\ cur' = Head(backlog)
  /\ backlog' = Tail(backlog)
  /\ dpc' = "opcode"
  /\ UNCHANGED <<answer, listening, serverEnd, got, data, heap, storage>>

\* slip: the last descriptor is not used
AcceptFailsEarly ==
  /\ dpc = "accept"
  /\ Cardinality(Held) >= Descriptors - 1
  /\ Die

\* Out of descriptors accept() fails, and the daemon exits.
AcceptFails ==
  /\ dpc = "accept"
  /\ Cardinality(Held) >= Descriptors
  /\ Die

\* A caller that ends before its opcode is the one case of close().
ReceiveOpcode ==
  /\ dpc = "opcode"
  /\ \/ /\ sent[cur] > 0
        /\ dpc' = "request" /\ got' = 1
        /\ UNCHANGED <<serverEnd, cur, data>>
     \/ /\ sent[cur] = 0 /\ ClientGone
        /\ serverEnd' = [serverEnd EXCEPT ![cur] = "closed"]
        /\ NextConnection
  /\ UNCHANGED <<answer, listening, backlog, heap, storage>>

\* How many fields a handler receives: handleGetBlock takes the secret from
\* the third; without a buffer, or with no bytes to come, handleSendBlock
\* receives no data.
Wanted(r) ==
  IF r.op = "GET" THEN 3
  ELSE IF got >= DataLengthRead /\ (~data \/ Bytes[r.data] = 0) THEN DataLengthRead
  ELSE 5

\* One recv(); data_length is followed by malloc(), which may fail.
ReceiveField ==
  /\ dpc = "request"
  /\ got < Wanted(req[cur])
  /\ sent[cur] > got
  /\ got' = got + 1
  /\ IF req[cur].op = "SEND" /\ got' = DataLengthRead
       THEN \/ data' = TRUE /\ heap' = heap + 1
            \/ UNCHANGED <<data, heap>>
       ELSE UNCHANGED <<data, heap>>
  /\ UNCHANGED <<answer, listening, backlog, serverEnd, dpc, cur, storage>>

\* The caller ended inside its request: recv() fails and the FAIL is sent to
\* a closed connection.
ReceiveFails ==
  /\ dpc = "request"
  /\ got < Wanted(req[cur])
  /\ sent[cur] = got /\ ClientGone
  /\ Die

\* slip: data is not freed
RespondUnfreed(code) ==
  \/ ClientGone /\ Die
  \/ /\ ~ClientGone
     /\ answer' = [answer EXCEPT ![cur].code = code]
     /\ NextConnection
     /\ UNCHANGED <<listening, backlog, serverEnd, heap, storage>>

\* slip: the code is returned, not sent
RespondByReturn(code) ==
  /\ NextConnection
  /\ heap' = IF data THEN heap - 1 ELSE heap
  /\ UNCHANGED <<answer, listening, backlog, serverEnd, storage>>

\* respond(), and the handler returns.
Respond(code) ==
  \/ ClientGone /\ Die
  \/ /\ ~ClientGone
     /\ answer' = [answer EXCEPT ![cur].code = code]
     /\ NextConnection
     /\ heap' = IF data THEN heap - 1 ELSE heap      \* free(data)
     /\ UNCHANGED <<listening, backlog, serverEnd, storage>>

\* Lines 203-214: the block is stored and resp, still FAIL_RES, goes to the
\* caller of the handler only.
StoreBlock(r) ==
  /\ storage' = [storage EXCEPT ![findFreeBlockIndx] =
       [is_used |-> TRUE, ID |-> r.id, secret |-> r.secret, data |-> r.data]]
  /\ NextConnection
  /\ UNCHANGED <<answer, listening, backlog, serverEnd, heap>>

handleSendBlock(r) ==
  /\ r.op = "SEND"
  /\ \/ ~data /\ Respond("FAIL")
     \/ data /\ Known(r.id) /\ Respond("ALREADY_EXISTS")
     \/ data /\ ~Known(r.id) /\ Used = Slots /\ Respond("FAIL")
     \/ data /\ ~Known(r.id) /\ Used # Slots /\ StoreBlock(r)

\* respond(SUCCESS_RES), with the length and the data still to send.
Grant ==
  \/ ClientGone /\ Die
  \/ /\ ~ClientGone
     /\ answer' = [answer EXCEPT ![cur].code = "SUCCESS"]
     /\ dpc' = "length"
     /\ UNCHANGED <<listening, backlog, serverEnd, cur, got, data, heap, storage>>

SecretMatches(r) == SecretBytes[storage[findIndxById(r.id)].secret] = SecretRead16(r)

handleGetBlock(r) ==
  /\ r.op = "GET"
  /\ \/ ~Known(r.id) /\ Respond("NOT_FOUND")
     \/ Known(r.id) /\ ~SecretMatches(r) /\ Respond("ACCESS_DENIED")
     \/ Known(r.id) /\ SecretMatches(r) /\ Grant

Handle ==
  /\ dpc = "request"
  /\ got = Wanted(req[cur])
  /\ handleSendBlock(req[cur]) \/ handleGetBlock(req[cur])

Block(r) == storage[findIndxById(r.id)]

\* After a failed send() the handler responds once more: SIGPIPE at the latest.
SendLength ==
  /\ dpc = "length"
  /\ \/ ClientGone /\ Die
     \/ /\ ~ClientGone
        /\ answer' = [answer EXCEPT ![cur].length = Bytes[Block(req[cur]).data]]
        /\ IF Bytes[Block(req[cur]).data] = 0
             THEN NextConnection
             ELSE dpc' = "data" /\ UNCHANGED <<cur, got, data>>
        /\ UNCHANGED <<listening, backlog, serverEnd, heap, storage>>

SendData ==
  /\ dpc = "data"
  /\ \/ ClientGone /\ Die
     \/ /\ ~ClientGone
        /\ answer' = [answer EXCEPT ![cur].data =
             [src |-> Block(req[cur]).data, from |-> 0, len |-> Bytes[Block(req[cur]).data]]]
        /\ NextConnection
        /\ UNCHANGED <<listening, backlog, serverEnd, heap, storage>>

DaemonStep ==
  \/ Accept \/ AcceptFails \/ ReceiveOpcode \/ ReceiveField \/ ReceiveFails
  \/ Handle \/ SendLength \/ SendData

-----------------------------------------------------------------------------
Server == DaemonStep /\ UNCHANGED callerVars

Caller(k) == (Call(k) \/ LibraryStep(k) \/ Interrupt(k)) /\ UNCHANGED daemonVars

Next == Server \/ \E k \in Calls : Caller(k)

Spec == Init /\ [][Next]_vars

\* The scheduler runs the daemon and every caller inside the library; nobody
\* has to call or to interrupt.
FairSpec ==
  /\ Spec
  /\ WF_vars(Server)
  /\ \A k \in Calls : WF_vars(LibraryStep(k) /\ UNCHANGED daemonVars)

-----------------------------------------------------------------------------
(***************************************************************************)
(* Properties.                                                             *)
(***************************************************************************)
\* The daemon is done with call k, has stored its block and not answered it.
StoredUnanswered(k) ==
  /\ k \in Held /\ cur # k /\ answer[k] = NoAnswer
  /\ req[k].op = "SEND"
  /\ \E s \in Used : /\ storage[s].ID = req[k].id /\ storage[s].secret = req[k].secret
                     /\ storage[s].data = req[k].data

\* Between two connections the heap holds the data of the stored blocks and
\* nothing else: every refusal of handleSendBlock frees what it received.
EveryBufferIsABlock == dpc = "accept" => heap = Cardinality(Used)

\* The daemon ends when a caller left before its answer (killed, or getBlock
\* refusing a length above its buffer) or when the connections it never closes
\* have used up its descriptors.
DaemonEndsForAReason ==
  dpc = "dead" =>
    \/ Cardinality({k \in Calls : sent[k] > 0}) >= Descriptors
    \/ \E k \in Calls :
         \/ ret[k] = "SIGINT"
         \/ /\ answer[k].length # NULL /\ answer[k].length > req[k].size
            /\ ret[k] = "FAIL"

\* A call that hangs is a SEND whose block was stored: every other call
\* returns, also while such callers hang.
OnlyStoringCallsHang ==
  \A k \in Calls : cpc[k] # "idle" ~> cpc[k] = "done" \/ StoredUnanswered(k)

\* Caller k waits for a part of its answer that was not sent.
Blocked(k) ==
  \/ cpc[k] = "response" /\ answer[k].code = NULL
  \/ cpc[k] = "length" /\ answer[k].length = NULL
  \/ cpc[k] = "data" /\ answer[k].data = NULL

\* The daemon waits for a field of the request it serves.
DaemonBlocked ==
  \/ dpc = "opcode" /\ sent[cur] = 0
  \/ dpc = "request" /\ got < Wanted(req[cur]) /\ sent[cur] <= got

\* Why that is so: on a connection that was accepted nobody waits for a daemon
\* that waits for him, or that has turned to others -- unless his block was stored.
OnlyStoredCallsAreForgotten ==
  \A k \in Held : Blocked(k) => (k = cur /\ ~DaemonBlocked) \/ StoredUnanswered(k)

\* sharedlib.c:71 "retrieve a response from the daemon.c - indicate whether
\* storing data was succesful": a call that waits for its response gets one.
ResponseArrives == \A k \in Calls : cpc[k] = "response" ~> cpc[k] = "done"
=============================================================================
