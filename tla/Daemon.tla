------------------------------- MODULE Daemon -------------------------------
(****************************************************************************)
(* socket_coursework/daemon.c: one process, one loop.  It accepts a         *)
(* connection, reads an opcode, runs one handler to its end and closes the  *)
(* connection; every other connection waits in the listen queue meanwhile.  *)
(*                                                                          *)
(* Blocks live in the static array storage and are linked from head; their  *)
(* data is malloc'd.  The heap is a pool of Buffers: which of them are      *)
(* allocated, and what each holds.                                          *)
(*                                                                          *)
(* The daemon neither ignores SIGPIPE nor passes MSG_NOSIGNAL: a send() to  *)
(* a client that has closed its end kills it (Die).  lib.c never sends      *)
(* CLOSE or an opcode outside AllOps, so those two cases are left out.      *)
(*                                                                          *)
(* A definition marked "slip" is a mistake one could make in the definition *)
(* that follows it; PROJECT.json names the property that notices.           *)
(****************************************************************************)
EXTENDS Wire

CONSTANTS
  Buffers,        \* what malloc() can return in the daemon
  MAX_STORAGE     \* slots of the static array

ASSUME DaemonAssumption ==
  /\ MAX_STORAGE \in Nat \ {0}
  /\ NULL \notin Buffers

Slots == 0 .. MAX_STORAGE - 1

VARIABLES
  dpc,       \* where the daemon is: see DaemonTypeOK
  cur,       \* client_sock: the call being served, NULL between two
  got,       \* fields of its request received so far
  n_data,    \* the handler's data / n_data pointer
  storage,   \* the static array
  chain,     \* the slots linked from head, head first
  live,      \* buffers allocated and not freed
  mem        \* mem[p]: the bytes buffer p holds

daemonVars == <<dpc, cur, got, n_data, storage, chain, live, mem>>
heapVars == <<storage, chain, live, mem>>

DataBlock ==
  [used : BOOLEAN, ID : IDs \cup {NULL}, secret : Secrets \cup {NULL},
   data : Buffers \cup {NULL}, data_length : Nat]

NoBlock ==
  [used |-> FALSE, ID |-> NULL, secret |-> NULL, data |-> NULL, data_length |-> 0]

DaemonTypeOK ==
  /\ dpc \in {"accept", "opcode", "request", "length", "data", "close", "dead"}
  /\ cur \in Calls \cup {NULL}
  /\ got \in 0 .. 5
  /\ n_data \in Buffers \cup {NULL}
  /\ storage \in [Slots -> DataBlock]
  /\ chain \in Seq(Slots)
  /\ live \subseteq Buffers
  /\ mem \in [Buffers -> Payloads \cup {Junk}]

DaemonInit ==
  /\ dpc = "accept"
  /\ cur = NULL
  /\ got = 0
  /\ n_data = NULL
  /\ storage = [s \in Slots |-> NoBlock]
  /\ chain = <<>>
  /\ live = {}
  /\ mem = [p \in Buffers |-> Junk]

-----------------------------------------------------------------------------
(***************************************************************************)
(* Lookup: the loops from head stop at the first block with the ID, and    *)
(* compare the secret of that block only.                                  *)
(***************************************************************************)
\* slip: the search starts at head->next
HoldingPastHead(id) == {i \in DOMAIN chain : i > 1 /\ storage[chain[i]].ID = id}

Holding(id) == {i \in DOMAIN chain : storage[chain[i]].ID = id}

Known(id) == Holding(id) # {}

\* slip: the head of the list, whichever block was found
HeadOfList(id) == chain[1]

Found(id) == chain[CHOOSE i \in Holding(id) : \A j \in Holding(id) : i <= j]

\* slip: memcmp() of a secret with itself
SecretIgnored(r) == TRUE

SecretMatches(r) == storage[Found(r.id)].secret = r.secret

\* slip: used is not tested
AnySlot == Slots

\* The first unused slot of the array.
FreeSlots == {s \in Slots : ~storage[s].used}

FirstFree == CHOOSE s \in FreeSlots : \A t \in FreeSlots : s <= t

\* slip: the length asked for is sent as it is
NotAdjusted(begin, len, data_length) == len

\* begin_text_offset + len_text is computed in uint32_t.
Adjusted(begin, len, data_length) ==
  IF (begin + len) % Word > data_length THEN data_length - begin ELSE len

\* The bytes a successful read sends: where they start and how many.
Slice(r) ==
  LET b == storage[Found(r.id)] IN
  IF r.op = "GET"
    THEN [src |-> mem[b.data], from |-> 0, len |-> b.data_length]
    ELSE [src |-> mem[b.data], from |-> r.begin,
          len |-> Adjusted(r.begin, r.length, b.data_length)]

(***************************************************************************)
(* How many fields a handler receives before it decides: handleSendBlock   *)
(* answers a known ID after the secret and leaves the data on the socket;  *)
(* it and handleOverwriteBlock stop after data_length when malloc() fails, *)
(* and receiveAll() of an empty payload returns at once.                   *)
(***************************************************************************)
\* slip: the block is stored before its data is received
WantedNoData(r) == IF CarriesData(r) THEN DataLengthRead ELSE Fields(r)

\* slip: every handler receives five fields
WantedFive(r) == 5

Wanted(r) ==
  IF r.op = "SEND" /\ Known(r.id) THEN SecretRead
  ELSE IF CarriesData(r) /\ got >= DataLengthRead
          /\ (n_data = NULL \/ Bytes[r.data] = 0) THEN DataLengthRead
  ELSE Fields(r)

-----------------------------------------------------------------------------
(***************************************************************************)
(* SIGPIPE, or the allocator's abort(): the process ends, every descriptor *)
(* it held is closed, connections still queued included, and all blocks    *)
(* are lost, for they are only in its memory.                              *)
(***************************************************************************)
Die ==
  /\ dpc' = "dead"
  /\ listening' = FALSE
  /\ backlog' = <<>>
  /\ serverEnd' = [k \in Calls |-> IF serverEnd[k] = "open" THEN "closed" ELSE serverEnd[k]]
  /\ cur' = NULL
  /\ got' = 0
  /\ n_data' = NULL
  /\ storage' = [s \in Slots |-> NoBlock]
  /\ chain' = <<>>
  /\ live' = {}
  /\ mem' = [p \in Buffers |-> Junk]
  /\ UNCHANGED answer

ClientGone == clientEnd[cur] = "closed"

Stay == UNCHANGED <<listening, backlog, serverEnd, cur>>

\* respond(): one byte.
Respond(code, pc) ==
  /\ answer' = [answer EXCEPT ![cur].code = code]
  /\ dpc' = pc
  /\ UNCHANGED <<got, n_data>>
  /\ Stay

\* What freed memory holds afterwards is up to the allocator.
Freed(S) ==
  /\ live' = live \ S
  /\ \E J \in SUBSET S : mem' = [p \in Buffers |-> IF p \in J THEN Junk ELSE mem[p]]

-----------------------------------------------------------------------------
\* accept(): the oldest connection of the queue.
Accept ==
  /\ dpc = "accept"
  /\ backlog # <<>>
  /\ cur' = Head(backlog)
  /\ backlog' = Tail(backlog)
  /\ dpc' = "opcode"
  /\ UNCHANGED <<answer, listening, serverEnd, got, n_data, heapVars>>

\* slip: back to accept() without close() when there is no opcode
OpcodeLeaksDescriptor ==
  /\ dpc = "opcode"
  /\ \/ sent[cur] > 0 /\ dpc' = "request" /\ got' = 1 /\ UNCHANGED cur
     \/ sent[cur] = 0 /\ ClientGone /\ dpc' = "accept" /\ cur' = NULL /\ UNCHANGED got
  /\ UNCHANGED <<listening, backlog, serverEnd, answer, n_data, heapVars>>

\* recv() of the opcode: a client that left before it sent one is closed
\* without an answer.
ReceiveOpcode ==
  /\ dpc = "opcode"
  /\ \/ sent[cur] > 0 /\ dpc' = "request" /\ got' = 1
     \/ sent[cur] = 0 /\ ClientGone /\ dpc' = "close" /\ UNCHANGED got
  /\ Stay
  /\ UNCHANGED <<answer, n_data, heapVars>>

Receiving == dpc = "request" /\ got < Wanted(req[cur])

\* ID, secret, begin_text and length_text.
ReceiveField ==
  /\ Receiving
  /\ CarriesData(req[cur]) => got < SecretRead
  /\ sent[cur] > got
  /\ got' = got + 1
  /\ Stay
  /\ UNCHANGED <<answer, dpc, n_data, heapVars>>

\* data_length, and malloc() of that many bytes.
ReceiveDataLength ==
  /\ Receiving
  /\ CarriesData(req[cur]) /\ got = SecretRead
  /\ sent[cur] > got
  /\ got' = DataLengthRead
  /\ \/ \E p \in Buffers \ live : n_data' = p /\ live' = live \cup {p}
     \/ Buffers \subseteq live /\ UNCHANGED <<n_data, live>>
  /\ Stay
  /\ UNCHANGED <<answer, dpc, storage, chain, mem>>

\* receiveAll() of the data into the new buffer.
ReceivePayload ==
  /\ Receiving
  /\ CarriesData(req[cur]) /\ got = DataLengthRead
  /\ sent[cur] > got
  /\ got' = got + 1
  /\ mem' = [mem EXCEPT ![n_data] = req[cur].data]
  /\ Stay
  /\ UNCHANGED <<answer, dpc, n_data, storage, chain, live>>

\* slip: receiveAll() tests received < 0 and tries again at end of file
ReceiveForEver ==
  /\ Receiving
  /\ sent[cur] = got
  /\ ClientGone
  /\ Stay
  /\ UNCHANGED <<answer, dpc, got, n_data, heapVars>>

\* receiveAll() fails when the client is gone and all it sent was read; the
\* handler answers FAIL on the connection the client has closed.
ReceiveFails ==
  /\ Receiving
  /\ sent[cur] = got
  /\ ClientGone
  /\ Die

-----------------------------------------------------------------------------
(***************************************************************************)
(* The handlers, from the last field received to their response.           *)
(***************************************************************************)
\* Line 285-288: a full array leaves the data allocated and unlinked.
StoreFull ==
  /\ FreeSlots = {}
  /\ Respond("FAIL", "close")
  /\ UNCHANGED heapVars

StoreBlock(r) ==
  /\ FreeSlots # {}
  /\ storage' = [storage EXCEPT ![FirstFree] =
       [used |-> TRUE, ID |-> r.id, secret |-> r.secret,
        data |-> n_data, data_length |-> Bytes[r.data]]]
  /\ chain' = <<FirstFree>> \o chain
  /\ Respond("SUCCESS", "close")
  /\ UNCHANGED <<live, mem>>

\* slip: isValid() fails and data is not freed
RefuseDataUnfreed(r) ==
  /\ n_data = NULL \/ Bytes[r.data] = 0
  /\ Respond("FAIL", "close")
  /\ UNCHANGED heapVars

\* malloc() failed, or isValid() refused data_length = 0 and data is freed.
RefuseData(r) ==
  /\ n_data = NULL \/ Bytes[r.data] = 0
  /\ Freed({n_data} \ {NULL})
  /\ Respond("FAIL", "close")
  /\ UNCHANGED <<storage, chain>>

handleSendBlock(r) ==
  /\ r.op = "SEND"
  /\ \/ /\ Known(r.id)
        /\ Respond(IF SecretMatches(r) THEN "ALREADY_EXISTS" ELSE "ACCESS_DENIED", "close")
        /\ UNCHANGED heapVars
     \/ ~Known(r.id) /\ RefuseData(r)
     \/ ~Known(r.id) /\ n_data # NULL /\ Bytes[r.data] > 0 /\ (StoreFull \/ StoreBlock(r))

handleGetBlock(r) ==
  /\ r.op = "GET"
  /\ \/ ~Known(r.id) /\ Respond("NOT_FOUND", "close")
     \/ Known(r.id) /\ ~SecretMatches(r) /\ Respond("ACCESS_DENIED", "close")
     \/ Known(r.id) /\ SecretMatches(r) /\ Respond("SUCCESS", "length")
  /\ UNCHANGED heapVars

\* slip: the offset is not tested
BeginsAnywhere(r) == TRUE

\* slip: > for >=
BeginsAtEnd(r) == r.begin <= storage[Found(r.id)].data_length

BeginsInside(r) == r.begin < storage[Found(r.id)].data_length

handlePartialGetBlock(r) ==
  /\ r.op = "PARTIAL_GET"
  /\ \/ ~Known(r.id) /\ Respond("NOT_FOUND", "close")
     \/ Known(r.id) /\ ~SecretMatches(r) /\ Respond("ACCESS_DENIED", "close")
     \/ Known(r.id) /\ SecretMatches(r) /\ ~BeginsInside(r) /\ Respond("FAIL", "close")
     \/ Known(r.id) /\ SecretMatches(r) /\ BeginsInside(r) /\ Respond("SUCCESS", "length")
  /\ UNCHANGED heapVars

(***************************************************************************)
(* Lines 475-481: free the old data, link the new, then free the new.  The *)
(* second free() leaves the block on freed memory.  Freeing what is not    *)
(* allocated, or the same buffer twice, ends the process or is ignored, as *)
(* the allocator decides.                                                  *)
(***************************************************************************)
FreesTwice(old) == old \notin live \/ old = n_data

OverwriteBlock(r) ==
  LET s == Found(r.id)  old == storage[s].data IN
  /\ Known(r.id) /\ SecretMatches(r)
  /\ \/ /\ storage' = [storage EXCEPT ![s].data = n_data, ![s].data_length = Bytes[r.data]]
        /\ Freed({old, n_data})
        /\ Respond("SUCCESS", "close")
        /\ UNCHANGED chain
     \/ FreesTwice(old) /\ Die

handleOverwriteBlock(r) ==
  /\ r.op = "UPDATE"
  /\ \/ RefuseData(r)
     \/ /\ n_data # NULL /\ Bytes[r.data] > 0
        /\ \/ /\ ~Known(r.id)                    \* n_data stays allocated
              /\ Respond("NOT_FOUND", "close")
              /\ UNCHANGED heapVars
           \/ /\ Known(r.id) /\ ~SecretMatches(r)
              /\ Freed({n_data})
              /\ Respond("ACCESS_DENIED", "close")
              /\ UNCHANGED <<storage, chain>>
           \/ OverwriteBlock(r)

Handle ==
  /\ dpc = "request"
  /\ got = Wanted(req[cur])
  /\ \/ ClientGone /\ Die
     \/ /\ ~ClientGone
        /\ \/ handleSendBlock(req[cur])
           \/ handleGetBlock(req[cur])
           \/ handlePartialGetBlock(req[cur])
           \/ handleOverwriteBlock(req[cur])

-----------------------------------------------------------------------------
(****************************************************************************)
(* The two sends that follow a SUCCESS of a read.  sendAll() of no bytes    *)
(* makes no call.  A client that left part of the answer unread may have    *)
(* reset the connection: send() then returns an error, no signal is raised, *)
(* sendAll() returns false and the connection is closed.                    *)
(****************************************************************************)
SendAllFails ==
  /\ dpc' = "close"
  /\ Stay
  /\ UNCHANGED <<answer, got, n_data, heapVars>>

SendLength ==
  /\ dpc = "length"
  /\ \/ ClientGone /\ (Die \/ SendAllFails)
     \/ /\ ~ClientGone
        /\ answer' = [answer EXCEPT ![cur].length = Slice(req[cur]).len]
        /\ dpc' = IF Slice(req[cur]).len = 0 THEN "close" ELSE "data"
        /\ Stay
        /\ UNCHANGED <<got, n_data, heapVars>>

\* A slice that runs past the block may leave mapped memory: send() then
\* fails and the connection is closed with the data cut short.
Overruns(r) == Slice(r).from + Slice(r).len > storage[Found(r.id)].data_length

SendData ==
  /\ dpc = "data"
  /\ \/ ClientGone /\ (Die \/ SendAllFails)
     \/ ~ClientGone /\ Overruns(req[cur]) /\ SendAllFails
     \/ /\ ~ClientGone
        /\ answer' = [answer EXCEPT ![cur].data = Slice(req[cur])]
        /\ dpc' = "close"
        /\ Stay
        /\ UNCHANGED <<got, n_data, heapVars>>

\* slip: the loop goes round without close()
ConnectionLeftOpen ==
  /\ dpc = "close"
  /\ dpc' = "accept"
  /\ cur' = NULL
  /\ got' = 0
  /\ n_data' = NULL
  /\ UNCHANGED <<answer, listening, backlog, serverEnd, heapVars>>

\* close(client_sock), and back to accept().
CloseConnection ==
  /\ dpc = "close"
  /\ serverEnd' = [serverEnd EXCEPT ![cur] = "closed"]
  /\ dpc' = "accept"
  /\ cur' = NULL
  /\ got' = 0
  /\ n_data' = NULL
  /\ UNCHANGED <<answer, listening, backlog, heapVars>>

DaemonStep ==
  \/ Accept
  \/ ReceiveOpcode
  \/ ReceiveField
  \/ ReceiveDataLength
  \/ ReceivePayload
  \/ ReceiveFails
  \/ Handle
  \/ SendLength
  \/ SendData
  \/ CloseConnection
=============================================================================
