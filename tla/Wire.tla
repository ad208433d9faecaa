-------------------------------- MODULE Wire --------------------------------
(***************************************************************************)
(* What socket_coursework/daemon.c and socket_coursework/lib.c share: the  *)
(* operations and response codes of lib.h, and one AF_UNIX stream          *)
(* connection per library call.  The kernel's side (listen queue, the two  *)
(* ends of a connection) is external and modelled from how the two         *)
(* programs use it.  The prototype service (module Prototype) has the same *)
(* kind of calls and connections, and takes them from here.                *)
(*                                                                         *)
(* A call is one execution of sendNewBlock, getBlock, partialGetBlock or   *)
(* overwriteBlock by some client process.  The library keeps no state      *)
(* between calls and opens a connection for each, so a call is also the    *)
(* name of its connection, and a client that issues several calls is       *)
(* several calls that happen to run one after the other.                   *)
(***************************************************************************)
EXTENDS Integers, Sequences

CONSTANTS
  Calls,        \* the library calls, each with a connection of its own
  IDs,          \* block identifiers a caller may name
  Secrets,      \* 16-byte secrets
  Payloads,     \* data a caller may store
  Bytes,        \* Bytes[p]: the length of payload p
  Ops,          \* the operations callers use, some of AllOps
  BufferSizes,  \* the buffer sizes callers hand to getBlock
  Begins,       \* the offsets callers hand to partialGetBlock
  Lengths,      \* the lengths callers hand to partialGetBlock
  Word,         \* uint32_t arithmetic is modulo Word
  BACKLOG,      \* the listen() backlog
  NULL,         \* absent: no code, no length, no buffer, no connection
  Junk          \* bytes nobody stored

AllOps == {"SEND", "GET", "PARTIAL_GET", "UPDATE"}

Codes == {"SUCCESS", "FAIL", "ACCESS_DENIED", "NOT_FOUND", "ALREADY_EXISTS"}

ASSUME ConstantsAssumption ==
  /\ Ops \subseteq AllOps
  /\ Word \in Nat \ {0}
  /\ BACKLOG \in Nat \ {0}
  /\ Bytes \in [Payloads -> 0 .. Word - 1]
  /\ BufferSizes \subseteq 0 .. Word - 1
  /\ Begins \subseteq 0 .. Word - 1
  /\ Lengths \subseteq 0 .. Word - 1
  /\ NULL \notin Calls \cup Secrets \cup Payloads \cup IDs \cup Codes \cup Nat
  /\ Junk \notin Payloads \cup {NULL}

(***************************************************************************)
(* A request carries what its library function sends: an UPDATE is laid    *)
(* out as a SEND.  size is getBlock's buffer_size, which stays on the      *)
(* caller's side.                                                          *)
(***************************************************************************)
Requests ==
  [op : Ops \cap {"SEND", "UPDATE"}, id : IDs, secret : Secrets, data : Payloads]
    \cup
  [op : Ops \cap {"GET"}, id : IDs, secret : Secrets, size : BufferSizes]
    \cup
  [op : Ops \cap {"PARTIAL_GET"}, id : IDs, secret : Secrets,
   begin : Begins, length : Lengths]

ASSUME RequestsAssumption == NULL \notin Requests

CarriesData(r) == r.op \in {"SEND", "UPDATE"}

(****************************************************************************)
(* The fields of a request in the order they cross the socket: opcode, ID   *)
(* (id_len and the bytes: both sides treat a stop between the two like a    *)
(* stop before them), secret, then data_length and data (SEND, UPDATE) or   *)
(* begin_text and length_text (PARTIAL_GET).  One send() and one recv() per *)
(* field, so a side may stop between any two.                               *)
(****************************************************************************)
Fields(r) == IF r.op = "GET" THEN 3 ELSE 5

SecretRead == 3        \* fields received once the secret has arrived
DataLengthRead == 4    \* fields received once data_length has arrived

\* len bytes at offset from of the block that held payload src.
Snippets == [src : Payloads \cup {Junk}, from : Nat, len : Nat]

(****************************************************************************)
(* answer[k] is what the daemon has sent on call k's connection: a response *)
(* code, then for a successful GET or PARTIAL_GET a length and the data.    *)
(****************************************************************************)
Answers ==
  [code : Codes \cup {NULL}, length : Nat \cup {NULL}, data : Snippets \cup {NULL}]

ASSUME AnswersAssumption == NULL \notin Answers \cup Snippets

NoAnswer == [code |-> NULL, length |-> NULL, data |-> NULL]

VARIABLES
  req,        \* req[k]: the request call k sends, NULL before the call
  sent,       \* sent[k]: the number of fields call k has sent
  answer,     \* answer[k]: what the daemon has sent back
  listening,  \* the daemon's socket accepts connections
  backlog,    \* connections made and not yet accepted, oldest first
  clientEnd,  \* "none", "open" or "closed": call k's descriptor
  serverEnd   \* the daemon's end, open from connect() to its close()

wireVars == <<req, sent, answer, listening, backlog, clientEnd, serverEnd>>

Ends == {"none", "open", "closed"}

WireTypeOK ==
  /\ req \in [Calls -> Requests \cup {NULL}]
  /\ sent \in [Calls -> 0 .. 5]
  /\ answer \in [Calls -> Answers]
  /\ listening \in BOOLEAN
  /\ backlog \in Seq(Calls)
  /\ clientEnd \in [Calls -> Ends]
  /\ serverEnd \in [Calls -> Ends]

WireInit ==
  /\ req = [k \in Calls |-> NULL]
  /\ sent = [k \in Calls |-> 0]
  /\ answer = [k \in Calls |-> NoAnswer]
  /\ listening = TRUE
  /\ backlog = <<>>
  /\ clientEnd = [k \in Calls |-> "none"]
  /\ serverEnd = [k \in Calls |-> "none"]
=============================================================================
