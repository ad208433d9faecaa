-------------------------- MODULE PrototypeProofs --------------------------
(****************************************************************************)
(* Proofs about Prototype, for any number of calls, IDs, secrets, payloads, *)
(* slots and descriptors.  The invariant says who is known to have sent     *)
(* something (the connections the daemon never closes), why a caller that   *)
(* the daemon still has to answer may be gone, and whose the buffers are.   *)
(****************************************************************************)
EXTENDS Prototype, FiniteSetTheorems, WellFoundedInduction, TLAPS

CallInv ==
  \A k \in Calls :
    /\ cpc[k] = "idle" =>
         req[k] = NULL /\ sent[k] = 0 /\ answer[k] = NoAnswer /\ serverEnd[k] = "none"
    /\ cpc[k] # "idle" => req[k] \in Requests
    /\ cpc[k] = "send" => sent[k] < FieldsSent(req[k])
    /\ cpc[k] # "done" => ret[k] = NULL /\ clientEnd[k] # "closed"

\* Connections in the queue are open, distinct, and not answered.
QueueInv ==
  /\ \A i \in DOMAIN backlog :
       /\ backlog[i] # cur /\ cpc[backlog[i]] # "idle"
       /\ serverEnd[backlog[i]] = "open" /\ answer[backlog[i]] = NoAnswer
  /\ \A i, j \in DOMAIN backlog : backlog[i] = backlog[j] => i = j

\* Where the daemon is in the call it serves.
ServingInv ==
  /\ dpc \in {"accept", "dead"} => cur = NULL
  /\ dpc \notin {"accept", "dead"} =>
       cur \in Calls /\ cpc[cur] # "idle" /\ serverEnd[cur] = "open"
  /\ dpc \in {"request", "length", "data"} => sent[cur] > 0
  /\ dpc \in {"opcode", "request"} => answer[cur] = NoAnswer
  /\ dpc \in {"length", "data"} =>
       /\ req[cur].op = "GET" /\ Known(req[cur].id)
       /\ answer[cur].code = "SUCCESS" /\ answer[cur].data = NULL
  /\ dpc = "length" => answer[cur].length = NULL
  /\ dpc = "data" => answer[cur].length \notin {NULL, 0}

\* Why a caller is gone before its answer.
LeftEarly(k) ==
  \/ ret[k] = "SIGINT"
  \/ answer[k].length # NULL /\ answer[k].length > req[k].size /\ ret[k] = "FAIL"

GoneInv ==
  \A k \in Calls :
    (k = cur \/ \E i \in DOMAIN backlog : backlog[i] = k) /\ clientEnd[k] = "closed" => LeftEarly(k)

\* A connection the daemon went on from without closing it is that of a call
\* that has sent its opcode.
Senders == {k \in Calls : sent[k] > 0}

HeldInv ==
  /\ IsFiniteSet(Senders)
  /\ \A k \in Held : k = cur \/ sent[k] > 0

Buffered == IF data THEN 1 ELSE 0

StoreInv ==
  /\ \A s, t \in Used : storage[s].ID = storage[t].ID => s = t
  /\ \A s \in Used : storage[s].data \in Payloads
  /\ data => dpc = "request" /\ req[cur].op = "SEND" /\ got >= DataLengthRead
  /\ heap = Cardinality(Used) + Buffered

ZeroSecret == [i \in 1 .. SecretSize |-> 0]

\* A GET opens a block whose secret is sixteen zeros, whatever secret it names,
\* and no other.
PaddingInv ==
  \A k \in Calls : dpc # "dead" /\ req[k] # NULL /\ req[k].op = "GET" =>
    /\ answer[k].code = "SUCCESS" =>
         \E s \in Used : storage[s].ID = req[k].id /\ SecretBytes[storage[s].secret] = ZeroSecret
    /\ answer[k].code = "ACCESS_DENIED" =>
         \E s \in Used : storage[s].ID = req[k].id /\ SecretBytes[storage[s].secret] # ZeroSecret

PrototypeInv ==
  /\ TypeOK /\ CallInv /\ QueueInv /\ ServingInv /\ GoneInv /\ HeldInv /\ StoreInv
  /\ PaddingInv /\ DaemonEndsForAReason

-----------------------------------------------------------------------------
\* The absent value is none of the values that may be present.
LEMMA NullFacts ==
  /\ NULL \notin Calls
  /\ NULL \notin Codes
  /\ NULL \notin Nat
  /\ NULL \notin {"SIGPIPE", "SIGINT"}
BY ConstantsAssumption, PrototypeAssumption

\* What a request of the prototype carries.
LEMMA RequestFacts ==
  ASSUME NEW r \in Requests
  PROVE  /\ r.op \in {"SEND", "GET"} /\ r.id \in IDs /\ r.secret \in Secrets
         /\ r.op = "SEND" => r.data \in Payloads /\ Bytes[r.data] \in Nat
         /\ r.op = "GET" => r.size \in Nat
<1>1. CASE r \in [op : Ops \cap {"SEND", "UPDATE"}, id : IDs, secret : Secrets, data : Payloads]
  BY <1>1, ConstantsAssumption, PrototypeAssumption
<1>2. CASE r \in [op : Ops \cap {"GET"}, id : IDs, secret : Secrets, size : BufferSizes]
  BY <1>2, ConstantsAssumption, PrototypeAssumption
<1>3. CASE r \in [op : Ops \cap {"PARTIAL_GET"}, id : IDs, secret : Secrets,
                   begin : Begins, length : Lengths]
  BY <1>3, PrototypeAssumption
<1> QED
  BY <1>1, <1>2, <1>3 DEF Requests

\* The slots are finitely many.
LEMMA UsedIsFinite ==
  /\ IsFiniteSet(Used)
  /\ Cardinality(Used) \in Nat
<1>1. IsFiniteSet(Slots)
  BY FS_Interval, PrototypeAssumption DEF Slots
<1>2. Used \subseteq Slots
  BY DEF Used
<1> QED
  BY <1>1, <1>2, FS_Subset, FS_CardinalityType

\* findIndxById() returns a used slot that has the ID.
LEMMA FoundIsUsed ==
  ASSUME StoreInv, NEW id, Known(id)
  PROVE  findIndxById(id) \in Used /\ storage[findIndxById(id)].ID = id
<1>1. PICK s \in Holding(id) : TRUE
  BY DEF Known
<1>2. Holding(id) = {s}
  BY <1>1 DEF Holding, StoreInv
<1>3. s \in Nat
  BY <1>1, PrototypeAssumption DEF Holding, Used, Slots
<1>4. findIndxById(id) = s
  BY <1>2, <1>3 DEF findIndxById
<1> QED
  BY <1>1, <1>4 DEF Holding

\* The block a GET is answered with has data.
LEMMA BlockHasData ==
  ASSUME StoreInv, NEW r, Known(r.id)
  PROVE  Block(r).data \in Payloads /\ Bytes[Block(r).data] \in Nat
<1>1. Block(r).data \in Payloads
  BY FoundIsUsed DEF Block, StoreInv
<1> QED
  BY <1>1, ConstantsAssumption

\* What does not touch the array changes no lookup.
LEMMA LookupStays ==
  ASSUME UNCHANGED storage
  PROVE  Used' = Used /\ \A id : Known(id)' <=> Known(id)
<1>1. Used' = Used
  BY DEF Used
<1> QED
  BY <1>1 DEF Known, Holding

\* The array is empty and the daemon waits in accept().
LEMMA InitPrototypeInv == Init => PrototypeInv
<1> SUFFICES ASSUME Init PROVE PrototypeInv
  OBVIOUS
<1> USE DEF Init, WireInit
<1>1. <<>> \in Seq(Calls)
  OBVIOUS
<1>2. WireTypeOK
  BY <1>1 DEF WireTypeOK, Answers, NoAnswer, Ends
<1>3. TypeOK
  <2>1. /\ cpc \in [Calls -> {"idle", "send", "response", "length", "data", "done"}]
        /\ ret \in [Calls -> Codes \cup {NULL, "SIGPIPE", "SIGINT"}]
    BY DEF Codes
  <2>2. storage \in [Slots -> DataBlock]
    BY DEF DataBlock, NoBlock
  <2>3. /\ dpc \in {"accept", "opcode", "request", "length", "data", "dead"}
        /\ cur \in Calls \cup {NULL} /\ got \in 0 .. 5 /\ heap \in Nat
    OBVIOUS
  <2>4. data \in BOOLEAN
    <3> HIDE DEF Init
    <3>1. data = FALSE
      BY DEF Init
    <3> QED
      BY <3>1, Zenon
  <2> HIDE DEF Init
  <2> QED
    BY <1>2, <2>1, <2>2, <2>3, <2>4 DEF TypeOK
<1>4. CallInv /\ QueueInv /\ ServingInv /\ GoneInv
  BY DEF CallInv, QueueInv, ServingInv, GoneInv
<1>5. Senders = {} /\ Held = {} /\ Used = {}
  BY DEF Senders, Held, Used, NoBlock
<1>6. IsFiniteSet({}) /\ Cardinality({}) = 0
  BY FS_EmptySet
<1>7. HeldInv /\ StoreInv
  BY <1>5, <1>6 DEF HeldInv, StoreInv, Buffered
<1>8. PaddingInv /\ DaemonEndsForAReason
  BY DEF PaddingInv, DaemonEndsForAReason
<1> QED
  BY <1>3, <1>4, <1>7, <1>8 DEF PrototypeInv

-----------------------------------------------------------------------------
(***************************************************************************)
(* The steps of callers.                                                   *)
(***************************************************************************)
LEMMA ReasonStays ==
  ASSUME NEW k \in Calls, req'[k] = req[k], answer'[k] = answer[k], ret'[k] = ret[k]
  PROVE  LeftEarly(k)' <=> LeftEarly(k)
BY DEF LeftEarly

\* More callers have sent something, and none has forgotten why it left.
LEMMA EndStays ==
  ASSUME HeldInv, DaemonEndsForAReason, dpc' = dpc,
         IsFiniteSet(Senders'), Senders \subseteq Senders',
         \A k \in Calls : LeftEarly(k) => LeftEarly(k)'
  PROVE  DaemonEndsForAReason'
<1>1. /\ Cardinality(Senders) <= Cardinality(Senders')
      /\ Cardinality(Senders) \in Nat /\ Cardinality(Senders') \in Nat
  BY FS_Subset, FS_CardinalityType DEF HeldInv
<1>2. Descriptors \in Nat
  BY PrototypeAssumption
<1> QED
  BY <1>1, <1>2 DEF DaemonEndsForAReason, LeftEarly, Senders

\* Callers touch nothing of the daemon's.
LEMMA StoreStays ==
  ASSUME StoreInv, UNCHANGED daemonVars, dpc = "request" => req'[cur] = req[cur]
  PROVE  StoreInv'
<1>1. UNCHANGED <<dpc, cur, got, data, heap, storage>>
  BY DEF daemonVars
<1>2. Used' = Used /\ Buffered' = Buffered
  BY <1>1, LookupStays DEF Buffered
<1> QED
  BY <1>1, <1>2 DEF StoreInv

\* A call begins: its connection joins the queue or is refused.
LEMMA CallStep ==
  ASSUME PrototypeInv, NEW k \in Calls, Call(k), UNCHANGED daemonVars
  PROVE  PrototypeInv'
<1> USE DEF PrototypeInv
<1>1. PICK r \in Requests : req' = [req EXCEPT ![k] = r]
  BY DEF Call
<1>2. cpc[k] = "idle" /\ UNCHANGED <<sent, answer, listening, dpc, cur, got, data, heap, storage>>
  BY DEF Call, daemonVars
<1>3. WireTypeOK
  BY DEF TypeOK
<1>4. connectDaemon(k) \/ connectFails(k)
  BY DEF Call
<1>5. \/ /\ backlog' = Append(backlog, k) /\ cpc' = [cpc EXCEPT ![k] = "send"] /\ ret' = ret
         /\ clientEnd' = [clientEnd EXCEPT ![k] = "open"]
         /\ serverEnd' = [serverEnd EXCEPT ![k] = "open"]
      \/ /\ backlog' = backlog /\ cpc' = [cpc EXCEPT ![k] = "done"]
         /\ ret' = [ret EXCEPT ![k] = "FAIL"]
         /\ clientEnd' = [clientEnd EXCEPT ![k] = "closed"] /\ serverEnd' = serverEnd
  BY <1>4 DEF connectDaemon, connectFails, Return
<1>6. TypeOK'
  <2>1. backlog' \in Seq(Calls)
    <3>1. backlog' = backlog \/ backlog' = Append(backlog, k)
      BY <1>5
    <3>2. backlog \in Seq(Calls)
      BY <1>3 DEF WireTypeOK
    <3> QED
      BY <3>1, <3>2
  <2>2. clientEnd' \in [Calls -> Ends] /\ serverEnd' \in [Calls -> Ends] /\ req' \in [Calls -> Requests \cup {NULL}]
    BY <1>1, <1>3, <1>5 DEF WireTypeOK, Ends
  <2>3. WireTypeOK'
    BY <1>2, <1>3, <2>1, <2>2 DEF WireTypeOK
  <2>4. /\ cpc' \in [Calls -> {"idle", "send", "response", "length", "data", "done"}]
        /\ ret' \in [Calls -> Codes \cup {NULL, "SIGPIPE", "SIGINT"}]
    BY <1>5 DEF TypeOK, Codes
  <2> QED
    BY <1>2, <2>3, <2>4 DEF TypeOK
<1>7. \A j \in Calls : j # k => /\ req'[j] = req[j] /\ cpc'[j] = cpc[j] /\ ret'[j] = ret[j]
                                /\ clientEnd'[j] = clientEnd[j] /\ serverEnd'[j] = serverEnd[j]
  BY <1>1, <1>3, <1>5 DEF WireTypeOK, TypeOK
<1>8. req'[k] = r /\ sent[k] = 0 /\ answer[k] = NoAnswer /\ ret[k] = NULL /\ req[k] = NULL
  BY <1>1, <1>2, <1>3 DEF CallInv, WireTypeOK
<1>9. \/ /\ backlog' = Append(backlog, k) /\ cpc'[k] = "send" /\ ret'[k] = NULL
         /\ clientEnd'[k] = "open" /\ serverEnd'[k] = "open"
      \/ /\ backlog' = backlog /\ cpc'[k] = "done" /\ ret'[k] = "FAIL"
         /\ clientEnd'[k] = "closed" /\ serverEnd'[k] = "none"
  BY <1>2, <1>3, <1>5, <1>8 DEF WireTypeOK, TypeOK, CallInv
<1>10. cur # k /\ \A i \in DOMAIN backlog : backlog[i] \in Calls /\ backlog[i] # k
  BY <1>2, <1>3, NullFacts DEF QueueInv, ServingInv, WireTypeOK
<1>11. \A i \in DOMAIN backlog' :
         \/ i \in DOMAIN backlog /\ backlog'[i] = backlog[i]
         \/ i = Len(backlog) + 1 /\ i \notin DOMAIN backlog /\ backlog'[i] = k /\ cpc'[k] = "send"
  <2>1. CASE backlog' = backlog
    BY <2>1
  <2>2. CASE backlog' = Append(backlog, k) /\ cpc'[k] = "send"
    BY <1>3, <2>2 DEF WireTypeOK
  <2> QED
    BY <1>9, <2>1, <2>2
<1>12. CallInv'
  BY <1>2, <1>7, <1>8, <1>9 DEF CallInv, FieldsSent
<1>13. QueueInv'
  <2>1. cpc'[k] = "send" => serverEnd'[k] = "open"
    BY <1>9
  <2> QED
    BY <1>2, <1>7, <1>8, <1>10, <1>11, <2>1 DEF QueueInv
<1>14. ServingInv'
  <2>1. \A id : Known(id)' <=> Known(id)
    BY <1>2, LookupStays
  <2>2. dpc \notin {"accept", "dead"} =>
          cur \in Calls /\ req'[cur] = req[cur] /\ cpc'[cur] = cpc[cur] /\ serverEnd'[cur] = serverEnd[cur]
    BY <1>7, <1>10 DEF ServingInv
  <2>3. dpc \in {"length", "data"} => req'[cur].op = "GET" /\ Known(req[cur].id)'
    BY <1>2, <2>1, <2>2 DEF ServingInv
  <2> QED
    BY <1>2, <2>2, <2>3 DEF ServingInv
<1>15. GoneInv'
  <2> SUFFICES ASSUME NEW j \in Calls, clientEnd'[j] = "closed",
                      j = cur \/ \E i \in DOMAIN backlog' : backlog'[i] = j
               PROVE  LeftEarly(j)'
    BY <1>2 DEF GoneInv
  <2>1. j # k
    BY <1>9, <1>10, <1>11
  <2>2. j = cur \/ \E i \in DOMAIN backlog : backlog[i] = j
    BY <1>11, <2>1
  <2>3. LeftEarly(j)
    BY <1>7, <2>1, <2>2 DEF GoneInv
  <2> QED
    BY <1>2, <1>7, <2>1, <2>3, ReasonStays
<1>16. HeldInv'
  <2>1. Senders' = Senders
    BY <1>2 DEF Senders
  <2>2. \A j \in Held' : j \in Held
    <3> SUFFICES ASSUME NEW j \in Held' PROVE j \in Held
      OBVIOUS
    <3>1. j \in Calls /\ serverEnd'[j] = "open" /\ \A i \in DOMAIN backlog' : backlog'[i] # j
      BY DEF Held
    <3>2. j # k
      <4>1. CASE backlog' = Append(backlog, k)
        <5>1. Len(backlog) + 1 \in DOMAIN backlog' /\ backlog'[Len(backlog) + 1] = k
          BY <1>3, <4>1 DEF WireTypeOK
        <5> QED
          BY <3>1, <5>1
      <4>2. CASE serverEnd'[k] = "none"
        BY <3>1, <4>2
      <4> QED
        BY <1>9, <4>1, <4>2
    <3>3. \A i \in DOMAIN backlog : i \in DOMAIN backlog' /\ backlog'[i] = backlog[i]
      BY <1>3, <1>9 DEF WireTypeOK
    <3> QED
      BY <1>7, <3>1, <3>2, <3>3 DEF Held
  <2> QED
    BY <1>2, <2>1, <2>2 DEF HeldInv
<1>17. StoreInv'
  BY <1>7, <1>10, StoreStays DEF ServingInv
<1>18. PaddingInv'
  <2>1. Used' = Used
    BY <1>2, LookupStays
  <2>2. answer[k].code \notin {"SUCCESS", "ACCESS_DENIED"}
    BY <1>8, NullFacts DEF NoAnswer, Codes
  <2> QED
    BY <1>2, <1>7, <2>1, <2>2 DEF PaddingInv
<1>19. DaemonEndsForAReason'
  <2>1. Senders' = Senders
    BY <1>2 DEF Senders
  <2>2. \A j \in Calls : LeftEarly(j) => LeftEarly(j)'
    <3> SUFFICES ASSUME NEW j \in Calls, LeftEarly(j) PROVE LeftEarly(j)'
      OBVIOUS
    <3>1. j # k
      BY <1>8, NullFacts DEF LeftEarly, Codes
    <3> QED
      BY <1>2, <1>7, <3>1, ReasonStays
  <2> QED
    BY <1>2, <2>1, <2>2, EndStays DEF HeldInv
<1> QED
  BY <1>6, <1>12, <1>13, <1>14, <1>15, <1>16, <1>17, <1>18, <1>19

\* Sending, receiving, failing, and being killed.
LEMMA LibraryStepStep ==
  ASSUME PrototypeInv, NEW k \in Calls, LibraryStep(k) \/ Interrupt(k), UNCHANGED daemonVars
  PROVE  PrototypeInv'
<1> USE DEF PrototypeInv
<1>1. UNCHANGED <<req, answer, listening, backlog, serverEnd, dpc, cur, got, data, heap, storage>>
  BY DEF LibraryStep, sendAllData, ReceiveResponse, ReceiveLength, ReceiveData, Interrupt,
         WireStays, daemonVars
<1>2. WireTypeOK
  BY DEF TypeOK
<1>3. cpc[k] \notin {"idle", "done"}
  BY DEF LibraryStep, sendAllData, ReceiveResponse, ReceiveLength, ReceiveData, Interrupt
<1>4. req[k] \in Requests /\ ret[k] = NULL
  BY <1>3 DEF CallInv
<1>5. answer[k].code \in Codes \cup {NULL}
  BY <1>2 DEF WireTypeOK, Answers
<1>6. \/ \E v \in Codes \cup {"SIGPIPE", "SIGINT"} : Return(k, v) /\ sent' = sent
      \/ \E pc \in {"length", "data"} : GoOn(k, pc) /\ sent' = sent
      \/ /\ sent' = [sent EXCEPT ![k] = @ + 1] /\ cpc[k] = "send"
         /\ GoOn(k, IF sent[k] + 1 = FieldsSent(req[k]) THEN "response" ELSE "send")
  BY <1>5 DEF LibraryStep, sendAllData, ReceiveResponse, ReceiveLength, ReceiveData, Interrupt, Codes
<1>7. sent[k] \in 0 .. 5 /\ FieldsSent(req[k]) \in {4, 5}
  BY <1>2 DEF WireTypeOK, FieldsSent
<1>8. \/ sent' = sent
      \/ sent' = [sent EXCEPT ![k] = @ + 1] /\ sent'[k] = sent[k] + 1 /\ sent[k] + 1 \in 1 .. 5
  BY <1>2, <1>6, <1>7 DEF WireTypeOK, CallInv
<1>9. TypeOK'
  <2>1. sent' \in [Calls -> 0 .. 5]
    BY <1>2, <1>8 DEF WireTypeOK
  <2>2. clientEnd' \in [Calls -> Ends]
    BY <1>2, <1>6 DEF WireTypeOK, Ends, Return, GoOn
  <2>3. WireTypeOK'
    BY <1>1, <1>2, <2>1, <2>2 DEF WireTypeOK
  <2>4. /\ cpc' \in [Calls -> {"idle", "send", "response", "length", "data", "done"}]
        /\ ret' \in [Calls -> Codes \cup {NULL, "SIGPIPE", "SIGINT"}]
    BY <1>6 DEF TypeOK, Return, GoOn
  <2> QED
    BY <1>1, <2>3, <2>4 DEF TypeOK
<1>10. \A j \in Calls : j # k => /\ cpc'[j] = cpc[j] /\ ret'[j] = ret[j] /\ sent'[j] = sent[j]
                                 /\ clientEnd'[j] = clientEnd[j]
  BY <1>2, <1>6 DEF TypeOK, WireTypeOK, Return, GoOn
<1>11. \A j \in Calls : sent[j] > 0 => sent'[j] > 0
  BY <1>2, <1>8 DEF WireTypeOK
<1>12. /\ cpc'[k] # "idle"
       /\ cpc'[k] = "send" => sent'[k] < FieldsSent(req[k])
       /\ cpc'[k] # "done" => ret'[k] = NULL /\ clientEnd'[k] # "closed"
  <2>1. CASE \E v \in Codes \cup {"SIGPIPE", "SIGINT"} : Return(k, v)
    BY <2>1 DEF Return, TypeOK
  <2>2. CASE \E pc \in {"length", "data"} : GoOn(k, pc)
    BY <1>3, <2>2 DEF GoOn, TypeOK, CallInv
  <2>3. CASE /\ sent' = [sent EXCEPT ![k] = @ + 1] /\ cpc[k] = "send"
             /\ GoOn(k, IF sent[k] + 1 = FieldsSent(req[k]) THEN "response" ELSE "send")
    <3>1. sent[k] < FieldsSent(req[k]) /\ sent'[k] = sent[k] + 1
      BY <1>2, <2>3 DEF CallInv, WireTypeOK
    <3>2. cpc'[k] = IF sent[k] + 1 = FieldsSent(req[k]) THEN "response" ELSE "send"
      BY <2>3 DEF GoOn, TypeOK
    <3> QED
      BY <1>3, <1>7, <2>3, <3>1, <3>2 DEF GoOn, CallInv
  <2> QED
    BY <1>6, <2>1, <2>2, <2>3
<1>13. CallInv'
  BY <1>1, <1>4, <1>10, <1>12 DEF CallInv, FieldsSent
<1>14. QueueInv'
  BY <1>1, <1>2, <1>10, <1>12 DEF QueueInv, WireTypeOK
<1>15. ServingInv'
  <2>1. \A id : Known(id)' <=> Known(id)
    BY <1>1, LookupStays
  <2>2. dpc \in {"length", "data"} => req'[cur].op = "GET" /\ Known(req[cur].id)'
    BY <1>1, <2>1 DEF ServingInv
  <2> QED
    BY <1>1, <1>10, <1>11, <1>12, <2>2 DEF ServingInv
<1>16. ASSUME clientEnd'[k] = "closed", k = cur \/ \E i \in DOMAIN backlog : backlog[i] = k
       PROVE  LeftEarly(k)'
  <2>1. clientEnd[k] # "closed" /\ cpc[k] # "done"
    BY <1>3 DEF CallInv
  <2>2. PICK v \in Codes \cup {"SIGPIPE", "SIGINT"} : Return(k, v)
    BY <1>6, <1>16, <2>1 DEF GoOn
  <2>3. ret'[k] = v /\ cpc'[k] = "done"
    BY <2>2 DEF Return, TypeOK
  <2>4. \A w : Return(k, w) => w = v
    BY <2>2, <2>3 DEF Return, TypeOK
  <2>5. \A pc : pc \in {"send", "response", "length", "data"} => ~GoOn(k, pc)
    BY <2>3 DEF GoOn, TypeOK
  <2>6. k \in Calls /\ serverEnd[k] = "open"
    BY <1>16, NullFacts DEF QueueInv, ServingInv
  <2>7. answer[k] = NoAnswer \/ (k = cur /\ dpc \in {"length", "data"})
    <3>1. CASE \E i \in DOMAIN backlog : backlog[i] = k
      BY <3>1 DEF QueueInv
    <3>2. CASE k = cur
      <4>1. dpc \notin {"accept", "dead"}
        BY <3>2, NullFacts DEF ServingInv
      <4> QED
        BY <3>2, <4>1 DEF ServingInv, TypeOK
    <3> QED
      BY <1>16, <3>1, <3>2
  <2>8. /\ NoAnswer.code = NULL /\ NoAnswer.length = NULL /\ NoAnswer.data = NULL
    BY DEF NoAnswer
  <2>9. CASE sendAllData(k)
    BY <2>4, <2>5, <2>6, <2>9 DEF sendAllData
  <2>10. CASE ReceiveResponse(k)
    <3>1. answer[k].code # NULL
      BY <2>6, <2>10 DEF ReceiveResponse, EndOfFile
    <3>2. req[k].op = "GET" /\ answer[k].code = "SUCCESS"
      BY <2>7, <2>8, <3>1 DEF ServingInv
    <3> QED
      BY <2>5, <2>10, <3>1, <3>2 DEF ReceiveResponse
  <2>11. CASE ReceiveLength(k)
    <3>1. answer[k].length # NULL
      BY <2>6, <2>11 DEF ReceiveLength, EndOfFile
    <3>2. dpc = "data" /\ k = cur /\ answer[k].length # 0
      BY <2>7, <2>8, <3>1 DEF ServingInv
    <3>3. answer[k].length > req[k].size /\ v = "FAIL"
      BY <2>4, <2>5, <2>11, <3>1, <3>2 DEF ReceiveLength
    <3> QED
      BY <1>1, <2>3, <3>1, <3>3 DEF LeftEarly
  <2>12. CASE ReceiveData(k)
    <3>1. answer[k].data # NULL
      BY <2>6, <2>12 DEF ReceiveData, EndOfFile
    <3> QED
      BY <2>7, <2>8, <3>1 DEF ServingInv
  <2>13. CASE Interrupt(k)
    BY <2>3, <2>4, <2>13 DEF Interrupt, LeftEarly
  <2> QED
    BY <2>9, <2>10, <2>11, <2>12, <2>13 DEF LibraryStep
<1>17. GoneInv'
  <2> SUFFICES ASSUME NEW j \in Calls, clientEnd'[j] = "closed",
                      j = cur \/ \E i \in DOMAIN backlog : backlog[i] = j
               PROVE  LeftEarly(j)'
    BY <1>1 DEF GoneInv
  <2>1. CASE j = k
    BY <1>16, <2>1
  <2>2. CASE j # k
    <3>1. LeftEarly(j)
      BY <1>10, <2>2 DEF GoneInv
    <3> QED
      BY <1>1, <1>10, <2>2, <3>1, ReasonStays
  <2> QED
    BY <2>1, <2>2
<1>18. IsFiniteSet(Senders') /\ Senders \subseteq Senders'
  <2>1. Senders \subseteq Senders' /\ Senders' \subseteq Senders \cup {k}
    BY <1>10, <1>11 DEF Senders
  <2>2. IsFiniteSet(Senders \cup {k})
    BY FS_AddElement DEF HeldInv
  <2> QED
    BY <2>1, <2>2, FS_Subset
<1>19. HeldInv'
  <2>1. Held' = Held
    BY <1>1 DEF Held
  <2>2. \A j \in Held : j \in Calls
    BY DEF Held
  <2> QED
    BY <1>1, <1>11, <1>18, <2>1, <2>2 DEF HeldInv
<1>20. StoreInv'
  BY <1>1, StoreStays
<1>21. PaddingInv'
  <2>1. Used' = Used
    BY <1>1, LookupStays
  <2> QED
    BY <1>1, <2>1 DEF PaddingInv
<1>22. DaemonEndsForAReason'
  <2>1. \A j \in Calls : LeftEarly(j) => LeftEarly(j)'
    <3> SUFFICES ASSUME NEW j \in Calls, LeftEarly(j) PROVE LeftEarly(j)'
      OBVIOUS
    <3>1. j # k
      BY <1>4, NullFacts DEF LeftEarly, Codes
    <3> QED
      BY <1>1, <1>10, <3>1, ReasonStays
  <2> QED
    BY <1>1, <1>18, <2>1, EndStays
<1> QED
  BY <1>9, <1>13, <1>14, <1>15, <1>17, <1>19, <1>20, <1>21, <1>22
-----------------------------------------------------------------------------
(***************************************************************************)
(* The steps of the daemon.                                                *)
(***************************************************************************)
\* The daemon ends: the call it serves has lost its caller, or enough calls
\* have sent something to hold its descriptors.
LEMMA DieStep ==
  ASSUME PrototypeInv, Die, UNCHANGED callerVars,
         \/ cur \in Calls /\ clientEnd[cur] = "closed"
         \/ Cardinality(Senders) >= Descriptors
  PROVE  PrototypeInv'
<1> USE DEF PrototypeInv
<1>1. /\ dpc' = "dead" /\ listening' = FALSE /\ backlog' = <<>> /\ cur' = NULL /\ got' = 0
      /\ data' = FALSE /\ heap' = 0 /\ storage' = [s \in Slots |-> NoBlock]
      /\ serverEnd' = [k \in Calls |-> IF serverEnd[k] = "open" THEN "closed" ELSE serverEnd[k]]
  BY DEF Die
<1>2. UNCHANGED <<req, sent, answer, clientEnd, cpc, ret>>
  BY DEF Die, callerVars
<1>3. WireTypeOK
  BY DEF TypeOK
<1>4. \A k \in Calls : serverEnd'[k] # "open" /\ (serverEnd[k] = "none" => serverEnd'[k] = "none")
  BY <1>1
<1>5. TypeOK'
  <2>1. serverEnd' \in [Calls -> Ends]
    BY <1>1, <1>3 DEF WireTypeOK, Ends
  <2>2. backlog' \in Seq(Calls)
    BY <1>1
  <2>3. listening' \in BOOLEAN
    BY <1>1, Zenon
  <2>4. WireTypeOK'
    BY <1>2, <1>3, <2>1, <2>2, <2>3 DEF WireTypeOK
  <2>5. storage' \in [Slots -> DataBlock]
    BY <1>1 DEF DataBlock, NoBlock
  <2>6. data' \in BOOLEAN
    BY <1>1, Zenon
  <2>7. dpc' \in {"accept", "opcode", "request", "length", "data", "dead"}
    BY <1>1
  <2>8. cur' \in Calls \cup {NULL} /\ got' \in 0 .. 5 /\ heap' \in Nat
    BY <1>1
  <2> QED
    BY <1>2, <2>4, <2>5, <2>6, <2>7, <2>8 DEF TypeOK
<1>6. CallInv'
  BY <1>2, <1>4 DEF CallInv, FieldsSent
<1>7. DOMAIN backlog' = {} /\ \A j \in Calls : j # cur'
  BY <1>1, NullFacts
<1>8. QueueInv' /\ GoneInv'
  BY <1>7 DEF QueueInv, GoneInv
<1>9. ServingInv'
  BY <1>1 DEF ServingInv
<1>10. Senders' = Senders
  BY <1>2 DEF Senders
<1>11. Held' = {} /\ Used' = {} /\ Cardinality({}) = 0
  BY <1>1, <1>4, FS_EmptySet DEF Held, Used, NoBlock
<1>12. HeldInv'
  BY <1>10, <1>11 DEF HeldInv
<1>13. StoreInv'
  BY <1>1, <1>11 DEF StoreInv, Buffered
<1>14. PaddingInv'
  BY <1>1 DEF PaddingInv
<1>15. DaemonEndsForAReason'
  <2>1. CASE Cardinality(Senders) >= Descriptors
    BY <1>10, <2>1 DEF DaemonEndsForAReason, Senders
  <2>2. CASE cur \in Calls /\ clientEnd[cur] = "closed"
    <3>1. LeftEarly(cur)
      BY <2>2 DEF GoneInv
    <3> QED
      BY <1>2, <2>2, <3>1 DEF DaemonEndsForAReason, LeftEarly
  <2> QED
    BY <2>1, <2>2
<1> QED
  BY <1>5, <1>6, <1>8, <1>9, <1>12, <1>13, <1>14, <1>15

\* Whoever the daemon serves is served, and answered only while it is there.
LEMMA ServeStep ==
  ASSUME PrototypeInv, UNCHANGED callerVars, UNCHANGED <<listening, backlog, serverEnd>>,
         dpc \notin {"accept", "dead"}, dpc' # "dead",
         \A j \in Calls : j # cur => answer'[j] = answer[j],
         \/ cur' = cur /\ (ClientGone => answer' = answer)
         \/ cur' = NULL /\ sent[cur] > 0
  PROVE  CallInv' /\ QueueInv' /\ GoneInv' /\ HeldInv' /\ DaemonEndsForAReason'
<1> USE DEF PrototypeInv
<1>1. UNCHANGED <<req, sent, clientEnd, cpc, ret, listening, backlog, serverEnd>>
  BY DEF callerVars
<1>2. cur \in Calls /\ cpc[cur] # "idle"
  BY DEF ServingInv
<1>3. \A i \in DOMAIN backlog : backlog[i] \in Calls /\ backlog[i] # cur
  BY DEF QueueInv, TypeOK, WireTypeOK
<1>4. CallInv'
  BY <1>1, <1>2 DEF CallInv, FieldsSent
<1>5. QueueInv'
  BY <1>1, <1>3, NullFacts DEF QueueInv
<1>6. GoneInv'
  <2> SUFFICES ASSUME NEW j \in Calls, clientEnd[j] = "closed",
                      j = cur' \/ \E i \in DOMAIN backlog : backlog[i] = j
               PROVE  LeftEarly(j)'
    BY <1>1 DEF GoneInv
  <2>1. (j = cur \/ \E i \in DOMAIN backlog : backlog[i] = j) /\ answer'[j] = answer[j]
    BY <1>3, NullFacts DEF ClientGone
  <2>2. LeftEarly(j)
    BY <2>1 DEF GoneInv
  <2> QED
    BY <1>1, <2>1, <2>2, ReasonStays
<1>7. HeldInv'
  <2>1. Senders' = Senders /\ Held' = Held
    BY <1>1 DEF Senders, Held
  <2> QED
    BY <1>1, <2>1 DEF HeldInv
<1>8. DaemonEndsForAReason'
  BY DEF DaemonEndsForAReason
<1> QED
  BY <1>4, <1>5, <1>6, <1>7, <1>8

\* What the daemon may send.
LEMMA AnswersTyped ==
  ASSUME answer \in [Calls -> Answers], cur \in Calls
  PROVE  /\ \A c \in Codes : [answer EXCEPT ![cur].code = c] \in [Calls -> Answers]
         /\ \A n \in Nat : [answer EXCEPT ![cur].length = n] \in [Calls -> Answers]
         /\ \A d \in Snippets : [answer EXCEPT ![cur].data = d] \in [Calls -> Answers]
BY DEF Answers

\* The type of what a step of the daemon leaves alone, and of the rest.
LEMMA DaemonTyped ==
  ASSUME TypeOK, UNCHANGED callerVars, UNCHANGED listening,
         backlog' \in Seq(Calls), answer' \in [Calls -> Answers], serverEnd' \in [Calls -> Ends],
         dpc' \in {"accept", "opcode", "request", "length", "data", "dead"},
         cur' \in Calls \cup {NULL}, got' \in 0 .. 5, data' \in BOOLEAN, heap' \in Nat,
         storage' \in [Slots -> DataBlock]
  PROVE  TypeOK'
<1>1. UNCHANGED <<req, sent, clientEnd, cpc, ret, listening>>
  BY DEF callerVars
<1>2. WireTypeOK'
  BY <1>1 DEF TypeOK, WireTypeOK
<1> QED
  BY <1>1, <1>2 DEF TypeOK

\* The oldest connection of the queue is the one served.
LEMMA AcceptStep ==
  ASSUME PrototypeInv, Accept, UNCHANGED callerVars
  PROVE  PrototypeInv'
<1> USE DEF PrototypeInv
<1>1. /\ dpc = "accept" /\ dpc' = "opcode" /\ backlog # <<>>
      /\ cur' = Head(backlog) /\ backlog' = Tail(backlog)
  BY DEF Accept
<1>2. UNCHANGED <<req, sent, clientEnd, cpc, ret, answer, listening, serverEnd, got, data, heap, storage>>
  BY DEF Accept, callerVars
<1>3. backlog \in Seq(Calls)
  BY DEF TypeOK, WireTypeOK
<1>4. /\ 1 \in DOMAIN backlog /\ cur' = backlog[1] /\ cur' \in Calls
      /\ backlog' \in Seq(Calls)
      /\ \A i \in DOMAIN backlog' :
           i + 1 \in DOMAIN backlog /\ i + 1 # 1 /\ backlog'[i] = backlog[i + 1]
  BY <1>1, <1>3
<1>5. \A i \in DOMAIN backlog : i = 1 \/ (i - 1 \in DOMAIN backlog' /\ backlog'[i - 1] = backlog[i])
  BY <1>1, <1>3
<1>6. TypeOK'
  <2>1. dpc' \in {"accept", "opcode", "request", "length", "data", "dead"}
    BY <1>1
  <2>2. /\ answer' \in [Calls -> Answers] /\ serverEnd' \in [Calls -> Ends] /\ got' \in 0 .. 5
        /\ data' \in BOOLEAN /\ heap' \in Nat /\ storage' \in [Slots -> DataBlock]
    BY <1>2 DEF TypeOK, WireTypeOK
  <2> QED
    BY <1>2, <1>4, <2>1, <2>2, DaemonTyped
<1>7. CallInv'
  BY <1>2 DEF CallInv, FieldsSent
<1>8. QueueInv'
  <2>1. \A i \in DOMAIN backlog' : backlog'[i] # cur'
    BY <1>4 DEF QueueInv
  <2>2. \A i, j \in DOMAIN backlog' : backlog'[i] = backlog'[j] => i = j
    <3> SUFFICES ASSUME NEW i \in DOMAIN backlog', NEW j \in DOMAIN backlog',
                        backlog'[i] = backlog'[j]
                 PROVE  i = j
      OBVIOUS
    <3>1. i + 1 = j + 1
      BY <1>4 DEF QueueInv
    <3>2. i \in Int /\ j \in Int
      BY <1>4
    <3> QED
      BY <3>1, <3>2
  <2> QED
    BY <1>2, <1>4, <2>1, <2>2 DEF QueueInv
<1>9. ServingInv'
  BY <1>1, <1>2, <1>4 DEF ServingInv, QueueInv
<1>10. GoneInv'
  <2> SUFFICES ASSUME NEW j \in Calls, clientEnd[j] = "closed",
                      j = cur' \/ \E i \in DOMAIN backlog' : backlog'[i] = j
               PROVE  LeftEarly(j)'
    BY <1>2 DEF GoneInv
  <2>1. LeftEarly(j)
    BY <1>4 DEF GoneInv
  <2> QED
    BY <1>2, <2>1, ReasonStays
<1>11. HeldInv'
  <2>1. Senders' = Senders
    BY <1>2 DEF Senders
  <2>2. \A j \in Held' : j = cur' \/ j \in Held
    BY <1>2, <1>4, <1>5 DEF Held
  <2>3. \A j \in Held : sent[j] > 0
    BY <1>1, NullFacts DEF Held, HeldInv, ServingInv
  <2> QED
    BY <1>2, <2>1, <2>2, <2>3 DEF HeldInv
<1>12. StoreInv'
  <2>1. Used' = Used /\ Buffered' = Buffered /\ ~data
    BY <1>1, <1>2, LookupStays DEF Buffered, StoreInv
  <2> QED
    BY <1>2, <2>1 DEF StoreInv
<1>13. PaddingInv'
  <2>1. Used' = Used
    BY <1>2, LookupStays
  <2> QED
    BY <1>1, <1>2, <2>1 DEF PaddingInv
<1>14. DaemonEndsForAReason'
  BY <1>1 DEF DaemonEndsForAReason
<1> QED
  BY <1>6, <1>7, <1>8, <1>9, <1>10, <1>11, <1>12, <1>13, <1>14

\* Out of descriptors: every connection held is that of a sender.
LEMMA AcceptFailsStep ==
  ASSUME PrototypeInv, AcceptFails, UNCHANGED callerVars
  PROVE  PrototypeInv'
<1>1. dpc = "accept" /\ Die /\ Cardinality(Held) >= Descriptors
  BY DEF AcceptFails
<1>2. Held \subseteq Senders
  BY <1>1, NullFacts DEF Held, Senders, PrototypeInv, HeldInv, ServingInv
<1>3. IsFiniteSet(Senders) /\ IsFiniteSet(Held) /\ Cardinality(Held) <= Cardinality(Senders)
  BY <1>2, FS_Subset DEF PrototypeInv, HeldInv
<1>4. Cardinality(Senders) \in Nat /\ Cardinality(Held) \in Nat /\ Descriptors \in Nat
  BY <1>3, FS_CardinalityType, PrototypeAssumption
<1>5. Cardinality(Senders) >= Descriptors
  BY <1>1, <1>3, <1>4
<1> QED
  BY <1>1, <1>5, DieStep

\* A caller that sent no opcode is the one whose connection is closed.
LEMMA ReceiveOpcodeStep ==
  ASSUME PrototypeInv, ReceiveOpcode, UNCHANGED callerVars
  PROVE  PrototypeInv'
<1> USE DEF PrototypeInv
<1>1. UNCHANGED <<req, sent, clientEnd, cpc, ret, answer, listening, backlog, heap, storage>>
  BY DEF ReceiveOpcode, callerVars
<1>2. dpc = "opcode" /\ ~data /\ cur \in Calls /\ cpc[cur] # "idle" /\ serverEnd[cur] = "open"
  BY DEF ReceiveOpcode, ServingInv, StoreInv
<1>3. /\ backlog' \in Seq(Calls) /\ answer' \in [Calls -> Answers] /\ heap' \in Nat
      /\ storage' \in [Slots -> DataBlock]
  BY <1>1 DEF TypeOK, WireTypeOK
<1>4. PaddingInv'
  <2>1. Used' = Used
    BY <1>1, LookupStays
  <2> QED
    BY <1>1, <1>2, <2>1 DEF PaddingInv
<1>5. Used' = Used
  BY <1>1, LookupStays
<1>6. CASE sent[cur] > 0 /\ dpc' = "request" /\ got' = 1 /\ UNCHANGED <<serverEnd, cur, data>>
  <2>1. TypeOK'
    <3>1. /\ serverEnd' \in [Calls -> Ends] /\ cur' \in Calls \cup {NULL} /\ data' \in BOOLEAN
      BY <1>6 DEF TypeOK, WireTypeOK
    <3>2. /\ dpc' \in {"accept", "opcode", "request", "length", "data", "dead"} /\ got' \in 0 .. 5
      BY <1>6
    <3> QED
      BY <1>1, <1>3, <3>1, <3>2, DaemonTyped
  <2>2. CallInv' /\ QueueInv' /\ GoneInv' /\ HeldInv' /\ DaemonEndsForAReason'
    BY <1>1, <1>2, <1>6, ServeStep
  <2>3. ServingInv'
    BY <1>1, <1>2, <1>6 DEF ServingInv
  <2>4. StoreInv'
    BY <1>1, <1>2, <1>5, <1>6 DEF StoreInv, Buffered
  <2> QED
    BY <1>4, <2>1, <2>2, <2>3, <2>4
<1>7. CASE serverEnd' = [serverEnd EXCEPT ![cur] = "closed"] /\ NextConnection
  <2>1. dpc' = "accept" /\ cur' = NULL /\ got' = 0 /\ data' = FALSE
    BY <1>7 DEF NextConnection
  <2>2. serverEnd' \in [Calls -> Ends]
    BY <1>7 DEF TypeOK, WireTypeOK, Ends
  <2>3. serverEnd'[cur] = "closed" /\ \A j \in Calls : j # cur => serverEnd'[j] = serverEnd[j]
    BY <1>2, <1>7 DEF TypeOK, WireTypeOK
  <2>4. \A i \in DOMAIN backlog : backlog[i] \in Calls /\ backlog[i] # cur
    BY DEF QueueInv, TypeOK, WireTypeOK
  <2>5. TypeOK'
    <3>1. data' \in BOOLEAN
      BY <2>1, Zenon
    <3>2. /\ dpc' \in {"accept", "opcode", "request", "length", "data", "dead"}
          /\ got' \in 0 .. 5 /\ cur' \in Calls \cup {NULL}
      BY <2>1
    <3> QED
      BY <1>1, <1>3, <2>2, <3>1, <3>2, DaemonTyped
  <2>6. CallInv'
    BY <1>1, <1>2, <2>3 DEF CallInv, FieldsSent
  <2>7. QueueInv'
    BY <1>1, <2>1, <2>3, <2>4, NullFacts DEF QueueInv
  <2>8. ServingInv'
    BY <2>1 DEF ServingInv
  <2>9. GoneInv'
    <3> SUFFICES ASSUME NEW j \in Calls, clientEnd[j] = "closed",
                        \E i \in DOMAIN backlog : backlog[i] = j
                 PROVE  LeftEarly(j)'
      BY <1>1, <2>1, NullFacts DEF GoneInv
    <3>1. LeftEarly(j)
      BY DEF GoneInv
    <3> QED
      BY <1>1, <3>1, ReasonStays
  <2>10. HeldInv'
    <3>1. Senders' = Senders
      BY <1>1 DEF Senders
    <3>2. \A j \in Held' : j \in Held /\ j # cur
      BY <1>1, <2>3 DEF Held
    <3> QED
      BY <1>1, <3>1, <3>2 DEF HeldInv
  <2>11. StoreInv'
    BY <1>1, <1>2, <1>5, <2>1 DEF StoreInv, Buffered
  <2>12. DaemonEndsForAReason'
    BY <2>1 DEF DaemonEndsForAReason
  <2> QED
    BY <1>4, <2>5, <2>6, <2>7, <2>8, <2>9, <2>10, <2>11, <2>12
<1> QED
  BY <1>6, <1>7 DEF ReceiveOpcode

\* What ServingInv says of a request being received or handled.
LEMMA ServedRequest ==
  ASSUME PrototypeInv, dpc \in {"request", "length", "data"}
  PROVE  /\ cur \in Calls /\ req[cur] \in Requests /\ cpc[cur] # "idle" /\ sent[cur] > 0
         /\ serverEnd[cur] = "open" /\ answer \in [Calls -> Answers]
BY DEF PrototypeInv, ServingInv, CallInv, TypeOK, WireTypeOK

\* A field is received; after data_length there may be a buffer.
LEMMA ReceiveFieldStep ==
  ASSUME PrototypeInv, ReceiveField, UNCHANGED callerVars
  PROVE  PrototypeInv'
<1> USE DEF PrototypeInv
<1>1. UNCHANGED <<req, sent, clientEnd, cpc, ret, answer, listening, backlog, serverEnd, dpc, cur, storage>>
  BY DEF ReceiveField, callerVars
<1>2. dpc = "request" /\ got < Wanted(req[cur]) /\ got' = got + 1
  BY DEF ReceiveField
<1>3. cur \in Calls /\ req[cur] \in Requests
  BY <1>2, ServedRequest
<1>4. \/ data' = data /\ heap' = heap
      \/ data' = TRUE /\ heap' = heap + 1 /\ req[cur].op = "SEND" /\ got' = DataLengthRead
  BY DEF ReceiveField
<1>5. got \in 0 .. 5 /\ got' \in 0 .. 5 /\ heap \in Nat
  BY <1>2 DEF Wanted, DataLengthRead, TypeOK
<1>6. data => got >= DataLengthRead
  BY DEF StoreInv
<1>7. TypeOK'
  <2>1. data' \in BOOLEAN
    <3>1. CASE data' = data
      BY <3>1 DEF TypeOK
    <3>2. CASE data' = TRUE
      BY <3>2, Zenon
    <3> QED
      BY <1>4, <3>1, <3>2
  <2>2. heap' \in Nat
    BY <1>4, <1>5
  <2> QED
    BY <1>1, <1>5, <2>1, <2>2, DaemonTyped DEF TypeOK, WireTypeOK
<1>8. CallInv' /\ QueueInv' /\ GoneInv' /\ HeldInv' /\ DaemonEndsForAReason'
  BY <1>1, <1>2, ServeStep
<1>9. Used' = Used /\ \A id : Known(id)' <=> Known(id)
  BY <1>1, LookupStays
<1>10. ServingInv'
  BY <1>1, <1>2 DEF ServingInv
<1>11. PaddingInv'
  BY <1>1, <1>9 DEF PaddingInv
<1>12. StoreInv'
  <2>1. Cardinality(Used) \in Nat
    BY UsedIsFinite
  <2>2. CASE data' = data /\ heap' = heap
    BY <1>1, <1>2, <1>5, <1>9, <2>2 DEF StoreInv, Buffered, DataLengthRead
  <2>3. CASE data' = TRUE /\ heap' = heap + 1 /\ req[cur].op = "SEND" /\ got' = DataLengthRead
    <3>1. ~data
      BY <1>2, <1>5, <1>6, <2>3 DEF DataLengthRead
    <3> QED
      BY <1>1, <1>2, <1>9, <2>1, <2>3, <3>1 DEF StoreInv, Buffered, DataLengthRead
  <2> QED
    BY <1>4, <2>2, <2>3
<1> QED
  BY <1>7, <1>8, <1>10, <1>11, <1>12

\* Back to accept() after an answer that opens nothing it should not.
LEMMA RespondStep ==
  ASSUME PrototypeInv, UNCHANGED callerVars, dpc = "request", NEW code \in Codes, Respond(code),
         code # "SUCCESS",
         code = "ACCESS_DENIED" /\ req[cur].op = "GET" =>
           \E s \in Used : storage[s].ID = req[cur].id /\ SecretBytes[storage[s].secret] # ZeroSecret
  PROVE  PrototypeInv'
<1> USE DEF PrototypeInv
<1>1. /\ cur \in Calls /\ req[cur] \in Requests /\ sent[cur] > 0
      /\ answer \in [Calls -> Answers]
  BY ServedRequest
<1>2. CASE ClientGone /\ Die
  BY <1>1, <1>2, DieStep DEF ClientGone
<1>3. CASE /\ ~ClientGone /\ answer' = [answer EXCEPT ![cur].code = code] /\ NextConnection
           /\ heap' = (IF data THEN heap - 1 ELSE heap)
           /\ UNCHANGED <<listening, backlog, serverEnd, storage>>
  <2>1. /\ dpc' = "accept" /\ cur' = NULL /\ got' = 0 /\ data' = FALSE
        /\ UNCHANGED <<req, sent, clientEnd, cpc, ret, listening, backlog, serverEnd, storage>>
    BY <1>3 DEF NextConnection, callerVars
  <2>2. answer' \in [Calls -> Answers]
    BY <1>1, <1>3, AnswersTyped
  <2>3. answer'[cur].code = code /\ \A j \in Calls : j # cur => answer'[j] = answer[j]
    BY <1>1, <1>3 DEF Answers
  <2>4. Used' = Used
    BY <2>1, LookupStays
  <2>5. heap' = Cardinality(Used) /\ Cardinality(Used) \in Nat
    BY <1>3, UsedIsFinite DEF StoreInv, Buffered
  <2>6. TypeOK'
    <3>1. data' \in BOOLEAN
      BY <2>1, Zenon
    <3>2. /\ dpc' \in {"accept", "opcode", "request", "length", "data", "dead"}
          /\ got' \in 0 .. 5 /\ cur' \in Calls \cup {NULL} /\ heap' \in Nat
      BY <2>1, <2>5
    <3>3. /\ backlog' \in Seq(Calls) /\ serverEnd' \in [Calls -> Ends] /\ storage' \in [Slots -> DataBlock]
      BY <2>1 DEF TypeOK, WireTypeOK
    <3> QED
      BY <2>1, <2>2, <3>1, <3>2, <3>3, DaemonTyped
  <2>7. CallInv' /\ QueueInv' /\ GoneInv' /\ HeldInv' /\ DaemonEndsForAReason'
    BY <1>1, <2>1, <2>3, ServeStep
  <2>8. ServingInv'
    BY <2>1 DEF ServingInv
  <2>9. StoreInv'
    BY <2>1, <2>4, <2>5 DEF StoreInv, Buffered
  <2>10. PaddingInv'
    <3> SUFFICES ASSUME NEW k \in Calls, req[k] # NULL, req[k].op = "GET"
                 PROVE  /\ answer'[k].code = "SUCCESS" =>
                             \E s \in Used : storage[s].ID = req[k].id /\ SecretBytes[storage[s].secret] = ZeroSecret
                        /\ answer'[k].code = "ACCESS_DENIED" =>
                             \E s \in Used : storage[s].ID = req[k].id /\ SecretBytes[storage[s].secret] # ZeroSecret
      BY <2>1, <2>4 DEF PaddingInv
    <3>1. CASE k = cur
      BY <2>3, <3>1
    <3>2. CASE k # cur
      BY <2>3, <3>2 DEF PaddingInv
    <3> QED
      BY <3>1, <3>2
  <2> QED
    BY <2>6, <2>7, <2>8, <2>9, <2>10
<1> QED
  BY <1>2, <1>3 DEF Respond

\* A set of slots has a least one.
LEMMA SlotsHaveLeast ==
  ASSUME NEW S, S \subseteq Slots, S # {}
  PROVE  \E s \in S : \A t \in S : s <= t
<1> DEFINE R == OpToRel(<, Nat)
<1>1. S \subseteq Nat
  BY PrototypeAssumption DEF Slots
<1>2. \A x, y \in Nat : y < x => <<y, x>> \in R
  BY DEF OpToRel
<1>3. \E x \in S : \A y \in S : <<y, x>> \notin R
  <2> HIDE DEF R
  <2>1. IsWellFoundedOn(R, Nat)
    BY NatLessThanWellFounded DEF R
  <2> QED
    BY <1>1, <2>1, WFMin
<1> HIDE DEF R
<1>4. PICK x \in S : \A y \in S : <<y, x>> \notin R
  BY <1>3
<1>5. \A y \in S : y \in Nat /\ x \in Nat /\ ~(y < x)
  BY <1>1, <1>2, <1>4
<1> QED
  BY <1>4, <1>5

\* A block is stored in a free slot and takes the buffer with it.
LEMMA StoreBlockStep ==
  ASSUME PrototypeInv, UNCHANGED callerVars, dpc = "request", data,
         ~Known(req[cur].id), Used # Slots, StoreBlock(req[cur])
  PROVE  PrototypeInv'
<1> USE DEF PrototypeInv
<1> DEFINE free == findFreeBlockIndx
<1>1. /\ cur \in Calls /\ req[cur] \in Requests /\ sent[cur] > 0 /\ req[cur].op = "SEND"
      /\ answer \in [Calls -> Answers]
  BY ServedRequest DEF StoreInv
<1>2. /\ dpc' = "accept" /\ cur' = NULL /\ got' = 0 /\ data' = FALSE
      /\ UNCHANGED <<req, sent, clientEnd, cpc, ret, answer, listening, backlog, serverEnd, heap>>
      /\ storage' = [storage EXCEPT ![free] =
           [is_used |-> TRUE, ID |-> req[cur].id, secret |-> req[cur].secret, data |-> req[cur].data]]
  BY DEF StoreBlock, NextConnection, callerVars
<1>3. free \in Slots /\ free \notin Used
  <2>1. Slots \ Used # {} /\ Slots \ Used \subseteq Nat
    BY PrototypeAssumption DEF Slots, Used
  <2>2. \E s \in Slots \ Used : \A t \in Slots \ Used : s <= t
    BY <2>1, SlotsHaveLeast
  <2> QED
    BY <2>2 DEF findFreeBlockIndx
<1>4. /\ req[cur].id \in IDs /\ req[cur].secret \in Secrets /\ req[cur].data \in Payloads
  BY <1>1, RequestFacts
<1>5. storage \in [Slots -> DataBlock]
  BY DEF TypeOK
<1> HIDE DEF free
<1>6. /\ storage'[free].is_used /\ storage'[free].ID = req[cur].id
      /\ storage'[free].data = req[cur].data
      /\ \A s \in Slots : s # free => storage'[s] = storage[s]
  BY <1>2, <1>3, <1>5
<1>7. Used' = Used \cup {free}
  BY <1>3, <1>6 DEF Used
<1>8. Cardinality(Used') = Cardinality(Used) + 1
  BY <1>3, <1>7, UsedIsFinite, FS_AddElement
<1>9. TypeOK'
  <2>1. storage' \in [Slots -> DataBlock]
    <3>1. [is_used |-> TRUE, ID |-> req[cur].id, secret |-> req[cur].secret, data |-> req[cur].data]
            \in DataBlock
      BY <1>4 DEF DataBlock
    <3> QED
      BY <1>2, <1>5, <3>1
  <2>2. data' \in BOOLEAN
    BY <1>2, Zenon
  <2>3. /\ dpc' \in {"accept", "opcode", "request", "length", "data", "dead"}
        /\ got' \in 0 .. 5 /\ cur' \in Calls \cup {NULL}
    BY <1>2
  <2>4. /\ backlog' \in Seq(Calls) /\ serverEnd' \in [Calls -> Ends] /\ heap' \in Nat
        /\ answer' \in [Calls -> Answers]
    BY <1>2 DEF TypeOK, WireTypeOK
  <2> QED
    BY <1>2, <2>1, <2>2, <2>3, <2>4, DaemonTyped
<1>10. CallInv' /\ QueueInv' /\ GoneInv' /\ HeldInv' /\ DaemonEndsForAReason'
  BY <1>1, <1>2, ServeStep
<1>11. ServingInv'
  BY <1>2 DEF ServingInv
<1>12. StoreInv'
  <2>1. Used \subseteq Slots /\ \A s \in Used : storage[s].ID # req[cur].id
    BY DEF Used, Known, Holding
  <2>2. \A s, t \in Used' : storage'[s].ID = storage'[t].ID => s = t
    BY <1>3, <1>6, <1>7, <2>1 DEF StoreInv
  <2>3. \A s \in Used' : storage'[s].data \in Payloads
    BY <1>3, <1>4, <1>6, <1>7, <2>1 DEF StoreInv
  <2>4. heap' = Cardinality(Used') + Buffered'
    BY <1>2, <1>8, UsedIsFinite DEF StoreInv, Buffered
  <2> QED
    BY <1>2, <2>2, <2>3, <2>4 DEF StoreInv
<1>13. PaddingInv'
  <2>1. \A s \in Used : s \in Used' /\ storage'[s] = storage[s]
    BY <1>3, <1>6, <1>7 DEF Used
  <2> QED
    BY <1>2, <2>1 DEF PaddingInv
<1>14. QED
  BY <1>9, <1>10, <1>11, <1>12, <1>13

\* A daemon that answers call cur and goes on with it, or is done with it.
LEMMA AnswerStep ==
  ASSUME PrototypeInv, UNCHANGED callerVars, dpc \in {"request", "length", "data"}, ~data,
         UNCHANGED <<listening, backlog, serverEnd, heap, storage>>, ~ClientGone,
         answer' \in [Calls -> Answers], \A j \in Calls : j # cur => answer'[j] = answer[j],
         answer'[cur].code = "SUCCESS", req[cur].op = "GET",
         \E s \in Used : storage[s].ID = req[cur].id /\ SecretBytes[storage[s].secret] = ZeroSecret,
         Known(req[cur].id),
         \/ NextConnection
         \/ /\ UNCHANGED <<cur, got, data>> /\ dpc' \in {"length", "data"}
            /\ answer'[cur].data = NULL
            /\ dpc' = "length" => answer'[cur].length = NULL
            /\ dpc' = "data" => answer'[cur].length \notin {NULL, 0}
  PROVE  PrototypeInv'
<1> USE DEF PrototypeInv
<1>1. /\ cur \in Calls /\ sent[cur] > 0 /\ cpc[cur] # "idle" /\ serverEnd[cur] = "open"
  BY ServedRequest
<1>2. UNCHANGED <<req, sent, clientEnd, cpc, ret, listening, backlog, serverEnd, heap, storage>>
  BY DEF callerVars
<1>3. \/ dpc' = "accept" /\ cur' = NULL /\ got' = 0 /\ data' = FALSE
      \/ dpc' \in {"length", "data"} /\ UNCHANGED <<cur, got, data>>
  BY DEF NextConnection
<1>4. Used' = Used /\ \A id : Known(id)' <=> Known(id)
  BY <1>2, LookupStays
<1>5. TypeOK'
  <2>1. data' \in BOOLEAN
    <3>1. CASE data' = data
      BY <3>1 DEF TypeOK
    <3>2. CASE data' = FALSE
      BY <3>2, Zenon
    <3> QED
      BY <1>3, <3>1, <3>2
  <2>2. /\ dpc' \in {"accept", "opcode", "request", "length", "data", "dead"}
        /\ got' \in 0 .. 5 /\ cur' \in Calls \cup {NULL}
    BY <1>3 DEF TypeOK
  <2>3. /\ backlog' \in Seq(Calls) /\ serverEnd' \in [Calls -> Ends] /\ heap' \in Nat
        /\ storage' \in [Slots -> DataBlock]
    BY <1>2 DEF TypeOK, WireTypeOK
  <2> QED
    BY <1>2, <2>1, <2>2, <2>3, DaemonTyped
<1>6. CallInv' /\ QueueInv' /\ GoneInv' /\ HeldInv' /\ DaemonEndsForAReason'
  BY <1>1, <1>2, <1>3, ServeStep
<1>7. ServingInv'
  BY <1>1, <1>2, <1>3, <1>4 DEF ServingInv, NextConnection
<1>8. StoreInv'
  BY <1>2, <1>3, <1>4 DEF StoreInv, Buffered
<1>9. PaddingInv'
  <2> SUFFICES ASSUME NEW k \in Calls, req[k] # NULL, req[k].op = "GET"
               PROVE  /\ answer'[k].code = "SUCCESS" =>
                           \E s \in Used : storage[s].ID = req[k].id /\ SecretBytes[storage[s].secret] = ZeroSecret
                      /\ answer'[k].code = "ACCESS_DENIED" =>
                           \E s \in Used : storage[s].ID = req[k].id /\ SecretBytes[storage[s].secret] # ZeroSecret
    BY <1>2, <1>4 DEF PaddingInv
  <2>1. CASE k = cur
    BY <2>1
  <2>2. CASE k # cur
    BY <2>2 DEF PaddingInv
  <2> QED
    BY <2>1, <2>2
<1> QED
  BY <1>5, <1>6, <1>7, <1>8, <1>9

\* Behind the ID the padding goes on for sixteen bytes at least: what is taken
\* for the secret is zeros, and the secret that was sent is not looked at.
LEMMA ThePaddingIsRead ==
  ASSUME NEW r \in Requests, r.op = "GET"
  PROVE  SecretRead16(r) = ZeroSecret
<1>1. Len(Text[r.id]) \in Nat /\ Len(Text[r.id]) <= 240
  <2>1. r.id \in IDs
    BY RequestFacts
  <2> DEFINE text == Text[r.id]
  <2>2. text \in Seq(1 .. 255) /\ Len(text) <= 256 - 16
    BY <2>1, BytesAssumption DEF IDBuffer, SecretSize
  <2> HIDE DEF text
  <2>3. Len(text) \in Nat /\ Len(text) <= 240
    BY <2>2
  <2> QED
    BY <2>3 DEF text
<1>2. \A i \in 1 .. SecretSize : GetStream(r)[Len(Text[r.id]) + i] = 0
  <2> SUFFICES ASSUME NEW i \in 1 .. SecretSize
               PROVE  GetStream(r)[Len(Text[r.id]) + i] = 0
    OBVIOUS
  <2> DEFINE n == Len(Text[r.id])  p == n + i
  <2>1. p \in 1 .. IDBuffer + Pointer /\ ~(p > IDBuffer) /\ ~(p <= n)
    <3>1. n \in Nat /\ n <= 240 /\ i \in 1 .. 16
      BY <1>1 DEF SecretSize
    <3> HIDE DEF n
    <3> QED
      BY <3>1 DEF IDBuffer, Pointer
  <2> HIDE DEF p
  <2>2. GetStream(r)[p] = 0
    BY <2>1 DEF GetStream
  <2> QED
    BY <2>2 DEF p
<1> QED
  BY <1>2 DEF SecretRead16, ZeroSecret

\* A handler refuses and frees, stores, or grants the read.
LEMMA HandleStep ==
  ASSUME PrototypeInv, Handle, UNCHANGED callerVars
  PROVE  PrototypeInv'
<1>1. dpc = "request" /\ (handleSendBlock(req[cur]) \/ handleGetBlock(req[cur]))
  BY DEF Handle
<1>2. {"FAIL", "ALREADY_EXISTS", "NOT_FOUND", "ACCESS_DENIED"} \subseteq Codes
  BY DEF Codes
<1>3. cur \in Calls /\ answer \in [Calls -> Answers]
  BY <1>1, ServedRequest
<1>4. CASE handleSendBlock(req[cur])
  BY <1>1, <1>2, <1>4, RespondStep, StoreBlockStep DEF handleSendBlock
<1>5. CASE handleGetBlock(req[cur])
  <2> DEFINE r == req[cur]
  <2>0. r \in Requests /\ r.op = "GET"
    BY <1>1, <1>5, ServedRequest DEF handleGetBlock
  <2>1. CASE ~Known(r.id) /\ Respond("NOT_FOUND")
    BY <1>1, <1>2, <2>1, RespondStep
  <2>2. CASE Known(r.id) /\ ~SecretMatches(r) /\ Respond("ACCESS_DENIED")
    <3>1. findIndxById(r.id) \in Used /\ storage[findIndxById(r.id)].ID = r.id
      BY <2>2, FoundIsUsed DEF PrototypeInv
    <3>2. SecretBytes[storage[findIndxById(r.id)].secret] # ZeroSecret
      BY <2>0, <2>2, ThePaddingIsRead DEF SecretMatches
    <3> QED
      BY <1>1, <1>2, <2>2, <3>1, <3>2, RespondStep
  <2>3. CASE Known(r.id) /\ SecretMatches(r) /\ Grant
    <3>1. findIndxById(r.id) \in Used /\ storage[findIndxById(r.id)].ID = r.id
      BY <2>3, FoundIsUsed DEF PrototypeInv
    <3>2. SecretBytes[storage[findIndxById(r.id)].secret] = ZeroSecret
      BY <2>0, <2>3, ThePaddingIsRead DEF SecretMatches
    <3>3. CASE ClientGone /\ Die
      BY <1>3, <3>3, DieStep DEF ClientGone
    <3>4. CASE ~ClientGone /\ ~(ClientGone /\ Die)
      <4>1. /\ answer' = [answer EXCEPT ![cur].code = "SUCCESS"] /\ dpc' = "length"
            /\ UNCHANGED <<listening, backlog, serverEnd, cur, got, data, heap, storage>>
        BY <2>3, <3>4 DEF Grant
      <4>2. answer' \in [Calls -> Answers]
        BY <1>3, <4>1, AnswersTyped DEF Codes
      <4>3. answer[cur] = NoAnswer
        BY <1>1 DEF PrototypeInv, ServingInv
      <4>4. /\ answer'[cur].code = "SUCCESS" /\ answer'[cur].length = NULL /\ answer'[cur].data = NULL
            /\ \A j \in Calls : j # cur => answer'[j] = answer[j]
        BY <1>3, <4>1, <4>3 DEF Answers, NoAnswer
      <4>5. ~data /\ req[cur].op = "GET"
        BY <1>5 DEF PrototypeInv, StoreInv, handleGetBlock
      <4> QED
        BY <1>1, <2>3, <3>1, <3>2, <3>4, <4>1, <4>2, <4>4, <4>5, AnswerStep
    <3> QED
      BY <2>3, <3>3, <3>4 DEF Grant
  <2> QED
    BY <1>5, <2>1, <2>2, <2>3 DEF handleGetBlock
<1> QED
  BY <1>1, <1>4, <1>5

\* The length of a granted read; for zero bytes that is all.
LEMMA SendLengthStep ==
  ASSUME PrototypeInv, SendLength, UNCHANGED callerVars
  PROVE  PrototypeInv'
<1> DEFINE n == Bytes[Block(req[cur]).data]
<1>1. dpc = "length"
  BY DEF SendLength
<1>2. cur \in Calls /\ answer \in [Calls -> Answers]
  BY <1>1, ServedRequest
<1>3. /\ req[cur].op = "GET" /\ Known(req[cur].id)
      /\ answer[cur].code = "SUCCESS" /\ answer[cur].data = NULL /\ ~data
  BY <1>1 DEF PrototypeInv, ServingInv, StoreInv
<1>4. n \in Nat
  BY <1>3, BlockHasData DEF PrototypeInv
<1>5. \E s \in Used : storage[s].ID = req[cur].id /\ SecretBytes[storage[s].secret] = ZeroSecret
  BY <1>1, <1>2, <1>3, RequestsAssumption DEF PrototypeInv, PaddingInv, ServingInv, CallInv
<1>6. CASE ClientGone /\ Die
  BY <1>2, <1>6, DieStep DEF ClientGone
<1>7. CASE ~ClientGone /\ ~(ClientGone /\ Die)
  <2>1. /\ answer' = [answer EXCEPT ![cur].length = n]
        /\ UNCHANGED <<listening, backlog, serverEnd, heap, storage>>
        /\ IF n = 0 THEN NextConnection ELSE dpc' = "data" /\ UNCHANGED <<cur, got, data>>
    BY <1>7 DEF SendLength
  <2> HIDE DEF n
  <2>2. answer' \in [Calls -> Answers]
    BY <1>2, <1>4, <2>1, AnswersTyped
  <2>3. /\ answer'[cur].code = "SUCCESS" /\ answer'[cur].length = n /\ answer'[cur].data = NULL
        /\ \A j \in Calls : j # cur => answer'[j] = answer[j]
    BY <1>2, <1>3, <2>1 DEF Answers
  <2>4. n # NULL
    BY <1>4, NullFacts
  <2> QED
    BY <1>1, <1>3, <1>5, <1>7, <2>1, <2>2, <2>3, <2>4, AnswerStep
<1> QED
  BY <1>6, <1>7 DEF SendLength

\* The data of a granted read.
LEMMA SendDataStep ==
  ASSUME PrototypeInv, SendData, UNCHANGED callerVars
  PROVE  PrototypeInv'
<1> DEFINE d == [src |-> Block(req[cur]).data, from |-> 0, len |-> Bytes[Block(req[cur]).data]]
<1>1. dpc = "data"
  BY DEF SendData
<1>2. cur \in Calls /\ answer \in [Calls -> Answers]
  BY <1>1, ServedRequest
<1>3. /\ req[cur].op = "GET" /\ Known(req[cur].id) /\ answer[cur].code = "SUCCESS" /\ ~data
  BY <1>1 DEF PrototypeInv, ServingInv, StoreInv
<1>4. d \in Snippets
  BY <1>3, BlockHasData DEF PrototypeInv, Snippets
<1>5. \E s \in Used : storage[s].ID = req[cur].id /\ SecretBytes[storage[s].secret] = ZeroSecret
  BY <1>1, <1>2, <1>3, RequestsAssumption DEF PrototypeInv, PaddingInv, ServingInv, CallInv
<1>6. CASE ClientGone /\ Die
  BY <1>2, <1>6, DieStep DEF ClientGone
<1>7. CASE ~ClientGone /\ ~(ClientGone /\ Die)
  <2>1. /\ answer' = [answer EXCEPT ![cur].data = d] /\ NextConnection
        /\ UNCHANGED <<listening, backlog, serverEnd, heap, storage>>
    BY <1>7 DEF SendData
  <2> HIDE DEF d
  <2>2. answer' \in [Calls -> Answers]
    BY <1>2, <1>4, <2>1, AnswersTyped
  <2>3. /\ answer'[cur].code = "SUCCESS"
        /\ \A j \in Calls : j # cur => answer'[j] = answer[j]
    BY <1>2, <1>3, <2>1 DEF Answers
  <2> QED
    BY <1>1, <1>3, <1>5, <1>7, <2>1, <2>2, <2>3, AnswerStep
<1> QED
  BY <1>6, <1>7 DEF SendData

-----------------------------------------------------------------------------
\* The invariant is inductive.
LEMMA NextKeeps == PrototypeInv /\ [Next]_vars => PrototypeInv'
<1> SUFFICES ASSUME PrototypeInv, [Next]_vars PROVE PrototypeInv'
  OBVIOUS
<1>1. CASE Server
  <2>1. UNCHANGED callerVars /\ DaemonStep
    BY <1>1 DEF Server
  <2>2. CASE Accept
    BY <2>1, <2>2, AcceptStep
  <2>3. CASE AcceptFails
    BY <2>1, <2>3, AcceptFailsStep
  <2>4. CASE ReceiveOpcode
    BY <2>1, <2>4, ReceiveOpcodeStep
  <2>5. CASE ReceiveField
    BY <2>1, <2>5, ReceiveFieldStep
  <2>6. CASE ReceiveFails
    <3>1. cur \in Calls /\ Die /\ clientEnd[cur] = "closed"
      BY <2>6, ServedRequest DEF ReceiveFails, ClientGone
    <3> QED
      BY <2>1, <3>1, DieStep
  <2>7. CASE Handle
    BY <2>1, <2>7, HandleStep
  <2>8. CASE SendLength
    BY <2>1, <2>8, SendLengthStep
  <2>9. CASE SendData
    BY <2>1, <2>9, SendDataStep
  <2> QED
    BY <2>1, <2>2, <2>3, <2>4, <2>5, <2>6, <2>7, <2>8, <2>9 DEF DaemonStep
<1>2. CASE \E k \in Calls : Caller(k)
  BY <1>2, CallStep, LibraryStepStep DEF Caller
<1>3. CASE UNCHANGED vars
  <2>1. UNCHANGED <<req, sent, clientEnd, cpc, ret, answer, listening, backlog, serverEnd,
                    dpc, cur, got, data, heap, storage>>
    BY <1>3 DEF vars, wireVars, daemonVars
  <2>2. TypeOK'
    BY <2>1 DEF PrototypeInv, TypeOK, WireTypeOK
  <2>3. CallInv' /\ QueueInv' /\ GoneInv'
    BY <2>1 DEF PrototypeInv, CallInv, QueueInv, GoneInv, LeftEarly, FieldsSent
  <2>4. Used' = Used /\ (\A id : Known(id)' <=> Known(id)) /\ Senders' = Senders /\ Held' = Held
    BY <2>1, LookupStays DEF Senders, Held
  <2>5. ServingInv' /\ HeldInv' /\ StoreInv'
    BY <2>1, <2>4 DEF PrototypeInv, ServingInv, HeldInv, StoreInv, Buffered
  <2>6. PaddingInv' /\ DaemonEndsForAReason'
    BY <2>1, <2>4 DEF PrototypeInv, PaddingInv, DaemonEndsForAReason, Senders
  <2> QED
    BY <2>2, <2>3, <2>5, <2>6 DEF PrototypeInv
<1> QED
  BY <1>1, <1>2, <1>3 DEF Next

\* The invariant holds in every behaviour of the prototype.
THEOREM PrototypeInvHolds == Spec => []PrototypeInv
<1>1. Init => PrototypeInv
  BY InitPrototypeInv
<1>2. PrototypeInv /\ [Next]_vars => PrototypeInv'
  BY NextKeeps
<1> QED
  BY <1>1, <1>2, PTL DEF Spec

\* The variables keep their types, for any number of calls and slots.
THEOREM PrototypeTypeCorrect == Spec => []TypeOK
<1>1. PrototypeInv => TypeOK
  BY DEF PrototypeInv
<1> QED
  BY <1>1, PrototypeInvHolds, PTL

\* What a caller reads, or is denied, is decided by whether the block's secret is
\* sixteen zeros (the padding handleGetBlock receives), never by the secret the
\* caller names, however many callers and blocks there are.
THEOREM ThePaddingDecides == Spec => []PaddingInv
<1>1. PrototypeInv => PaddingInv
  BY DEF PrototypeInv
<1> QED
  BY <1>1, PrototypeInvHolds, PTL

\* Between two connections the daemon holds the data of its blocks and no
\* other buffer, whatever was refused before.
THEOREM RefusalsFreeTheirBuffer == Spec => []EveryBufferIsABlock
<1>1. PrototypeInv => EveryBufferIsABlock
  <2> SUFFICES ASSUME PrototypeInv, dpc = "accept" PROVE heap = Cardinality(Used)
    BY DEF EveryBufferIsABlock
  <2>1. heap = Cardinality(Used) + Buffered /\ ~data
    BY DEF PrototypeInv, StoreInv
  <2> QED
    BY <2>1, UsedIsFinite DEF Buffered
<1> QED
  BY <1>1, PrototypeInvHolds, PTL

\* The daemon ends only for a caller that left before its answer, or when at
\* least as many calls as it has descriptors have sent something.
THEOREM EndsForAReason == Spec => []DaemonEndsForAReason
<1>1. PrototypeInv => DaemonEndsForAReason
  BY DEF PrototypeInv
<1> QED
  BY <1>1, PrototypeInvHolds, PTL

-----------------------------------------------------------------------------
(***************************************************************************)
(* Who waits for whom.  A caller that waits has sent its whole request, so *)
(* the daemon never waits for it; and the daemon goes on from a connection *)
(* only when it has sent all that its caller waits for, or stored a block. *)
(***************************************************************************)
Stored(r) ==
  \E s \in Used : storage[s].ID = r.id /\ storage[s].secret = r.secret /\ storage[s].data = r.data

\* Nothing that call k may still wait for is missing.
Complete(k) ==
  /\ answer[k].code # NULL
  /\ req[k].op = "GET" /\ answer[k].code = "SUCCESS" =>
       answer[k].length # NULL /\ (answer[k].length = 0 \/ answer[k].data # NULL)

SettledInv == \A k \in Held :
  k # cur => Complete(k) \/ (req[k].op = "SEND" /\ answer[k] = NoAnswer /\ Stored(req[k]))

WaitingInv == \A k \in Calls :
  /\ cpc[k] \in {"response", "length", "data"} => sent[k] = FieldsSent(req[k])
  /\ cpc[k] \in {"length", "data"} => req[k].op = "GET" /\ answer[k].code = "SUCCESS"
  /\ cpc[k] = "data" => answer[k].length \notin {NULL, 0}

\* What a caller has been told stays as it was told.
LEMMA WaitingStep ==
  PrototypeInv /\ WaitingInv /\ [Next]_vars => WaitingInv'
<1> SUFFICES ASSUME PrototypeInv, WaitingInv, [Next]_vars PROVE WaitingInv'
  OBVIOUS
<1> USE DEF PrototypeInv
<1>1. ASSUME NEW k \in Calls, Caller(k) PROVE WaitingInv'
  <2>1. CASE Call(k)
    <3>1. UNCHANGED <<sent, answer>> /\ cpc'[k] \in {"send", "done"}
          /\ \A j \in Calls : j # k => cpc'[j] = cpc[j] /\ req'[j] = req[j]
      BY <2>1 DEF Call, connectDaemon, connectFails, Return, TypeOK, WireTypeOK
    <3> QED
      BY <3>1 DEF WaitingInv, FieldsSent
  <2>2. CASE LibraryStep(k) \/ Interrupt(k)
    <3>1. UNCHANGED <<req, answer>>
      BY <2>2 DEF LibraryStep, sendAllData, ReceiveResponse, ReceiveLength, ReceiveData,
                  Interrupt, WireStays
    <3>2. \A j \in Calls : j # k => cpc'[j] = cpc[j] /\ sent'[j] = sent[j]
      BY <2>2 DEF LibraryStep, sendAllData, ReceiveResponse, ReceiveLength, ReceiveData,
                  Interrupt, Return, GoOn, TypeOK, WireTypeOK
    <3>3. /\ cpc'[k] \in {"response", "length", "data"} => sent'[k] = FieldsSent(req[k])
          /\ cpc'[k] \in {"length", "data"} => req[k].op = "GET" /\ answer[k].code = "SUCCESS"
          /\ cpc'[k] = "data" => answer[k].length \notin {NULL, 0}
      <4>1. CASE cpc'[k] = "done"
        BY <4>1
      <4>2. CASE sendAllData(k) /\ cpc'[k] # "done"
        <5>1. /\ sent' = [sent EXCEPT ![k] = @ + 1]
              /\ GoOn(k, IF sent[k] + 1 = FieldsSent(req[k]) THEN "response" ELSE "send")
          BY <4>2 DEF sendAllData, Return, TypeOK
        <5>2. /\ sent'[k] = sent[k] + 1
              /\ cpc'[k] = IF sent[k] + 1 = FieldsSent(req[k]) THEN "response" ELSE "send"
          BY <5>1 DEF GoOn, TypeOK, WireTypeOK
        <5> QED
          BY <5>2
      <4>3. CASE ReceiveResponse(k) /\ cpc'[k] # "done"
        <5>1. req[k] \in Requests /\ cpc[k] = "response" /\ sent' = sent
          BY <4>3 DEF ReceiveResponse, CallInv
        <5>2. req[k].op # "SEND" /\ answer[k].code = "SUCCESS" /\ GoOn(k, "length")
          BY <4>3 DEF ReceiveResponse, Return, TypeOK
        <5>3. req[k].op = "GET" /\ cpc'[k] = "length"
          BY <5>1, <5>2, RequestFacts DEF GoOn, TypeOK
        <5> QED
          BY <5>1, <5>2, <5>3 DEF WaitingInv
      <4>4. CASE ReceiveLength(k) /\ cpc'[k] # "done"
        <5>1. cpc[k] = "length" /\ sent' = sent
          BY <4>4 DEF ReceiveLength
        <5>2. answer[k].length \notin {NULL, 0}
          BY <4>4 DEF ReceiveLength, Return, TypeOK
        <5> QED
          BY <5>1, <5>2 DEF WaitingInv
      <4>5. (ReceiveData(k) \/ Interrupt(k)) => cpc'[k] = "done"
        BY DEF ReceiveData, Interrupt, Return, TypeOK
      <4> QED
        BY <2>2, <4>1, <4>2, <4>3, <4>4, <4>5 DEF LibraryStep
    <3> QED
      BY <3>1, <3>2, <3>3 DEF WaitingInv, FieldsSent
  <2> QED
    BY <1>1, <2>1, <2>2 DEF Caller
<1>2. CASE Server
  <2>1. UNCHANGED <<req, sent, cpc>>
    BY <1>2 DEF Server, callerVars
  <2>2. \A k \in Calls : answer'[k] = answer[k]
                         \/ (k = cur /\ dpc = "request" /\ answer[k] = NoAnswer)
                         \/ (k = cur /\ dpc = "length" /\ answer'[k].code = answer[k].code)
                         \/ (k = cur /\ dpc = "data" /\ answer'[k].code = answer[k].code
                              /\ answer'[k].length = answer[k].length)
    <3>1. answer \in [Calls -> Answers]
      BY DEF TypeOK, WireTypeOK
    <3>2. CASE Handle
      <4>1. \A code : Respond(code) => answer' = answer \/ answer' = [answer EXCEPT ![cur].code = code]
        BY DEF Respond, Die
      <4>2. answer' = answer \/ \E code : answer' = [answer EXCEPT ![cur].code = code]
        BY <3>2, <4>1 DEF Handle, handleSendBlock, handleGetBlock, StoreBlock, Grant, Die
      <4>3. dpc = "request" /\ answer[cur] = NoAnswer
        BY <3>2 DEF Handle, ServingInv
      <4> QED
        BY <3>1, <4>2, <4>3
    <3>3. CASE SendLength
      <4>1. dpc = "length" /\ (answer' = answer \/ \E n : answer' = [answer EXCEPT ![cur].length = n])
        BY <3>3 DEF SendLength, Die
      <4> QED
        BY <3>1, <4>1 DEF Answers
    <3>4. CASE SendData
      <4>1. dpc = "data" /\ (answer' = answer \/ \E d : answer' = [answer EXCEPT ![cur].data = d])
        BY <3>4 DEF SendData, Die
      <4> QED
        BY <3>1, <4>1 DEF Answers
    <3>5. Accept \/ AcceptFails \/ ReceiveOpcode \/ ReceiveField \/ ReceiveFails => answer' = answer
      BY DEF Accept, AcceptFails, ReceiveOpcode, ReceiveField, ReceiveFails, Die
    <3> QED
      BY <1>2, <3>2, <3>3, <3>4, <3>5 DEF Server, DaemonStep
  <2>3. NoAnswer.code # "SUCCESS"
    BY NullFacts DEF NoAnswer, Codes
  <2>4. dpc = "length" => answer[cur].length = NULL
    BY DEF ServingInv
  <2> QED
    BY <2>1, <2>2, <2>3, <2>4 DEF WaitingInv, FieldsSent
<1>3. CASE UNCHANGED vars
  BY <1>3 DEF WaitingInv, FieldsSent, vars, wireVars
<1> QED
  BY <1>1, <1>2, <1>3 DEF Next

\* The daemon has gone on from call c, or not; what it settled before stays so.
LEMMA SettledGoesOn ==
  ASSUME NEW c, c = cur, PrototypeInv, SettledInv, UNCHANGED <<req, backlog, serverEnd>>,
         \A j \in Calls : j # cur => answer'[j] = answer[j],
         \A s \in Used : s \in Used' /\ storage'[s] = storage[s],
         \/ cur' = cur
         \/ cur = NULL
         \/ Complete(c)'
         \/ (req[c].op = "SEND" /\ answer'[c] = NoAnswer /\ Stored(req[c])')
  PROVE  SettledInv'
<1> SUFFICES ASSUME NEW k \in Held', k # cur'
             PROVE  Complete(k)' \/ (req[k].op = "SEND" /\ answer'[k] = NoAnswer /\ Stored(req[k])')
  BY DEF SettledInv, Stored
<1>1. k \in Held /\ k \in Calls
  BY DEF Held
<1>2. CASE k = cur
  <2>1. cur' # cur /\ cur # NULL
    BY <1>1, <1>2, NullFacts
  <2> QED
    BY <1>2, <2>1
<1>3. CASE k # cur
  <2>1. Stored(req[k]) => Stored(req[k])'
    BY DEF Stored
  <2>2. Complete(k) => Complete(k)'
    BY <1>1, <1>3 DEF Complete
  <2> QED
    BY <1>1, <1>3, <2>1, <2>2 DEF SettledInv
<1> QED
  BY <1>2, <1>3

\* The handler has refused, stored or granted.
LEMMA HandleSettles ==
  ASSUME NEW c, c = cur, PrototypeInv, SettledInv, Handle, UNCHANGED callerVars, dpc' # "dead"
  PROVE  SettledInv'
<1> USE DEF PrototypeInv
<1>1. /\ cur \in Calls /\ req[cur] \in Requests /\ dpc = "request" /\ answer \in [Calls -> Answers]
      /\ UNCHANGED <<req, sent, cpc>>
  BY ServedRequest DEF Handle, callerVars
<1>2. ASSUME NEW code \in Codes \ {"SUCCESS"}, Respond(code) PROVE SettledInv'
  <2>1. /\ answer' = [answer EXCEPT ![cur].code = code]
        /\ UNCHANGED <<req, backlog, serverEnd, storage>>
    BY <1>1, <1>2 DEF Respond, Die
  <2>2. answer'[cur].code = code /\ \A j \in Calls : j # cur => answer'[j] = answer[j]
    BY <1>1, <2>1 DEF Answers
  <2>3. Complete(c)'
    <3>1. answer'[c].code \notin {NULL, "SUCCESS"}
      BY <2>2, NullFacts
    <3> QED
      BY <3>1 DEF Complete
  <2> QED
    BY <2>1, <2>2, <2>3, LookupStays, SettledGoesOn
<1>3. CASE StoreBlock(req[cur]) /\ data /\ ~Known(req[cur].id) /\ Used # Slots /\ req[cur].op = "SEND"
  <2>1. findFreeBlockIndx \in Slots \ Used
    <3>1. Slots \ Used # {} /\ Slots \ Used \subseteq Slots
      BY <1>3 DEF Used
    <3>2. \E s \in Slots \ Used : \A t \in Slots \ Used : s <= t
      BY <3>1, SlotsHaveLeast
    <3> QED
      BY <3>2 DEF findFreeBlockIndx
  <2>2. /\ UNCHANGED <<req, backlog, serverEnd, answer>>
        /\ storage' = [storage EXCEPT ![findFreeBlockIndx] =
             [is_used |-> TRUE, ID |-> req[cur].id, secret |-> req[cur].secret, data |-> req[cur].data]]
    BY <1>1, <1>3 DEF StoreBlock
  <2>3. storage \in [Slots -> DataBlock]
    BY DEF TypeOK
  <2> DEFINE free == findFreeBlockIndx
  <2> HIDE DEF free
  <2>4. /\ storage'[free] = [is_used |-> TRUE, ID |-> req[cur].id, secret |-> req[cur].secret,
                             data |-> req[cur].data]
        /\ free \in Slots /\ \A s \in Slots : s # free => storage'[s] = storage[s]
    BY <2>1, <2>2, <2>3 DEF free
  <2>5. free \in Used' /\ \A s \in Used : s \in Used' /\ storage'[s] = storage[s]
    BY <2>1, <2>4 DEF Used, free
  <2>6. Stored(req[c])'
    BY <2>2, <2>4, <2>5 DEF Stored
  <2>7. answer'[c] = NoAnswer
    BY <1>1, <2>2 DEF ServingInv
  <2> QED
    BY <1>3, <2>2, <2>5, <2>6, <2>7, SettledGoesOn
<1>4. CASE Grant
  <2>1. /\ cur' = cur /\ answer' = [answer EXCEPT ![cur].code = "SUCCESS"]
        /\ UNCHANGED <<req, backlog, serverEnd, storage>>
    BY <1>1, <1>4 DEF Grant, Die
  <2>2. \A j \in Calls : j # cur => answer'[j] = answer[j]
    BY <1>1, <2>1
  <2> QED
    BY <2>1, <2>2, LookupStays, SettledGoesOn
<1>5. {"FAIL", "ALREADY_EXISTS", "NOT_FOUND", "ACCESS_DENIED"} \subseteq Codes \ {"SUCCESS"}
  BY DEF Codes
<1> QED
  BY <1>1, <1>2, <1>3, <1>4, <1>5 DEF Handle, handleSendBlock, handleGetBlock

\* Whatever the daemon turns from is settled.
LEMMA DaemonSettles ==
  ASSUME NEW c, c = cur, PrototypeInv, SettledInv, Server
  PROVE  SettledInv'
<1> USE DEF PrototypeInv
<1>1. UNCHANGED callerVars /\ UNCHANGED <<req, sent, cpc>> /\ DaemonStep
  BY DEF Server, callerVars
<1>2. CASE Die
  <2>1. Held' = {}
    BY <1>2 DEF Die, Held
  <2> QED
    BY <2>1 DEF SettledInv
<1>3. CASE Accept
  <2>1. /\ dpc = "accept" /\ cur' = Head(backlog) /\ backlog' = Tail(backlog) /\ backlog # <<>>
        /\ UNCHANGED <<req, answer, serverEnd, storage>>
    BY <1>1, <1>3 DEF Accept
  <2>2. backlog \in Seq(Calls)
    BY DEF TypeOK, WireTypeOK
  <2>3. \A i \in DOMAIN backlog : i = 1 \/ (i - 1 \in DOMAIN backlog' /\ backlog'[i - 1] = backlog[i])
    BY <2>1, <2>2
  <2>4. \A k \in Held' : k # cur' => k \in Held /\ k # cur /\ k \in Calls
    BY <2>1, <2>2, <2>3, NullFacts DEF Held, ServingInv
  <2>5. \A r : Stored(r)' <=> Stored(r)
    BY <2>1, LookupStays DEF Stored
  <2>6. \A k \in Calls : Complete(k)' <=> Complete(k)
    BY <2>1 DEF Complete
  <2> QED
    BY <2>1, <2>4, <2>5, <2>6 DEF SettledInv
<1>4. CASE ReceiveOpcode
  <2>1. UNCHANGED <<req, answer, backlog, storage>> /\ cur \in Calls /\ dpc = "opcode"
    BY <1>1, <1>4 DEF ReceiveOpcode, ServingInv
  <2>2. CASE UNCHANGED <<serverEnd, cur>>
    BY <2>1, <2>2, LookupStays, SettledGoesOn
  <2>3. CASE serverEnd' = [serverEnd EXCEPT ![cur] = "closed"]
    <3>1. \A k \in Held' : k \in Held /\ k # cur /\ k \in Calls
      BY <2>1, <2>3 DEF Held, TypeOK, WireTypeOK
    <3>2. \A r : Stored(r)' <=> Stored(r)
      BY <2>1, LookupStays DEF Stored
    <3>3. \A k \in Calls : Complete(k)' <=> Complete(k)
      BY <2>1 DEF Complete
    <3> QED
      BY <2>1, <3>1, <3>2, <3>3 DEF SettledInv
  <2> QED
    BY <1>4, <2>2, <2>3 DEF ReceiveOpcode
<1>5. CASE ReceiveField
  <2>1. UNCHANGED <<req, answer, backlog, serverEnd, cur, storage>>
    BY <1>1, <1>5 DEF ReceiveField
  <2> QED
    BY <2>1, LookupStays, SettledGoesOn
<1>6. CASE Handle
  <2>1. CASE dpc' = "dead"
    <3>1. Die
      BY <1>6, <2>1 DEF Handle, handleSendBlock, handleGetBlock, Respond, StoreBlock, Grant, NextConnection
    <3> QED
      BY <1>2, <3>1
  <2> QED
    BY <1>1, <1>6, <2>1, HandleSettles
<1>7. CASE SendLength /\ ~Die
  <2> DEFINE n == Bytes[Block(req[cur]).data]
  <2>1. /\ dpc = "length" /\ answer' = [answer EXCEPT ![cur].length = n]
        /\ IF n = 0 THEN NextConnection ELSE cur' = cur
        /\ UNCHANGED <<req, backlog, serverEnd, storage>>
    BY <1>1, <1>7 DEF SendLength
  <2>2. cur \in Calls /\ answer \in [Calls -> Answers] /\ answer[cur].code = "SUCCESS"
    BY <2>1, ServedRequest DEF ServingInv
  <2> HIDE DEF n
  <2>3. /\ answer'[cur].length = n /\ answer'[cur].code = "SUCCESS"
        /\ \A j \in Calls : j # cur => answer'[j] = answer[j]
    BY <2>1, <2>2 DEF Answers
  <2>4. CASE n = 0
    <3>1. Complete(c)'
      BY <2>3, <2>4, NullFacts DEF Complete, Codes
    <3> QED
      BY <2>1, <2>3, <3>1, LookupStays, SettledGoesOn
  <2>5. CASE n # 0
    BY <2>1, <2>3, <2>5, LookupStays, SettledGoesOn
  <2> QED
    BY <2>4, <2>5
<1>8. CASE SendData /\ ~Die
  <2> DEFINE d == [src |-> Block(req[cur]).data, from |-> 0, len |-> Bytes[Block(req[cur]).data]]
  <2>1. /\ dpc = "data" /\ answer' = [answer EXCEPT ![cur].data = d]
        /\ UNCHANGED <<req, backlog, serverEnd, storage>>
    BY <1>1, <1>8 DEF SendData
  <2>2. /\ cur \in Calls /\ answer \in [Calls -> Answers]
        /\ answer[cur].code = "SUCCESS" /\ answer[cur].length \notin {NULL, 0} /\ Known(req[cur].id)
    BY <2>1, ServedRequest DEF ServingInv
  <2>3. d \in Snippets
    BY <2>2, BlockHasData DEF Snippets
  <2>4. d # NULL
    BY <2>3, AnswersAssumption
  <2> HIDE DEF d
  <2>5. /\ answer'[cur].data = d /\ answer'[cur].code = "SUCCESS" /\ answer'[cur].length # NULL
        /\ \A j \in Calls : j # cur => answer'[j] = answer[j]
    BY <2>1, <2>2 DEF Answers
  <2>6. Complete(c)'
    BY <2>4, <2>5, NullFacts DEF Complete, Codes
  <2> QED
    BY <2>1, <2>5, <2>6, LookupStays, SettledGoesOn
<1> QED
  BY <1>1, <1>2, <1>3, <1>4, <1>5, <1>6, <1>7, <1>8 DEF DaemonStep, AcceptFails, ReceiveFails

\* Callers change nothing of what the daemon has settled.
LEMMA SettledStep ==
  PrototypeInv /\ SettledInv /\ [Next]_vars => SettledInv'
<1> SUFFICES ASSUME PrototypeInv, SettledInv, [Next]_vars PROVE SettledInv'
  OBVIOUS
<1> USE DEF PrototypeInv
<1>1. ASSUME NEW k \in Calls, Caller(k) PROVE SettledInv'
  <2>1. UNCHANGED <<cur, storage>>
    BY <1>1 DEF Caller, daemonVars
  <2>2. CASE Call(k)
    <3>1. cpc[k] = "idle" /\ answer' = answer /\ \A j \in Calls : j # k => req'[j] = req[j]
      BY <2>2 DEF Call, TypeOK, WireTypeOK
    <3>2. \A j \in Held' : j \in Held /\ j # k /\ j \in Calls
      <4> SUFFICES ASSUME NEW j \in Held' PROVE j \in Held /\ j # k /\ j \in Calls
        OBVIOUS
      <4>1. j \in Calls /\ serverEnd'[j] = "open" /\ \A i \in DOMAIN backlog' : backlog'[i] # j
        BY DEF Held
      <4>2. backlog \in Seq(Calls) /\ serverEnd[k] = "none"
        BY <3>1 DEF TypeOK, WireTypeOK, CallInv
      <4>3. CASE connectDaemon(k)
        <5>1. backlog' = Append(backlog, k) /\ serverEnd' = [serverEnd EXCEPT ![k] = "open"]
          BY <4>3 DEF connectDaemon
        <5>2. Len(backlog) + 1 \in DOMAIN backlog' /\ backlog'[Len(backlog) + 1] = k
              /\ \A i \in DOMAIN backlog : i \in DOMAIN backlog' /\ backlog'[i] = backlog[i]
          BY <4>2, <5>1
        <5>3. j # k
          BY <4>1, <5>2
        <5> QED
          BY <4>1, <5>1, <5>2, <5>3 DEF Held, TypeOK, WireTypeOK
      <4>4. CASE connectFails(k)
        BY <4>1, <4>2, <4>4 DEF connectFails, Held
      <4> QED
        BY <2>2, <4>3, <4>4 DEF Call
    <3>3. \A r : Stored(r)' <=> Stored(r)
      BY <2>1, LookupStays DEF Stored
    <3>4. \A j \in Calls : j # k => (Complete(j)' <=> Complete(j))
      BY <3>1 DEF Complete
    <3> QED
      BY <2>1, <3>1, <3>2, <3>3, <3>4 DEF SettledInv
  <2>3. CASE LibraryStep(k) \/ Interrupt(k)
    <3>1. UNCHANGED <<req, answer, backlog, serverEnd>>
      BY <2>3 DEF LibraryStep, sendAllData, ReceiveResponse, ReceiveLength, ReceiveData,
                  Interrupt, WireStays
    <3> QED
      BY <2>1, <3>1, LookupStays, SettledGoesOn
  <2> QED
    BY <1>1, <2>2, <2>3 DEF Caller
<1>2. CASE UNCHANGED vars
  <2>1. UNCHANGED <<req, answer, backlog, serverEnd, cur, storage>>
    BY <1>2 DEF vars, wireVars, daemonVars
  <2> QED
    BY <2>1, LookupStays, SettledGoesOn
<1> QED
  BY <1>1, <1>2, DaemonSettles DEF Next

\* On an accepted connection nobody waits for a daemon that waits for him or has
\* turned to others, but for a caller whose block was stored (daemon.c of the
\* prototype, 203-214), however many callers and descriptors there are.
THEOREM OnlyAStoreForgets == Spec => []OnlyStoredCallsAreForgotten
<1> DEFINE Inv == PrototypeInv /\ WaitingInv /\ SettledInv
<1>1. Init => Inv
  <2>1. Init => WaitingInv /\ SettledInv
    BY DEF Init, WireInit, WaitingInv, SettledInv, Held
  <2> QED
    BY <2>1, InitPrototypeInv
<1>2. Inv /\ [Next]_vars => Inv'
  BY NextKeeps, WaitingStep, SettledStep
<1>3. Inv => OnlyStoredCallsAreForgotten
  <2> SUFFICES ASSUME PrototypeInv, WaitingInv, SettledInv, NEW k \in Held, Blocked(k)
               PROVE  (k = cur /\ ~DaemonBlocked) \/ StoredUnanswered(k)
    BY DEF OnlyStoredCallsAreForgotten
  <2>1. k \in Calls /\ cpc[k] \in {"response", "length", "data"} /\ req[k] \in Requests
    BY DEF Held, Blocked, PrototypeInv, CallInv
  <2>2. CASE k = cur
    <3>1. sent[cur] = FieldsSent(req[cur]) /\ req[cur].op \in {"SEND", "GET"}
      BY <2>1, <2>2, RequestFacts DEF WaitingInv
    <3>2. sent[cur] >= Wanted(req[cur]) /\ sent[cur] > 0
      BY <3>1 DEF FieldsSent, Wanted, DataLengthRead
    <3>3. got \in Nat /\ Wanted(req[cur]) \in Nat /\ sent[cur] \in Nat
      BY <3>1 DEF PrototypeInv, TypeOK, Wanted, DataLengthRead, FieldsSent
    <3>4. ~DaemonBlocked
      BY <3>2, <3>3 DEF DaemonBlocked
    <3> QED
      BY <2>2, <3>4
  <2>3. CASE k # cur
    <3>1. ~Complete(k)
      BY <2>1 DEF Blocked, Complete, WaitingInv
    <3>2. req[k].op = "SEND" /\ answer[k] = NoAnswer /\ Stored(req[k])
      BY <2>3, <3>1 DEF SettledInv
    <3> QED
      BY <2>3, <3>2 DEF StoredUnanswered, Stored
  <2> QED
    BY <2>2, <2>3
<1> QED
  BY <1>1, <1>2, <1>3, PTL DEF Spec
=============================================================================
