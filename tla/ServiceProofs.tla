--------------------------- MODULE ServiceProofs ---------------------------
(***************************************************************************)
(* Proofs about Service, for any number of calls, IDs, secrets, payloads,  *)
(* buffers and slots.  ServiceInv is shown to be inductive: first facts    *)
(* about requests, the chain and lookup, then the steps of callers, then   *)
(* those of the daemon.                                                    *)
(***************************************************************************)
EXTENDS Service, TLAPS

\* What a request's fields range over.
LEMMA RequestFields ==
  ASSUME NEW r \in Requests
  PROVE  /\ r.op \in AllOps
         /\ r.id \in IDs
         /\ r.secret \in Secrets
         /\ CarriesData(r) => r.data \in Payloads /\ Bytes[r.data] \in Nat
         /\ r.op = "PARTIAL_GET" => r.begin \in Nat /\ r.length \in Nat
<1>1. CASE r \in [op : Ops \cap {"SEND", "UPDATE"}, id : IDs, secret : Secrets, data : Payloads]
  BY <1>1, ConstantsAssumption DEF AllOps
<1>2. CASE r \in [op : Ops \cap {"GET"}, id : IDs, secret : Secrets, size : BufferSizes]
  BY <1>2, ConstantsAssumption DEF AllOps, CarriesData
<1>3. CASE r \in [op : Ops \cap {"PARTIAL_GET"}, id : IDs, secret : Secrets,
                   begin : Begins, length : Lengths]
  BY <1>3, ConstantsAssumption DEF AllOps, CarriesData
<1> QED
  BY <1>1, <1>2, <1>3 DEF Requests

\* NULL is no call and no request is NULL's: a record has a field op.
LEMMA NullFacts ==
  /\ NULL \notin Calls
  /\ NULL \notin Buffers
  /\ NULL \notin Codes
  /\ NULL \notin Nat
BY ConstantsAssumption, DaemonAssumption

(***************************************************************************)
(* Lookup (the while loops from head): under unique IDs the first match is *)
(* the only one.                                                           *)
(***************************************************************************)
LEMMA FoundIsLinked ==
  ASSUME DaemonTypeOK, UniqueIDs, NEW id, Known(id)
  PROVE  /\ Found(id) \in Slots
         /\ storage[Found(id)].ID = id
         /\ \E i \in DOMAIN chain : chain[i] = Found(id)
<1> DEFINE m == CHOOSE i \in Holding(id) : \A j \in Holding(id) : i <= j
<1>1. PICK n \in Holding(id) : TRUE
  BY DEF Known
<1>2. n \in DOMAIN chain /\ n \in Nat
  BY <1>1 DEF Holding, DaemonTypeOK
<1>3. \A j \in Holding(id) : j = n
  BY <1>1 DEF Holding, UniqueIDs
<1>4. \A j \in Holding(id) : n <= j
  BY <1>2, <1>3
<1>5. m \in Holding(id)
  BY <1>1, <1>4
<1>6. Found(id) = chain[m]
  BY DEF Found
<1> HIDE DEF m
<1>7. m \in DOMAIN chain /\ storage[chain[m]].ID = id
  BY <1>5 DEF Holding
<1>8. chain[m] \in Slots
  BY <1>7 DEF DaemonTypeOK
<1> QED
  BY <1>6, <1>7, <1>8

\* The first unused slot is the one after those in use.
LEMMA FirstFreeIsNext ==
  ASSUME DaemonTypeOK, StorageInv, FreeSlots # {}
  PROVE  /\ FirstFree = Len(chain)
         /\ FirstFree \in Slots
         /\ Len(chain) \in Nat
<1>1. Len(chain) \in Nat
  BY DEF DaemonTypeOK
<1>2. \A s \in FreeSlots : s \in Slots /\ s \in Int /\ Len(chain) <= s
  BY <1>1, DaemonAssumption DEF FreeSlots, StorageInv, Slots
<1>3. Len(chain) \in FreeSlots
  BY <1>1, <1>2, DaemonAssumption DEF FreeSlots, StorageInv, Slots
<1>4. \A s \in FreeSlots : (\A t \in FreeSlots : s <= t) => s = Len(chain)
  BY <1>1, <1>2, <1>3
<1> QED
  BY <1>1, <1>2, <1>3, <1>4 DEF FirstFree

\* A slice sent to a caller has a length and an offset that are numbers, and
\* comes from memory.
LEMMA SliceType ==
  ASSUME DaemonTypeOK, UniqueIDs, StorageInv,
         NEW r \in Requests, ReadGranted(r)
  PROVE  Slice(r) \in Snippets
<1> DEFINE b == storage[Found(r.id)]
<1>1. Found(r.id) \in Slots /\ \E i \in DOMAIN chain : chain[i] = Found(r.id)
  BY FoundIsLinked DEF ReadGranted
<1>2. storage[Found(r.id)].used
  BY <1>1, DaemonAssumption DEF StorageInv, DaemonTypeOK, Slots
<1>3. b.data \in Buffers /\ b.data_length \in Nat
  BY <1>1, <1>2 DEF StorageInv, DaemonTypeOK, DataBlock
<1>4. mem[b.data] \in Payloads \cup {Junk}
  BY <1>3 DEF DaemonTypeOK
<1>5. CASE r.op = "GET"
  BY <1>3, <1>4, <1>5 DEF Slice, Snippets
<1>6. CASE r.op = "PARTIAL_GET"
  <2>1. r.begin \in Nat /\ r.length \in Nat /\ r.begin < b.data_length
    BY <1>6, RequestFields DEF ReadGranted, BeginsInside
  <2>2. Adjusted(r.begin, r.length, b.data_length) \in Nat
    BY <2>1, <1>3 DEF Adjusted
  <2> QED
    BY <1>4, <1>6, <2>1, <2>2 DEF Slice, Snippets
<1> QED
  BY <1>5, <1>6 DEF ReadGranted

-----------------------------------------------------------------------------
(***************************************************************************)
(* Initially the invariant holds.                                          *)
(***************************************************************************)
LEMMA InitServiceInv == Init => ServiceInv
<1> SUFFICES ASSUME Init PROVE ServiceInv
  OBVIOUS
<1> USE DEF Init, WireInit, LibraryInit, DaemonInit
<1>1. WireTypeOK
  BY DEF WireTypeOK, Answers, NoAnswer, Ends
<1>2. LibraryTypeOK
  BY DEF LibraryTypeOK, Results
<1>3. DaemonTypeOK
  BY DEF DaemonTypeOK, DataBlock, NoBlock
<1>4. CallerInv /\ ServingInv /\ UniqueIDs
  BY DEF CallerInv, ServingInv, UniqueIDs
<1>5. StorageInv
  BY DaemonAssumption DEF StorageInv, NoBlock, Slots
<1>6. SuccessMeansKeyed /\ NoDescriptorLeak
  BY NullFacts DEF SuccessMeansKeyed, NoDescriptorLeak, NoAnswer, Codes
<1> QED
  BY <1>1, <1>2, <1>3, <1>4, <1>5, <1>6 DEF ServiceInv, TypeOK

(***************************************************************************)
(* The steps of callers.  They touch nothing of the daemon's.              *)
(***************************************************************************)
LEMMA DaemonUntouched ==
  ASSUME UNCHANGED daemonVars
  PROVE  /\ DaemonTypeOK' <=> DaemonTypeOK
         /\ StorageInv' <=> StorageInv
         /\ UniqueIDs' <=> UniqueIDs
         /\ Linked' = Linked
<1> USE DEF daemonVars
<1>1. DaemonTypeOK' <=> DaemonTypeOK
  BY DEF DaemonTypeOK
<1>2. StorageInv' <=> StorageInv
  BY DEF StorageInv
<1>3. UniqueIDs' <=> UniqueIDs
  BY DEF UniqueIDs
<1>4. Linked' = Linked
  BY DEF Linked
<1> QED
  BY <1>1, <1>2, <1>3, <1>4

\* A granted read stays granted while the blocks stay as they are.
LEMMA GrantUntouched ==
  ASSUME UNCHANGED <<storage, chain>>, req'[cur'] = req[cur]
  PROVE  ReadGranted(req[cur])' <=> ReadGranted(req[cur])
BY DEF ReadGranted, Known, Holding, SecretMatches, BeginsInside, Found

\* connectDaemon(), with either outcome.
LEMMA CallStep ==
  ASSUME ServiceInv, NEW k \in Calls, Call(k), UNCHANGED daemonVars
  PROVE  ServiceInv'
<1>1. PICK r \in Requests : req' = [req EXCEPT ![k] = r]
  BY DEF Call
<1>2. cpc[k] = "idle" /\ answer' = answer /\ sent' = sent /\ listening' = listening
  BY DEF Call
<1>3. ConnectSucceeds(k) \/ ConnectFails(k)
  BY DEF Call
<1> USE DEF ServiceInv, TypeOK
<1>4. DaemonTypeOK' /\ StorageInv' /\ UniqueIDs' /\ Linked' = Linked
  BY DaemonUntouched
<1>5. WireTypeOK'
  <2>1. req' \in [Calls -> Requests \cup {NULL}]
    BY <1>1 DEF WireTypeOK
  <2>2. backlog' \in Seq(Calls)
    BY <1>3 DEF WireTypeOK, ConnectSucceeds, ConnectFails
  <2>3. clientEnd' \in [Calls -> Ends] /\ serverEnd' \in [Calls -> Ends]
    BY <1>3 DEF WireTypeOK, Ends, ConnectSucceeds, ConnectFails, Return
  <2> QED
    BY <2>1, <2>2, <2>3, <1>2 DEF WireTypeOK
<1>6. LibraryTypeOK'
  BY <1>3 DEF LibraryTypeOK, Results, Codes, ConnectSucceeds, ConnectFails, Return
<1>7. cpc' \in [Calls -> {"idle", "send", "response", "length", "data", "done"}]
  BY <1>6 DEF LibraryTypeOK
<1>8. /\ cpc'[k] # "idle"
      /\ \A j \in Calls : j # k => cpc'[j] = cpc[j] /\ req'[j] = req[j] /\ serverEnd'[j] = serverEnd[j]
  BY <1>1, <1>3 DEF LibraryTypeOK, WireTypeOK, ConnectSucceeds, ConnectFails, Return
<1>9. req[k] = NULL /\ sent[k] = 0 /\ answer[k] = NoAnswer /\ serverEnd[k] = "none"
  BY <1>2 DEF CallerInv
<1>10. req'[k] = r /\ Fields(r) \in Nat \ {0}
  BY <1>1 DEF WireTypeOK, Fields
<1>11. CallerInv'
  <2> SUFFICES ASSUME NEW j \in Calls
               PROVE  /\ cpc'[j] = "idle" =>
                           /\ req'[j] = NULL /\ sent'[j] = 0
                           /\ answer'[j] = NoAnswer /\ serverEnd'[j] = "none"
                      /\ cpc'[j] # "idle" => req'[j] \in Requests
                      /\ cpc'[j] = "send" => sent'[j] < Fields(req'[j])
    BY DEF CallerInv, Fields
  <2>1. CASE j = k
    BY <2>1, <1>2, <1>8, <1>9, <1>10
  <2>2. CASE j # k
    BY <2>2, <1>2, <1>8 DEF CallerInv
  <2> QED
    BY <2>1, <2>2
<1>12. \A i \in DOMAIN backlog' : backlog'[i] = k \/ (i \in DOMAIN backlog /\ backlog'[i] = backlog[i])
  <2>1. CASE ConnectSucceeds(k)
    <3>1. backlog' = Append(backlog, k) /\ backlog \in Seq(Calls)
      BY <2>1 DEF ConnectSucceeds, WireTypeOK
    <3> QED
      BY <3>1
  <2>2. CASE ConnectFails(k)
    BY <2>2 DEF ConnectFails
  <2> QED
    BY <1>3, <2>1, <2>2
<1>13. ServingInv'
  <2>1. \A i \in DOMAIN backlog' : cpc'[backlog'[i]] # "idle"
    <3> SUFFICES ASSUME NEW i \in DOMAIN backlog' PROVE cpc'[backlog'[i]] # "idle"
      OBVIOUS
    <3>1. CASE backlog'[i] = k
      BY <3>1, <1>8
    <3>2. CASE backlog'[i] # k
      <4>1. i \in DOMAIN backlog /\ backlog'[i] = backlog[i] /\ backlog[i] \in Calls
        BY <3>2, <1>12 DEF WireTypeOK
      <4> QED
        BY <4>1, <3>2, <1>8 DEF ServingInv
    <3> QED
      BY <3>1, <3>2
  <2>2. dpc \notin {"accept", "dead"} => cur # k
    BY <1>2 DEF ServingInv
  <2>3. dpc' = dpc /\ cur' = cur
    BY DEF daemonVars
  <2>4. /\ dpc' \in {"accept", "dead"} => cur' = NULL
        /\ dpc' \notin {"accept", "dead"} => cur' \in Calls /\ cpc'[cur'] # "idle"
    BY <2>2, <2>3, <1>8 DEF ServingInv
  <2>5. dpc' \in {"length", "data"} => ReadGranted(req[cur])'
    <3> SUFFICES ASSUME dpc \in {"length", "data"} PROVE ReadGranted(req[cur])'
      BY <2>3
    <3>1. req'[cur'] = req[cur] /\ ReadGranted(req[cur])
      BY <2>2, <2>3, <1>8 DEF ServingInv
    <3> QED
      BY <3>1, GrantUntouched DEF daemonVars
  <2> QED
    BY <2>1, <2>4, <2>5 DEF ServingInv
<1>14. SuccessMeansKeyed'
  <2> SUFFICES ASSUME NEW j \in Calls, answer[j].code = "SUCCESS", dpc # "dead"
               PROVE  \E b \in Linked : b.ID = req'[j].id /\ b.secret = req'[j].secret
    BY <1>2, <1>4 DEF SuccessMeansKeyed, daemonVars
  <2>1. j # k
    BY <1>9, NullFacts DEF NoAnswer, Codes
  <2> QED
    BY <2>1, <1>8 DEF SuccessMeansKeyed
<1>15. NoDescriptorLeak'
  <2> SUFFICES ASSUME NEW j \in Calls, serverEnd'[j] = "open"
               PROVE  j = cur \/ \E i \in DOMAIN backlog' : backlog'[i] = j
    BY DEF NoDescriptorLeak, daemonVars
  <2>1. CASE j = k
    <3>1. ConnectSucceeds(k)
      BY <2>1, <1>3, <1>9 DEF ConnectFails
    <3>2. backlog' = Append(backlog, k) /\ backlog \in Seq(Calls)
      BY <3>1 DEF ConnectSucceeds, WireTypeOK
    <3>3. Len(backlog) + 1 \in DOMAIN backlog' /\ backlog'[Len(backlog) + 1] = k
      BY <3>2
    <3> QED
      BY <2>1, <3>3
  <2>2. CASE j # k
    <3>1. j = cur \/ \E i \in DOMAIN backlog : backlog[i] = j
      BY <2>2, <1>8 DEF NoDescriptorLeak
    <3>2. \A i \in DOMAIN backlog : i \in DOMAIN backlog' /\ backlog'[i] = backlog[i]
      BY <1>3 DEF ConnectSucceeds, ConnectFails, WireTypeOK
    <3> QED
      BY <3>1, <3>2
  <2> QED
    BY <2>1, <2>2
<1> QED
  BY <1>4, <1>5, <1>6, <1>11, <1>13, <1>14, <1>15 DEF ServiceInv, TypeOK

\* Sending a field, receiving, failing, and being killed.
LEMMA LibraryStepStep ==
  ASSUME ServiceInv, NEW k \in Calls, LibraryStep(k) \/ Interrupt(k), UNCHANGED daemonVars
  PROVE  ServiceInv'
<1> USE DEF ServiceInv, TypeOK
<1>1. UNCHANGED <<req, answer, listening, backlog, serverEnd>>
  BY DEF LibraryStep, SendField, SendFails, ReceiveResponse, ReceiveLength,
         ReceiveData, Interrupt, UnchangedByReading
<1>2. DaemonTypeOK' /\ StorageInv' /\ UniqueIDs' /\ Linked' = Linked
  BY DaemonUntouched
<1>3. cpc[k] # "idle"
  BY DEF LibraryStep, SendField, SendFails, ReceiveResponse, ReceiveLength,
         ReceiveData, Interrupt
<1>4. req[k] \in Requests /\ Fields(req[k]) \in {3, 5}
  BY <1>3 DEF CallerInv, Fields
<1> DEFINE Effect ==
      /\ WireTypeOK' /\ LibraryTypeOK'
      /\ cpc'[k] # "idle" /\ (cpc'[k] = "send" => sent'[k] < Fields(req[k]))
      /\ \A j \in Calls : j # k => cpc'[j] = cpc[j] /\ sent'[j] = sent[j]
<1>5. ASSUME SendField(k) PROVE Effect
  <2>1. sent[k] < Fields(req[k]) /\ sent[k] \in 0 .. 5
    BY <1>5 DEF SendField, CallerInv, WireTypeOK
  <2>2. sent' = [sent EXCEPT ![k] = @ + 1] /\ sent'[k] = sent[k] + 1 /\ sent'[k] \in 0 .. 5
    BY <1>4, <1>5, <2>1 DEF SendField, WireTypeOK
  <2>3. sent' \in [Calls -> 0 .. 5]
    BY <2>2 DEF WireTypeOK
  <2>4. /\ cpc' = [cpc EXCEPT ![k] = IF sent[k] + 1 = Fields(req[k]) THEN "response" ELSE "send"]
        /\ UNCHANGED <<ret, clientEnd>>
    BY <1>5 DEF SendField, GoOn
  <2>5. WireTypeOK' /\ LibraryTypeOK'
    BY <1>1, <2>3, <2>4 DEF WireTypeOK, LibraryTypeOK
  <2>6. cpc'[k] # "idle" /\ (cpc'[k] = "send" => sent'[k] < Fields(req[k]))
    BY <1>4, <2>1, <2>2, <2>4 DEF LibraryTypeOK
  <2>7. \A j \in Calls : j # k => cpc'[j] = cpc[j] /\ sent'[j] = sent[j]
    BY <2>2, <2>4 DEF LibraryTypeOK, WireTypeOK
  <2> QED
    BY <2>5, <2>6, <2>7
<1>6. ASSUME ~SendField(k) PROVE Effect
  <2>1. /\ sent' = sent
        /\ \/ \E v \in Results : Return(k, v)
           \/ \E pc \in {"length", "data"} : GoOn(k, pc)
    <3>1. CASE SendFails(k)
      BY <3>1 DEF SendFails, Results, Codes
    <3>2. CASE ReceiveResponse(k)
      <4>1. answer[k].code \in Codes \cup {NULL}
        BY DEF WireTypeOK, Answers
      <4> QED
        BY <3>2, <4>1 DEF ReceiveResponse, Results, Codes, UnchangedByReading
    <3>3. CASE ReceiveLength(k)
      BY <3>3 DEF ReceiveLength, Results, Codes, UnchangedByReading
    <3>4. CASE ReceiveData(k)
      BY <3>4 DEF ReceiveData, Results, Codes, UnchangedByReading
    <3>5. CASE Interrupt(k)
      BY <3>5 DEF Interrupt, Results, UnchangedByReading
    <3> QED
      BY <1>6, <3>1, <3>2, <3>3, <3>4, <3>5 DEF LibraryStep
  <2>2. /\ cpc' \in [Calls -> {"idle", "send", "response", "length", "data", "done"}]
        /\ ret' \in [Calls -> Results]
        /\ clientEnd' \in [Calls -> Ends]
    BY <2>1 DEF WireTypeOK, LibraryTypeOK, Ends, Return, GoOn
  <2>3. WireTypeOK' /\ LibraryTypeOK'
    BY <1>1, <2>1, <2>2 DEF WireTypeOK, LibraryTypeOK
  <2>4. cpc'[k] \notin {"idle", "send"} /\ \A j \in Calls : j # k => cpc'[j] = cpc[j]
    BY <2>1 DEF LibraryTypeOK, Return, GoOn
  <2> QED
    BY <2>1, <2>3, <2>4
<1>7. Effect
  BY <1>5, <1>6
<1>8. CallerInv'
  <2> SUFFICES ASSUME NEW j \in Calls
               PROVE  /\ cpc'[j] = "idle" =>
                           /\ req'[j] = NULL /\ sent'[j] = 0
                           /\ answer'[j] = NoAnswer /\ serverEnd'[j] = "none"
                      /\ cpc'[j] # "idle" => req'[j] \in Requests
                      /\ cpc'[j] = "send" => sent'[j] < Fields(req'[j])
    BY DEF CallerInv, Fields
  <2>1. CASE j = k
    BY <2>1, <1>1, <1>4, <1>7
  <2>2. CASE j # k
    BY <2>2, <1>1, <1>7 DEF CallerInv
  <2> QED
    BY <2>1, <2>2
<1>9. ServingInv'
  <2>1. \A j \in Calls : cpc[j] # "idle" => cpc'[j] # "idle"
    BY <1>7
  <2>2. \A i \in DOMAIN backlog' : cpc'[backlog'[i]] # "idle"
    BY <1>1, <2>1 DEF ServingInv, WireTypeOK
  <2>3. dpc' = dpc /\ cur' = cur
    BY DEF daemonVars
  <2>4. /\ dpc' \in {"accept", "dead"} => cur' = NULL
        /\ dpc' \notin {"accept", "dead"} => cur' \in Calls /\ cpc'[cur'] # "idle"
    BY <2>1, <2>3 DEF ServingInv
  <2>5. dpc' \in {"length", "data"} => ReadGranted(req[cur])'
    BY <1>1, <2>3, GrantUntouched DEF ServingInv, daemonVars
  <2> QED
    BY <2>2, <2>4, <2>5 DEF ServingInv
<1>10. SuccessMeansKeyed'
  BY <1>1, <1>2 DEF SuccessMeansKeyed, daemonVars
<1>11. NoDescriptorLeak'
  BY <1>1 DEF NoDescriptorLeak, daemonVars
<1> QED
  BY <1>2, <1>7, <1>8, <1>9, <1>10, <1>11

-----------------------------------------------------------------------------
(***************************************************************************)
(* The steps of the daemon.                                                *)
(***************************************************************************)
\* The end of the process closes every descriptor and forgets every block.
LEMMA DieStep ==
  ASSUME ServiceInv, Die, CallersStay
  PROVE  ServiceInv'
<1> USE DEF ServiceInv, TypeOK, Die
<1>1. UNCHANGED <<req, sent, answer, clientEnd, cpc, ret>>
  BY DEF CallersStay, libraryVars
<1>2. serverEnd' \in [Calls -> Ends] /\ \A j \in Calls : serverEnd'[j] # "open"
  BY DEF WireTypeOK, Ends
<1>3. WireTypeOK' /\ LibraryTypeOK'
  <2>1. listening' = FALSE /\ backlog' = <<>>
    OBVIOUS
  <2> HIDE DEF Die
  <2>2. <<>> \in Seq(Calls)
    OBVIOUS
  <2> QED
    BY <1>1, <1>2, <2>1, <2>2 DEF WireTypeOK, LibraryTypeOK
<1>4. DaemonTypeOK'
  BY DEF DaemonTypeOK, DataBlock, NoBlock
<1>5. CallerInv'
  BY <1>1 DEF CallerInv, WireTypeOK, Fields
<1>6. ServingInv' /\ UniqueIDs' /\ SuccessMeansKeyed'
  BY DEF ServingInv, UniqueIDs, SuccessMeansKeyed
<1>7. StorageInv'
  BY DaemonAssumption DEF StorageInv, NoBlock, Slots
<1>8. NoDescriptorLeak'
  BY <1>2 DEF NoDescriptorLeak
<1> QED
  BY <1>3, <1>4, <1>5, <1>6, <1>7, <1>8

\* What is left to show of a step that serves the current call and keeps its
\* connection.
LEMMA ServeStep ==
  ASSUME ServiceInv, CallersStay, Stay, dpc \notin {"accept", "dead"}, dpc' # "dead",
         answer' \in [Calls -> Answers],
         \A j \in Calls : j # cur => answer'[j] = answer[j],
         dpc' # "accept", DaemonTypeOK', StorageInv', UniqueIDs',
         \A b \in Linked : \E c \in Linked' : c.ID = b.ID /\ c.secret = b.secret,
         answer'[cur].code = "SUCCESS" =>
           \/ answer[cur].code = "SUCCESS"
           \/ \E c \in Linked' : c.ID = req[cur].id /\ c.secret = req[cur].secret,
         dpc' \in {"length", "data"} => ReadGranted(req[cur])'
  PROVE  ServiceInv'
<1> USE DEF ServiceInv, TypeOK, Stay
<1>1. UNCHANGED <<req, sent, clientEnd, cpc, ret>>
  BY DEF CallersStay, libraryVars
<1>2. cur \in Calls /\ cpc[cur] # "idle"
  BY DEF ServingInv
<1>3. WireTypeOK' /\ LibraryTypeOK'
  BY <1>1 DEF WireTypeOK, LibraryTypeOK
<1>4. CallerInv'
  BY <1>1, <1>2 DEF CallerInv, Fields
<1>5. ServingInv'
  BY <1>1, <1>2 DEF ServingInv
<1>6. SuccessMeansKeyed'
  <2> SUFFICES ASSUME NEW j \in Calls, answer'[j].code = "SUCCESS"
               PROVE  \E c \in Linked' : c.ID = req[j].id /\ c.secret = req[j].secret
    BY <1>1 DEF SuccessMeansKeyed
  <2>1. CASE answer[j].code = "SUCCESS"
    BY <2>1 DEF SuccessMeansKeyed
  <2>2. CASE answer[j].code # "SUCCESS"
    BY <2>2
  <2> QED
    BY <2>1, <2>2
<1>7. NoDescriptorLeak'
  BY DEF NoDescriptorLeak
<1> QED
  BY <1>3, <1>4, <1>5, <1>6, <1>7

\* accept().
LEMMA AcceptStep ==
  ASSUME ServiceInv, Accept, CallersStay
  PROVE  ServiceInv'
<1> USE DEF ServiceInv, TypeOK
<1>1. UNCHANGED <<req, sent, answer, listening, serverEnd, clientEnd, cpc, ret, got, n_data, heapVars>>
  BY DEF Accept, CallersStay, libraryVars
<1>2. backlog \in Seq(Calls) /\ backlog # <<>> /\ cur' = Head(backlog) /\ backlog' = Tail(backlog)
  BY DEF Accept, WireTypeOK
<1>3. /\ Head(backlog) \in Calls /\ Head(backlog) = backlog[1] /\ 1 \in DOMAIN backlog
      /\ Tail(backlog) \in Seq(Calls)
      /\ Len(Tail(backlog)) = Len(backlog) - 1
      /\ \A i \in DOMAIN Tail(backlog) : i + 1 \in DOMAIN backlog /\ Tail(backlog)[i] = backlog[i + 1]
  BY <1>2
<1>4. WireTypeOK' /\ LibraryTypeOK'
  BY <1>1, <1>2, <1>3 DEF WireTypeOK, LibraryTypeOK
<1>5. dpc = "accept" /\ dpc' = "opcode"
  BY DEF Accept
<1>6. DaemonTypeOK'
  BY <1>1, <1>2, <1>3, <1>5 DEF DaemonTypeOK, heapVars
<1>7. CallerInv'
  BY <1>1 DEF CallerInv, Fields
<1>8. ServingInv'
  BY <1>1, <1>2, <1>3, <1>5 DEF ServingInv
<1>9. StorageInv' /\ UniqueIDs' /\ Linked' = Linked
  BY <1>1 DEF StorageInv, UniqueIDs, Linked, heapVars
<1>10. SuccessMeansKeyed'
  BY <1>1, <1>5, <1>9 DEF SuccessMeansKeyed
<1>11. NoDescriptorLeak'
  <2> SUFFICES ASSUME NEW j \in Calls, serverEnd[j] = "open", j # cur'
               PROVE  \E i \in DOMAIN backlog' : backlog'[i] = j
    BY <1>1 DEF NoDescriptorLeak
  <2>1. j # cur
    BY <1>5, NullFacts DEF ServingInv
  <2>2. PICK i \in DOMAIN backlog : backlog[i] = j
    BY <2>1 DEF NoDescriptorLeak
  <2>3. i # 1 /\ i \in 1 .. Len(backlog)
    BY <1>2, <1>3, <2>2
  <2>4. i - 1 \in DOMAIN backlog' /\ backlog'[i - 1] = j
    BY <1>2, <1>3, <2>2, <2>3
  <2> QED
    BY <2>4
<1> QED
  BY <1>4, <1>6, <1>7, <1>8, <1>9, <1>10, <1>11

\* close(client_sock).
LEMMA CloseStep ==
  ASSUME ServiceInv, CloseConnection, CallersStay
  PROVE  ServiceInv'
<1> USE DEF ServiceInv, TypeOK
<1>1. /\ UNCHANGED <<req, sent, answer, listening, backlog, clientEnd, cpc, ret>>
      /\ UNCHANGED <<storage, chain, live, mem>>
  BY DEF CloseConnection, CallersStay, libraryVars, heapVars
<1>2. /\ dpc = "close" /\ dpc' = "accept" /\ cur' = NULL /\ got' = 0 /\ n_data' = NULL
      /\ serverEnd' = [serverEnd EXCEPT ![cur] = "closed"]
  BY DEF CloseConnection
<1>3. cur \in Calls /\ cpc[cur] # "idle"
  BY <1>2 DEF ServingInv
<1>4. WireTypeOK' /\ LibraryTypeOK'
  BY <1>1, <1>2 DEF WireTypeOK, LibraryTypeOK, Ends
<1>5. DaemonTypeOK'
  BY <1>1, <1>2 DEF DaemonTypeOK
<1>6. CallerInv'
  BY <1>1, <1>2, <1>3 DEF CallerInv, Fields, WireTypeOK
<1>7. ServingInv'
  BY <1>1, <1>2 DEF ServingInv
<1>8. StorageInv' /\ UniqueIDs' /\ SuccessMeansKeyed'
  BY <1>1, <1>2 DEF StorageInv, UniqueIDs, SuccessMeansKeyed, Linked
<1>9. NoDescriptorLeak'
  BY <1>1, <1>2, <1>3 DEF NoDescriptorLeak, WireTypeOK
<1> QED
  BY <1>4, <1>5, <1>6, <1>7, <1>8, <1>9

(***************************************************************************)
(* Steps that leave the array and the chain alone keep what is said of     *)
(* them.                                                                   *)
(***************************************************************************)
LEMMA ChainUntouched ==
  ASSUME StorageInv, UniqueIDs, UNCHANGED <<storage, chain>>
  PROVE  /\ StorageInv' /\ UniqueIDs'
         /\ \A b \in Linked : \E c \in Linked' : c.ID = b.ID /\ c.secret = b.secret
BY DEF StorageInv, UniqueIDs, Linked

\* A block whose secret matches makes a SUCCESS keyed.
LEMMA KnownIsLinked ==
  ASSUME DaemonTypeOK, UniqueIDs, NEW r, Known(r.id), SecretMatches(r)
  PROVE  \E c \in Linked : c.ID = r.id /\ c.secret = r.secret
BY FoundIsLinked DEF SecretMatches, Linked

\* recv() of the opcode.
LEMMA ReceiveOpcodeStep ==
  ASSUME ServiceInv, ReceiveOpcode, CallersStay
  PROVE  ServiceInv'
<1> USE DEF ServiceInv, TypeOK
<1>1. /\ dpc = "opcode" /\ dpc' \in {"request", "close"} /\ got' \in 0 .. 5
      /\ UNCHANGED <<answer, n_data, storage, chain, live, mem>> /\ Stay
  BY DEF ReceiveOpcode, heapVars, DaemonTypeOK
<1>2. DaemonTypeOK'
  BY <1>1 DEF DaemonTypeOK, Stay
<1>3. WireTypeOK
  OBVIOUS
<1> QED
  BY <1>1, <1>2, <1>3, ChainUntouched, ServeStep DEF WireTypeOK

\* recv() of a field, of data_length with malloc(), and of the data.
LEMMA ReceiveStep ==
  ASSUME ServiceInv, ReceiveField \/ ReceiveDataLength \/ ReceivePayload, CallersStay
  PROVE  ServiceInv'
<1> USE DEF ServiceInv, TypeOK
<1>1. /\ dpc = "request" /\ dpc' = "request"
      /\ UNCHANGED <<answer, storage, chain>> /\ Stay
  BY DEF ReceiveField, ReceiveDataLength, ReceivePayload, Receiving, heapVars
<1>2. cur \in Calls /\ req[cur] \in Requests
  BY <1>1 DEF ServingInv, CallerInv
<1>3. got < 5 /\ got \in 0 .. 5
  BY <1>2 DEF ReceiveField, ReceiveDataLength, ReceivePayload, Receiving, Wanted, Fields,
              SecretRead, DataLengthRead, DaemonTypeOK
<1>4. /\ got' \in 0 .. 5
      /\ n_data' \in Buffers \cup {NULL}
      /\ live' \subseteq Buffers
      /\ mem' \in [Buffers -> Payloads \cup {Junk}]
  <2>1. CASE ReceiveField
    BY <1>3, <2>1 DEF ReceiveField, heapVars, DaemonTypeOK
  <2>2. CASE ReceiveDataLength
    BY <2>2 DEF ReceiveDataLength, DataLengthRead, DaemonTypeOK
  <2>3. CASE ReceivePayload
    <3>1. req[cur].data \in Payloads
      BY <1>2, <2>3, RequestFields DEF ReceivePayload
    <3>2. got' \in 0 .. 5 /\ mem' = [mem EXCEPT ![n_data] = req[cur].data]
      BY <1>3, <2>3 DEF ReceivePayload
    <3>3. mem' \in [Buffers -> Payloads \cup {Junk}]
      BY <3>1, <3>2 DEF DaemonTypeOK
    <3> QED
      BY <2>3, <3>2, <3>3 DEF ReceivePayload, DaemonTypeOK
  <2> QED
    BY <2>1, <2>2, <2>3
<1>5. DaemonTypeOK'
  BY <1>1, <1>4 DEF DaemonTypeOK, Stay
<1> QED
  BY <1>1, <1>5, ChainUntouched, ServeStep DEF WireTypeOK

\* respond(), whatever was freed before it.
LEMMA RespondStep ==
  ASSUME ServiceInv, CallersStay, dpc = "request",
         NEW code \in Codes, NEW pc \in {"close", "length"}, Respond(code, pc),
         UNCHANGED <<storage, chain>>,
         live' \subseteq Buffers,
         mem' \in [Buffers -> Payloads \cup {Junk}],
         code = "SUCCESS" => Known(req[cur].id) /\ SecretMatches(req[cur]),
         pc = "length" => ReadGranted(req[cur])
  PROVE  ServiceInv'
<1> USE DEF ServiceInv, TypeOK
<1>1. /\ answer' = [answer EXCEPT ![cur].code = code] /\ dpc' = pc
      /\ UNCHANGED <<got, n_data>> /\ Stay
  BY DEF Respond
<1>2. UNCHANGED <<req, cur>> /\ cur \in Calls
  BY <1>1 DEF CallersStay, Stay, ServingInv
<1>3. answer' \in [Calls -> Answers] /\ answer'[cur].code = code
  BY <1>1, <1>2 DEF WireTypeOK, Answers
<1>4. DaemonTypeOK'
  BY <1>1 DEF DaemonTypeOK, Stay
<1>5. code = "SUCCESS" => \E c \in Linked' : c.ID = req[cur].id /\ c.secret = req[cur].secret
  BY KnownIsLinked DEF Linked
<1>6. dpc' \in {"length", "data"} => ReadGranted(req[cur])'
  BY <1>1, <1>2, GrantUntouched
<1>7. \A j \in Calls : j # cur => answer'[j] = answer[j]
  BY <1>1 DEF WireTypeOK
<1> QED
  BY <1>1, <1>3, <1>4, <1>5, <1>6, <1>7, ChainUntouched, ServeStep

\* free() keeps the types of the heap.
LEMMA FreedType ==
  ASSUME DaemonTypeOK, NEW S, Freed(S)
  PROVE  live' \subseteq Buffers /\ mem' \in [Buffers -> Payloads \cup {Junk}]
BY DEF DaemonTypeOK, Freed

\* A new block at the head of the chain (lines 275-296).
LEMMA StoreBlockStep ==
  ASSUME ServiceInv, CallersStay, dpc = "request",
         req[cur].op = "SEND", n_data # NULL, ~Known(req[cur].id), StoreBlock(req[cur])
  PROVE  ServiceInv'
<1> USE DEF ServiceInv, TypeOK
<1> DEFINE n == Len(chain)
           r == req[cur]
           new == [used |-> TRUE, ID |-> r.id, secret |-> r.secret,
                   data |-> n_data, data_length |-> Bytes[r.data]]
<1>1. FirstFree = n /\ n \in Slots /\ n \in Nat
  BY FirstFreeIsNext DEF StoreBlock
<1>2. /\ storage' = [storage EXCEPT ![n] = new]
      /\ chain' = <<n>> \o chain
      /\ answer' = [answer EXCEPT ![cur].code = "SUCCESS"] /\ dpc' = "close"
      /\ UNCHANGED <<got, n_data, live, mem>> /\ Stay
  BY <1>1 DEF StoreBlock, Respond
<1>3. cur \in Calls /\ r \in Requests
  BY DEF ServingInv, CallerInv
<1>4. new \in DataBlock
  BY <1>3, RequestFields DEF DataBlock, DaemonTypeOK, CarriesData
<1>5. chain \in Seq(Slots)
  BY DEF DaemonTypeOK
<1>6. /\ chain' \in Seq(Slots)
      /\ Len(chain') = n + 1
      /\ chain'[1] = n
      /\ \A i \in DOMAIN chain' : i # 1 => i - 1 \in DOMAIN chain /\ chain'[i] = chain[i - 1]
      /\ \A i \in DOMAIN chain : i + 1 \in DOMAIN chain' /\ chain'[i + 1] = chain[i]
  BY <1>1, <1>2, <1>5
<1>7. \A i \in DOMAIN chain : chain[i] \in Slots /\ chain[i] # n
  BY <1>1, <1>5 DEF StorageInv
<1>8. storage'[n] = new /\ \A s \in Slots : s # n => storage'[s] = storage[s]
  BY <1>1, <1>2 DEF DaemonTypeOK
<1> HIDE DEF n, r, new
<1>9. DaemonTypeOK'
  <2>1. storage' \in [Slots -> DataBlock]
    BY <1>2, <1>4 DEF DaemonTypeOK
  <2> QED
    BY <1>2, <1>6, <2>1 DEF DaemonTypeOK, Stay
<1>10. StorageInv'
  <2>1. Len(chain') <= MAX_STORAGE
    BY <1>1, <1>6, DaemonAssumption DEF Slots
  <2>2. \A i \in DOMAIN chain' : chain'[i] = Len(chain') - i
    <3> SUFFICES ASSUME NEW i \in DOMAIN chain' PROVE chain'[i] = Len(chain') - i
      OBVIOUS
    <3>1. CASE i = 1
      BY <1>1, <1>6, <3>1
    <3>2. CASE i # 1
      <4>1. i - 1 \in DOMAIN chain /\ chain'[i] = chain[i - 1] /\ i \in Nat
        BY <1>6, <3>2
      <4>2. chain[i - 1] = n - (i - 1)
        BY <4>1 DEF StorageInv, n
      <4> QED
        BY <1>1, <1>6, <4>1, <4>2
    <3> QED
      BY <3>1, <3>2
  <2>3. \A s \in Slots : (storage'[s].used <=> s < n + 1)
    <3> SUFFICES ASSUME NEW s \in Slots PROVE storage'[s].used <=> s < n + 1
      OBVIOUS
    <3>1. CASE s = n
      BY <1>1, <1>8, <3>1 DEF new
    <3>2. CASE s # n
      BY <1>1, <1>8, <3>2, DaemonAssumption DEF StorageInv, Slots, n
    <3> QED
      BY <3>1, <3>2
  <2>4. \A s \in Slots : storage'[s].used => storage'[s].data \in Buffers
    <3> SUFFICES ASSUME NEW s \in Slots, storage'[s].used PROVE storage'[s].data \in Buffers
      OBVIOUS
    <3>1. CASE s = n
      BY <1>8, <3>1 DEF new, DaemonTypeOK
    <3>2. CASE s # n
      BY <1>8, <3>2 DEF StorageInv
    <3> QED
      BY <3>1, <3>2
  <2> QED
    BY <1>6, <2>1, <2>2, <2>3, <2>4 DEF StorageInv
<1>11. UniqueIDs'
  <2> DEFINE id(i) == storage'[chain'[i]].ID
  <2>1. id(1) = r.id
    BY <1>6, <1>8 DEF new
  <2>2. \A i \in DOMAIN chain' : i # 1 =>
          i - 1 \in DOMAIN chain /\ id(i) = storage[chain[i - 1]].ID
    BY <1>6, <1>7, <1>8
  <2>3. \A i \in DOMAIN chain : storage[chain[i]].ID # r.id
    BY DEF Known, Holding, r
  <2> SUFFICES ASSUME NEW i \in DOMAIN chain', NEW j \in DOMAIN chain', id(i) = id(j)
               PROVE  i = j
    BY DEF UniqueIDs
  <2>4. i \in Nat /\ j \in Nat
    BY <1>6
  <2> HIDE DEF id
  <2>5. CASE i = 1 \/ j = 1
    BY <2>1, <2>2, <2>3, <2>5
  <2>6. CASE i # 1 /\ j # 1
    <3>1. i - 1 = j - 1
      BY <2>2, <2>6 DEF UniqueIDs
    <3> QED
      BY <2>4, <3>1
  <2> QED
    BY <2>5, <2>6
<1>12. \A b \in Linked : \E c \in Linked' : c.ID = b.ID /\ c.secret = b.secret
  BY <1>6, <1>7, <1>8 DEF Linked
<1>13. \E c \in Linked' : c.ID = req[cur].id /\ c.secret = req[cur].secret
  <2>1. new \in Linked'
    BY <1>1, <1>6, <1>8 DEF Linked
  <2> QED
    BY <2>1 DEF new, r
<1>14. answer' \in [Calls -> Answers] /\ \A j \in Calls : j # cur => answer'[j] = answer[j]
  BY <1>2, <1>3 DEF WireTypeOK, Answers, Codes
<1> QED
  BY <1>2, <1>9, <1>10, <1>11, <1>12, <1>13, <1>14, ServeStep

\* New data for a block (lines 475-481): its ID, secret and slot stay.
LEMMA OverwriteBlockStep ==
  ASSUME ServiceInv, CallersStay, dpc = "request",
         req[cur].op = "UPDATE", n_data # NULL, OverwriteBlock(req[cur])
  PROVE  ServiceInv'
<1> USE DEF ServiceInv, TypeOK
<1> DEFINE r == req[cur]
           s == Found(r.id)
           old == storage[s].data
<1>1. CASE Die
  BY <1>1, DieStep
<1>2. CASE ~Die
  <2>1. /\ Known(r.id) /\ SecretMatches(r)
        /\ storage' = [storage EXCEPT ![s].data = n_data, ![s].data_length = Bytes[r.data]]
        /\ Freed({old, n_data})
        /\ chain' = chain
        /\ answer' = [answer EXCEPT ![cur].code = "SUCCESS"] /\ dpc' = "close"
        /\ UNCHANGED <<got, n_data>> /\ Stay
    BY <1>2 DEF OverwriteBlock, Respond
  <2>2. cur \in Calls /\ r \in Requests
    BY DEF ServingInv, CallerInv
  <2>3. s \in Slots
    BY <2>1, FoundIsLinked
  <2>4. n_data \in Buffers /\ Bytes[r.data] \in Nat
    BY <2>2, RequestFields DEF DaemonTypeOK, CarriesData
  <2>5. live' \subseteq Buffers /\ mem' \in [Buffers -> Payloads \cup {Junk}]
    BY <2>1, FreedType
  <2> HIDE DEF s, r, old
  <2>6. storage' \in [Slots -> DataBlock]
    <3>1. storage \in [Slots -> DataBlock]
      BY DEF DaemonTypeOK
    <3>2. storage[s] \in DataBlock
      BY <2>3, <3>1
    <3>3. [storage[s] EXCEPT !.data = n_data, !.data_length = Bytes[r.data]] \in DataBlock
      BY <2>4, <3>2 DEF DataBlock
    <3>4. storage' = [storage EXCEPT ![s] =
                        [storage[s] EXCEPT !.data = n_data, !.data_length = Bytes[r.data]]]
      BY <2>1, <2>3, <3>1
    <3> QED
      BY <2>3, <3>1, <3>3, <3>4
  <2>7. \A t \in Slots : /\ storage'[t].used = storage[t].used
                         /\ storage'[t].ID = storage[t].ID
                         /\ storage'[t].secret = storage[t].secret
                         /\ storage'[t].data \in {storage[t].data, n_data}
    BY <2>1, <2>3 DEF DaemonTypeOK, DataBlock
  <2>8. DaemonTypeOK'
    BY <2>1, <2>5, <2>6 DEF DaemonTypeOK, Stay
  <2>9. StorageInv'
    BY <2>1, <2>4, <2>7 DEF StorageInv
  <2>10. \A i \in DOMAIN chain : chain[i] \in Slots
    BY DEF DaemonTypeOK
  <2>11. UniqueIDs'
    BY <2>1, <2>7, <2>10 DEF UniqueIDs
  <2>12. \A b \in Linked : \E c \in Linked' : c.ID = b.ID /\ c.secret = b.secret
    <3> SUFFICES ASSUME NEW i \in DOMAIN chain
                 PROVE  \E c \in Linked' : /\ c.ID = storage[chain[i]].ID
                                          /\ c.secret = storage[chain[i]].secret
      BY DEF Linked
    <3>1. storage'[chain[i]] \in Linked'
      BY <2>1 DEF Linked
    <3> QED
      BY <2>7, <2>10, <3>1
  <2>13. \E b \in Linked : b.ID = req[cur].id /\ b.secret = req[cur].secret
    BY <2>1, KnownIsLinked DEF r
  <2>14. answer' \in [Calls -> Answers] /\ \A j \in Calls : j # cur => answer'[j] = answer[j]
    BY <2>1, <2>2 DEF WireTypeOK, Answers, Codes
  <2> QED
    BY <2>1, <2>8, <2>9, <2>11, <2>12, <2>13, <2>14, ServeStep
<1> QED
  BY <1>1, <1>2

\* The four handlers.
LEMMA HandleStep ==
  ASSUME ServiceInv, Handle, CallersStay
  PROVE  ServiceInv'
<1> USE DEF ServiceInv, TypeOK
<1> DEFINE r == req[cur]
<1>1. dpc = "request"
  BY DEF Handle
<1>2. CASE ClientGone /\ Die
  BY <1>2, DieStep
<1>3. /\ live \subseteq Buffers /\ mem \in [Buffers -> Payloads \cup {Junk}]
      /\ "ALREADY_EXISTS" \in Codes /\ "ACCESS_DENIED" \in Codes /\ "NOT_FOUND" \in Codes
      /\ "FAIL" \in Codes /\ "SUCCESS" \in Codes
  BY DEF DaemonTypeOK, Codes
<1>4. ASSUME RefuseData(r) PROVE ServiceInv'
  BY <1>1, <1>3, <1>4, FreedType, RespondStep DEF RefuseData
<1>5. CASE handleSendBlock(r)
  <2>1. CASE /\ Respond(IF SecretMatches(r) THEN "ALREADY_EXISTS" ELSE "ACCESS_DENIED", "close")
             /\ UNCHANGED heapVars
    <3>1. CASE SecretMatches(r)
      BY <1>1, <1>3, <2>1, <3>1, RespondStep DEF heapVars
    <3>2. CASE ~SecretMatches(r)
      BY <1>1, <1>3, <2>1, <3>2, RespondStep DEF heapVars
    <3> QED
      BY <3>1, <3>2
  <2>2. CASE RefuseData(r)
    BY <1>4, <2>2
  <2>3. CASE StoreFull
    BY <1>1, <1>3, <2>3, RespondStep DEF StoreFull, heapVars
  <2>4. CASE ~Known(r.id) /\ n_data # NULL /\ StoreBlock(r)
    BY <1>1, <1>5, <2>4, StoreBlockStep DEF handleSendBlock
  <2> QED
    BY <1>5, <2>1, <2>2, <2>3, <2>4 DEF handleSendBlock
<1>6. CASE handleGetBlock(r)
  <2>1. UNCHANGED heapVars
    BY <1>6 DEF handleGetBlock
  <2>2. CASE Respond("NOT_FOUND", "close")
    BY <1>1, <1>3, <2>1, <2>2, RespondStep DEF heapVars
  <2>3. CASE Respond("ACCESS_DENIED", "close")
    BY <1>1, <1>3, <2>1, <2>3, RespondStep DEF heapVars
  <2>4. CASE Known(r.id) /\ SecretMatches(r) /\ Respond("SUCCESS", "length")
    <3>1. ReadGranted(r)
      BY <1>6, <2>4 DEF handleGetBlock, ReadGranted
    <3> QED
      BY <1>1, <1>3, <2>1, <2>4, <3>1, RespondStep DEF heapVars
  <2> QED
    BY <1>6, <2>2, <2>3, <2>4 DEF handleGetBlock
<1>7. CASE handlePartialGetBlock(r)
  <2>1. UNCHANGED heapVars
    BY <1>7 DEF handlePartialGetBlock
  <2>2. CASE Respond("NOT_FOUND", "close")
    BY <1>1, <1>3, <2>1, <2>2, RespondStep DEF heapVars
  <2>3. CASE Respond("ACCESS_DENIED", "close")
    BY <1>1, <1>3, <2>1, <2>3, RespondStep DEF heapVars
  <2>4. CASE Respond("FAIL", "close")
    BY <1>1, <1>3, <2>1, <2>4, RespondStep DEF heapVars
  <2>5. CASE Known(r.id) /\ SecretMatches(r) /\ BeginsInside(r) /\ Respond("SUCCESS", "length")
    <3>1. ReadGranted(r)
      BY <1>7, <2>5 DEF handlePartialGetBlock, ReadGranted
    <3> QED
      BY <1>1, <1>3, <2>1, <2>5, <3>1, RespondStep DEF heapVars
  <2> QED
    BY <1>7, <2>2, <2>3, <2>4, <2>5 DEF handlePartialGetBlock
<1>8. CASE handleOverwriteBlock(r)
  <2>1. CASE RefuseData(r)
    BY <1>4, <2>1
  <2>2. CASE Respond("NOT_FOUND", "close") /\ UNCHANGED heapVars
    BY <1>1, <1>3, <2>2, RespondStep DEF heapVars
  <2>3. CASE Freed({n_data}) /\ Respond("ACCESS_DENIED", "close") /\ UNCHANGED <<storage, chain>>
    BY <1>1, <1>3, <2>3, FreedType, RespondStep
  <2>4. CASE n_data # NULL /\ OverwriteBlock(r)
    BY <1>1, <1>8, <2>4, OverwriteBlockStep DEF handleOverwriteBlock
  <2> QED
    BY <1>8, <2>1, <2>2, <2>3, <2>4 DEF handleOverwriteBlock
<1> QED
  BY <1>2, <1>5, <1>6, <1>7, <1>8 DEF Handle

\* The length and the data of a read.
LEMMA SendStep ==
  ASSUME ServiceInv, SendLength \/ SendData, CallersStay
  PROVE  ServiceInv'
<1> USE DEF ServiceInv, TypeOK
<1>1. CASE Die
  BY <1>1, DieStep
<1>2. CASE ~Die
  <2>1. /\ dpc \in {"length", "data"} /\ dpc' \in {"data", "close"}
        /\ UNCHANGED <<got, n_data, storage, chain, live, mem>> /\ Stay
        /\ \/ answer' = [answer EXCEPT ![cur].length = Slice(req[cur]).len]
           \/ answer' = [answer EXCEPT ![cur].data = Slice(req[cur])]
           \/ answer' = answer
    BY <1>2 DEF SendLength, SendData, SendAllFails, heapVars
  <2>2. cur \in Calls /\ req[cur] \in Requests /\ ReadGranted(req[cur])
    BY <2>1 DEF ServingInv, CallerInv
  <2>3. Slice(req[cur]) \in Snippets
    BY <2>2, SliceType
  <2>4. Slice(req[cur]).len \in Nat
    BY <2>3 DEF Snippets
  <2>5. /\ answer' \in [Calls -> Answers]
        /\ \A j \in Calls : j # cur => answer'[j] = answer[j]
        /\ answer'[cur].code = answer[cur].code
    BY <2>1, <2>2, <2>3, <2>4 DEF WireTypeOK, Answers
  <2>6. DaemonTypeOK'
    BY <2>1 DEF DaemonTypeOK, Stay
  <2>7. req'[cur'] = req[cur]
    BY <2>1 DEF CallersStay, Stay
  <2>8. ReadGranted(req[cur])'
    BY <2>1, <2>2, <2>7, GrantUntouched
  <2> QED
    BY <2>1, <2>5, <2>6, <2>8, ChainUntouched, ServeStep
<1> QED
  BY <1>1, <1>2

-----------------------------------------------------------------------------
(***************************************************************************)
(* Theorems.                                                               *)
(***************************************************************************)
\* Every step of a caller or of the daemon keeps the invariant.
LEMMA NextKeepsServiceInv == ServiceInv /\ [Next]_vars => ServiceInv'
<1> SUFFICES ASSUME ServiceInv, [Next]_vars PROVE ServiceInv'
  OBVIOUS
<1>1. ASSUME NEW k \in Calls, Caller(k) PROVE ServiceInv'
  BY <1>1, CallStep, LibraryStepStep DEF Caller
<1>2. CASE Server
  <2>1. CallersStay
    BY <1>2 DEF Server
  <2>2. CASE Accept
    BY <2>1, <2>2, AcceptStep
  <2>3. CASE ReceiveOpcode
    BY <2>1, <2>3, ReceiveOpcodeStep
  <2>4. CASE ReceiveField \/ ReceiveDataLength \/ ReceivePayload
    BY <2>1, <2>4, ReceiveStep
  <2>5. CASE ReceiveFails
    BY <2>1, <2>5, DieStep DEF ReceiveFails
  <2>6. CASE Handle
    BY <2>1, <2>6, HandleStep
  <2>7. CASE SendLength \/ SendData
    BY <2>1, <2>7, SendStep, SMTT(30)
  <2>8. CASE CloseConnection
    BY <2>1, <2>8, CloseStep
  <2> QED
    BY <1>2, <2>2, <2>3, <2>4, <2>5, <2>6, <2>7, <2>8 DEF Server, DaemonStep
<1>3. CASE UNCHANGED vars
  <2>1. UNCHANGED daemonVars /\ UNCHANGED wireVars /\ UNCHANGED libraryVars
    BY <1>3 DEF vars
  <2> QED
    BY <2>1 DEF ServiceInv, TypeOK, WireTypeOK, LibraryTypeOK, DaemonTypeOK, CallerInv, Fields,
       ServingInv, ReadGranted, Known, Holding, SecretMatches, BeginsInside, Found, StorageInv,
       UniqueIDs, SuccessMeansKeyed, Linked, NoDescriptorLeak, wireVars, libraryVars, daemonVars
<1> QED
  BY <1>1, <1>2, <1>3 DEF Next, AllReturned

\* The invariant holds in every reachable state of the service.
THEOREM InvariantHolds == Spec => []ServiceInv
<1>1. Init => ServiceInv
  BY InitServiceInv
<1>2. ServiceInv /\ [Next]_vars => ServiceInv'
  BY NextKeepsServiceInv
<1> QED
  BY <1>1, <1>2, PTL DEF Spec

\* Every variable keeps its type.
THEOREM TypeCorrect == Spec => []TypeOK
<1>1. ServiceInv => TypeOK
  BY DEF ServiceInv
<1> QED
  BY <1>1, InvariantHolds, PTL

\* No two blocks ever have the same ID, whatever the clients interleave.
THEOREM IDsAreUnique == Spec => []UniqueIDs
<1>1. ServiceInv => UniqueIDs
  BY DEF ServiceInv
<1> QED
  BY <1>1, InvariantHolds, PTL

\* Nobody is answered SUCCESS without the secret of the block it named.
THEOREM AccessIsKeyed == Spec => []SuccessMeansKeyed
<1>1. ServiceInv => SuccessMeansKeyed
  BY DEF ServiceInv
<1> QED
  BY <1>1, InvariantHolds, PTL

\* The daemon holds no descriptor but that of the call it serves and those
\* of the calls still queued.
THEOREM DescriptorsAreClosed == Spec => []NoDescriptorLeak
<1>1. ServiceInv => NoDescriptorLeak
  BY DEF ServiceInv
<1> QED
  BY <1>1, InvariantHolds, PTL

\* An ID and a secret stay with their slot for as long as the daemon lives:
\* nothing a client sends takes a block over or away.
THEOREM KeysStay == Spec => BlocksKeepTheirKeys
<1> DEFINE Kept == \A s \in Slots : storage[s].used =>
                     /\ storage'[s].used
                     /\ storage'[s].ID = storage[s].ID
                     /\ storage'[s].secret = storage[s].secret
<1>1. ASSUME ServiceInv, [Next]_vars, dpc' # "dead" PROVE Kept
  <2>1. CASE storage' = storage
    BY <2>1
  <2>2. CASE Handle /\ StoreBlock(req[cur])
    <3>1. DaemonTypeOK /\ StorageInv
      BY <1>1 DEF ServiceInv, TypeOK
    <3>2. FirstFree = Len(chain) /\ FirstFree \in Slots /\ Len(chain) \in Nat
      BY <2>2, <3>1, FirstFreeIsNext DEF StoreBlock
    <3>3. ~storage[FirstFree].used
      BY <3>1, <3>2 DEF StorageInv
    <3>4. \A s \in Slots : s # FirstFree => storage'[s] = storage[s]
      BY <2>2, <3>1 DEF StoreBlock, DaemonTypeOK
    <3> QED
      BY <3>3, <3>4
  <2>3. CASE Handle /\ OverwriteBlock(req[cur])
    <3>1. DaemonTypeOK /\ UniqueIDs
      BY <1>1 DEF ServiceInv, TypeOK
    <3>2. Known(req[cur].id) /\ ~Die
      BY <1>1, <2>3 DEF OverwriteBlock, Die
    <3>3. Found(req[cur].id) \in Slots
      BY <3>1, <3>2, FoundIsLinked
    <3>4. storage' = [storage EXCEPT ![Found(req[cur].id)].data = n_data,
                                     ![Found(req[cur].id)].data_length = Bytes[req[cur].data]]
      BY <2>3, <3>2 DEF OverwriteBlock
    <3> HIDE DEF Found
    <3> QED
      BY <3>1, <3>3, <3>4 DEF DaemonTypeOK, DataBlock
  <2>4. \/ storage' = storage
        \/ Handle /\ StoreBlock(req[cur])
        \/ Handle /\ OverwriteBlock(req[cur])
    <3>1. ~Die
      BY <1>1 DEF Die
    <3>2. CASE Handle
      BY <3>1, <3>2 DEF Handle, handleSendBlock, handleGetBlock, handlePartialGetBlock,
         handleOverwriteBlock, RefuseData, StoreFull, heapVars
    <3>3. CASE Server /\ ~Handle
      BY <3>1, <3>3 DEF Server, DaemonStep, Accept, ReceiveOpcode, ReceiveField, ReceiveDataLength,
         ReceivePayload, ReceiveFails, SendLength, SendData, SendAllFails, CloseConnection, heapVars
    <3>4. CASE \E k \in Calls : Caller(k)
      BY <3>4 DEF Caller, daemonVars
    <3>5. CASE UNCHANGED vars
      BY <3>5 DEF vars, daemonVars
    <3> QED
      BY <1>1, <3>2, <3>3, <3>4, <3>5 DEF Next, AllReturned
  <2> QED
    BY <2>1, <2>2, <2>3, <2>4
<1>2. ServiceInv /\ [Next]_vars => [dpc' # "dead" => Kept]_vars
  BY <1>1
<1> QED
  BY <1>2, InvariantHolds, PTL DEF Spec, BlocksKeepTheirKeys

\* The slice of a partial read ends in the block (line 397) as long as offset
\* and length do not wrap around uint32_t when they are added.
THEOREM SliceInBlock ==
  ASSUME NEW begin \in Nat, NEW len \in Nat, NEW data_length \in Nat,
         begin < data_length, begin + len < Word
  PROVE  /\ Adjusted(begin, len, data_length) \in Nat
         /\ begin + Adjusted(begin, len, data_length) <= data_length
         /\ Adjusted(begin, len, data_length) <= len
<1>1. (begin + len) % Word = begin + len
  BY ConstantsAssumption
<1> QED
  BY <1>1 DEF Adjusted

=============================================================================
