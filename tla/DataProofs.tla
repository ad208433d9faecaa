----------------------------- MODULE DataProofs -----------------------------
(***************************************************************************)
(* What a read is sent, and that the service is a BlockStore, for any      *)
(* instance of Service in which nobody uses UPDATE (which leaves blocks on *)
(* freed memory) and no offset and length wrap around uint32_t when they   *)
(* are added.  The buffers of OutcomeProofs are then never shared, so what *)
(* was stored in one is still there when it is sent.                       *)
(***************************************************************************)
EXTENDS OutcomeProofs

PlainUse ==
  /\ "UPDATE" \notin Ops
  /\ \A begin \in Begins, len \in Lengths : begin + len < Word

\* Block b is what call j was told it stored.
StoredBy(j, b) ==
  /\ answer[j].code = "SUCCESS" /\ req[j].op = "SEND"
  /\ req[j].id = b.ID /\ req[j].secret = b.secret
  /\ req[j].data = mem[b.data] /\ Bytes[req[j].data] = b.data_length

\* Every block holds what some call stored; a handler that has read all of its
\* data has it in its buffer; the length announced is that of the data to come.
ContentInv ==
  /\ \A b \in Linked : \E j \in Calls : StoredBy(j, b)
  /\ dpc = "request" /\ CarriesData(req[cur]) /\ got = 5 => mem[n_data] = req[cur].data
  /\ dpc = "data" => answer[cur].length = Slice(req[cur]).len
  /\ DataWasStored

\* The slice of a request depends on the blocks and their bytes only.
LEMMA SliceUntouched ==
  ASSUME UNCHANGED <<storage, chain, mem>>, req'[cur'] = req[cur]
  PROVE  Slice(req[cur])' = Slice(req[cur])
BY DEF Slice, Found, Holding, Adjusted

\* The linked blocks depend on the array and the chain only.
LEMMA LinkedUntouched ==
  ASSUME UNCHANGED <<storage, chain>>
  PROVE  Linked' = Linked
BY DEF Linked

\* partialGetBlock names an offset and a length.
LEMMA ReadBounds ==
  ASSUME NEW r \in Requests, r.op = "PARTIAL_GET"
  PROVE  r.begin \in Begins /\ r.length \in Lengths
<1>1. /\ r \notin [op : Ops \cap {"SEND", "UPDATE"}, id : IDs, secret : Secrets, data : Payloads]
      /\ r \notin [op : Ops \cap {"GET"}, id : IDs, secret : Secrets, size : BufferSizes]
  OBVIOUS
<1> QED
  BY <1>1 DEF Requests

\* Without UPDATE no buffer is ever shared or freed under a block.
LEMMA BuffersApart ==
  ASSUME ServiceInv, HeapInv, PlainUse
  PROVE  Stored \subseteq live /\ Held \cap Stored = {}
<1>1. ~Updated
  <2>1. \A r \in Requests : r.op # "UPDATE"
    BY DEF Requests, PlainUse
  <2>2. \A j \in Calls : req[j] = NULL \/ req[j] \in Requests
    BY DEF ServiceInv, TypeOK, WireTypeOK
  <2> QED
    BY <2>1, <2>2 DEF Updated
<1> QED
  BY <1>1 DEF HeapInv, BufferInv

\* There are no blocks before the first SEND.
LEMMA InitContentInv == Init => ContentInv
BY NullFacts DEF Init, WireInit, LibraryInit, DaemonInit, ContentInv, Linked, DataWasStored, NoAnswer

-----------------------------------------------------------------------------
(***************************************************************************)
(* The steps of callers, and those of the daemon that move no data.        *)
(***************************************************************************)
LEMMA CallerContentStep ==
  ASSUME ServiceInv, ContentInv, NEW k \in Calls, Caller(k)
  PROVE  ContentInv'
<1>1. UNCHANGED answer /\ UNCHANGED <<dpc, cur, got, n_data, storage, chain, live, mem>>
  BY DEF Caller, Call, LibraryStep, SendField, SendFails, ReceiveResponse, ReceiveLength,
     ReceiveData, Interrupt, UnchangedByReading, daemonVars
<1>2. \A j \in Calls : req'[j] = req[j] \/ (j = k /\ cpc[k] = "idle")
  BY DEF ServiceInv, TypeOK, Caller, Call, LibraryStep, SendField, SendFails, ReceiveResponse,
     ReceiveLength, ReceiveData, Interrupt, UnchangedByReading, WireTypeOK
<1>3. \A j \in Calls : req'[j] = req[j] \/ answer[j] = NoAnswer
  BY <1>2 DEF ServiceInv, CallerInv
<1>4. NoAnswer.code # "SUCCESS" /\ NoAnswer.data = NULL
  BY NullFacts DEF NoAnswer, Codes
<1>5. dpc \notin {"accept", "dead"} => req'[cur] = req[cur]
  BY <1>2 DEF ServiceInv, ServingInv
<1>6. \A b \in Linked' : \E j \in Calls : StoredBy(j, b)'
  BY <1>1, <1>3, <1>4, LinkedUntouched DEF ContentInv, StoredBy
<1>7. dpc' = "data" => answer'[cur'].length = Slice(req[cur])'.len
  BY <1>1, <1>5, SliceUntouched DEF ContentInv
<1>8. DataWasStored'
  <2> SUFFICES ASSUME NEW i \in Calls, answer[i].data # NULL
               PROVE  /\ answer[i].length = answer[i].data.len
                      /\ \E j \in Calls :
                           /\ answer[j].code = "SUCCESS" /\ req'[j].op = "SEND"
                           /\ req'[j].id = req'[i].id /\ req'[j].secret = req'[i].secret
                           /\ req'[j].data = answer[i].data.src
                           /\ answer[i].data.from + answer[i].data.len <= Bytes[req'[j].data]
    BY <1>1 DEF DataWasStored
  <2>1. req'[i] = req[i]
    BY <1>3, <1>4
  <2>2. answer[i].length = answer[i].data.len
    BY DEF ContentInv, DataWasStored
  <2>3. PICK j \in Calls :
          /\ answer[j].code = "SUCCESS" /\ req[j].op = "SEND"
          /\ req[j].id = req[i].id /\ req[j].secret = req[i].secret
          /\ req[j].data = answer[i].data.src
          /\ answer[i].data.from + answer[i].data.len <= Bytes[req[j].data]
    BY DEF ContentInv, DataWasStored
  <2>4. req'[j] = req[j]
    BY <1>3, <1>4, <2>3
  <2> QED
    BY <2>1, <2>2, <2>3, <2>4
<1> QED
  BY <1>1, <1>5, <1>6, <1>7, <1>8 DEF ContentInv, CarriesData

\* Answers that were given stay as they are.
LEMMA SentStays ==
  ASSUME ContentInv, UNCHANGED req,
         \A j \in Calls : answer[j].code = "SUCCESS" => answer'[j].code = "SUCCESS",
         \A j \in Calls : answer'[j].data # NULL =>
           answer'[j].data = answer[j].data /\ answer'[j].length = answer[j].length
  PROVE  DataWasStored'
<1> SUFFICES ASSUME NEW i \in Calls, answer'[i].data # NULL
             PROVE  /\ answer'[i].length = answer'[i].data.len
                    /\ \E j \in Calls :
                         /\ answer'[j].code = "SUCCESS" /\ req[j].op = "SEND"
                         /\ req[j].id = req[i].id /\ req[j].secret = req[i].secret
                         /\ req[j].data = answer'[i].data.src
                         /\ answer'[i].data.from + answer'[i].data.len <= Bytes[req[j].data]
  BY DEF DataWasStored
<1>1. answer'[i].data = answer[i].data /\ answer'[i].length = answer[i].length
  OBVIOUS
<1>2. answer[i].length = answer[i].data.len
  BY <1>1 DEF ContentInv, DataWasStored
<1>3. PICK j \in Calls :
        /\ answer[j].code = "SUCCESS" /\ req[j].op = "SEND"
        /\ req[j].id = req[i].id /\ req[j].secret = req[i].secret
        /\ req[j].data = answer[i].data.src
        /\ answer[i].data.from + answer[i].data.len <= Bytes[req[j].data]
  BY <1>1 DEF ContentInv, DataWasStored
<1> QED
  BY <1>1, <1>2, <1>3

\* A dead daemon has no blocks, and what it sent stays sent.
LEMMA DieContentStep ==
  ASSUME ContentInv, Die, CallersStay
  PROVE  ContentInv'
<1>1. UNCHANGED <<req, answer>> /\ dpc' = "dead" /\ chain' = <<>>
  BY DEF Die, CallersStay
<1>2. Linked' = {}
  BY <1>1 DEF Linked
<1>3. DataWasStored'
  BY <1>1, SentStays
<1> QED
  BY <1>1, <1>2, <1>3 DEF ContentInv

\* Accepting, receiving all but the data, and closing move no bytes.
LEMMA QuietContentStep ==
  ASSUME ServiceInv, HeapInv, ContentInv, PlainUse, CallersStay,
         Accept \/ ReceiveOpcode \/ ReceiveField \/ ReceiveDataLength \/ CloseConnection
  PROVE  ContentInv'
<1>1. UNCHANGED <<req, answer, storage, chain, mem>> /\ dpc' \notin {"data"}
  BY DEF Accept, ReceiveOpcode, ReceiveField, ReceiveDataLength, Receiving, CloseConnection,
     CallersStay, heapVars
<1>2. \A b \in Linked' : \E j \in Calls : StoredBy(j, b)'
  BY <1>1, LinkedUntouched DEF ContentInv, StoredBy
<1>3. DataWasStored'
  BY <1>1, SentStays
<1>4. dpc' = "request" /\ CarriesData(req[cur])' => got' # 5
  <2>1. got \in Nat
    BY DEF ServiceInv, TypeOK, DaemonTypeOK
  <2> QED
    BY <2>1 DEF Accept, ReceiveOpcode, ReceiveField, ReceiveDataLength, CloseConnection, Stay,
       CallersStay, CarriesData, SecretRead, DataLengthRead
<1> QED
  BY <1>1, <1>2, <1>3, <1>4 DEF ContentInv

-----------------------------------------------------------------------------
(***************************************************************************)
(* The steps that move data.                                               *)
(***************************************************************************)
\* receiveAll() writes only the buffer of the handler.
LEMMA PayloadContentStep ==
  ASSUME ServiceInv, HeapInv, ContentInv, PlainUse, CallersStay, ReceivePayload
  PROVE  ContentInv'
<1>1. /\ UNCHANGED <<req, answer, storage, chain, cur, n_data>> /\ dpc = "request" /\ dpc' = "request"
      /\ CarriesData(req[cur]) /\ got = DataLengthRead /\ got < Wanted(req[cur])
      /\ mem' = [mem EXCEPT ![n_data] = req[cur].data]
  BY DEF ReceivePayload, Receiving, CallersStay, Stay
<1>2. n_data # NULL
  BY <1>1 DEF Wanted, SecretRead, DataLengthRead
<1>3. Held = {n_data} /\ n_data \notin Stored
  BY <1>1, <1>2, BuffersApart DEF Held
<1>4. n_data \in Buffers /\ mem \in [Buffers -> Payloads \cup {Junk}]
  BY <1>2 DEF ServiceInv, TypeOK, DaemonTypeOK
<1>5. Linked' = Linked /\ \A b \in Linked : b.data \in Stored
  BY <1>1, LinkedUntouched DEF Stored
<1>6. \A b \in Linked : mem'[b.data] = mem[b.data]
  <2>1. \A p \in Stored : p \in Buffers
    BY BuffersApart DEF ServiceInv, TypeOK, DaemonTypeOK
  <2> QED
    BY <1>1, <1>3, <1>4, <1>5, <2>1
<1>7. \A b \in Linked' : \E j \in Calls : StoredBy(j, b)'
  BY <1>1, <1>5, <1>6 DEF ContentInv, StoredBy
<1>8. mem'[n_data'] = req'[cur'].data
  BY <1>1, <1>4
<1>9. DataWasStored'
  BY <1>1, SentStays
<1> QED
  BY <1>1, <1>7, <1>8, <1>9 DEF ContentInv

\* An answer to the call being served, whatever happened to the data it held.
LEMMA RespondContentStep ==
  ASSUME ServiceInv, AnswerInv, ContentInv, CallersStay, dpc = "request",
         NEW code \in Codes, NEW pc \in {"close", "length"}, Respond(code, pc),
         \A b \in Linked' :
           (b \in Linked /\ mem'[b.data] = mem[b.data]) \/ StoredBy(cur, b)'
  PROVE  ContentInv'
<1>1. /\ UNCHANGED <<req, cur>> /\ dpc' = pc /\ answer' = [answer EXCEPT ![cur].code = code]
  BY DEF Respond, CallersStay, Stay
<1>2. cur \in Calls /\ answer \in [Calls -> Answers] /\ answer[cur] = NoAnswer
  BY DEF ServiceInv, ServingInv, TypeOK, WireTypeOK, AnswerInv, ServedOnce
<1>3. /\ \A j \in Calls : j # cur => answer'[j] = answer[j]
      /\ answer'[cur].data = NULL /\ answer[cur].code # "SUCCESS"
  BY <1>1, <1>2, NullFacts DEF NoAnswer, Codes
<1>4. DataWasStored'
  BY <1>1, <1>3, SentStays
<1>5. \A b \in Linked' : \E j \in Calls : StoredBy(j, b)'
  <2> SUFFICES ASSUME NEW b \in Linked', b \in Linked, mem'[b.data] = mem[b.data]
               PROVE  \E j \in Calls : StoredBy(j, b)'
    BY <1>1, <1>2
  <2>1. PICK j \in Calls : StoredBy(j, b)
    BY DEF ContentInv
  <2>2. j # cur
    BY <1>3, <2>1 DEF StoredBy
  <2> QED
    BY <1>1, <1>3, <2>1, <2>2 DEF StoredBy
<1> QED
  BY <1>1, <1>4, <1>5 DEF ContentInv

\* A handler links the bytes it received or leaves the blocks as they are.
LEMMA HandleContentStep ==
  ASSUME ServiceInv, AnswerInv, HeapInv, ContentInv, PlainUse, CallersStay, Handle
  PROVE  ContentInv'
<1>1. CASE Die
  BY <1>1, DieContentStep
<1>2. CASE ~Die
  <2> DEFINE r == req[cur]
  <2>1. dpc = "request" /\ got = Wanted(r)
    BY DEF Handle
  <2>2. cur \in Calls /\ r \in Requests /\ DaemonTypeOK /\ StorageInv
    BY <2>1 DEF ServiceInv, ServingInv, CallerInv, TypeOK
  <2>3. r.op # "UPDATE"
    BY <2>2 DEF Requests, PlainUse
  <2>4. handleSendBlock(r) \/ handleGetBlock(r) \/ handlePartialGetBlock(r)
    BY <1>2, <2>3 DEF Handle, handleOverwriteBlock
  <2>5. CASE UNCHANGED heapVars /\ \E code \in Codes, pc \in {"close", "length"} : Respond(code, pc)
    <3>1. Linked' = Linked /\ mem' = mem
      BY <2>5, LinkedUntouched DEF heapVars
    <3> QED
      BY <2>1, <2>5, <3>1, RespondContentStep
  <2>6. CASE RefuseData(r)
    <3>1. /\ Linked' = Linked
          /\ \E J \in SUBSET ({n_data} \ {NULL}) :
               mem' = [p \in Buffers |-> IF p \in J THEN Junk ELSE mem[p]]
      BY <2>6, LinkedUntouched DEF RefuseData, Freed
    <3>2. \A b \in Linked : b.data \in Buffers /\ b.data \in Stored
      BY <2>2, BuffersApart DEF DaemonTypeOK, Stored
    <3>3. {n_data} \ {NULL} \subseteq Held
      BY <2>1 DEF Held
    <3>4. \A b \in Linked : mem'[b.data] = mem[b.data]
      BY <3>1, <3>2, <3>3, BuffersApart
    <3>5. "FAIL" \in Codes /\ Respond("FAIL", "close")
      BY <2>6 DEF RefuseData, Codes
    <3> QED
      BY <2>1, <3>1, <3>4, <3>5, RespondContentStep
  <2>7. CASE r.op = "SEND" /\ ~Known(r.id) /\ n_data # NULL /\ Bytes[r.data] > 0 /\ StoreBlock(r)
    <3>0. PICK new : new = [used |-> TRUE, ID |-> r.id, secret |-> r.secret,
                            data |-> n_data, data_length |-> Bytes[r.data]]
      OBVIOUS
    <3>1. FirstFree \in Slots /\ FirstFree = Len(chain)
      BY <2>2, <2>7, FirstFreeIsNext DEF StoreBlock
    <3>2. /\ storage' = [storage EXCEPT ![FirstFree] = new] /\ chain' = <<FirstFree>> \o chain
          /\ UNCHANGED mem /\ Respond("SUCCESS", "close") /\ "SUCCESS" \in Codes
      BY <2>7, <3>0 DEF StoreBlock, Codes
    <3>3. Bytes[r.data] # 0
      BY <2>2, <2>7, RequestFields DEF CarriesData
    <3>4. got = 5
      BY <2>1, <2>7, <3>3 DEF Wanted, Fields, CarriesData
    <3>5. mem[n_data] = r.data
      BY <2>1, <2>7, <3>4 DEF ContentInv, CarriesData
    <3>6. answer'[cur].code = "SUCCESS" /\ UNCHANGED <<req, cur>>
      BY <2>2, <3>2 DEF Respond, CallersStay, Stay, ServiceInv, TypeOK, WireTypeOK, Answers
    <3>7. StoredBy(cur, new)'
      BY <2>7, <3>0, <3>2, <3>5, <3>6 DEF StoredBy
    <3>8. \A s \in Slots : storage'[s] = IF s = FirstFree THEN new ELSE storage[s]
      BY <2>2, <3>1, <3>2 DEF DaemonTypeOK
    <3>9. \A i \in DOMAIN chain' :
            \/ chain'[i] = FirstFree
            \/ /\ i - 1 \in DOMAIN chain /\ chain'[i] = chain[i - 1]
               /\ chain[i - 1] \in Slots /\ chain[i - 1] # FirstFree
      BY <2>2, <3>1, <3>2 DEF DaemonTypeOK, StorageInv
    <3>10. Linked' = {storage'[chain'[i]] : i \in DOMAIN chain'}
      BY DEF Linked
    <3>11. \A i \in DOMAIN chain : storage[chain[i]] \in Linked
      BY DEF Linked
    <3> HIDE DEF r
    <3>12. \A b \in Linked' : b = new \/ b \in Linked
      BY <3>1, <3>8, <3>9, <3>10, <3>11
    <3> QED
      BY <2>1, <3>2, <3>7, <3>12, RespondContentStep
  <2>8. CASE handleSendBlock(r)
    <3>1. CASE Known(r.id)
      <4>1. UNCHANGED heapVars
        BY <2>8, <3>1 DEF handleSendBlock
      <4>2. Respond("ALREADY_EXISTS", "close") \/ Respond("ACCESS_DENIED", "close")
        <5>1. CASE SecretMatches(r)
          BY <2>8, <3>1, <5>1 DEF handleSendBlock
        <5>2. CASE ~SecretMatches(r)
          BY <2>8, <3>1, <5>2 DEF handleSendBlock
        <5> QED
          BY <5>1, <5>2
      <4>3. "ALREADY_EXISTS" \in Codes /\ "ACCESS_DENIED" \in Codes
        BY DEF Codes
      <4> QED
        BY <2>5, <4>1, <4>2, <4>3
    <3>2. CASE ~Known(r.id) /\ StoreFull
      BY <2>5, <3>2 DEF StoreFull, Codes
    <3> QED
      BY <2>6, <2>7, <2>8, <3>1, <3>2 DEF handleSendBlock
  <2>9. CASE handleGetBlock(r) \/ handlePartialGetBlock(r)
    BY <2>5, <2>9 DEF handleGetBlock, handlePartialGetBlock, Codes
  <2> QED
    BY <2>4, <2>8, <2>9
<1> QED
  BY <1>1, <1>2

\* The length and the data of a read.
LEMMA SendContentStep ==
  ASSUME ServiceInv, AnswerInv, HeapInv, ContentInv, PlainUse, CallersStay, SendLength \/ SendData
  PROVE  ContentInv'
<1>1. CASE Die
  BY <1>1, DieContentStep
<1>2. CASE ~Die
  <2> DEFINE r == req[cur]
             s == Slice(r)
             b == storage[Found(r.id)]
  <2>1. /\ UNCHANGED <<req, cur, storage, chain, mem>> /\ dpc \in {"length", "data"}
        /\ \/ answer' = answer /\ dpc' = "close"
           \/ /\ dpc = "length" /\ answer' = [answer EXCEPT ![cur].length = s.len]
              /\ dpc' \in {"close", "data"}
           \/ /\ dpc = "data" /\ answer' = [answer EXCEPT ![cur].data = s] /\ dpc' = "close"
    BY <1>2 DEF SendLength, SendData, SendAllFails, CallersStay, Stay, heapVars
  <2>2. /\ cur \in Calls /\ r \in Requests /\ ReadGranted(r) /\ answer \in [Calls -> Answers]
        /\ DaemonTypeOK /\ UniqueIDs /\ StorageInv
    BY <2>1 DEF ServiceInv, ServingInv, CallerInv, TypeOK, WireTypeOK
  <2>3. s' = s /\ Linked' = Linked
    BY <2>1, SliceUntouched, LinkedUntouched
  <2>4. answer[cur].data = NULL
    BY <2>1 DEF AnswerInv, ServedOnce
  <2>5. /\ \A j \in Calls : j # cur => answer'[j] = answer[j]
        /\ answer'[cur].code = answer[cur].code
    BY <2>1, <2>2 DEF Answers
  <2>6. \A c \in Linked' : \E j \in Calls : StoredBy(j, c)'
    BY <2>1, <2>2, <2>3, <2>5 DEF ContentInv, StoredBy
  <2>7. CASE answer'[cur].data = NULL
    <3>1. DataWasStored'
      BY <2>1, <2>2, <2>5, <2>7, SentStays
    <3>2. dpc' = "data" => answer'[cur'].length = s'.len
      BY <2>1, <2>2, <2>3 DEF Answers
    <3> QED
      BY <2>1, <2>6, <3>1, <3>2 DEF ContentInv
  <2>8. CASE answer'[cur].data # NULL
    <3>1. /\ dpc = "data" /\ dpc' = "close"
          /\ answer'[cur].data = s /\ answer'[cur].length = answer[cur].length
      BY <2>1, <2>2, <2>4, <2>8 DEF Answers
    <3>2. answer'[cur].length = s.len
      BY <3>1 DEF ContentInv
    <3>3. Found(r.id) \in Slots /\ b.ID = r.id /\ b \in Linked
      BY <2>2, FoundIsLinked DEF ReadGranted, Linked
    <3>4. PICK j \in Calls : StoredBy(j, b)
      BY <3>3 DEF ContentInv
    <3>5. b.secret = r.secret
      BY <2>2 DEF ReadGranted, SecretMatches
    <3>6. s.src = mem[b.data]
      BY DEF Slice
    <3>7. b.data_length \in Nat
      BY <2>2, <3>3 DEF DaemonTypeOK, DataBlock
    <3>8. s.from + s.len <= b.data_length
      <4>1. CASE r.op = "GET"
        BY <3>7, <4>1 DEF Slice
      <4>2. CASE r.op = "PARTIAL_GET"
        <5>1. r.begin \in Nat /\ r.length \in Nat /\ r.begin < b.data_length
          BY <2>2, <4>2, RequestFields DEF ReadGranted, BeginsInside
        <5>2. r.begin + r.length < Word
          BY <2>2, <4>2, ReadBounds DEF PlainUse
        <5>3. r.begin + Adjusted(r.begin, r.length, b.data_length) <= b.data_length
          BY <3>7, <5>1, <5>2, SliceInBlock
        <5> QED
          BY <4>2, <5>3 DEF Slice
      <4> QED
        BY <2>2, <4>1, <4>2 DEF ReadGranted
    <3> HIDE DEF s, b, r
    <3>9. DataWasStored'
      <4> SUFFICES ASSUME NEW i \in Calls, answer'[i].data # NULL
                   PROVE  /\ answer'[i].length = answer'[i].data.len
                          /\ \E m \in Calls :
                               /\ answer'[m].code = "SUCCESS" /\ req[m].op = "SEND"
                               /\ req[m].id = req[i].id /\ req[m].secret = req[i].secret
                               /\ req[m].data = answer'[i].data.src
                               /\ answer'[i].data.from + answer'[i].data.len <= Bytes[req[m].data]
        BY <2>1 DEF DataWasStored
      <4>1. CASE i = cur
        <5>1. answer'[j].code = "SUCCESS" /\ req[j].op = "SEND"
          BY <2>5, <3>4 DEF StoredBy
        <5>2. req[j].id = req[i].id /\ req[j].secret = req[i].secret /\ req[j].data = answer'[i].data.src
          BY <3>1, <3>3, <3>4, <3>5, <3>6, <4>1 DEF StoredBy, r
        <5>3. answer'[i].data.from + answer'[i].data.len <= Bytes[req[j].data]
          BY <3>1, <3>4, <3>8, <4>1 DEF StoredBy
        <5> QED
          BY <3>1, <3>2, <4>1, <5>1, <5>2, <5>3
      <4>2. CASE i # cur
        <5>1. answer'[i] = answer[i]
          BY <2>5, <4>2
        <5>2. answer[i].length = answer[i].data.len
          BY <5>1 DEF ContentInv, DataWasStored
        <5>3. PICK m \in Calls :
                /\ answer[m].code = "SUCCESS" /\ req[m].op = "SEND"
                /\ req[m].id = req[i].id /\ req[m].secret = req[i].secret
                /\ req[m].data = answer[i].data.src
                /\ answer[i].data.from + answer[i].data.len <= Bytes[req[m].data]
          BY <5>1 DEF ContentInv, DataWasStored
        <5>4. answer'[m].code = "SUCCESS"
          BY <2>5, <5>3
        <5> QED
          BY <5>1, <5>2, <5>3, <5>4
      <4> QED
        BY <4>1, <4>2
    <3> QED
      BY <2>6, <3>1, <3>9 DEF ContentInv
  <2> QED
    BY <2>7, <2>8
<1> QED
  BY <1>1, <1>2

-----------------------------------------------------------------------------
(***************************************************************************)
(* Theorems.                                                               *)
(***************************************************************************)
\* Every step of a caller or of the daemon keeps the invariant.
LEMMA NextKeepsContentInv ==
  ASSUME PlainUse
  PROVE  ServiceInv /\ AnswerInv /\ HeapInv /\ ContentInv /\ [Next]_vars => ContentInv'
<1> SUFFICES ASSUME ServiceInv, AnswerInv, HeapInv, ContentInv, [Next]_vars PROVE ContentInv'
  OBVIOUS
<1>1. ASSUME NEW k \in Calls, Caller(k) PROVE ContentInv'
  BY <1>1, CallerContentStep
<1>2. CASE Server
  <2>1. CallersStay
    BY <1>2 DEF Server
  <2>2. CASE Accept \/ ReceiveOpcode \/ ReceiveField \/ ReceiveDataLength \/ CloseConnection
    BY <2>1, <2>2, QuietContentStep
  <2>3. CASE ReceivePayload
    BY <2>1, <2>3, PayloadContentStep
  <2>4. CASE ReceiveFails
    BY <2>1, <2>4, DieContentStep DEF ReceiveFails
  <2>5. CASE Handle
    BY <2>1, <2>5, HandleContentStep
  <2>6. CASE SendLength \/ SendData
    BY <2>1, <2>6, SendContentStep
  <2> QED
    BY <1>2, <2>2, <2>3, <2>4, <2>5, <2>6 DEF Server, DaemonStep
<1>3. CASE UNCHANGED vars
  <2>1. UNCHANGED <<req, answer, dpc, cur, got, n_data, storage, chain, mem>>
    BY <1>3 DEF vars, wireVars, daemonVars
  <2>2. Linked' = Linked /\ Slice(req[cur])' = Slice(req[cur]) /\ DataWasStored'
    BY <2>1, LinkedUntouched, SliceUntouched, SentStays
  <2> QED
    BY <2>1, <2>2 DEF ContentInv, StoredBy, CarriesData
<1> QED
  BY <1>1, <1>2, <1>3 DEF Next, AllReturned

\* Where nobody overwrites and no read wraps around, a read is sent nothing
\* but bytes that an acknowledged SEND stored under its ID and secret.
THEOREM ReadsGetStoredData ==
  ASSUME PlainUse
  PROVE  Spec => []DataWasStored
<1>1. Init => ContentInv
  BY InitContentInv
<1>2. ServiceInv /\ AnswerInv /\ HeapInv /\ ContentInv /\ [Next]_vars => ContentInv'
  BY NextKeepsContentInv
<1>3. ContentInv => DataWasStored
  BY DEF ContentInv
<1> QED
  BY <1>1, <1>2, <1>3, InvariantHolds, AnswerInvHolds, HeapInvHolds, PTL DEF Spec

-----------------------------------------------------------------------------
(***************************************************************************)
(* The service is a BlockStore: every step of a caller or of the daemon is *)
(* a step of the store, seen through Contents, Replies and Running, or one *)
(* the store does not see.                                                 *)
(***************************************************************************)
\* The store holds the linked blocks, each under its own ID.
LEMMA ContentsAreLinked ==
  DaemonTypeOK /\ UniqueIDs =>
    /\ DOMAIN Contents = {b.ID : b \in Linked}
    /\ \A b \in Linked : Contents[b.ID] = [secret |-> b.secret, data |-> mem[b.data]]
<1> SUFFICES ASSUME DaemonTypeOK, UniqueIDs
             PROVE  /\ DOMAIN Contents = {b.ID : b \in Linked}
                    /\ \A b \in Linked : Contents[b.ID] = [secret |-> b.secret, data |-> mem[b.data]]
  OBVIOUS
<1>1. DOMAIN Contents = {b.ID : b \in Linked}
  BY DEF Contents
<1>2. ASSUME NEW b \in Linked
      PROVE  Contents[b.ID] = [secret |-> b.secret, data |-> mem[b.data]]
  <2>1. Contents[b.ID] = [secret |-> storage[Found(b.ID)].secret, data |-> mem[storage[Found(b.ID)].data]]
    BY DEF Contents
  <2>2. PICK i \in DOMAIN chain : b = storage[chain[i]]
    BY DEF Linked
  <2>3. Known(b.ID)
    BY <2>2 DEF Known, Holding
  <2>4. storage[Found(b.ID)].ID = b.ID /\ \E j \in DOMAIN chain : chain[j] = Found(b.ID)
    BY <2>3, FoundIsLinked
  <2>5. Found(b.ID) = chain[i]
    BY <2>2, <2>4 DEF UniqueIDs
  <2> QED
    BY <2>1, <2>2, <2>5
<1> QED
  BY <1>1, <1>2

\* The same blocks with the same bytes are the same contents.
LEMMA SameContents ==
  ASSUME UNCHANGED <<storage, chain>>, DaemonTypeOK, UniqueIDs,
         \A b \in Linked : mem'[b.data] = mem[b.data]
  PROVE  Contents' = Contents
<1>1. Linked' = Linked
  BY LinkedUntouched
<1>2. ASSUME NEW id \in {b.ID : b \in Linked}
      PROVE  /\ Found(id)' = Found(id)
             /\ storage[Found(id)] \in Linked
  <2>1. Known(id)
    BY DEF Known, Holding, Linked
  <2>2. Found(id)' = Found(id)
    BY DEF Found, Holding
  <2> QED
    BY <2>1, <2>2, FoundIsLinked DEF Linked
<1> QED
  BY <1>1, <1>2 DEF Contents

\* A block is there with its secret when the handler's search finds it so.
LEMMA HasIsKnown ==
  ASSUME DaemonTypeOK, UniqueIDs, NEW r
  PROVE  /\ Store!Has(r) <=> Known(r.id)
         /\ Known(r.id) =>
              /\ storage[Found(r.id)] \in Linked
              /\ Store!Opens(r) <=> SecretMatches(r)
              /\ Contents[r.id].data = mem[storage[Found(r.id)].data]
<1>1. Store!Has(r) <=> Known(r.id)
  BY ContentsAreLinked DEF Store!Has, Store!Blocks, Known, Holding, Linked
<1>2. ASSUME Known(r.id)
      PROVE  /\ storage[Found(r.id)] \in Linked
             /\ Store!Opens(r) <=> SecretMatches(r)
             /\ Contents[r.id].data = mem[storage[Found(r.id)].data]
  <2>1. storage[Found(r.id)] \in Linked /\ storage[Found(r.id)].ID = r.id
    BY <1>2, FoundIsLinked DEF Linked
  <2>2. Contents[r.id] = [secret |-> storage[Found(r.id)].secret, data |-> mem[storage[Found(r.id)].data]]
    BY <2>1, ContentsAreLinked
  <2> QED
    BY <1>1, <1>2, <2>1, <2>2 DEF Store!Opens, SecretMatches
<1> QED
  BY <1>1, <1>2

\* Nothing the store sees has changed.
LEMMA StoreStutters ==
  ASSUME UNCHANGED <<req, ret>>, Contents' = Contents, Replies' = Replies, Running' = Running
  PROVE  UNCHANGED Store!storeVars
BY DEF Store!storeVars

\* A reply is complete or not by the answer and the request alone, and a call
\* that has not begun has none.
LEMMA SameReplies ==
  ASSUME NEW k, answer'[k] = answer[k], req'[k] = req[k] \/ answer[k] = NoAnswer
  PROVE  Complete(k)' <=> Complete(k)
BY NullFacts DEF Complete, CarriesData, NoAnswer

\* A call is asked with its connection, and finished when it returns.
LEMMA CallerStoreStep ==
  ASSUME ServiceInv, AnswerInv, NEW k \in Calls, Caller(k)
  PROVE  [Store!StoreNext]_(Store!storeVars)
<1>1. UNCHANGED answer /\ UNCHANGED <<dpc, storage, chain, mem>>
  BY DEF Caller, Call, LibraryStep, SendField, SendFails, ReceiveResponse, ReceiveLength,
     ReceiveData, Interrupt, UnchangedByReading, daemonVars
<1>2. Contents' = Contents /\ Running' = Running
  BY <1>1, SameContents DEF Running, ServiceInv, TypeOK
<1>3. \A j \in Calls : req'[j] = req[j] \/ answer[j] = NoAnswer
  BY DEF ServiceInv, TypeOK, CallerInv, Caller, Call, LibraryStep, SendField, SendFails,
     ReceiveResponse, ReceiveLength, ReceiveData, Interrupt, UnchangedByReading, WireTypeOK
<1>4. Replies' = Replies
  BY <1>1, <1>3, SameReplies DEF Replies
<1>5. CASE Call(k)
  <2>1. req[k] = NULL /\ \E r \in Requests : req' = [req EXCEPT ![k] = r]
    BY <1>5 DEF Call, ServiceInv, CallerInv
  <2>2. UNCHANGED ret \/ ret' = [ret EXCEPT ![k] = "FAIL"]
    BY <1>5 DEF Call, ConnectSucceeds, ConnectFails, Return
  <2>3. Store!Requests = Requests
    BY DEF Store!Requests, Requests
  <2>4. Store!Ask(k) \/ Store!AskInVain(k)
    BY <1>2, <1>4, <2>1, <2>2, <2>3 DEF Store!Ask, Store!AskInVain
  <2> QED
    BY <2>4 DEF Store!StoreNext
<1>6. CASE LibraryStep(k) \/ Interrupt(k)
  <2>1. UNCHANGED req /\ req[k] \in Requests /\ cpc[k] \notin {"idle", "done"}
    BY <1>6 DEF LibraryStep, SendField, SendFails, ReceiveResponse, ReceiveLength,
       ReceiveData, Interrupt, UnchangedByReading, ServiceInv, CallerInv
  <2>2. ret[k] = NULL /\ req[k] # NULL
    BY <2>1, RequestsAssumption DEF AnswerInv, PlaceInv
  <2>3. \/ \E v \in Results \ {NULL} : Return(k, v)
        \/ UNCHANGED ret
    <3>1. answer[k].code \in Codes \cup {NULL}
      BY DEF ServiceInv, TypeOK, WireTypeOK, Answers
    <3> QED
      BY <1>6, <3>1, NullFacts, LibraryAssumption DEF LibraryStep, SendField, SendFails, ReceiveResponse,
         ReceiveLength, ReceiveData, Interrupt, GoOn, Results, Codes
  <2>4. CASE UNCHANGED ret
    BY <1>2, <1>4, <2>1, <2>4, StoreStutters
  <2>5. ASSUME NEW v \in Results \ {NULL}, Return(k, v)
        PROVE  Store!StoreNext
    <3>1. \/ v \in {"FAIL", "SIGPIPE", "SIGINT"}
          \/ v = answer[k].code /\ Complete(k)
      <4>1. v \in Codes \ {"FAIL"} =>
              /\ v = answer[k].code
              /\ v = "SUCCESS" /\ ~CarriesData(req[k]) =>
                   answer[k].length = 0 \/ (answer[k].length # NULL /\ answer[k].data # NULL)
        BY <1>6, <2>5, ReturnFacts
      <4> QED
        BY <2>5, <4>1 DEF Complete, Results
    <3>2. Replies[k] = IF Complete(k) THEN answer[k] ELSE NULL
      BY DEF Replies
    <3>3. answer[k] # NULL
      BY AnswersAssumption DEF ServiceInv, TypeOK, WireTypeOK
    <3>4. ret' = [ret EXCEPT ![k] = v]
      BY <2>5 DEF Return
    <3>5. Store!Finish(k)
      BY <1>2, <1>4, <2>1, <2>2, <3>1, <3>2, <3>3, <3>4 DEF Store!Finish
    <3> QED
      BY <3>5 DEF Store!StoreNext
  <2> QED
    BY <2>3, <2>4, <2>5
<1> QED
  BY <1>5, <1>6 DEF Caller

\* The daemon's end is the loss of the store.
LEMMA DieStoreStep ==
  ASSUME Die, CallersStay, dpc # "dead"
  PROVE  Store!StoreNext
<1>1. /\ UNCHANGED <<req, ret, answer>> /\ Running /\ ~Running' /\ chain' = <<>>
  BY DEF Die, CallersStay, libraryVars, Running
<1>2. Replies' = Replies
  BY <1>1 DEF Replies, Complete, CarriesData
<1>3. Contents' = <<>>
  <2>1. Linked' = {}
    BY <1>1 DEF Linked
  <2> QED
    BY <2>1 DEF Contents
<1>4. Running = TRUE /\ Running' = FALSE
  BY <1>1 DEF Running
<1>5. Store!Lose
  BY <1>1, <1>2, <1>3, <1>4 DEF Store!Lose
<1> QED
  BY <1>5 DEF Store!StoreNext

\* Accepting, receiving and closing are the daemon's own affair: the bytes it
\* receives go to a buffer no block holds.
LEMMA ReceiveStoreStep ==
  ASSUME ServiceInv, HeapInv, PlainUse, CallersStay,
         Accept \/ ReceiveOpcode \/ ReceiveField \/ ReceiveDataLength \/ ReceivePayload
           \/ CloseConnection \/ SendAllFails,
         dpc # "dead"
  PROVE  UNCHANGED Store!storeVars
<1>1. /\ UNCHANGED <<req, ret, answer, storage, chain>> /\ dpc' # "dead"
      /\ mem' = mem \/ ReceivePayload
  BY DEF Accept, ReceiveOpcode, ReceiveField, ReceiveDataLength, ReceivePayload, Receiving,
     CloseConnection, SendAllFails, CallersStay, libraryVars, heapVars
<1>2. Replies' = Replies /\ Running' = Running
  BY <1>1 DEF Replies, Complete, CarriesData, Running
<1>3. \A b \in Linked : mem'[b.data] = mem[b.data]
  <2>1. CASE ReceivePayload
    <3>1. /\ dpc = "request" /\ CarriesData(req[cur]) /\ got = DataLengthRead
          /\ got < Wanted(req[cur]) /\ mem' = [mem EXCEPT ![n_data] = req[cur].data]
      BY <2>1 DEF ReceivePayload, Receiving
    <3>2. n_data # NULL
      BY <3>1 DEF Wanted, SecretRead, DataLengthRead
    <3>3. n_data \notin Stored
      BY <3>1, <3>2, BuffersApart DEF Held
    <3>4. \A p \in Buffers : p # n_data => mem'[p] = mem[p]
      BY <3>1 DEF ServiceInv, TypeOK, DaemonTypeOK
    <3>5. \A b \in Linked : b.data \in Stored /\ b.data \in Buffers
      BY BuffersApart DEF Stored, ServiceInv, TypeOK, DaemonTypeOK
    <3> QED
      BY <3>3, <3>4, <3>5
  <2> QED
    BY <1>1, <2>1
<1>4. Contents' = Contents
  BY <1>1, <1>3, SameContents DEF ServiceInv, TypeOK
<1> QED
  BY <1>1, <1>2, <1>4, StoreStutters

-----------------------------------------------------------------------------
(***************************************************************************)
(* The steps that serve a call.                                            *)
(***************************************************************************)
\* A response is a whole reply, unless it grants a read.
LEMMA RespondReplies ==
  ASSUME ServiceInv, AnswerInv, CallersStay, dpc = "request",
         NEW code \in Codes, NEW pc \in {"close", "length"}, Respond(code, pc)
  PROVE  /\ Replies[cur] = NULL
         /\ code = "SUCCESS" /\ ~CarriesData(req[cur]) => Replies' = Replies
         /\ code # "SUCCESS" \/ CarriesData(req[cur]) => Store!Reply(cur, Store!JustCode(code))
<1>1. /\ UNCHANGED req /\ answer' = [answer EXCEPT ![cur].code = code]
  BY DEF Respond, CallersStay
<1>2. cur \in Calls /\ answer \in [Calls -> Answers] /\ answer[cur] = NoAnswer
  BY DEF ServiceInv, ServingInv, TypeOK, WireTypeOK, AnswerInv, ServedOnce
<1>3. PICK k \in Calls : k = cur
  BY <1>2
<1>4. /\ \A j \in Calls : j # k => answer'[j] = answer[j]
      /\ answer'[k] = [code |-> code, length |-> NULL, data |-> NULL]
  BY <1>1, <1>2, <1>3 DEF NoAnswer
<1>5. \A j \in Calls : j # k => (Complete(j)' <=> Complete(j))
  BY <1>1, <1>4, SameReplies
<1>6. ~Complete(k)
  BY <1>2, <1>3 DEF Complete, NoAnswer
<1>7. Complete(k)' <=> code # "SUCCESS" \/ CarriesData(req[k])
  <2>1. NULL # code /\ NULL # 0
    BY NullFacts
  <2>2. answer'[k].code = code /\ answer'[k].length = NULL /\ answer'[k].data = NULL
    BY <1>4
  <2>3. CarriesData(req[k])' <=> CarriesData(req[k])
    BY <1>1 DEF CarriesData
  <2> QED
    BY <2>1, <2>2, <2>3 DEF Complete
<1>8. Replies' = [j \in Calls |-> IF j = k /\ Complete(k)' THEN answer'[k]
                                 ELSE IF j = k THEN NULL ELSE Replies[j]]
  BY <1>4, <1>5 DEF Replies
<1>9. Replies = [j \in Calls |-> Replies[j]] /\ Replies[k] = NULL
  BY <1>6 DEF Replies
<1>10. CASE Complete(k)'
  <2>1. Replies' = [Replies EXCEPT ![k] = answer'[k]]
    BY <1>8, <1>9, <1>10
  <2> QED
    BY <1>3, <1>4, <1>7, <1>9, <1>10, <2>1 DEF Store!Reply, Store!JustCode
<1>11. CASE ~Complete(k)'
  <2>1. Replies' = Replies
    BY <1>8, <1>9, <1>11
  <2> QED
    BY <1>3, <1>7, <1>9, <1>11, <2>1
<1> QED
  BY <1>10, <1>11

\* What the store serves is the call whose connection the daemon has open.
LEMMA ServeCurrent ==
  ASSUME ServiceInv, CallersStay, dpc \notin {"accept", "dead"}, dpc' # "dead",
         Replies[cur] = NULL,
         \/ req[cur].op = "SEND" /\ Store!ServeSend(cur, req[cur])
         \/ req[cur].op \in {"GET", "PARTIAL_GET"} /\ Store!ServeRead(cur, req[cur])
  PROVE  Store!StoreNext
<1>1. cur \in Calls /\ req[cur] # NULL
  BY RequestsAssumption DEF ServiceInv, ServingInv, CallerInv
<1>2. UNCHANGED <<req, ret>> /\ Running = TRUE /\ Running' = Running
  BY DEF CallersStay, libraryVars, Running
<1>3. Store!Serve(cur)
  BY <1>1, <1>2 DEF Store!Serve
<1> QED
  BY <1>1, <1>3 DEF Store!StoreNext

\* What the store compares with an offset is the length of the block.
LEMMA LengthOfBlock ==
  ASSUME ContentInv, NEW b \in Linked
  PROVE  b.data_length = Bytes[mem[b.data]]
BY DEF ContentInv, StoredBy

\* The block a SEND creates is put into the store.
LEMMA StoreBlockPuts ==
  ASSUME ServiceInv, ServiceInv', ContentInv, CallersStay, dpc = "request",
         got = Wanted(req[cur]), req[cur].op = "SEND", ~Known(req[cur].id),
         n_data # NULL, Bytes[req[cur].data] > 0, StoreBlock(req[cur])
  PROVE  Store!Put(req[cur])
<1> DEFINE r == req[cur]
<1>0. PICK new : new = [used |-> TRUE, ID |-> r.id, secret |-> r.secret,
                        data |-> n_data, data_length |-> Bytes[r.data]]
  OBVIOUS
<1>1. DaemonTypeOK /\ StorageInv /\ UniqueIDs /\ r \in Requests /\ UNCHANGED mem
  BY DEF ServiceInv, TypeOK, ServingInv, CallerInv, StoreBlock
<1>2. FirstFree \in Slots /\ FirstFree = Len(chain) /\ Len(chain) \in Nat
  BY <1>1, FirstFreeIsNext DEF StoreBlock
<1>3. storage' = [storage EXCEPT ![FirstFree] = new] /\ chain' = <<FirstFree>> \o chain
  BY <1>0 DEF StoreBlock
<1>4. mem[n_data] = r.data
  <2>1. Bytes[r.data] # 0
    BY <1>1, RequestFields DEF CarriesData
  <2> QED
    BY <2>1 DEF ContentInv, Wanted, Fields, CarriesData
<1>5. \A s \in Slots : storage'[s] = IF s = FirstFree THEN new ELSE storage[s]
  BY <1>1, <1>2, <1>3 DEF DaemonTypeOK
<1>6. /\ \A i \in DOMAIN chain' :
           \/ chain'[i] = FirstFree
           \/ /\ i - 1 \in DOMAIN chain /\ chain'[i] = chain[i - 1]
              /\ chain[i - 1] \in Slots /\ chain[i - 1] # FirstFree
      /\ \A i \in DOMAIN chain :
           i + 1 \in DOMAIN chain' /\ chain'[i + 1] = chain[i] /\ chain[i] \in Slots
             /\ chain[i] # FirstFree
      /\ 1 \in DOMAIN chain' /\ chain'[1] = FirstFree
  <2>1. \A i \in DOMAIN chain' :
           \/ chain'[i] = FirstFree
           \/ /\ i - 1 \in DOMAIN chain /\ chain'[i] = chain[i - 1]
              /\ chain[i - 1] \in Slots /\ chain[i - 1] # FirstFree
    BY <1>1, <1>2, <1>3 DEF DaemonTypeOK, StorageInv
  <2>2. /\ chain' \in Seq(Slots) /\ Len(chain') = Len(chain) + 1 /\ chain'[1] = FirstFree
        /\ \A i \in 2 .. Len(chain) + 1 : chain'[i] = chain[i - 1]
    BY <1>1, <1>2, <1>3 DEF DaemonTypeOK
  <2>3. \A i \in DOMAIN chain : i \in 1 .. Len(chain) /\ chain[i] \in Slots /\ chain[i] # FirstFree
    BY <1>1, <1>2 DEF DaemonTypeOK, StorageInv
  <2>4. \A i \in DOMAIN chain : i + 1 \in DOMAIN chain' /\ chain'[i + 1] = chain[i]
    BY <1>2, <2>2, <2>3
  <2> QED
    BY <1>2, <2>1, <2>2, <2>3, <2>4
<1>7. /\ \A b \in Linked' : b = new \/ b \in Linked
      /\ \A b \in Linked : b \in Linked'
      /\ new \in Linked'
  <2>1. Linked' = {storage'[chain'[i]] : i \in DOMAIN chain'}
    BY DEF Linked
  <2>2. Linked = {storage[chain[i]] : i \in DOMAIN chain}
    BY DEF Linked
  <2> QED
    BY <1>2, <1>5, <1>6, <2>1, <2>2
<1>8. /\ DOMAIN Contents = {b.ID : b \in Linked}
      /\ \A b \in Linked : Contents[b.ID] = [secret |-> b.secret, data |-> mem[b.data]]
  BY <1>1, ContentsAreLinked
<1>9. /\ DOMAIN Contents' = {b.ID : b \in Linked'}
      /\ \A b \in Linked' : Contents'[b.ID] = [secret |-> b.secret, data |-> mem'[b.data]]
  <2>1. DaemonTypeOK' /\ UniqueIDs'
    BY DEF ServiceInv, TypeOK
  <2>2. (DaemonTypeOK /\ UniqueIDs =>
          /\ DOMAIN Contents = {b.ID : b \in Linked}
          /\ \A b \in Linked : Contents[b.ID] = [secret |-> b.secret, data |-> mem[b.data]])'
    BY ContentsAreLinked, PTL
  <2> QED
    BY <2>1, <2>2
<1>10. new.ID = r.id /\ new.secret = r.secret /\ new.data = n_data
  BY <1>0
<1>11. \A b \in Linked : b.ID # r.id
  BY DEF Known, Holding, Linked
<1> HIDE DEF r
<1>12. DOMAIN Contents' = DOMAIN Contents \cup {r.id}
  BY <1>7, <1>8, <1>9, <1>10
<1>13. Contents'[r.id] = [secret |-> r.secret, data |-> r.data]
  BY <1>1, <1>4, <1>7, <1>9, <1>10
<1>14. ASSUME NEW i \in DOMAIN Contents PROVE i # r.id /\ Contents'[i] = Contents[i]
  <2>1. PICK b \in Linked : b.ID = i
    BY <1>8, <1>14
  <2>2. Contents[i] = [secret |-> b.secret, data |-> mem[b.data]]
    BY <1>8, <2>1
  <2>3. Contents'[i] = [secret |-> b.secret, data |-> mem'[b.data]]
    BY <1>7, <1>9, <2>1
  <2> QED
    BY <1>1, <1>11, <2>1, <2>2, <2>3
<1>15. Contents' = [i \in DOMAIN Contents \cup {r.id} |->
                     IF i = r.id THEN [secret |-> r.secret, data |-> r.data] ELSE Contents[i]]
  <2>1. Contents' = [i \in DOMAIN Contents' |-> Contents'[i]]
    BY DEF Contents
  <2> QED
    BY <1>12, <1>13, <1>14, <2>1
<1> QED
  BY <1>15 DEF Store!Put, Store!Blocks, r

\* A handler serves its call at the instant it responds; a read it grants is
\* served later.
LEMMA HandleStoreStep ==
  ASSUME ServiceInv, ServiceInv', AnswerInv, HeapInv, ContentInv, PlainUse, CallersStay, Handle
  PROVE  [Store!StoreNext]_(Store!storeVars)
<1> DEFINE r == req[cur]
<1>1. dpc = "request" /\ got = Wanted(r)
  BY DEF Handle
<1>2. CASE Die
  BY <1>1, <1>2, DieStoreStep
<1>3. CASE ~Die
  <2>1. cur \in Calls /\ r \in Requests /\ DaemonTypeOK /\ StorageInv /\ UniqueIDs
    BY <1>1 DEF ServiceInv, ServingInv, CallerInv, TypeOK
  <2>2. r.op # "UPDATE"
    BY <2>1 DEF Requests, PlainUse
  <2>3. handleSendBlock(r) \/ handleGetBlock(r) \/ handlePartialGetBlock(r)
    BY <1>3, <2>2 DEF Handle, handleOverwriteBlock
  <2>4. /\ Store!Has(r) <=> Known(r.id)
        /\ Known(r.id) =>
              /\ storage[Found(r.id)] \in Linked
              /\ Store!Opens(r) <=> SecretMatches(r)
              /\ Contents[r.id].data = mem[storage[Found(r.id)].data]
    BY <2>1, HasIsKnown
  <2>5. UNCHANGED heapVars => Contents' = Contents
    BY <2>1, SameContents DEF heapVars
  <2>6. CASE handleSendBlock(r)
    <3>1. CarriesData(r) /\ r.op = "SEND"
      BY <2>6 DEF handleSendBlock, CarriesData
    <3>2. ASSUME NEW code \in Codes, Respond(code, "close")
          PROVE  /\ Replies[cur] = NULL /\ Store!Reply(cur, Store!JustCode(code))
                 /\ dpc' # "dead"
      BY <1>1, <3>1, <3>2, RespondReplies DEF Respond
    <3>3. CASE Known(r.id)
      <4>1. Contents' = Contents
        BY <2>5, <2>6, <3>3 DEF handleSendBlock
      <4>2. CASE SecretMatches(r)
        <5>1. Respond("ALREADY_EXISTS", "close") /\ "ALREADY_EXISTS" \in Codes
          BY <2>6, <3>3, <4>2 DEF handleSendBlock, Codes
        <5>2. Store!ServeSend(cur, r)
          BY <2>4, <3>2, <3>3, <4>1, <4>2, <5>1 DEF Store!ServeSend
        <5> QED
          BY <1>1, <3>1, <3>2, <5>1, <5>2, ServeCurrent
      <4>3. CASE ~SecretMatches(r)
        <5>1. Respond("ACCESS_DENIED", "close") /\ "ACCESS_DENIED" \in Codes
          BY <2>6, <3>3, <4>3 DEF handleSendBlock, Codes
        <5>2. Store!ServeSend(cur, r)
          BY <2>4, <3>2, <3>3, <4>1, <4>3, <5>1 DEF Store!ServeSend
        <5> QED
          BY <1>1, <3>1, <3>2, <5>1, <5>2, ServeCurrent
      <4> QED
        BY <4>2, <4>3
    <3>4. CASE ~Known(r.id) /\ (RefuseData(r) \/ StoreFull)
      <4>1. Respond("FAIL", "close") /\ "FAIL" \in Codes
        BY <3>4 DEF RefuseData, StoreFull, Codes
      <4>2. Contents' = Contents
        <5>1. CASE StoreFull
          BY <2>5, <5>1 DEF StoreFull
        <5>2. CASE RefuseData(r)
          <6>1. /\ UNCHANGED <<storage, chain>>
                /\ \E J \in SUBSET ({n_data} \ {NULL}) :
                     mem' = [p \in Buffers |-> IF p \in J THEN Junk ELSE mem[p]]
            BY <5>2 DEF RefuseData, Freed
          <6>2. \A b \in Linked : b.data \in Buffers /\ b.data \in Stored
            BY <2>1, BuffersApart DEF DaemonTypeOK, Stored
          <6>3. {n_data} \ {NULL} \subseteq Held
            BY <1>1 DEF Held
          <6>4. \A b \in Linked : mem'[b.data] = mem[b.data]
            BY <6>1, <6>2, <6>3, BuffersApart
          <6> QED
            BY <2>1, <6>1, <6>4, SameContents
        <5> QED
          BY <3>4, <5>1, <5>2
      <4>3. Store!ServeSend(cur, r)
        BY <2>4, <3>2, <3>4, <4>1, <4>2 DEF Store!ServeSend
      <4> QED
        BY <1>1, <3>1, <3>2, <4>1, <4>3, ServeCurrent
    <3>5. CASE ~Known(r.id) /\ n_data # NULL /\ Bytes[r.data] > 0 /\ StoreBlock(r)
      <4>1. Respond("SUCCESS", "close") /\ "SUCCESS" \in Codes
        BY <3>5 DEF StoreBlock, Codes
      <4>2. Store!Put(r)
        BY <1>1, <3>1, <3>5, StoreBlockPuts
      <4>3. Store!ServeSend(cur, r)
        BY <2>4, <3>2, <3>5, <4>1, <4>2 DEF Store!ServeSend
      <4> QED
        BY <1>1, <3>1, <3>2, <4>1, <4>3, ServeCurrent
    <3> QED
      BY <2>6, <3>3, <3>4, <3>5 DEF handleSendBlock
  <2>7. CASE handleGetBlock(r) \/ handlePartialGetBlock(r)
    <3>1. ~CarriesData(r) /\ r.op \in {"GET", "PARTIAL_GET"} /\ Contents' = Contents
      BY <2>5, <2>7 DEF handleGetBlock, handlePartialGetBlock, CarriesData
    <3>2. UNCHANGED <<req, ret>>
      BY DEF CallersStay, libraryVars
    <3>3. CASE Respond("SUCCESS", "length")
      <4>1. Replies' = Replies /\ Running' = Running
        BY <1>1, <3>1, <3>3, RespondReplies DEF Respond, Running, Codes
      <4> QED
        BY <3>1, <3>2, <4>1, StoreStutters
    <3>4. ASSUME NEW code \in Codes \ {"SUCCESS"}, Respond(code, "close"),
                 \/ ~Known(r.id) /\ code = "NOT_FOUND"
                 \/ Known(r.id) /\ ~SecretMatches(r) /\ code = "ACCESS_DENIED"
                 \/ /\ Known(r.id) /\ SecretMatches(r) /\ code = "FAIL"
                    /\ r.op = "PARTIAL_GET" /\ ~BeginsInside(r)
          PROVE  Store!StoreNext
      <4>1. Replies[cur] = NULL /\ Store!Reply(cur, Store!JustCode(code)) /\ dpc' # "dead"
        BY <1>1, <3>4, RespondReplies DEF Respond
      <4>2. Known(r.id) /\ code = "FAIL" => r.begin >= Bytes[Contents[r.id].data]
        <5>1. Known(r.id) => storage[Found(r.id)].data_length = Bytes[Contents[r.id].data]
          BY <2>4, LengthOfBlock
        <5>2. Known(r.id) => storage[Found(r.id)].data_length \in Nat
          BY <2>1, FoundIsLinked DEF DaemonTypeOK, DataBlock
        <5>3. r.op = "PARTIAL_GET" => r.begin \in Nat
          BY <2>1, RequestFields
        <5> QED
          BY <3>4, <5>1, <5>2, <5>3 DEF BeginsInside
      <4>3. Store!ServeRead(cur, r)
        BY <2>4, <3>1, <3>4, <4>1, <4>2 DEF Store!ServeRead
      <4> QED
        BY <1>1, <3>1, <4>1, <4>3, ServeCurrent
    <3> QED
      BY <2>7, <3>3, <3>4 DEF handleGetBlock, handlePartialGetBlock, Codes
  <2> QED
    BY <2>3, <2>6, <2>7
<1> QED
  BY <1>2, <1>3

\* A read is served with its last bytes: the length when there are none, the
\* data otherwise.
LEMMA SendStoreStep ==
  ASSUME ServiceInv, AnswerInv, HeapInv, ContentInv, PlainUse, CallersStay,
         SendLength \/ SendData
  PROVE  [Store!StoreNext]_(Store!storeVars)
<1> DEFINE r == req[cur]
           s == Slice(r)
           b == storage[Found(r.id)]
<1>1. dpc \in {"length", "data"}
  BY DEF SendLength, SendData
<1>2. CASE Die
  BY <1>1, <1>2, DieStoreStep
<1>3. CASE SendAllFails
  BY <1>1, <1>3, ReceiveStoreStep
<1>4. CASE ~Die /\ ~SendAllFails
  <2>1. /\ UNCHANGED <<req, ret, storage, chain, mem>> /\ dpc' # "dead"
        /\ \/ dpc = "length" /\ answer' = [answer EXCEPT ![cur].length = s.len]
           \/ dpc = "data" /\ answer' = [answer EXCEPT ![cur].data = s]
    BY <1>4 DEF SendLength, SendData, CallersStay, libraryVars, heapVars
  <2>2. /\ cur \in Calls /\ r \in Requests /\ ReadGranted(r) /\ answer \in [Calls -> Answers]
        /\ DaemonTypeOK /\ UniqueIDs
    BY <1>1 DEF ServiceInv, ServingInv, CallerInv, TypeOK, WireTypeOK
  <2>3. Contents' = Contents /\ Running' = Running
    BY <1>1, <2>1, <2>2, SameContents DEF Running
  <2>4. /\ answer[cur].code = "SUCCESS" /\ answer[cur].data = NULL
        /\ dpc = "data" => answer[cur].length = s.len /\ s.len # 0
        /\ dpc = "length" => answer[cur].length = NULL
    BY <1>1 DEF AnswerInv, ServedOnce, ContentInv
  <2>5. /\ Store!Has(r) /\ Store!Opens(r) /\ b \in Linked /\ Contents[r.id].data = mem[b.data]
        /\ b.data_length \in Nat /\ b.data_length = Bytes[mem[b.data]]
    <3>1. Known(r.id) /\ SecretMatches(r)
      BY <2>2 DEF ReadGranted
    <3>2. b.data_length \in Nat
      BY <2>2, <3>1, FoundIsLinked DEF DaemonTypeOK, DataBlock
    <3> QED
      BY <2>2, <3>1, <3>2, HasIsKnown, LengthOfBlock
  <2>6. /\ r.op = "GET" =>
             s = [src |-> mem[b.data], from |-> 0, len |-> Bytes[mem[b.data]]]
        /\ r.op = "PARTIAL_GET" =>
             /\ r.begin < Bytes[mem[b.data]]
             /\ s = [src |-> mem[b.data], from |-> r.begin,
                     len |-> IF r.begin + r.length > Bytes[mem[b.data]]
                               THEN Bytes[mem[b.data]] - r.begin ELSE r.length]
    <3>1. ASSUME r.op = "PARTIAL_GET"
          PROVE  (r.begin + r.length) % Word = r.begin + r.length /\ r.begin < b.data_length
      <4>1. r.begin \in Nat /\ r.length \in Nat /\ r.begin + r.length < Word
        BY <2>2, <3>1, RequestFields, ReadBounds DEF PlainUse
      <4> QED
        BY <2>2, <3>1, <4>1, ConstantsAssumption DEF ReadGranted, BeginsInside
    <3>2. s = IF r.op = "GET"
                THEN [src |-> mem[b.data], from |-> 0, len |-> b.data_length]
                ELSE [src |-> mem[b.data], from |-> r.begin,
                      len |-> Adjusted(r.begin, r.length, b.data_length)]
      BY DEF Slice
    <3> HIDE DEF s, b, r
    <3> QED
      BY <2>5, <3>1, <3>2 DEF Adjusted
  <2>7. PICK k \in Calls : k = cur
    BY <2>2
  <2>8. /\ \A j \in Calls : j # k => answer'[j] = answer[j]
        /\ answer'[k].code = "SUCCESS" /\ answer'[k].length = s.len
        /\ answer'[k].data = IF dpc = "data" THEN s ELSE NULL
        /\ answer'[k] = [code |-> answer'[k].code, length |-> answer'[k].length,
                         data |-> answer'[k].data]
    BY <1>1, <2>1, <2>2, <2>4, <2>7 DEF Answers
  <2>9. ~CarriesData(r) /\ r.op \in {"GET", "PARTIAL_GET"}
    BY <2>2 DEF ReadGranted, CarriesData
  <2> HIDE DEF s, b
  <2>10. ~Complete(k)
    <3>1. NULL # 0
      BY NullFacts
    <3> QED
      BY <1>1, <2>4, <2>7, <2>9, <3>1, NullFacts DEF Complete, Codes
  <2>11. Replies' = [j \in Calls |-> IF j = k /\ Complete(k)' THEN answer'[k]
                                    ELSE IF j = k THEN NULL ELSE Replies[j]]
    <3>1. \A j \in Calls : j # k => (Complete(j)' <=> Complete(j))
      BY <2>1, <2>8, SameReplies
    <3> QED
      BY <2>8, <3>1 DEF Replies
  <2>12. Replies = [j \in Calls |-> Replies[j]] /\ Replies[k] = NULL
    BY <2>10 DEF Replies
  <2>13. CASE ~Complete(k)'
    <3>1. Replies' = Replies
      BY <2>11, <2>12, <2>13
    <3> QED
      BY <2>1, <2>3, <3>1, StoreStutters
  <2>14. CASE Complete(k)'
    <3>1. Replies' = [Replies EXCEPT ![k] = answer'[k]]
      BY <2>11, <2>12, <2>14
    <3>2. IF s.len = 0 THEN answer'[k].data = NULL ELSE answer'[k].data = s
      <4>1. CarriesData(req[k])' <=> CarriesData(req[k])
        BY <2>1 DEF CarriesData
      <4>2. answer'[k].length = 0 \/ answer'[k].data # NULL
        BY <2>7, <2>8, <2>9, <2>14, <4>1 DEF Complete
      <4>3. dpc = "length" => s.len = 0
        BY <2>8, <4>2
      <4> QED
        BY <1>1, <2>4, <2>8, <4>3
    <3>3. answer'[k] = Store!Text(mem[b.data], s.from, s.len)
      <4>1. s = [src |-> mem[b.data], from |-> s.from, len |-> s.len]
        BY <2>6, <2>9
      <4> QED
        BY <2>8, <3>2, <4>1 DEF Store!Text
    <3>4. Store!Reply(cur, Store!Text(mem[b.data], s.from, s.len))
      BY <2>7, <3>1, <3>3 DEF Store!Reply
    <3>5. Store!ServeRead(cur, r)
      <4>1. CASE r.op = "GET"
        <5>1. s.from = 0 /\ s.len = Bytes[mem[b.data]]
          BY <2>6, <4>1
        <5> QED
          BY <2>3, <2>5, <3>4, <4>1, <5>1 DEF Store!ServeRead
      <4>2. CASE r.op = "PARTIAL_GET"
        <5>1. /\ s.from = r.begin /\ r.begin < Bytes[mem[b.data]]
              /\ s.len = IF r.begin + r.length > Bytes[mem[b.data]]
                           THEN Bytes[mem[b.data]] - r.begin ELSE r.length
          BY <2>6, <4>2
        <5> QED
          BY <2>3, <2>5, <3>4, <4>2, <5>1 DEF Store!ServeRead
      <4> QED
        BY <2>9, <4>1, <4>2
    <3> QED
      BY <1>1, <2>1, <2>7, <2>9, <2>12, <3>5, ServeCurrent
  <2> QED
    BY <2>13, <2>14
<1> QED
  BY <1>2, <1>3, <1>4

\* The service starts as an empty store.
LEMMA InitStore == Init => Store!StoreInit
<1> SUFFICES ASSUME Init PROVE Store!StoreInit
  OBVIOUS
<1> USE DEF Init, WireInit, LibraryInit, DaemonInit
<1>1. Contents = <<>>
  <2>1. Linked = {}
    BY DEF Linked
  <2> QED
    BY <2>1 DEF Contents
<1>2. \A k \in Calls : ~Complete(k)
  <2>1. \A k \in Calls : answer[k].code = NULL
    BY DEF NoAnswer
  <2> QED
    BY <2>1 DEF Complete
<1>3. Replies = [k \in Calls |-> NULL]
  BY <1>2 DEF Replies
<1>4. Running = TRUE
  BY DEF Running
<1> QED
  BY <1>1, <1>3, <1>4 DEF Store!StoreInit

\* Every step of the service is one of the store, or none.
LEMMA NextServesStore ==
  ASSUME PlainUse
  PROVE  ServiceInv /\ ServiceInv' /\ AnswerInv /\ HeapInv /\ ContentInv /\ [Next]_vars =>
           [Store!StoreNext]_(Store!storeVars)
<1> SUFFICES ASSUME ServiceInv, ServiceInv', AnswerInv, HeapInv, ContentInv, [Next]_vars
             PROVE  [Store!StoreNext]_(Store!storeVars)
  OBVIOUS
<1>1. ASSUME NEW k \in Calls, Caller(k) PROVE [Store!StoreNext]_(Store!storeVars)
  BY <1>1, CallerStoreStep
<1>2. CASE Server
  <2>1. CallersStay
    BY <1>2 DEF Server
  <2>2. dpc # "dead"
    BY <1>2 DEF Server, DaemonStep, Accept, ReceiveOpcode, ReceiveField, ReceiveDataLength,
       ReceivePayload, ReceiveFails, Receiving, Handle, SendLength, SendData, CloseConnection
  <2>3. CASE Accept \/ ReceiveOpcode \/ ReceiveField \/ ReceiveDataLength \/ ReceivePayload
              \/ CloseConnection
    BY <2>1, <2>2, <2>3, ReceiveStoreStep
  <2>4. CASE ReceiveFails
    BY <2>1, <2>2, <2>4, DieStoreStep DEF ReceiveFails
  <2>5. CASE Handle
    BY <2>1, <2>5, HandleStoreStep
  <2>6. CASE SendLength \/ SendData
    BY <2>1, <2>6, SendStoreStep
  <2> QED
    BY <1>2, <2>3, <2>4, <2>5, <2>6 DEF Server, DaemonStep
<1>3. CASE UNCHANGED vars
  <2>1. UNCHANGED <<req, ret, answer, dpc, storage, chain, mem>>
    BY <1>3 DEF vars, wireVars, libraryVars, daemonVars
  <2>2. Contents' = Contents
    BY <2>1, SameContents DEF ServiceInv, TypeOK
  <2>3. Replies' = Replies /\ Running' = Running
    BY <2>1 DEF Replies, Complete, CarriesData, Running
  <2> QED
    BY <2>1, <2>2, <2>3, StoreStutters
<1> QED
  BY <1>1, <1>2, <1>3 DEF Next, AllReturned

\* Where nobody overwrites and no read wraps around, the daemon, the library
\* and their connections are a BlockStore: every call is served at most once,
\* at one instant, from the blocks there are at that instant.
THEOREM ServiceIsABlockStore ==
  ASSUME PlainUse
  PROVE  Spec => ImplementsBlockStore
<1>1. Init => ContentInv
  BY InitContentInv
<1>2. ServiceInv /\ AnswerInv /\ HeapInv /\ ContentInv /\ [Next]_vars => ContentInv'
  BY NextKeepsContentInv
<1>3. ServiceInv /\ ServiceInv' /\ AnswerInv /\ HeapInv /\ ContentInv /\ [Next]_vars =>
        [Store!StoreNext]_(Store!storeVars)
  BY NextServesStore
<1>4. Spec => []ContentInv
  BY <1>1, <1>2, InvariantHolds, AnswerInvHolds, HeapInvHolds, PTL DEF Spec
<1> QED
  BY <1>3, <1>4, InitStore, InvariantHolds, AnswerInvHolds, HeapInvHolds, PTL
     DEF Spec, ImplementsBlockStore, Store!StoreSpec
=============================================================================
