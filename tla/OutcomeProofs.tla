---------------------------- MODULE OutcomeProofs ---------------------------
(****************************************************************************)
(* How calls and the daemon end, for any instance of Service.               *)
(*                                                                          *)
(* What calls return: beyond ServiceInv, which is invariant by              *)
(* ServiceProofs, this takes two facts about connections: each is served    *)
(* once, and a caller that is gone while the daemon still has its           *)
(* connection left early, for one of the reasons of LeftEarly.              *)
(*                                                                          *)
(* The daemon's heap: why the daemon ends, which buffers it loses, and that *)
(* a read is sent bytes that were stored.  What relates these is who holds  *)
(* a buffer: the block it is the data of, or the handler that received it   *)
(* and has not answered yet.                                                *)
(****************************************************************************)
EXTENDS ServiceProofs, FiniteSetTheorems

\* A connection is in the queue, then served, then closed; it is answered in
\* between and at no other time.
ServedOnce ==
  /\ \A i, j \in DOMAIN backlog : backlog[i] = backlog[j] => i = j
  /\ \A i \in DOMAIN backlog :
       backlog[i] # cur /\ serverEnd[backlog[i]] = "open" /\ answer[backlog[i]] = NoAnswer
  /\ dpc \notin {"accept", "dead"} => serverEnd[cur] = "open" /\ got <= sent[cur]
  /\ dpc \in {"accept", "opcode"} => got = 0
  /\ dpc \in {"opcode", "request"} => answer[cur] = NoAnswer
  /\ dpc \in {"length", "data"} => answer[cur].code = "SUCCESS" /\ answer[cur].data = NULL
  /\ dpc = "length" => answer[cur].length = NULL
  /\ dpc = "data" => answer[cur].length \notin {NULL, 0}

\* A caller knows where it is from what it was answered.
PlaceInv ==
  \A k \in Calls :
    /\ cpc[k] # "done" => ret[k] = NULL /\ clientEnd[k] # "closed"
    /\ cpc[k] = "done" => clientEnd[k] = "closed"
    /\ cpc[k] \in {"length", "data"} => answer[k].code = "SUCCESS" /\ ~CarriesData(req[k])
    /\ cpc[k] = "data" => answer[k].length # NULL
    /\ answer[k].code = "SUCCESS" => cpc[k] # "send"

\* A caller is gone before its connection was served to the end.
Waiting(k) ==
  \/ k = cur /\ dpc \in {"opcode", "request", "length", "data"}
  \/ \E i \in DOMAIN backlog : backlog[i] = k

GoneInv == \A k \in Calls : Waiting(k) /\ clientEnd[k] = "closed" => LeftEarly(k)

AnswerInv ==
  ServedOnce /\ PlaceInv /\ GoneInv /\ ResultIsTheAnswer /\ FailedCallStoredNothing

\* Before the first call nothing was answered and nobody is gone.
LEMMA InitAnswerInv == Init => AnswerInv
BY NullFacts DEF Init, WireInit, LibraryInit, DaemonInit, AnswerInv, ServedOnce, PlaceInv,
   FailedCallStoredNothing, ResultIsTheAnswer, GoneInv, Waiting, NoAnswer, Codes

\* getBlock names a buffer size.
LEMMA BufferSize ==
  ASSUME NEW r \in Requests, r.op = "GET"
  PROVE  r.size \in Nat
<1>1. r \notin [op : Ops \cap {"SEND", "UPDATE"}, id : IDs, secret : Secrets, data : Payloads]
  OBVIOUS
<1>2. r \notin [op : Ops \cap {"PARTIAL_GET"}, id : IDs, secret : Secrets,
                begin : Begins, length : Lengths]
  OBVIOUS
<1>3. r.size \in BufferSizes
  BY <1>1, <1>2 DEF Requests
<1>4. \A n \in 0 .. Word - 1 : n \in Nat
  BY ConstantsAssumption
<1> QED
  BY <1>3, <1>4, ConstantsAssumption

\* Why a caller left is not forgotten while its request, its answer and its
\* result stay.
LEMMA LeftStays ==
  ASSUME NEW k, req'[k] = req[k], answer'[k] = answer[k], ret'[k] = ret[k]
  PROVE  LeftEarly(k)' <=> LeftEarly(k)
BY DEF LeftEarly, BufferAllocated

-----------------------------------------------------------------------------
(***************************************************************************)
(* The steps of callers.                                                   *)
(***************************************************************************)
LEMMA CallAnswerStep ==
  ASSUME ServiceInv, AnswerInv, NEW k \in Calls, Call(k), UNCHANGED daemonVars
  PROVE  AnswerInv'
<1> USE DEF AnswerInv
<1>1. PICK r \in Requests : req' = [req EXCEPT ![k] = r]
  BY DEF Call
<1>2. cpc[k] = "idle" /\ UNCHANGED <<sent, answer, listening>>
  BY DEF Call
<1>3. ConnectSucceeds(k) \/ ConnectFails(k)
  BY DEF Call
<1>4. WireTypeOK /\ LibraryTypeOK
  BY DEF ServiceInv, TypeOK
<1>5. answer[k] = NoAnswer /\ serverEnd[k] = "none" /\ ret[k] = NULL
  BY <1>2 DEF ServiceInv, CallerInv, PlaceInv
<1>6. \A j \in Calls : j # k => /\ req'[j] = req[j] /\ cpc'[j] = cpc[j] /\ ret'[j] = ret[j]
                                /\ clientEnd'[j] = clientEnd[j] /\ serverEnd'[j] = serverEnd[j]
  BY <1>1, <1>3, <1>4 DEF WireTypeOK, LibraryTypeOK, ConnectSucceeds, ConnectFails, Return
<1>7. \/ /\ backlog' = Append(backlog, k) /\ cpc'[k] = "send" /\ ret'[k] = NULL
         /\ clientEnd'[k] = "open" /\ serverEnd'[k] = "open"
      \/ /\ backlog' = backlog /\ cpc'[k] = "done" /\ ret'[k] = "FAIL"
         /\ clientEnd'[k] = "closed" /\ serverEnd'[k] = "none"
  BY <1>3, <1>4, <1>5 DEF WireTypeOK, LibraryTypeOK, ConnectSucceeds, ConnectFails, Return
<1>8. /\ \A i \in DOMAIN backlog : backlog[i] \in Calls /\ backlog[i] # k
      /\ dpc \notin {"accept", "dead"} => cur \in Calls /\ cur # k
      /\ dpc \in {"accept", "dead"} => cur = NULL
  BY <1>2, <1>4 DEF ServiceInv, ServingInv, WireTypeOK
<1>9. \A i \in DOMAIN backlog' :
        \/ i \in DOMAIN backlog /\ backlog'[i] = backlog[i]
        \/ i = Len(backlog) + 1 /\ i \notin DOMAIN backlog /\ backlog'[i] = k /\ serverEnd'[k] = "open"
  <2>1. CASE backlog' = backlog
    BY <2>1
  <2>2. CASE backlog' = Append(backlog, k) /\ serverEnd'[k] = "open"
    BY <1>4, <2>2 DEF WireTypeOK
  <2> QED
    BY <1>7, <2>1, <2>2
<1>10. UNCHANGED <<dpc, cur, got, storage, chain, mem>>
  BY DEF daemonVars
<1>11. ServedOnce'
  <2>1. k # cur
    BY <1>8, NullFacts
  <2>2. \A i \in DOMAIN backlog' :
          /\ backlog'[i] # cur' /\ serverEnd'[backlog'[i]] = "open" /\ answer'[backlog'[i]] = NoAnswer
          /\ \A j \in DOMAIN backlog' : backlog'[i] = backlog'[j] => i = j
    BY <1>2, <1>5, <1>6, <1>8, <1>9, <1>10, <2>1 DEF ServedOnce
  <2>3. dpc \notin {"accept", "dead"} => req'[cur] = req[cur] /\ serverEnd'[cur] = serverEnd[cur]
    BY <1>6, <1>8
  <2> QED
    BY <1>2, <1>10, <2>2, <2>3 DEF ServedOnce
<1>12. PlaceInv'
  BY <1>2, <1>5, <1>6, <1>7, NullFacts DEF PlaceInv, NoAnswer, Codes, CarriesData
<1>13. FailedCallStoredNothing' /\ ResultIsTheAnswer'
  <2>1. \A j \in Calls : j # k => req'[j] = req[j] /\ ret'[j] = ret[j] /\ answer'[j] = answer[j]
    BY <1>2, <1>6
  <2>2. ret'[k] \notin Codes \ {"FAIL"} /\ answer'[k].code # "SUCCESS"
    BY <1>2, <1>5, <1>7, NullFacts DEF NoAnswer, Codes
  <2>3. FailedCallStoredNothing'
    BY <2>1, <2>2 DEF FailedCallStoredNothing, CarriesData
  <2>4. ResultIsTheAnswer'
    BY <2>1, <2>2 DEF ResultIsTheAnswer, CarriesData
  <2> QED
    BY <2>3, <2>4
<1>14. GoneInv'
  <2> SUFFICES ASSUME NEW j \in Calls, Waiting(j)', clientEnd'[j] = "closed" PROVE LeftEarly(j)'
    BY DEF GoneInv
  <2>1. j # k
    BY <1>7, <1>8, <1>9, <1>10, NullFacts DEF Waiting
  <2>2. Waiting(j)
    BY <1>9, <1>10, <2>1 DEF Waiting
  <2>3. LeftEarly(j)
    BY <1>6, <2>1, <2>2 DEF GoneInv
  <2> QED
    BY <1>2, <1>6, <2>1, <2>3, LeftStays
<1> QED
  BY <1>11, <1>12, <1>13, <1>14

(*****************************************************************************)
(* What leaves of a caller's steps matters to the daemon: it returns a value *)
(* it was answered, or one that says it failed.                              *)
(*****************************************************************************)
LEMMA ReturnFacts ==
  ASSUME ServiceInv, AnswerInv, NEW k \in Calls, NEW v, Return(k, v),
         LibraryStep(k) \/ Interrupt(k)
  PROVE  /\ v = "SIGPIPE" => serverEnd[k] = "closed" /\ answer[k].code # "SUCCESS"
         /\ v = "FAIL" /\ CarriesData(req[k]) =>
              answer[k].code # "SUCCESS"
         /\ v \in Codes \ {"FAIL"} =>
              /\ v = answer[k].code
              /\ v = "SUCCESS" /\ ~CarriesData(req[k]) =>
                   answer[k].length = 0 \/ (answer[k].length # NULL /\ answer[k].data # NULL)
         /\ serverEnd[k] = "closed" \/ v = "SIGINT" \/ answer[k].code # NULL
         /\ serverEnd[k] = "closed" \/ v = "SIGINT"
              \/ answer[k].code # "SUCCESS" \/ CarriesData(req[k])
              \/ answer[k].length = 0 \/ answer[k].data # NULL
              \/ /\ v = "FAIL"
                 /\ \/ answer[k].length # NULL /\ ~LengthAccepted(req[k], answer[k].length)
                    \/ ~BufferAllocated(req[k])
<1> USE DEF AnswerInv, PlaceInv
<1>1. cpc' = [cpc EXCEPT ![k] = "done"] /\ ret' = [ret EXCEPT ![k] = v] /\ cpc'[k] = "done" /\ ret'[k] = v
  BY DEF Return, ServiceInv, TypeOK, LibraryTypeOK
<1>2. ~SendField(k)
  BY <1>1 DEF SendField, GoOn, ServiceInv, TypeOK, LibraryTypeOK
<1>3. CASE SendFails(k)
  BY <1>1, <1>3, NullFacts DEF SendFails, Return, Codes, ServiceInv, TypeOK, LibraryTypeOK
<1>4. CASE ReceiveResponse(k)
  <2>1. answer[k].code = "SUCCESS" \/ answer[k].code = "FAIL" \/ answer[k].code = "NOT_FOUND"
          \/ answer[k].code = "ALREADY_EXISTS" \/ answer[k].code = "ACCESS_DENIED"
          \/ answer[k].code = NULL
    BY DEF ServiceInv, TypeOK, WireTypeOK, Answers, Codes
  <2>2. CASE answer[k].code = "SUCCESS" /\ ~CarriesData(req[k])
            /\ ~BufferAllocated(req[k]) /\ v = "FAIL"
    BY <2>2, NullFacts DEF Codes
  <2>3. CASE answer[k].code # NULL /\ v = answer[k].code
            /\ (answer[k].code = "SUCCESS" => CarriesData(req[k]))
    BY <2>1, <2>3, NullFacts DEF Codes
  <2>4. CASE answer[k].code = NULL /\ serverEnd[k] = "closed" /\ v = "FAIL"
    BY <2>4, NullFacts DEF Codes
  <2>5. \A w : Return(k, w) => w = v
    BY <1>1 DEF Return, ServiceInv, TypeOK, LibraryTypeOK
  <2>6. ~GoOn(k, "length")
    BY <1>1 DEF GoOn, ServiceInv, TypeOK, LibraryTypeOK
  <2> QED
    BY <1>4, <2>2, <2>3, <2>4, <2>5, <2>6 DEF ReceiveResponse, EndOfFile
<1>5. CASE ReceiveLength(k)
  BY <1>1, <1>5, NullFacts DEF ReceiveLength, GoOn, Return, EndOfFile, Codes, ServiceInv, TypeOK, LibraryTypeOK
<1>6. CASE ReceiveData(k)
  BY <1>1, <1>6, NullFacts DEF ReceiveData, Return, EndOfFile, Codes, ServiceInv, TypeOK, LibraryTypeOK
<1>7. CASE Interrupt(k)
  BY <1>1, <1>7, NullFacts DEF Interrupt, Return, Codes, ServiceInv, TypeOK, LibraryTypeOK
<1> QED
  BY <1>2, <1>3, <1>4, <1>5, <1>6, <1>7 DEF LibraryStep

\* Sending a field, receiving, failing, and being killed.
LEMMA LibraryAnswerStep ==
  ASSUME ServiceInv, AnswerInv, NEW k \in Calls, LibraryStep(k) \/ Interrupt(k),
         UNCHANGED daemonVars
  PROVE  AnswerInv'
<1> USE DEF AnswerInv
<1>1. UNCHANGED <<req, answer, listening, backlog, serverEnd>>
  BY DEF LibraryStep, SendField, SendFails, ReceiveResponse, ReceiveLength,
         ReceiveData, Interrupt, UnchangedByReading
<1>2. UNCHANGED <<dpc, cur, got>>
  BY DEF daemonVars
<1>3. WireTypeOK /\ LibraryTypeOK
  BY DEF ServiceInv, TypeOK
<1>4. \/ \E v \in Results : Return(k, v)
      \/ \E pc \in {"send", "response", "length", "data"} : GoOn(k, pc)
  <2>1. answer[k].code \in Codes \cup {NULL}
    BY <1>3 DEF WireTypeOK, Answers
  <2> QED
    BY <2>1 DEF LibraryStep, SendField, SendFails, ReceiveResponse, ReceiveLength,
       ReceiveData, Interrupt, Results, Codes
<1>5. \A j \in Calls : j # k => /\ cpc'[j] = cpc[j] /\ ret'[j] = ret[j]
                                /\ clientEnd'[j] = clientEnd[j]
  BY <1>3, <1>4 DEF WireTypeOK, LibraryTypeOK, Return, GoOn
<1>6. \A j \in Calls : sent[j] <= sent'[j]
  <2>1. CASE sent' = sent
    BY <1>3, <2>1 DEF WireTypeOK
  <2>2. CASE sent' = [sent EXCEPT ![k] = @ + 1]
    BY <1>3, <2>2 DEF WireTypeOK
  <2> QED
    BY <2>1, <2>2 DEF LibraryStep, SendField, SendFails, ReceiveResponse, ReceiveLength,
       ReceiveData, Interrupt, UnchangedByReading
<1>7. ServedOnce'
  <2>1. dpc \notin {"accept", "dead"} => cur \in Calls /\ got <= sent'[cur]
    <3> SUFFICES ASSUME dpc \notin {"accept", "dead"} PROVE cur \in Calls /\ got <= sent'[cur]
      OBVIOUS
    <3>1. cur \in Calls /\ got \in Int
      BY DEF ServiceInv, ServingInv, TypeOK, DaemonTypeOK
    <3>2. sent[cur] \in Int /\ (sent'[cur] \in Int \/ sent' = sent)
      BY <1>3, <3>1 DEF WireTypeOK, LibraryStep, SendField, SendFails, ReceiveResponse,
         ReceiveLength, ReceiveData, Interrupt, UnchangedByReading
    <3>3. got <= sent[cur] /\ sent[cur] <= sent'[cur]
      BY <1>6, <3>1 DEF ServedOnce
    <3> QED
      BY <3>1, <3>2, <3>3
  <2> QED
    BY <1>1, <1>2, <2>1 DEF ServedOnce
<1>8. CASE \E pc \in {"send", "response", "length", "data"} : GoOn(k, pc)
  <2>1. PICK pc \in {"send", "response", "length", "data"} : GoOn(k, pc)
    BY <1>8
  <2>2. cpc' = [cpc EXCEPT ![k] = pc] /\ cpc'[k] = pc /\ UNCHANGED <<ret, clientEnd>>
    BY <1>3, <2>1 DEF GoOn, LibraryTypeOK
  <2>3. /\ cpc[k] \notin {"done"} /\ cpc[k] = cpc[k]
        /\ pc = "send" => cpc[k] = "send"
        /\ pc = "length" => answer[k].code = "SUCCESS" /\ ~CarriesData(req[k])
        /\ pc = "data" => cpc[k] = "length" /\ answer[k].length # NULL
    BY <1>3, <2>2 DEF LibraryStep, SendField, SendFails, ReceiveResponse, ReceiveLength,
       ReceiveData, Interrupt, GoOn, Return, LibraryTypeOK
  <2>4. PlaceInv'
    BY <1>1, <1>5, <2>2, <2>3 DEF PlaceInv, CarriesData
  <2>5. ResultIsTheAnswer' /\ FailedCallStoredNothing'
    BY <1>1, <2>2 DEF ResultIsTheAnswer, FailedCallStoredNothing, CarriesData
  <2>6. GoneInv'
    BY <1>1, <1>2, <2>2, LeftStays DEF GoneInv, Waiting
  <2> QED
    BY <1>7, <2>4, <2>5, <2>6
<1>9. ASSUME NEW v \in Results, Return(k, v) PROVE AnswerInv'
  <2>1. cpc'[k] = "done" /\ ret'[k] = v /\ clientEnd'[k] = "closed"
    BY <1>3, <1>9 DEF Return, LibraryTypeOK, WireTypeOK
  <2>2. /\ v = "SIGPIPE" => serverEnd[k] = "closed" /\ answer[k].code # "SUCCESS"
        /\ v = "FAIL" /\ CarriesData(req[k]) => answer[k].code # "SUCCESS"
        /\ v \in Codes \ {"FAIL"} =>
             /\ v = answer[k].code
             /\ v = "SUCCESS" /\ ~CarriesData(req[k]) =>
                  answer[k].length = 0 \/ (answer[k].length # NULL /\ answer[k].data # NULL)
    BY <1>9, ReturnFacts
  <2>3. PlaceInv'
    BY <1>1, <1>5, <2>1 DEF PlaceInv, CarriesData
  <2>4. ResultIsTheAnswer'
    BY <1>1, <1>5, <2>1, <2>2 DEF ResultIsTheAnswer, CarriesData
  <2>5. FailedCallStoredNothing'
    BY <1>1, <1>5, <2>1, <2>2 DEF FailedCallStoredNothing, CarriesData
  <2>6. ASSUME Waiting(k) PROVE LeftEarly(k)'
    <3>1. CASE v = "SIGINT"
      BY <2>1, <3>1 DEF LeftEarly
    <3>2. CASE v # "SIGINT"
      <4>1. serverEnd[k] = "open"
        BY <2>6 DEF Waiting, ServedOnce
      <4>2. /\ answer[k].code # NULL
            /\ \/ answer[k].code # "SUCCESS" \/ CarriesData(req[k])
               \/ answer[k].length = 0 \/ answer[k].data # NULL
               \/ /\ v = "FAIL"
                  /\ \/ answer[k].length # NULL /\ ~LengthAccepted(req[k], answer[k].length)
                     \/ ~BufferAllocated(req[k])
        BY <1>9, <3>2, <4>1, ReturnFacts
      <4>3. k = cur /\ dpc \in {"length", "data"}
        BY <2>6, <4>2 DEF Waiting, ServedOnce, NoAnswer
      <4>4. req[k].op \in {"GET", "PARTIAL_GET"} /\ ~CarriesData(req[k])
        BY <4>3 DEF ServiceInv, ServingInv, ReadGranted, CarriesData
      <4>5. /\ answer[k].code = "SUCCESS" /\ answer[k].data = NULL /\ answer[k].length # 0
        BY <4>3, NullFacts DEF ServedOnce
      <4>6. /\ v = "FAIL"
            /\ \/ answer[k].length # NULL /\ ~LengthAccepted(req[k], answer[k].length)
               \/ ~BufferAllocated(req[k])
        BY <4>2, <4>4, <4>5
      <4>7. CASE ~BufferAllocated(req[k])
        <5>1. req[k].op = "PARTIAL_GET" /\ ~BufferAllocated(req'[k])
          BY <1>1, <4>7 DEF BufferAllocated
        <5> QED
          BY <1>1, <2>1, <4>5, <4>6, <5>1 DEF LeftEarly
      <4>8. CASE answer[k].length # NULL /\ ~LengthAccepted(req[k], answer[k].length)
        <5>1. CASE req[k].op = "GET"
          <6>1. answer[k].length \in Nat
            BY <1>3, <4>8 DEF WireTypeOK, Answers
          <6>2. cpc[k] # "idle"
            BY <1>9, <4>3 DEF ServiceInv, ServingInv
          <6>3. req[k] \in Requests
            BY <6>2 DEF ServiceInv, CallerInv
          <6>4. req[k].size \in Nat
            BY <5>1, <6>3, BufferSize
          <6>5. answer[k].length > req[k].size
            BY <4>8, <5>1, <6>1, <6>4 DEF LengthAccepted
          <6> QED
            BY <1>1, <2>1, <4>5, <4>6, <4>8, <5>1, <6>5 DEF LeftEarly
        <5>2. CASE req[k].op # "GET"
          BY <1>1, <2>1, <4>4, <4>5, <4>6, <4>8, <5>2 DEF LeftEarly, LengthAccepted
        <5> QED
          BY <5>1, <5>2
      <4> QED
        BY <4>6, <4>7, <4>8
    <3> QED
      BY <3>1, <3>2
  <2>7. GoneInv'
    <3> SUFFICES ASSUME NEW j \in Calls, Waiting(j)', clientEnd'[j] = "closed" PROVE LeftEarly(j)'
      BY DEF GoneInv
    <3>1. Waiting(j)
      BY <1>1, <1>2 DEF Waiting
    <3>2. CASE j = k
      BY <2>6, <3>1, <3>2
    <3>3. CASE j # k
      BY <1>1, <1>5, <3>1, <3>3, LeftStays DEF GoneInv
    <3> QED
      BY <3>2, <3>3
  <2> QED
    BY <1>7, <2>3, <2>4, <2>5, <2>7
<1> QED
  BY <1>4, <1>8, <1>9

-----------------------------------------------------------------------------
(***************************************************************************)
(* The steps of the daemon.                                                *)
(***************************************************************************)
\* A step that serves the current call adds to its answer only while the
\* caller is there, and so while it has returned nothing.
LEMMA ServeAnswerStep ==
  ASSUME ServiceInv, AnswerInv, CallersStay, Stay,
         dpc \in {"opcode", "request", "length", "data"},
         dpc' \in {"request", "length", "data", "close"},
         got' \in Nat, got' <= sent[cur],
         \A j \in Calls : j # cur => answer'[j] = answer[j],
         answer'[cur] = answer[cur] \/ ~ClientGone,
         answer[cur].code \in {NULL, answer'[cur].code},
         answer[cur].length \in {NULL, answer'[cur].length},
         answer'[cur].code = "SUCCESS" => answer[cur].code = "SUCCESS" \/ cpc[cur] # "send",
         dpc' = "request" => answer'[cur] = NoAnswer,
         dpc' \in {"length", "data"} => answer'[cur].code = "SUCCESS" /\ answer'[cur].data = NULL,
         dpc' = "length" => answer'[cur].length = NULL,
         dpc' = "data" => answer'[cur].length \notin {NULL, 0}
  PROVE  AnswerInv'
<1> USE DEF AnswerInv
<1>1. UNCHANGED <<req, sent, clientEnd, cpc, ret, backlog, serverEnd, cur>>
  BY DEF CallersStay, Stay, libraryVars
<1>2. cur \in Calls /\ \A i \in DOMAIN backlog : backlog[i] \in Calls
  BY DEF ServiceInv, TypeOK, WireTypeOK, ServingInv
<1>3. ServedOnce'
  BY <1>1, <1>2 DEF ServedOnce
<1>4. PlaceInv'
  BY <1>1, <1>2, NullFacts DEF PlaceInv, CarriesData, Codes
<1>5. \A j \in Calls : cpc[j] = "done" => answer'[j] = answer[j]
  BY DEF PlaceInv, ClientGone
<1>6. \A j \in Calls : cpc[j] # "done" => ret[j] = NULL
  BY DEF PlaceInv
<1>7. ResultIsTheAnswer' /\ FailedCallStoredNothing'
  <2>1. \A j \in Calls : ret[j] # NULL => answer'[j] = answer[j]
    BY <1>5, <1>6
  <2>2. NULL \notin Codes \ {"FAIL"} /\ NULL # "SIGPIPE" /\ NULL # "FAIL"
    BY NullFacts, LibraryAssumption DEF Codes
  <2>3. ResultIsTheAnswer'
    BY <1>1, <2>1, <2>2 DEF ResultIsTheAnswer, CarriesData
  <2>4. FailedCallStoredNothing'
    BY <1>1, <2>1, <2>2 DEF FailedCallStoredNothing, CarriesData
  <2> QED
    BY <2>3, <2>4
<1>8. GoneInv'
  <2> SUFFICES ASSUME NEW j \in Calls, Waiting(j)', clientEnd'[j] = "closed" PROVE LeftEarly(j)'
    BY DEF GoneInv
  <2>1. Waiting(j)
    BY <1>1 DEF Waiting
  <2>2. answer'[j] = answer[j]
    BY <1>1 DEF ClientGone
  <2> QED
    BY <1>1, <2>1, <2>2, LeftStays DEF GoneInv
<1> QED
  BY <1>3, <1>4, <1>7, <1>8

\* The end of the process: nobody waits any more.
LEMMA DieAnswerStep ==
  ASSUME ServiceInv, AnswerInv, Die, CallersStay
  PROVE  AnswerInv'
<1> USE DEF AnswerInv
<1>1. UNCHANGED <<req, sent, answer, clientEnd, cpc, ret>>
  BY DEF Die, CallersStay, libraryVars
<1>2. dpc' = "dead" /\ backlog' = <<>> /\ got' = 0 /\ cur' = NULL
  BY DEF Die
<1>3. ServedOnce' /\ GoneInv'
  BY <1>2 DEF ServedOnce, GoneInv, Waiting
<1>4. PlaceInv' /\ ResultIsTheAnswer' /\ FailedCallStoredNothing'
  BY <1>1 DEF PlaceInv, ResultIsTheAnswer, FailedCallStoredNothing, CarriesData
<1> QED
  BY <1>3, <1>4

\* accept() and close(client_sock).
LEMMA AcceptAnswerStep ==
  ASSUME ServiceInv, AnswerInv, Accept \/ CloseConnection, CallersStay
  PROVE  AnswerInv'
<1> USE DEF AnswerInv
<1>1. UNCHANGED <<req, sent, answer, clientEnd, cpc, ret>>
  BY DEF Accept, CloseConnection, CallersStay, libraryVars
<1>2. PlaceInv' /\ ResultIsTheAnswer' /\ FailedCallStoredNothing'
  BY <1>1 DEF PlaceInv, ResultIsTheAnswer, FailedCallStoredNothing, CarriesData
<1>3. backlog \in Seq(Calls) /\ sent \in [Calls -> 0 .. 5] /\ serverEnd \in [Calls -> Ends]
  BY DEF ServiceInv, TypeOK, WireTypeOK
<1>4. CASE Accept
  <2>1. /\ dpc = "accept" /\ dpc' = "opcode" /\ UNCHANGED <<serverEnd, got>>
        /\ cur' = Head(backlog) /\ backlog' = Tail(backlog) /\ backlog # <<>>
    BY <1>4 DEF Accept
  <2>2. /\ Head(backlog) = backlog[1] /\ 1 \in DOMAIN backlog /\ backlog[1] \in Calls
        /\ \A i \in DOMAIN Tail(backlog) :
             i \in Nat \ {0} /\ i + 1 \in DOMAIN backlog /\ Tail(backlog)[i] = backlog[i + 1]
    BY <1>3, <2>1
  <2>3. got = 0 /\ sent[backlog[1]] \in Nat
    BY <1>3, <2>1, <2>2 DEF ServedOnce
  <2>4. \A i \in DOMAIN backlog' : backlog'[i] # cur'
    BY <2>1, <2>2 DEF ServedOnce
  <2>5. \A i, j \in DOMAIN backlog' : backlog'[i] = backlog'[j] => i = j
    <3> SUFFICES ASSUME NEW i \in DOMAIN backlog', NEW j \in DOMAIN backlog',
                        backlog'[i] = backlog'[j]
                 PROVE  i = j
      OBVIOUS
    <3>1. i + 1 = j + 1 /\ i \in Nat /\ j \in Nat
      BY <2>1, <2>2 DEF ServedOnce
    <3> QED
      BY <3>1
  <2>6. ServedOnce'
    BY <1>1, <2>1, <2>2, <2>3, <2>4, <2>5 DEF ServedOnce
  <2>7. GoneInv'
    <3> SUFFICES ASSUME NEW j \in Calls, Waiting(j)', clientEnd'[j] = "closed" PROVE LeftEarly(j)'
      BY DEF GoneInv
    <3>1. Waiting(j)
      BY <2>1, <2>2 DEF Waiting
    <3> QED
      BY <1>1, <3>1, LeftStays DEF GoneInv
  <2> QED
    BY <1>2, <2>6, <2>7
<1>5. CASE CloseConnection
  <2>1. /\ dpc' = "accept" /\ cur' = NULL /\ got' = 0 /\ UNCHANGED backlog
        /\ serverEnd' = [serverEnd EXCEPT ![cur] = "closed"]
    BY <1>5 DEF CloseConnection
  <2>2. \A i \in DOMAIN backlog : backlog[i] \in Calls /\ serverEnd'[backlog[i]] = "open"
    BY <1>3, <2>1 DEF ServedOnce
  <2>3. ServedOnce'
    BY <1>1, <2>1, <2>2, NullFacts DEF ServedOnce
  <2>4. GoneInv'
    <3> SUFFICES ASSUME NEW j \in Calls, Waiting(j)', clientEnd'[j] = "closed" PROVE LeftEarly(j)'
      BY DEF GoneInv
    <3>1. Waiting(j)
      BY <2>1 DEF Waiting
    <3> QED
      BY <1>1, <3>1, LeftStays DEF GoneInv
  <2> QED
    BY <1>2, <2>3, <2>4
<1> QED
  BY <1>4, <1>5

\* recv() of the opcode and of the other fields: no field is read before it
\* was sent.
LEMMA ReceiveAnswerStep ==
  ASSUME ServiceInv, AnswerInv, CallersStay,
         ReceiveOpcode \/ ReceiveField \/ ReceiveDataLength \/ ReceivePayload
  PROVE  AnswerInv'
<1> USE DEF AnswerInv
<1>1. /\ dpc \in {"opcode", "request"} /\ dpc' \in {"request", "close"}
      /\ UNCHANGED answer /\ Stay
  BY DEF ReceiveOpcode, ReceiveField, ReceiveDataLength, ReceivePayload, Receiving
<1>2. cur \in Calls /\ got \in 0 .. 5 /\ sent[cur] \in 0 .. 5 /\ got <= sent[cur]
  BY <1>1 DEF ServiceInv, ServingInv, TypeOK, DaemonTypeOK, WireTypeOK, ServedOnce
<1>3. got' \in Nat /\ got' <= sent[cur]
  BY <1>1, <1>2 DEF ReceiveOpcode, ReceiveField, ReceiveDataLength, ReceivePayload,
     SecretRead, DataLengthRead
<1>4. answer[cur] = NoAnswer
  BY <1>1 DEF ServedOnce
<1> QED
  BY <1>1, <1>3, <1>4, ServeAnswerStep

\* The handlers: SUCCESS is the answer to a request that has arrived in full.
LEMMA RespondAnswerStep ==
  ASSUME ServiceInv, AnswerInv, CallersStay, dpc = "request", ~ClientGone,
         NEW code \in Codes, NEW pc \in {"close", "length"}, Respond(code, pc),
         code = "SUCCESS" => got = Fields(req[cur]),
         pc = "length" => code = "SUCCESS"
  PROVE  AnswerInv'
<1> USE DEF AnswerInv
<1>1. /\ answer' = [answer EXCEPT ![cur].code = code] /\ dpc' = pc /\ got' = got /\ Stay
  BY DEF Respond
<1>2. /\ cur \in Calls /\ got \in Nat /\ sent[cur] \in Nat /\ got <= sent[cur]
      /\ answer[cur] = NoAnswer /\ answer \in [Calls -> Answers]
  BY DEF ServiceInv, ServingInv, TypeOK, DaemonTypeOK, WireTypeOK, ServedOnce
<1>3. /\ answer'[cur] = [NoAnswer EXCEPT !.code = code]
      /\ \A j \in Calls : j # cur => answer'[j] = answer[j]
  BY <1>1, <1>2
<1>4. /\ answer'[cur].code = code /\ answer'[cur].length = NULL /\ answer'[cur].data = NULL
      /\ answer[cur].code = NULL /\ answer[cur].length = NULL
  BY <1>2, <1>3 DEF NoAnswer
<1>5. code = "SUCCESS" => cpc[cur] # "send"
  <2> SUFFICES ASSUME code = "SUCCESS", cpc[cur] = "send" PROVE FALSE
    OBVIOUS
  <2>1. sent[cur] < Fields(req[cur]) /\ Fields(req[cur]) \in Nat
    BY <1>2 DEF ServiceInv, CallerInv, Fields
  <2> QED
    BY <1>2, <2>1
<1> QED
  BY <1>1, <1>2, <1>3, <1>4, <1>5, ServeAnswerStep

\* A handler answers once, and with SUCCESS only when it has read the request
\* to its end.
LEMMA HandleAnswerStep ==
  ASSUME ServiceInv, AnswerInv, CallersStay, Handle
  PROVE  AnswerInv'
<1>1. CASE Die
  BY <1>1, DieAnswerStep
<1>2. CASE ~Die
  <2> DEFINE r == req[cur]
  <2>1. dpc = "request" /\ got = Wanted(r) /\ ~ClientGone
    BY <1>2 DEF Handle
  <2>2. r \in Requests /\ got \in Nat
    BY <2>1 DEF ServiceInv, ServingInv, CallerInv, TypeOK, DaemonTypeOK
  <2>3. CASE Respond("FAIL", "close")
    BY <2>1, <2>3, RespondAnswerStep DEF Codes
  <2>4. CASE Respond("NOT_FOUND", "close")
    BY <2>1, <2>4, RespondAnswerStep DEF Codes
  <2>5. CASE Respond("ACCESS_DENIED", "close")
    BY <2>1, <2>5, RespondAnswerStep DEF Codes
  <2>6. CASE Respond("ALREADY_EXISTS", "close")
    BY <2>1, <2>6, RespondAnswerStep DEF Codes
  <2>7. CASE \E pc \in {"close", "length"} : Respond("SUCCESS", pc) /\ got = Fields(r)
    BY <2>1, <2>7, RespondAnswerStep DEF Codes
  <2>8. /\ ~CarriesData(r) => got = Fields(r)
        /\ r.op = "UPDATE" \/ (r.op = "SEND" /\ ~Known(r.id)) =>
             (n_data # NULL /\ Bytes[r.data] # 0 => got = Fields(r))
    BY <2>1 DEF Wanted, CarriesData
  <2>9. CASE handleSendBlock(r)
    <3>1. CASE Known(r.id)
      <4>1. Respond(IF SecretMatches(r) THEN "ALREADY_EXISTS" ELSE "ACCESS_DENIED", "close")
              \/ RefuseData(r) \/ StoreFull \/ ~Known(r.id)
        BY <2>9 DEF handleSendBlock
      <4>2. CASE Respond(IF SecretMatches(r) THEN "ALREADY_EXISTS" ELSE "ACCESS_DENIED", "close")
        <5>1. CASE SecretMatches(r)
          BY <2>6, <4>2, <5>1
        <5>2. CASE ~SecretMatches(r)
          BY <2>5, <4>2, <5>2
        <5> QED
          BY <5>1, <5>2
      <4> QED
        BY <2>3, <3>1, <4>1, <4>2 DEF RefuseData, StoreFull
    <3>2. CASE ~Known(r.id)
      <4>1. CASE n_data # NULL /\ Bytes[r.data] > 0 /\ StoreBlock(r)
        <5>1. Bytes[r.data] # 0
          BY <2>2, <2>9, <4>1, RequestFields DEF handleSendBlock, CarriesData
        <5>2. Respond("SUCCESS", "close") /\ got = Fields(r)
          BY <2>8, <2>9, <3>2, <4>1, <5>1 DEF handleSendBlock, StoreBlock
        <5> QED
          BY <2>7, <5>2
      <4> QED
        BY <2>3, <2>9, <3>2, <4>1 DEF handleSendBlock, RefuseData, StoreFull
    <3> QED
      BY <3>1, <3>2
  <2>10. CASE handleGetBlock(r)
    <3>1. got = Fields(r)
      BY <2>8, <2>10 DEF handleGetBlock, CarriesData
    <3> QED
      BY <2>4, <2>5, <2>7, <2>10, <3>1 DEF handleGetBlock
  <2>11. CASE handlePartialGetBlock(r)
    <3>1. got = Fields(r)
      BY <2>8, <2>11 DEF handlePartialGetBlock, CarriesData
    <3> QED
      BY <2>3, <2>4, <2>5, <2>7, <2>11, <3>1 DEF handlePartialGetBlock
  <2>12. CASE handleOverwriteBlock(r)
    <3>1. CASE n_data # NULL /\ Bytes[r.data] > 0 /\ OverwriteBlock(r)
      <4>1. Bytes[r.data] # 0
        BY <2>2, <2>12, <3>1, RequestFields DEF handleOverwriteBlock, CarriesData
      <4>2. Respond("SUCCESS", "close") /\ got = Fields(r)
        BY <1>2, <2>8, <2>12, <3>1, <4>1 DEF handleOverwriteBlock, OverwriteBlock
      <4> QED
        BY <2>7, <4>2
    <3> QED
      BY <2>3, <2>4, <2>5, <2>12, <3>1 DEF handleOverwriteBlock, RefuseData
  <2> QED
    BY <2>1, <2>9, <2>10, <2>11, <2>12 DEF Handle
<1> QED
  BY <1>1, <1>2

\* The length and the data of a read.
LEMMA SendAnswerStep ==
  ASSUME ServiceInv, AnswerInv, CallersStay, SendLength \/ SendData
  PROVE  AnswerInv'
<1>1. CASE Die
  BY <1>1, DieAnswerStep
<1>2. CASE ~Die
  <2> USE DEF AnswerInv
  <2> DEFINE s == Slice(req[cur])
  <2>1. /\ dpc \in {"length", "data"} /\ UNCHANGED got /\ Stay
        /\ \/ answer' = answer /\ dpc' = "close"
           \/ /\ ~ClientGone /\ dpc = "length" /\ answer' = [answer EXCEPT ![cur].length = s.len]
              /\ dpc' = IF s.len = 0 THEN "close" ELSE "data"
           \/ /\ ~ClientGone /\ dpc = "data" /\ answer' = [answer EXCEPT ![cur].data = s]
              /\ dpc' = "close"
    BY <1>2 DEF SendLength, SendData, SendAllFails
  <2>2. /\ cur \in Calls /\ req[cur] \in Requests /\ ReadGranted(req[cur])
        /\ DaemonTypeOK /\ UniqueIDs /\ StorageInv
    BY <2>1 DEF ServiceInv, ServingInv, CallerInv, TypeOK
  <2>3. s \in Snippets
    BY <2>2, SliceType
  <2>4. s.len \in Nat
    BY <2>3 DEF Snippets
  <2> HIDE DEF s
  <2>5. /\ got \in Nat /\ sent[cur] \in Nat /\ got <= sent[cur] /\ answer \in [Calls -> Answers]
        /\ answer[cur].code = "SUCCESS" /\ answer[cur].data = NULL
        /\ dpc = "length" => answer[cur].length = NULL
    BY <2>1, <2>2 DEF ServiceInv, TypeOK, DaemonTypeOK, WireTypeOK, ServedOnce
  <2>6. /\ \A j \in Calls : j # cur => answer'[j] = answer[j]
        /\ answer'[cur].code = answer[cur].code
        /\ dpc = "data" => answer'[cur].length = answer[cur].length
        /\ dpc' = "data" => answer'[cur].data = NULL /\ answer'[cur].length \notin {NULL, 0}
        /\ dpc' \in {"data", "close"}
    BY <2>1, <2>2, <2>4, <2>5, NullFacts DEF Answers
  <2> QED
    BY <2>1, <2>5, <2>6, ServeAnswerStep
<1> QED
  BY <1>1, <1>2

-----------------------------------------------------------------------------
(***************************************************************************)
(* Theorems.                                                               *)
(***************************************************************************)
\* Every step of a caller or of the daemon keeps the invariant.
LEMMA NextKeepsAnswerInv == ServiceInv /\ AnswerInv /\ [Next]_vars => AnswerInv'
<1> SUFFICES ASSUME ServiceInv, AnswerInv, [Next]_vars PROVE AnswerInv'
  OBVIOUS
<1>1. ASSUME NEW k \in Calls, Caller(k) PROVE AnswerInv'
  BY <1>1, CallAnswerStep, LibraryAnswerStep DEF Caller
<1>2. CASE Server
  <2>1. CallersStay
    BY <1>2 DEF Server
  <2>2. CASE Accept \/ CloseConnection
    BY <2>1, <2>2, AcceptAnswerStep
  <2>3. CASE ReceiveOpcode \/ ReceiveField \/ ReceiveDataLength \/ ReceivePayload
    BY <2>1, <2>3, ReceiveAnswerStep
  <2>4. CASE ReceiveFails
    BY <2>1, <2>4, DieAnswerStep DEF ReceiveFails
  <2>5. CASE Handle
    BY <2>1, <2>5, HandleAnswerStep
  <2>6. CASE SendLength \/ SendData
    BY <2>1, <2>6, SendAnswerStep
  <2> QED
    BY <1>2, <2>2, <2>3, <2>4, <2>5, <2>6 DEF Server, DaemonStep
<1>3. CASE UNCHANGED vars
  <2>1. UNCHANGED daemonVars /\ UNCHANGED wireVars /\ UNCHANGED libraryVars
    BY <1>3 DEF vars
  <2> QED
    BY <2>1 DEF AnswerInv, ServedOnce, PlaceInv, GoneInv, Waiting, LeftEarly, BufferAllocated,
       ResultIsTheAnswer, FailedCallStoredNothing, CarriesData,
       wireVars, libraryVars, daemonVars
<1> QED
  BY <1>1, <1>2, <1>3 DEF Next, AllReturned

\* The invariant holds in every reachable state of the service.
THEOREM AnswerInvHolds == Spec => []AnswerInv
<1>1. Init => AnswerInv
  BY InitAnswerInv
<1>2. ServiceInv /\ AnswerInv /\ [Next]_vars => AnswerInv'
  BY NextKeepsAnswerInv
<1> QED
  BY <1>1, <1>2, InvariantHolds, PTL DEF Spec

\* A call returns what it was answered, and a read SUCCESS only with its data.
THEOREM ResultsAreAnswers == Spec => []ResultIsTheAnswer
<1>1. AnswerInv => ResultIsTheAnswer
  BY DEF AnswerInv
<1> QED
  BY <1>1, AnswerInvHolds, PTL

\* A SEND or UPDATE that failed on the caller's side stored nothing, and will
\* not store anything later.
THEOREM FailuresStoreNothing == Spec => []FailedCallStoredNothing
<1>1. AnswerInv => FailedCallStoredNothing
  BY DEF AnswerInv
<1> QED
  BY <1>1, AnswerInvHolds, PTL

-----------------------------------------------------------------------------
(***************************************************************************)
(* Who waits for whom.  A caller that waits for an answer has sent all its *)
(* fields, and a handler wants no more of them than that.                  *)
(***************************************************************************)
SentInv ==
  /\ \A k \in Calls : cpc[k] \in {"response", "length", "data"} => sent[k] = Fields(req[k])
  /\ dpc = "dead" => ~listening /\ backlog = <<>>

LEMMA InitSentInv == Init => SentInv
BY DEF Init, LibraryInit, DaemonInit, SentInv

\* No handler receives more fields than the library sends for its operation.
LEMMA WantedIsSent ==
  ASSUME NEW r \in Requests
  PROVE  Wanted(r) <= Fields(r)
<1>1. r.op \in AllOps
  BY ConstantsAssumption DEF Requests, AllOps
<1> QED
  BY <1>1 DEF Wanted, Fields, CarriesData, SecretRead, DataLengthRead, AllOps

LEMMA CallSentStep ==
  ASSUME ServiceInv, SentInv, NEW k \in Calls, Call(k), UNCHANGED daemonVars
  PROVE  SentInv'
<1>1. WireTypeOK /\ LibraryTypeOK
  BY DEF ServiceInv, TypeOK
<1>2. UNCHANGED <<sent, listening, dpc>> /\ (ConnectSucceeds(k) \/ ConnectFails(k))
  BY DEF Call, daemonVars
<1>3. /\ cpc'[k] \in {"send", "done"}
      /\ \A j \in Calls : j # k => cpc'[j] = cpc[j] /\ req'[j] = req[j]
  BY <1>1, <1>2 DEF Call, ConnectSucceeds, ConnectFails, Return, WireTypeOK, LibraryTypeOK
<1>4. ~listening => UNCHANGED backlog
  BY <1>2 DEF ConnectSucceeds, ConnectFails
<1> QED
  BY <1>2, <1>3, <1>4 DEF SentInv

LEMMA LibrarySentStep ==
  ASSUME ServiceInv, SentInv, NEW k \in Calls, LibraryStep(k) \/ Interrupt(k), UNCHANGED daemonVars
  PROVE  SentInv'
<1>1. WireTypeOK /\ LibraryTypeOK
  BY DEF ServiceInv, TypeOK
<1>2. UNCHANGED <<req, listening, backlog, dpc>>
  BY DEF LibraryStep, SendField, SendFails, ReceiveResponse, ReceiveLength, ReceiveData, Interrupt,
     UnchangedByReading, daemonVars
<1>3. CASE SendField(k)
  <2>1. /\ sent'[k] = sent[k] + 1 /\ cpc'[k] = IF sent[k] + 1 = Fields(req[k]) THEN "response" ELSE "send"
        /\ \A j \in Calls : j # k => cpc'[j] = cpc[j] /\ sent'[j] = sent[j]
    BY <1>1, <1>3 DEF SendField, GoOn, WireTypeOK, LibraryTypeOK
  <2> QED
    BY <1>2, <2>1 DEF SentInv
<1>4. CASE ~SendField(k)
  <2>1. /\ UNCHANGED sent
        /\ \/ cpc' = [cpc EXCEPT ![k] = "done"]
           \/ cpc[k] \in {"response", "length"} /\ \E pc \in {"length", "data"} : cpc' = [cpc EXCEPT ![k] = pc]
    BY <1>4 DEF LibraryStep, SendFails, ReceiveResponse, ReceiveLength, ReceiveData, Interrupt,
       UnchangedByReading, Return, GoOn
  <2>2. /\ cpc'[k] = "done" \/ cpc[k] \in {"response", "length"}
        /\ \A j \in Calls : j # k => cpc'[j] = cpc[j]
    BY <1>1, <2>1 DEF LibraryTypeOK
  <2> QED
    BY <1>2, <2>1, <2>2 DEF SentInv
<1> QED
  BY <1>3, <1>4

LEMMA ServerSentStep ==
  ASSUME SentInv, DaemonStep, CallersStay
  PROVE  SentInv'
<1>1. dpc # "dead"
  BY DEF DaemonStep, Accept, ReceiveOpcode, ReceiveField, ReceiveDataLength, ReceivePayload,
     ReceiveFails, Receiving, Handle, SendLength, SendData, CloseConnection
<1>2. CASE Die
  BY <1>2 DEF Die, SentInv, CallersStay, libraryVars
<1>3. CASE ~Die
  <2>1. dpc' # "dead"
    BY <1>1, <1>3 DEF DaemonStep, Accept, ReceiveOpcode, ReceiveField, ReceiveDataLength,
       ReceivePayload, ReceiveFails, Receiving, Handle, handleSendBlock, handleGetBlock,
       handlePartialGetBlock, handleOverwriteBlock, OverwriteBlock, RefuseData, StoreFull, StoreBlock,
       Respond, SendLength, SendData, SendAllFails, CloseConnection
  <2> QED
    BY <2>1 DEF SentInv, CallersStay, libraryVars
<1> QED
  BY <1>2, <1>3

LEMMA NextKeepsSentInv == ServiceInv /\ SentInv /\ [Next]_vars => SentInv'
<1> SUFFICES ASSUME ServiceInv, SentInv, [Next]_vars PROVE SentInv'
  OBVIOUS
<1>1. ASSUME NEW k \in Calls, Caller(k) PROVE SentInv'
  BY <1>1, CallSentStep, LibrarySentStep DEF Caller
<1>2. CASE Server
  BY <1>2, ServerSentStep DEF Server
<1>3. CASE UNCHANGED vars
  BY <1>3 DEF vars, wireVars, libraryVars, daemonVars, SentInv
<1> QED
  BY <1>1, <1>2, <1>3 DEF Next, AllReturned

\* The daemon waits only for callers that go on sending or are gone, so no caller and the
\* daemon wait for each other, in any of the four operations; and the daemon's end leaves
\* no connection open on which somebody would wait for it.
THEOREM NoCircularWait == Spec => []NobodyWaitsInVain
<1>1. ASSUME ServiceInv, AnswerInv, SentInv, DaemonWaits, ~ClientGone
      PROVE  cpc[cur] = "send"
  <2>1. cur \in Calls /\ cpc[cur] # "idle" /\ req[cur] \in Requests
    BY <1>1 DEF DaemonWaits, Receiving, ServiceInv, ServingInv, CallerInv
  <2>2. cpc[cur] # "done"
    BY <1>1, <2>1 DEF AnswerInv, PlaceInv, ClientGone
  <2>3. sent[cur] # Fields(req[cur])
    <3>1. CASE dpc = "opcode" /\ sent[cur] = 0
      BY <3>1 DEF Fields
    <3>2. CASE Receiving /\ sent[cur] = got
      <4>1. /\ got < Wanted(req[cur]) /\ Wanted(req[cur]) <= Fields(req[cur])
            /\ got \in Nat /\ Wanted(req[cur]) \in Nat /\ Fields(req[cur]) \in Nat
        BY <2>1, <1>1, <3>2, WantedIsSent
           DEF Receiving, Wanted, Fields, SecretRead, DataLengthRead, ServiceInv, TypeOK, DaemonTypeOK
      <4> QED
        BY <3>2, <4>1
    <3> QED
      BY <1>1, <3>1, <3>2 DEF DaemonWaits
  <2> QED
    BY <1>1, <2>1, <2>2, <2>3 DEF ServiceInv, TypeOK, LibraryTypeOK, SentInv
<1>2. ASSUME ServiceInv, SentInv, dpc = "dead", NEW k \in Calls
      PROVE  serverEnd[k] # "open"
  BY <1>2, NullFacts DEF ServiceInv, ServingInv, SentInv, NoDescriptorLeak
<1>3. ServiceInv /\ AnswerInv /\ SentInv => NobodyWaitsInVain
  BY <1>1, <1>2 DEF NobodyWaitsInVain
<1> QED
  BY <1>3, InitSentInv, NextKeepsSentInv, InvariantHolds, AnswerInvHolds, PTL DEF Spec

-----------------------------------------------------------------------------
(***************************************************************************)
(* The heap.                                                               *)
(***************************************************************************)
\* The data of the blocks.
Stored == {b.data : b \in Linked}

\* The buffer of the handler that is running.
Held == IF dpc = "request" /\ n_data # NULL THEN {n_data} ELSE {}

Updated ==
  \E j \in Calls : req[j] # NULL /\ req[j].op = "UPDATE" /\ answer[j].code = "SUCCESS"

\* Until an UPDATE was accepted no buffer is freed that something points to,
\* and none is pointed to twice.
BufferInv ==
  /\ Held \subseteq live
  /\ Held # {} => CarriesData(req[cur]) /\ got >= DataLengthRead
  /\ dpc \in {"accept", "opcode"} => n_data = NULL
  /\ Updated \/ (Stored \subseteq live /\ Held \cap Stored = {})

Lost == (live \ Stored) \ Held

Leavers == {k \in Calls : LeftAllocated(k)}

LeakInv ==
  /\ IsFiniteSet(live)
  /\ IsFiniteSet(Leavers)
  /\ Cardinality(Lost) <= Cardinality(Leavers)

HeapInv == BufferInv /\ LeakInv /\ DaemonDiesForAReason

\* One more lost buffer is one more call that lost it.
LEMMA Counting ==
  ASSUME NEW S, NEW T, NEW S2, NEW T2, NEW x, NEW k,
         IsFiniteSet(S), IsFiniteSet(T), Cardinality(S) <= Cardinality(T),
         S2 \subseteq S \cup {x}, T \subseteq T2, T2 \subseteq T \cup {k},
         S2 \subseteq S \/ (k \notin T /\ k \in T2)
  PROVE  IsFiniteSet(T2) /\ Cardinality(S2) <= Cardinality(T2)
<1>1. IsFiniteSet(T \cup {k}) /\ IsFiniteSet(S \cup {x})
  BY FS_AddElement
<1>2. IsFiniteSet(T2) /\ IsFiniteSet(S2)
  BY <1>1, FS_Subset
<1>3. /\ Cardinality(S) \in Nat /\ Cardinality(T) \in Nat
      /\ Cardinality(S2) \in Nat /\ Cardinality(T2) \in Nat
  BY <1>2, FS_CardinalityType
<1>4. Cardinality(T) <= Cardinality(T2)
  BY <1>2, FS_Subset
<1>5. CASE S2 \subseteq S
  <2>1. Cardinality(S2) <= Cardinality(S)
    BY <1>5, FS_Subset
  <2> QED
    BY <1>2, <1>3, <1>4, <2>1
<1>6. CASE k \notin T /\ k \in T2
  <2>1. T2 = T \cup {k}
    BY <1>6
  <2>2. Cardinality(T2) = Cardinality(T) + 1
    BY <1>6, <2>1, FS_AddElement
  <2>3. Cardinality(S \cup {x}) \in {Cardinality(S), Cardinality(S) + 1}
    BY FS_AddElement
  <2>4. Cardinality(S2) <= Cardinality(S \cup {x})
    BY <1>1, FS_Subset
  <2> QED
    BY <1>2, <1>3, <2>2, <2>3, <2>4
<1> QED
  BY <1>5, <1>6

\* Nothing is allocated before the first SEND.
LEMMA InitHeapInv == Init => HeapInv
<1> SUFFICES ASSUME Init PROVE HeapInv
  OBVIOUS
<1> USE DEF Init, WireInit, LibraryInit, DaemonInit
<1>1. Stored = {} /\ Held = {}
  BY DEF Stored, Linked, Held
<1>2. Leavers = {} /\ Lost = {}
  BY DEF Leavers, LeftAllocated, Lost
<1>3. IsFiniteSet({}) /\ Cardinality({}) = 0
  BY FS_EmptySet
<1>4. LeakInv
  BY <1>2, <1>3 DEF LeakInv
<1> QED
  BY <1>1, <1>4 DEF HeapInv, BufferInv, DaemonDiesForAReason

\* The buffers of blocks depend on the array and the chain only.
LEMMA StoredUntouched ==
  ASSUME UNCHANGED <<storage, chain>>
  PROVE  Stored' = Stored
BY DEF Stored, Linked

-----------------------------------------------------------------------------
(***************************************************************************)
(* The steps of callers.                                                   *)
(***************************************************************************)
LEMMA CallerHeapStep ==
  ASSUME ServiceInv, AnswerInv, HeapInv, NEW k \in Calls, Caller(k)
  PROVE  HeapInv'
<1> USE DEF HeapInv
<1>1. UNCHANGED answer /\ UNCHANGED <<dpc, cur, got, n_data, storage, chain, live, mem>>
  BY DEF Caller, Call, LibraryStep, SendField, SendFails, ReceiveResponse, ReceiveLength,
     ReceiveData, Interrupt, UnchangedByReading, daemonVars
<1>2. WireTypeOK /\ LibraryTypeOK
  BY DEF ServiceInv, TypeOK
<1>3. cpc[k] # "done"
  BY DEF Caller, Call, LibraryStep, SendField, SendFails, ReceiveResponse, ReceiveLength,
     ReceiveData, Interrupt
<1>4. ret[k] = NULL
  BY <1>3 DEF AnswerInv, PlaceInv
<1>5. \A j \in Calls : j # k => ret'[j] = ret[j]
  BY <1>2 DEF Caller, Call, ConnectSucceeds, ConnectFails, LibraryStep, SendField, SendFails,
     ReceiveResponse, ReceiveLength, ReceiveData, Interrupt, GoOn, Return, LibraryTypeOK
<1>6. \A j \in Calls : req'[j] = req[j] \/ (j = k /\ cpc[k] = "idle")
  BY <1>2 DEF Caller, Call, LibraryStep, SendField, SendFails, ReceiveResponse, ReceiveLength,
     ReceiveData, Interrupt, UnchangedByReading, WireTypeOK
<1>7. \A j \in Calls : req'[j] = req[j] \/ (req[j] = NULL /\ answer[j] = NoAnswer)
  BY <1>6 DEF ServiceInv, CallerInv
<1>8. Updated => Updated'
  BY <1>1, <1>7 DEF Updated
<1>9. \A j \in Calls : LeftEarly(j) => LeftEarly(j)'
  <2> SUFFICES ASSUME NEW j \in Calls, LeftEarly(j) PROVE LeftEarly(j)'
    OBVIOUS
  <2>1. j # k
    BY <1>4, NullFacts, LibraryAssumption DEF LeftEarly, Codes
  <2> QED
    BY <1>1, <1>5, <1>6, <2>1, LeftStays
<1>10. UpdatedTwice => UpdatedTwice'
  BY <1>1, <1>7 DEF UpdatedTwice
<1>11. Leavers' = Leavers
  <2>1. \A j \in Calls : req'[j] = req[j] => (LeftAllocated(j)' <=> LeftAllocated(j))
    BY <1>1 DEF LeftAllocated, CarriesData
  <2>2. \A j \in Calls : answer[j] = NoAnswer => ~LeftAllocated(j) /\ ~LeftAllocated(j)'
    BY <1>1, NullFacts DEF LeftAllocated, NoAnswer, Codes
  <2> QED
    BY <1>7, <2>1, <2>2 DEF Leavers
<1>12. Stored' = Stored /\ Held' = Held /\ Lost' = Lost
  BY <1>1, StoredUntouched DEF Held, Lost
<1>13. dpc = "request" => req'[cur] = req[cur]
  BY <1>6 DEF ServiceInv, ServingInv
<1>14. BufferInv'
  BY <1>1, <1>8, <1>12, <1>13 DEF BufferInv, Held, CarriesData
<1>15. LeakInv'
  BY <1>1, <1>11, <1>12 DEF LeakInv
<1>16. DaemonDiesForAReason'
  BY <1>1, <1>9, <1>10 DEF DaemonDiesForAReason
<1> QED
  BY <1>14, <1>15, <1>16

-----------------------------------------------------------------------------
(***************************************************************************)
(* The steps of the daemon.                                                *)
(***************************************************************************)
\* A reason to end outlives the daemon.
LEMMA DieHeapStep ==
  ASSUME HeapInv, Die, CallersStay, UpdatedTwice \/ \E k \in Calls : LeftEarly(k)
  PROVE  HeapInv'
<1>1. UNCHANGED <<req, answer, ret>>
  BY DEF Die, CallersStay, libraryVars
<1>2. /\ dpc' = "dead" /\ chain' = <<>> /\ live' = {}
  BY DEF Die
<1>3. Stored' = {} /\ Held' = {} /\ Lost' = {}
  BY <1>2 DEF Stored, Linked, Held, Lost
<1>4. Leavers' = Leavers
  BY <1>1 DEF Leavers, LeftAllocated, CarriesData
<1>5. BufferInv'
  BY <1>2, <1>3 DEF BufferInv
<1>6. LeakInv'
  <2>1. IsFiniteSet({}) /\ Cardinality({}) = 0 /\ Cardinality(Leavers) \in Nat
    BY FS_EmptySet, FS_CardinalityType DEF HeapInv, LeakInv
  <2> QED
    BY <1>2, <1>3, <1>4, <2>1 DEF HeapInv, LeakInv
<1>7. DaemonDiesForAReason'
  BY <1>1, LeftStays DEF DaemonDiesForAReason, UpdatedTwice
<1> QED
  BY <1>5, <1>6, <1>7 DEF HeapInv

\* A step that moves no buffer.
LEMMA QuietHeapStep ==
  ASSUME ServiceInv, HeapInv, CallersStay, dpc' # "dead",
         UNCHANGED <<storage, chain, live>>, Held' = Held,
         \A j \in Calls : answer'[j].code = answer[j].code,
         Held # {} => cur' = cur /\ got' >= DataLengthRead,
         dpc' \in {"accept", "opcode"} => n_data' = NULL
  PROVE  HeapInv'
<1>1. UNCHANGED req
  BY DEF CallersStay
<1>2. Stored' = Stored /\ Lost' = Lost
  BY StoredUntouched DEF Lost
<1>3. Leavers' = Leavers /\ Updated' = Updated
  BY <1>1 DEF Leavers, LeftAllocated, CarriesData, Updated
<1>4. BufferInv'
  BY <1>1, <1>2, <1>3 DEF HeapInv, BufferInv, CarriesData
<1>5. LeakInv'
  BY <1>2, <1>3 DEF HeapInv, LeakInv
<1> QED
  BY <1>4, <1>5 DEF HeapInv, DaemonDiesForAReason

\* malloc() of the data: the new buffer is held, and nothing else points to it.
LEMMA AllocateHeapStep ==
  ASSUME ServiceInv, HeapInv, CallersStay, ReceiveDataLength
  PROVE  HeapInv'
<1>1. /\ dpc = "request" /\ dpc' = "request" /\ UNCHANGED <<req, answer, cur, storage, chain>>
      /\ CarriesData(req[cur]) /\ got = SecretRead /\ got' = DataLengthRead
  BY DEF ReceiveDataLength, Receiving, CallersStay, Stay
<1>2. Held = {} /\ n_data = NULL
  BY <1>1 DEF HeapInv, BufferInv, Held, SecretRead, DataLengthRead
<1>3. CASE UNCHANGED <<n_data, live>>
  <2>1. Held' = Held
    BY <1>1, <1>3 DEF Held
  <2> QED
    BY <1>1, <1>2, <1>3, <2>1, QuietHeapStep
<1>4. ASSUME NEW p \in Buffers \ live, n_data' = p, live' = live \cup {p} PROVE HeapInv'
  <2>1. Held' = {p}
    BY <1>1, <1>4, NullFacts DEF Held
  <2>2. Stored' = Stored /\ Lost' \subseteq Lost
    BY <1>1, <1>2, <1>4, <2>1, StoredUntouched DEF Lost
  <2>3. Leavers' = Leavers /\ Updated' = Updated
    BY <1>1 DEF Leavers, LeftAllocated, CarriesData, Updated
  <2>4. BufferInv'
    BY <1>1, <1>2, <1>4, <2>1, <2>2, <2>3 DEF HeapInv, BufferInv, CarriesData, DataLengthRead
  <2>5. LeakInv'
    <3>1. IsFiniteSet(live') /\ IsFiniteSet(Lost)
      BY <1>4, FS_AddElement, FS_Subset DEF HeapInv, LeakInv, Lost
    <3>2. Cardinality(Lost') <= Cardinality(Leavers')
      BY <2>2, <2>3, <3>1, Counting DEF HeapInv, LeakInv
    <3> QED
      BY <2>3, <3>1, <3>2 DEF HeapInv, LeakInv
  <2> QED
    BY <1>1, <2>4, <2>5 DEF HeapInv, DaemonDiesForAReason
<1> QED
  BY <1>3, <1>4 DEF ReceiveDataLength

\* An answer: afterwards the handler holds nothing.  What it held is stored,
\* freed, or lost by a call that is known to lose it.
LEMMA RespondHeapStep ==
  ASSUME ServiceInv, AnswerInv, HeapInv, CallersStay, dpc = "request",
         NEW code \in Codes, NEW pc \in {"close", "length"}, Respond(code, pc),
         live' \subseteq live,
         live' \ Stored' \subseteq live \ Stored,
         Held \cap live' \subseteq Stored' \/ LeftAllocated(cur)',
         Updated' \/ (Stored \subseteq live /\ Held \cap Stored = {} => Stored' \subseteq live')
  PROVE  HeapInv'
<1>1. /\ UNCHANGED <<req, cur>> /\ dpc' = pc /\ answer' = [answer EXCEPT ![cur].code = code]
  BY DEF Respond, CallersStay, Stay
<1>2. /\ cur \in Calls /\ answer \in [Calls -> Answers] /\ answer[cur] = NoAnswer
  BY DEF ServiceInv, ServingInv, TypeOK, WireTypeOK, AnswerInv, ServedOnce
<1>3. /\ \A j \in Calls : j # cur => answer'[j] = answer[j]
  BY <1>1, <1>2
<1>4. Held' = {}
  BY <1>1 DEF Held
<1>5. Leavers \subseteq Leavers' /\ Leavers' \subseteq Leavers \cup {cur} /\ cur \notin Leavers
  <2>1. ~LeftAllocated(cur)
    BY <1>2, NullFacts DEF LeftAllocated, NoAnswer, Codes
  <2>2. \A j \in Calls : j # cur => (LeftAllocated(j)' <=> LeftAllocated(j))
    BY <1>1, <1>3 DEF LeftAllocated, CarriesData
  <2> QED
    BY <2>1, <2>2 DEF Leavers
<1>6. Updated => Updated'
  <2>1. answer[cur].code # "SUCCESS"
    BY <1>2, NullFacts DEF NoAnswer, Codes
  <2> QED
    BY <1>1, <1>3, <2>1 DEF Updated
<1>7. BufferInv'
  BY <1>1, <1>4, <1>6 DEF HeapInv, BufferInv
<1>8. LeakInv'
  <2>1. IsFiniteSet(live') /\ IsFiniteSet(Lost) /\ IsFiniteSet(Leavers)
    BY FS_Subset DEF HeapInv, LeakInv, Lost
  <2>2. Lost' \subseteq Lost \cup {n_data} /\ (Lost' \subseteq Lost \/ cur \in Leavers')
    BY <1>1, <1>2, <1>4 DEF Lost, Held, Leavers
  <2>3. IsFiniteSet(Leavers') /\ Cardinality(Lost') <= Cardinality(Leavers')
    BY <1>5, <2>1, <2>2, Counting DEF HeapInv, LeakInv
  <2> QED
    BY <2>1, <2>3 DEF LeakInv
<1> QED
  BY <1>1, <1>7, <1>8 DEF HeapInv, DaemonDiesForAReason

\* The ways a handler leaves the heap, each with its answer.
LEMMA RefuseHeapStep ==
  ASSUME ServiceInv, AnswerInv, HeapInv, CallersStay, dpc = "request",
         NEW code \in Codes, Respond(code, "close"),
         NEW S, S \subseteq {n_data}, Freed(S), Held \subseteq S, UNCHANGED <<storage, chain>>
  PROVE  HeapInv'
<1>1. live' = live \ S /\ Stored' = Stored
  BY StoredUntouched DEF Freed
<1>2. n_data \notin Held => n_data = NULL
  BY DEF Held
<1>3. NULL \notin live
  BY NullFacts DEF ServiceInv, TypeOK, DaemonTypeOK
<1>4. /\ live' \subseteq live
      /\ live' \ Stored' \subseteq live \ Stored
      /\ Held \cap live' \subseteq Stored'
      /\ Stored \subseteq live /\ Held \cap Stored = {} => Stored' \subseteq live'
  BY <1>1, <1>2, <1>3
<1> QED
  BY <1>4, RespondHeapStep

\* The heap is left as it is.
LEMMA KeepHeapStep ==
  ASSUME ServiceInv, AnswerInv, HeapInv, CallersStay, dpc = "request",
         NEW code \in Codes, NEW pc \in {"close", "length"}, Respond(code, pc),
         UNCHANGED <<storage, chain, live>>,
         Held = {} \/ LeftAllocated(cur)'
  PROVE  HeapInv'
<1>1. Stored' = Stored
  BY StoredUntouched
<1> QED
  BY <1>1, RespondHeapStep

\* The four handlers.
LEMMA HandleHeapStep ==
  ASSUME ServiceInv, AnswerInv, HeapInv, CallersStay, Handle
  PROVE  HeapInv'
<1> DEFINE r == req[cur]
<1>1. dpc = "request" /\ got = Wanted(r)
  BY DEF Handle
<1>2. cur \in Calls /\ r \in Requests /\ DaemonTypeOK /\ UniqueIDs /\ StorageInv
  BY <1>1 DEF ServiceInv, ServingInv, CallerInv, TypeOK
<1>3. /\ "ALREADY_EXISTS" \in Codes /\ "ACCESS_DENIED" \in Codes /\ "NOT_FOUND" \in Codes
      /\ "FAIL" \in Codes /\ "SUCCESS" \in Codes
  BY DEF Codes
<1>4. ASSUME NEW code \in Codes, NEW pc \in {"close", "length"}, Respond(code, pc)
      PROVE  answer'[cur].code = code /\ UNCHANGED <<req, cur>>
  BY <1>2, <1>4 DEF ServiceInv, TypeOK, WireTypeOK, Answers, Respond, CallersStay, Stay
<1>5. CASE ClientGone /\ Die
  <2>1. LeftEarly(cur)
    BY <1>1, <1>2, <1>5 DEF AnswerInv, GoneInv, Waiting, ClientGone
  <2> QED
    BY <1>2, <1>5, <2>1, DieHeapStep
<1>6. ASSUME RefuseData(r) PROVE HeapInv'
  <2>1. /\ {n_data} \ {NULL} \subseteq {n_data}
        /\ Held \subseteq {n_data} \ {NULL}
    BY DEF Held
  <2> QED
    BY <1>1, <1>3, <1>6, <2>1, RefuseHeapStep DEF RefuseData
<1>7. CASE handleSendBlock(r)
  <2>1. CASE Known(r.id)
    <3>1. Held = {}
      BY <1>1, <1>7, <2>1 DEF HeapInv, BufferInv, Wanted, handleSendBlock, SecretRead, DataLengthRead
    <3>2. CASE SecretMatches(r)
      BY <1>1, <1>3, <1>7, <2>1, <3>1, <3>2, KeepHeapStep DEF handleSendBlock, heapVars
    <3>3. CASE ~SecretMatches(r)
      BY <1>1, <1>3, <1>7, <2>1, <3>1, <3>3, KeepHeapStep DEF handleSendBlock, heapVars
    <3> QED
      BY <3>2, <3>3
  <2>2. CASE ~Known(r.id) /\ RefuseData(r)
    BY <1>6, <2>2
  <2>3. CASE StoreFull /\ Bytes[r.data] > 0
    <3>1. LeftAllocated(cur)'
      <4>1. answer'[cur].code = "FAIL" /\ UNCHANGED <<req, cur>>
        BY <1>3, <1>4, <2>3 DEF StoreFull
      <4>2. r # NULL /\ CarriesData(r) /\ r.op = "SEND"
        BY <1>2, <1>7, RequestsAssumption DEF handleSendBlock, CarriesData
      <4> QED
        BY <2>3, <4>1, <4>2 DEF LeftAllocated, CarriesData
    <3> QED
      BY <1>1, <1>3, <2>3, <3>1, KeepHeapStep DEF StoreFull, heapVars
  <2>4. CASE n_data # NULL /\ StoreBlock(r)
    <3>1. FirstFree \in Slots /\ FirstFree = Len(chain) /\ Len(chain) \in Nat
      BY <1>2, <2>4, FirstFreeIsNext DEF StoreBlock
    <3>2. /\ storage' = [storage EXCEPT ![FirstFree] =
                [used |-> TRUE, ID |-> r.id, secret |-> r.secret,
                 data |-> n_data, data_length |-> Bytes[r.data]]]
          /\ chain' = <<FirstFree>> \o chain /\ live' = live
      BY <2>4 DEF StoreBlock
    <3>3. storage'[FirstFree].data = n_data /\ \A s \in Slots : s # FirstFree => storage'[s] = storage[s]
      BY <1>2, <3>1, <3>2 DEF DaemonTypeOK
    <3>4. /\ chain'[1] = FirstFree /\ 1 \in DOMAIN chain'
          /\ \A i \in DOMAIN chain' : i # 1 => i - 1 \in DOMAIN chain /\ chain'[i] = chain[i - 1]
          /\ \A i \in DOMAIN chain : i + 1 \in DOMAIN chain' /\ chain'[i + 1] = chain[i]
      BY <1>2, <3>1, <3>2 DEF DaemonTypeOK
    <3>5. \A i \in DOMAIN chain : chain[i] \in Slots /\ chain[i] # FirstFree
      BY <1>2, <3>1 DEF DaemonTypeOK, StorageInv
    <3>6. Stored' = Stored \cup {n_data}
      <4>1. Stored' = {storage'[chain'[i]].data : i \in DOMAIN chain'}
        BY DEF Stored, Linked
      <4>2. Stored = {storage[chain[i]].data : i \in DOMAIN chain}
        BY DEF Stored, Linked
      <4>3. \A i \in DOMAIN chain' : i = 1 \/
              (i - 1 \in DOMAIN chain /\ storage'[chain'[i]].data = storage[chain[i - 1]].data)
        BY <3>3, <3>4, <3>5
      <4>4. \A i \in DOMAIN chain :
              i + 1 \in DOMAIN chain' /\ storage'[chain'[i + 1]].data = storage[chain[i]].data
        BY <3>3, <3>4, <3>5
      <4>5. storage'[chain'[1]].data = n_data
        BY <3>3, <3>4
      <4> HIDE DEF r
      <4>6. Stored' \subseteq Stored \cup {n_data}
        BY <4>1, <4>2, <4>3, <4>5
      <4>7. Stored \subseteq Stored' /\ n_data \in Stored'
        BY <3>4, <4>1, <4>2, <4>4, <4>5
      <4> QED
        BY <4>6, <4>7
    <3>7. Held = {n_data} /\ Held \subseteq live
      BY <1>1, <2>4 DEF Held, HeapInv, BufferInv
    <3>8. Respond("SUCCESS", "close")
      BY <2>4 DEF StoreBlock
    <3>9. /\ live' \subseteq live /\ live' \ Stored' \subseteq live \ Stored
          /\ Held \cap live' \subseteq Stored'
          /\ Stored \subseteq live /\ Held \cap Stored = {} => Stored' \subseteq live'
      BY <3>2, <3>6, <3>7
    <3> QED
      BY <1>1, <1>3, <3>8, <3>9, RespondHeapStep
  <2> QED
    BY <1>7, <2>1, <2>2, <2>3, <2>4 DEF handleSendBlock
<1>8. CASE handleGetBlock(r) \/ handlePartialGetBlock(r)
  <2>1. Held = {}
    BY <1>1, <1>8 DEF HeapInv, BufferInv, CarriesData, handleGetBlock, handlePartialGetBlock
  <2>2. /\ UNCHANGED <<storage, chain, live>>
        /\ \E code \in Codes : \E pc \in {"close", "length"} : Respond(code, pc)
    BY <1>3, <1>8 DEF handleGetBlock, handlePartialGetBlock, heapVars
  <2> QED
    BY <1>1, <2>1, <2>2, KeepHeapStep
<1>9. CASE handleOverwriteBlock(r)
  <2>1. r.op = "UPDATE" /\ CarriesData(r) /\ req[cur] # NULL
    BY <1>2, <1>9, RequestsAssumption DEF handleOverwriteBlock, CarriesData
  <2>2. CASE RefuseData(r)
    BY <1>6, <2>2
  <2>3. CASE Bytes[r.data] > 0 /\ Respond("NOT_FOUND", "close") /\ UNCHANGED heapVars
    <3>1. LeftAllocated(cur)'
      <4>1. answer'[cur].code = "NOT_FOUND" /\ UNCHANGED <<req, cur>>
        BY <1>3, <1>4, <2>3
      <4> QED
        BY <2>1, <2>3, <4>1 DEF LeftAllocated, CarriesData
    <3> QED
      BY <1>1, <1>3, <2>3, <3>1, KeepHeapStep DEF heapVars
  <2>4. CASE Freed({n_data}) /\ Respond("ACCESS_DENIED", "close") /\ UNCHANGED <<storage, chain>>
    <3>1. Held \subseteq {n_data}
      BY DEF Held
    <3> QED
      BY <1>1, <1>3, <2>4, <3>1, RefuseHeapStep
  <2>5. CASE n_data # NULL /\ OverwriteBlock(r)
    <3> DEFINE s == Found(r.id)
               old == storage[s].data
    <3>1. Known(r.id) /\ s \in Slots /\ old \in Stored
      <4>1. Known(r.id)
        BY <2>5 DEF OverwriteBlock
      <4>2. s \in Slots /\ \E i \in DOMAIN chain : chain[i] = s
        BY <1>2, <4>1, FoundIsLinked
      <4> QED
        BY <4>1, <4>2 DEF Stored, Linked
    <3>2. CASE FreesTwice(old) /\ Die
      <4>1. Updated
        <5>1. Held = {n_data}
          BY <1>1, <2>5 DEF Held
        <5> QED
          BY <3>1, <3>2, <5>1 DEF HeapInv, BufferInv, FreesTwice
      <4>2. answer[cur].code = NULL
        BY <1>1 DEF AnswerInv, ServedOnce, NoAnswer
      <4>3. UpdatedTwice
        BY <1>2, <2>1, <4>1, <4>2 DEF Updated, UpdatedTwice
      <4> QED
        BY <3>2, <4>3, DieHeapStep
    <3>3. CASE ~(FreesTwice(old) /\ Die)
      <4>1. /\ storage' = [storage EXCEPT ![s].data = n_data, ![s].data_length = Bytes[r.data]]
            /\ Freed({old, n_data}) /\ Respond("SUCCESS", "close") /\ chain' = chain
        BY <2>5, <3>3 DEF OverwriteBlock
      <4>2. answer'[cur].code = "SUCCESS" /\ UNCHANGED <<req, cur>>
        BY <1>3, <1>4, <4>1
      <4>3. Updated'
        BY <1>2, <2>1, <4>2 DEF Updated
      <4>4. \A t \in Slots : storage'[t].data = IF t = s THEN n_data ELSE storage[t].data
        <5> HIDE DEF s, r
        <5> QED
          BY <1>2, <3>1, <4>1 DEF DaemonTypeOK, DataBlock
      <4>5. live' = live \ {old, n_data}
        BY <4>1 DEF Freed
      <4>6. Stored \subseteq Stored' \cup {old}
        <5>1. \A i \in DOMAIN chain : chain[i] \in Slots
          BY <1>2 DEF DaemonTypeOK
        <5>2. Stored = {storage[chain[i]].data : i \in DOMAIN chain}
          BY DEF Stored, Linked
        <5>3. Stored' = {storage'[chain[i]].data : i \in DOMAIN chain}
          BY <4>1 DEF Stored, Linked
        <5> HIDE DEF s, r
        <5> QED
          BY <4>4, <5>1, <5>2, <5>3
      <4>7. Held \subseteq {n_data}
        BY DEF Held
      <4> HIDE DEF old, s, r
      <4>8. /\ live' \subseteq live /\ live' \ Stored' \subseteq live \ Stored
            /\ Held \cap live' \subseteq Stored'
        BY <4>5, <4>6, <4>7
      <4> QED
        BY <1>1, <1>3, <4>1, <4>3, <4>8, RespondHeapStep
    <3> QED
      BY <3>2, <3>3
  <2> QED
    BY <1>9, <2>2, <2>3, <2>4, <2>5 DEF handleOverwriteBlock
<1> QED
  BY <1>5, <1>7, <1>8, <1>9 DEF Handle

\* accept(), recv(), the sends of a read, and close().
LEMMA OtherHeapStep ==
  ASSUME ServiceInv, AnswerInv, HeapInv, CallersStay,
         Accept \/ ReceiveOpcode \/ ReceiveField \/ ReceivePayload
           \/ SendLength \/ SendData \/ CloseConnection
  PROVE  HeapInv'
<1>1. cur \in Calls \cup {NULL} /\ answer \in [Calls -> Answers] /\ got \in Nat
  BY DEF ServiceInv, TypeOK, DaemonTypeOK, WireTypeOK
<1>2. CASE Accept \/ CloseConnection
  <2>1. /\ dpc' \in {"accept", "opcode"} /\ n_data' = NULL /\ dpc # "request"
        /\ UNCHANGED <<storage, chain, live, answer>>
    BY <1>2 DEF HeapInv, BufferInv, Accept, CloseConnection, heapVars
  <2>2. Held = {} /\ Held' = {}
    BY <2>1 DEF Held
  <2> QED
    BY <2>1, <2>2, QuietHeapStep
<1>3. CASE ReceiveOpcode
  <2>1. /\ dpc = "opcode" /\ n_data = NULL /\ dpc' \in {"request", "close"}
        /\ UNCHANGED <<storage, chain, live, answer, n_data>>
    BY <1>3 DEF HeapInv, BufferInv, ReceiveOpcode, heapVars
  <2>2. Held = {} /\ Held' = {}
    BY <2>1 DEF Held
  <2> QED
    BY <2>1, <2>2, QuietHeapStep
<1>4. CASE ReceiveField \/ ReceivePayload
  <2>1. /\ dpc = "request" /\ dpc' = "request" /\ got' = got + 1
        /\ UNCHANGED <<cur, storage, chain, live, answer, n_data>>
    BY <1>4 DEF ReceiveField, ReceivePayload, Receiving, heapVars, Stay
  <2>2. Held' = Held
    BY <2>1 DEF Held
  <2>3. Held # {} => got' >= DataLengthRead
    BY <1>1, <2>1 DEF HeapInv, BufferInv, DataLengthRead
  <2> QED
    BY <2>1, <2>2, <2>3, QuietHeapStep
<1>5. CASE SendLength \/ SendData
  <2>1. CASE Die
    <3>1. dpc \in {"length", "data"}
      BY <1>5 DEF SendLength, SendData
    <3>2. cur \in Calls /\ ClientGone
      BY <1>5, <2>1, <3>1 DEF SendLength, SendData, SendAllFails, Die, ServiceInv, ServingInv
    <3>3. LeftEarly(cur)
      BY <3>1, <3>2 DEF AnswerInv, GoneInv, Waiting, ClientGone
    <3> QED
      BY <2>1, <3>2, <3>3, DieHeapStep
  <2>2. CASE ~Die
    <3>1. /\ dpc \in {"length", "data"} /\ dpc' \in {"data", "close"}
          /\ UNCHANGED <<storage, chain, live, n_data>>
          /\ \/ answer' = [answer EXCEPT ![cur].length = Slice(req[cur]).len]
             \/ answer' = [answer EXCEPT ![cur].data = Slice(req[cur])]
             \/ answer' = answer
      BY <1>5, <2>2 DEF SendLength, SendData, SendAllFails, heapVars
    <3>2. Held = {} /\ Held' = {}
      BY <3>1 DEF Held
    <3>3. \A j \in Calls : answer'[j].code = answer[j].code
      BY <1>1, <3>1 DEF Answers
    <3> QED
      BY <3>1, <3>2, <3>3, QuietHeapStep
  <2> QED
    BY <2>1, <2>2
<1> QED
  BY <1>2, <1>3, <1>4, <1>5

-----------------------------------------------------------------------------
(***************************************************************************)
(* Theorems.                                                               *)
(***************************************************************************)
\* Every step of a caller or of the daemon keeps the invariant.
LEMMA NextKeepsHeapInv == ServiceInv /\ AnswerInv /\ HeapInv /\ [Next]_vars => HeapInv'
<1> SUFFICES ASSUME ServiceInv, AnswerInv, HeapInv, [Next]_vars PROVE HeapInv'
  OBVIOUS
<1>1. ASSUME NEW k \in Calls, Caller(k) PROVE HeapInv'
  BY <1>1, CallerHeapStep
<1>2. CASE Server
  <2>1. CallersStay
    BY <1>2 DEF Server
  <2>2. CASE ReceiveDataLength
    BY <2>1, <2>2, AllocateHeapStep
  <2>3. CASE ReceiveFails
    <3>1. dpc = "request" /\ ClientGone /\ Die
      BY <2>3 DEF ReceiveFails, Receiving
    <3>2. cur \in Calls /\ LeftEarly(cur)
      BY <3>1 DEF ServiceInv, ServingInv, AnswerInv, GoneInv, Waiting, ClientGone
    <3> QED
      BY <2>1, <3>1, <3>2, DieHeapStep
  <2>4. CASE Handle
    BY <2>1, <2>4, HandleHeapStep
  <2> QED
    BY <1>2, <2>1, <2>2, <2>3, <2>4, OtherHeapStep DEF Server, DaemonStep
<1>3. CASE UNCHANGED vars
  <2>1. UNCHANGED <<req, answer, ret, dpc, cur, got, n_data, storage, chain, live>>
    BY <1>3 DEF vars, wireVars, libraryVars, daemonVars
  <2>2. Held' = Held /\ Stored' = Stored /\ Leavers' = Leavers /\ Updated' = Updated
    BY <2>1, StoredUntouched DEF Held, Leavers, LeftAllocated, CarriesData, Updated
  <2>3. DaemonDiesForAReason'
    BY <2>1, LeftStays DEF HeapInv, DaemonDiesForAReason, UpdatedTwice
  <2> QED
    BY <2>1, <2>2, <2>3 DEF HeapInv, BufferInv, LeakInv, Lost, CarriesData
<1> QED
  BY <1>1, <1>2, <1>3 DEF Next, AllReturned

\* The invariant holds in every reachable state of the service.
THEOREM HeapInvHolds == Spec => []HeapInv
<1>1. Init => HeapInv
  BY InitHeapInv
<1>2. ServiceInv /\ AnswerInv /\ HeapInv /\ [Next]_vars => HeapInv'
  BY NextKeepsHeapInv
<1> QED
  BY <1>1, <1>2, InvariantHolds, AnswerInvHolds, PTL DEF Spec

\* The daemon ends only because a caller left before it was answered, or
\* because an accepted UPDATE has freed a buffer that another frees again.
THEOREM DaemonEndsOnlyForAReason == Spec => []DaemonDiesForAReason
<1>1. HeapInv => DaemonDiesForAReason
  BY DEF HeapInv
<1> QED
  BY <1>1, HeapInvHolds, PTL

\* Between two connections no more buffers are lost than calls were answered
\* on one of the two paths that forget their data (lines 287 and 488).
THEOREM LeaksAreCounted == Spec => []LeaksAreKnown
<1>1. HeapInv => LeaksAreKnown
  <2> SUFFICES ASSUME HeapInv, dpc = "accept"
               PROVE  Cardinality(live \ {b.data : b \in Linked})
                        <= Cardinality({k \in Calls : LeftAllocated(k)})
    BY DEF LeaksAreKnown
  <2>1. Lost = live \ Stored
    BY DEF Lost, Held
  <2> QED
    BY <2>1 DEF HeapInv, LeakInv, Leavers, Stored
<1> QED
  BY <1>1, HeapInvHolds, PTL
=============================================================================
