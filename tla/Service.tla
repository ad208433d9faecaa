------------------------------ MODULE Service ------------------------------
(***************************************************************************)
(* The data-sharing service of socket_coursework: one daemon (Daemon) and  *)
(* the library calls of any number of client processes (Library), joined   *)
(* by their connections (Wire).  Every interleaving of the steps of the    *)
(* daemon and of the clients is a behaviour.                               *)
(***************************************************************************)
EXTENDS Library, Daemon, FiniteSets

vars == <<wireVars, libraryVars, daemonVars>>

Init == WireInit /\ LibraryInit /\ DaemonInit

Caller(k) == (Call(k) \/ LibraryStep(k) \/ Interrupt(k)) /\ UNCHANGED daemonVars

CallersStay == UNCHANGED <<req, sent, clientEnd, libraryVars>>

Server == DaemonStep /\ CallersStay

\* The daemon waits in accept() for ever and callers may be done: no deadlock.
AllReturned ==
  /\ \A k \in Calls : cpc[k] = "done"
  /\ dpc \in {"accept", "dead"}
  /\ UNCHANGED vars

Next == (\E k \in Calls : Caller(k)) \/ Server \/ AllReturned

Spec == Init /\ [][Next]_vars

(***************************************************************************)
(* Fairness: the scheduler runs the daemon and every client that is inside *)
(* a library call.  The arguments of a call are read from the terminal     *)
(* before connectDaemon(), so nothing inside a call waits for a user.      *)
(* Nobody has to call, and nobody has to interrupt.                        *)
(***************************************************************************)
LibraryRuns(k) == LibraryStep(k) /\ UNCHANGED daemonVars

FairSpec ==
  /\ Spec
  /\ WF_vars(Server)
  /\ \A k \in Calls : WF_vars(LibraryRuns(k))

-----------------------------------------------------------------------------
(***************************************************************************)
(* Safety.                                                                 *)
(***************************************************************************)
\* Every variable ranges over the values the code can give it.
TypeOK == WireTypeOK /\ LibraryTypeOK /\ DaemonTypeOK

Linked == {storage[chain[i]] : i \in DOMAIN chain}

\* No sequence of calls links two blocks with one ID: handleSendBlock looks
\* through the whole list before it stores.
UniqueIDs ==
  \A i, j \in DOMAIN chain : storage[chain[i]].ID = storage[chain[j]].ID => i = j

\* Access control: SUCCESS goes only to a caller that named a block with the
\* secret it was created with.
SuccessMeansKeyed ==
  \A k \in Calls : answer[k].code = "SUCCESS" /\ dpc # "dead" =>
    \E b \in Linked : b.ID = req[k].id /\ b.secret = req[k].secret

\* One connection at a time: a descriptor is open only for the call being
\* served and for those still in the listen queue, so the daemon never runs
\* out of descriptors (connectionHandling closes on every way round its loop).
NoDescriptorLeak ==
  \A k \in Calls : serverEnd[k] = "open" =>
    k = cur \/ \E i \in DOMAIN backlog : backlog[i] = k

\* The daemon waits in recv() for what its caller has not sent.
DaemonWaits ==
  \/ dpc = "opcode" /\ sent[cur] = 0
  \/ Receiving /\ sent[cur] = got

\* No two wait for each other: a field the daemon waits for will be sent, or its
\* caller is gone.  A daemon that has ended leaves nobody waiting either.
NobodyWaitsInVain ==
  /\ DaemonWaits => cpc[cur] = "send" \/ ClientGone
  /\ dpc = "dead" => \A k \in Calls : serverEnd[k] # "open"

\* A read answered with data was sent bytes some acknowledged SEND stored under
\* the same ID and secret, inside that payload, and as many as announced.
DataWasStored ==
  \A k \in Calls : answer[k].data # NULL =>
    /\ answer[k].length = answer[k].data.len
    /\ \E j \in Calls :
         /\ answer[j].code = "SUCCESS" /\ req[j].op = "SEND"
         /\ req[j].id = req[k].id /\ req[j].secret = req[k].secret
         /\ req[j].data = answer[k].data.src
         /\ answer[k].data.from + answer[k].data.len <= Bytes[req[j].data]

\* What a call returns is what the daemon answered, and a read returns SUCCESS
\* only with all of its data; any call may also fail on the caller's side.
ResultIsTheAnswer ==
  \A k \in Calls : ret[k] \in Codes \ {"FAIL"} =>
    /\ ret[k] = answer[k].code
    /\ ret[k] = "SUCCESS" /\ ~CarriesData(req[k]) =>
         answer[k].length = 0 \/ (answer[k].length # NULL /\ answer[k].data # NULL)

\* A SEND or UPDATE that returned FAIL, or whose caller died in send(),
\* stored nothing, so running it again is safe: the handlers store only after
\* they have read all the data, and their answer outlives the connection.
FailedCallStoredNothing ==
  \A k \in Calls :
    ret[k] = "SIGPIPE" \/ (ret[k] = "FAIL" /\ CarriesData(req[k])) =>
      answer[k].code # "SUCCESS"

(***************************************************************************)
(* Why the daemon ends.  A caller left with the daemon still to answer: it *)
(* was killed, or it refused the length of a block larger than its buffer  *)
(* or of a slice shorter than it asked for, or it had no memory for the    *)
(* slice.  Or two UPDATEs were accepted and the second freed a buffer a    *)
(* second time.                                                            *)
(***************************************************************************)
LeftEarly(k) ==
  \/ ret[k] = "SIGINT"
  \/ /\ ret[k] = "FAIL" /\ answer[k].code = "SUCCESS"
     /\ \/ req[k].op = "GET" /\ answer[k].length # NULL /\ answer[k].length > req[k].size
        \/ req[k].op = "PARTIAL_GET" /\ answer[k].length \notin {NULL, req[k].length}
        \/ req[k].op = "PARTIAL_GET" /\ ~BufferAllocated(req[k])

UpdatedTwice ==
  \E j, k \in Calls :
    /\ req[j] # NULL /\ req[j].op = "UPDATE" /\ answer[j].code = "SUCCESS"
    /\ req[k] # NULL /\ req[k].op = "UPDATE" /\ answer[k].code = NULL

\* The daemon never ends for any other reason.
DaemonDiesForAReason ==
  dpc = "dead" => UpdatedTwice \/ \E k \in Calls : LeftEarly(k)

(***************************************************************************)
(* The heap.  Line 287 (array full) and line 488 (no such ID) leave the    *)
(* data they received allocated and unlinked; nothing else does.           *)
(***************************************************************************)
LeftAllocated(k) ==
  /\ req[k] # NULL /\ CarriesData(req[k]) /\ Bytes[req[k].data] > 0
  /\ \/ req[k].op = "SEND" /\ answer[k].code = "FAIL"
     \/ req[k].op = "UPDATE" /\ answer[k].code = "NOT_FOUND"

LeaksAreKnown ==
  dpc = "accept" =>
    Cardinality(live \ {b.data : b \in Linked}) <= Cardinality({k \in Calls : LeftAllocated(k)})

Accepted(op, i) ==
  {k \in Calls : req[k] # NULL /\ req[k].op = op /\ req[k].id = i /\ answer[k].code = "SUCCESS"}

\* An UPDATE leaves its block on freed memory, which a later SEND may be given.
\* Until a second UPDATE frees it again, the blocks of all other IDs still hold
\* the bytes of the SEND that was acknowledged, whatever was refused meanwhile.
BlocksKeepTheirBytes ==
  (\A i \in IDs : Cardinality(Accepted("UPDATE", i)) <= 1) =>
    \A b \in Linked : Accepted("UPDATE", b.ID) = {} =>
      b.data \in live /\ \E k \in Accepted("SEND", b.ID) : mem[b.data] = req[k].data

\* A block keeps its slot, its ID and its secret as long as the daemon lives.
BlocksKeepTheirKeys ==
  [][dpc' # "dead" =>
       \A s \in Slots : storage[s].used =>
         /\ storage'[s].used
         /\ storage'[s].ID = storage[s].ID
         /\ storage'[s].secret = storage[s].secret]_vars

(***************************************************************************)
(* Why the safety properties above hold: the invariant that is inductive,  *)
(* proved in ServiceProofs.                                                *)
(***************************************************************************)
\* A call has a request from its first step on, never sends past its last
\* field, and nobody answers it before it has begun.
CallerInv ==
  \A k \in Calls :
    /\ cpc[k] = "idle" =>
         req[k] = NULL /\ sent[k] = 0 /\ answer[k] = NoAnswer /\ serverEnd[k] = "none"
    /\ cpc[k] # "idle" => req[k] \in Requests
    /\ cpc[k] = "send" => sent[k] < Fields(req[k])

\* A read is granted: the block is there, the secret is right and the offset
\* is inside.  It stays granted while the daemon sends.
ReadGranted(r) ==
  /\ r.op \in {"GET", "PARTIAL_GET"}
  /\ Known(r.id) /\ SecretMatches(r)
  /\ r.op = "PARTIAL_GET" => BeginsInside(r)

\* The daemon serves calls that have begun, and sends only what was granted.
ServingInv ==
  /\ \A i \in DOMAIN backlog : cpc[backlog[i]] # "idle"
  /\ dpc \in {"accept", "dead"} => cur = NULL
  /\ dpc \notin {"accept", "dead"} => cur \in Calls /\ cpc[cur] # "idle"
  /\ dpc \in {"length", "data"} => ReadGranted(req[cur])

\* Slots are taken in order and never given back, so the chain lists the used
\* ones downwards; a used slot has data and an ID.
StorageInv ==
  /\ Len(chain) <= MAX_STORAGE
  /\ \A i \in DOMAIN chain : chain[i] = Len(chain) - i
  /\ \A s \in Slots : storage[s].used <=> s < Len(chain)
  /\ \A s \in Slots : storage[s].used => storage[s].data \in Buffers

\* The inductive invariant: with what it relates, access control, unique IDs
\* and the absence of descriptor leaks hold after any step from any state.
ServiceInv ==
  /\ TypeOK
  /\ CallerInv
  /\ ServingInv
  /\ StorageInv
  /\ UniqueIDs
  /\ SuccessMeansKeyed
  /\ NoDescriptorLeak

-----------------------------------------------------------------------------
(***************************************************************************)
(* What the sources say of themselves and the service does not do.         *)
(***************************************************************************)
\* daemon.c:500 "it stays infinite": the loop of connectionHandling goes on
\* whatever a client does.
DaemonStaysUp == dpc # "dead"

\* daemon.c:475 "replace old ata with new and free old data": a block's data
\* is memory that is still allocated.
BlocksHoldAllocatedData == \A b \in Linked : b.data \in live

\* lib.c:192 and cl.c:53: a caller that repeats a SEND is told the block
\* already exists.
DuplicateIsReported ==
  \A k \in Calls : answer[k].code = "ALREADY_EXISTS" /\ cpc[k] = "done" =>
    ret[k] = "ALREADY_EXISTS"

-----------------------------------------------------------------------------
(***************************************************************************)
(* Liveness, under FairSpec.                                               *)
(***************************************************************************)
\* Every library call returns or its process ends, even when the daemon dies
\* during the call and whatever the other clients do.
CallsReturn == \A k \in Calls : cpc[k] # "idle" ~> cpc[k] = "done"

\* Every connection is eventually served to its end, in turn.
ConnectionsAreClosed == \A k \in Calls : serverEnd[k] = "open" ~> serverEnd[k] = "closed"

-----------------------------------------------------------------------------
(***************************************************************************)
(* Refinement: the service is a BlockStore.  A read takes effect when its  *)
(* last bytes are sent, the other operations with their response.          *)
(***************************************************************************)
Complete(k) ==
  /\ answer[k].code # NULL
  /\ answer[k].code = "SUCCESS" /\ ~CarriesData(req[k]) =>
       answer[k].length = 0 \/ answer[k].data # NULL

Contents ==
  LET Present == {b.ID : b \in Linked} IN
  [i \in Present |->
     [secret |-> storage[Found(i)].secret, data |-> mem[storage[Found(i)].data]]]

Replies == [k \in Calls |-> IF Complete(k) THEN answer[k] ELSE NULL]

Running == dpc # "dead"

Store == INSTANCE BlockStore WITH
  asked <- req, store <- Contents, reply <- Replies, result <- ret, up <- Running

\* A service without UPDATE behaves as a BlockStore.
ImplementsBlockStore == Store!StoreSpec
=============================================================================
