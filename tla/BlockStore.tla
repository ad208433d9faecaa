----------------------------- MODULE BlockStore -----------------------------
(***************************************************************************)
(* What the service promises, without sockets, a heap or handlers: a store *)
(* that maps an ID to one secret and one payload, which serves each call   *)
(* at most once, at a single instant, while it is up.                      *)
(*                                                                         *)
(* lib.h and full_client.c describe the four operations; the replies are   *)
(* those of the handlers of daemon.c when nothing goes wrong underneath.   *)
(***************************************************************************)
EXTENDS Wire

VARIABLES
  asked,   \* asked[k]: the request of call k, NULL before it
  store,   \* ID -> [secret, data] for the IDs that have a block
  reply,   \* reply[k]: the whole reply to call k, NULL before it
  result,  \* result[k]: what call k returned, NULL before it does
  up       \* the store has not been lost

storeVars == <<asked, store, reply, result, up>>

StoreInit ==
  /\ asked = [k \in Calls |-> NULL]
  /\ store = <<>>
  /\ reply = [k \in Calls |-> NULL]
  /\ result = [k \in Calls |-> NULL]
  /\ up = TRUE

Blocks == DOMAIN store

\* The reply of a code alone, and of n bytes of payload p starting at from.
JustCode(c) == [code |-> c, length |-> NULL, data |-> NULL]

Text(p, from, n) ==
  [code |-> "SUCCESS", length |-> n,
   data |-> IF n = 0 THEN NULL ELSE [src |-> p, from |-> from, len |-> n]]

Ask(k) ==
  /\ asked[k] = NULL
  /\ \E r \in Requests : asked' = [asked EXCEPT ![k] = r]
  /\ UNCHANGED <<store, reply, result, up>>

Put(r) ==
  store' = [i \in Blocks \cup {r.id} |->
              IF i = r.id THEN [secret |-> r.secret, data |-> r.data] ELSE store[i]]

Reply(k, a) == reply' = [reply EXCEPT ![k] = a]

Has(r) == r.id \in Blocks
Opens(r) == Has(r) /\ store[r.id].secret = r.secret

\* A new block, or FAIL for want of a slot or of memory; never over another.
ServeSend(k, r) ==
  \/ ~Has(r) /\ Put(r) /\ Reply(k, JustCode("SUCCESS"))
  \/ ~Has(r) /\ UNCHANGED store /\ Reply(k, JustCode("FAIL"))
  \/ Opens(r) /\ UNCHANGED store /\ Reply(k, JustCode("ALREADY_EXISTS"))
  \/ Has(r) /\ ~Opens(r) /\ UNCHANGED store /\ Reply(k, JustCode("ACCESS_DENIED"))

\* The data is replaced as a whole, for the holder of the secret only.
ServeUpdate(k, r) ==
  \/ Opens(r) /\ Put(r) /\ Reply(k, JustCode("SUCCESS"))
  \/ Has(r) /\ ~Opens(r) /\ UNCHANGED store /\ Reply(k, JustCode("ACCESS_DENIED"))
  \/ ~Has(r) /\ UNCHANGED store /\ Reply(k, JustCode("NOT_FOUND"))
  \/ UNCHANGED store /\ Reply(k, JustCode("FAIL"))

\* The whole payload, or the part of it that starts at begin and is no
\* longer than asked for.
ServeRead(k, r) ==
  /\ UNCHANGED store
  /\ \/ ~Has(r) /\ Reply(k, JustCode("NOT_FOUND"))
     \/ Has(r) /\ ~Opens(r) /\ Reply(k, JustCode("ACCESS_DENIED"))
     \/ /\ Opens(r)
        /\ LET p == store[r.id].data  n == Bytes[p] IN
           \/ r.op = "GET" /\ Reply(k, Text(p, 0, n))
           \/ r.op = "PARTIAL_GET" /\ r.begin >= n /\ Reply(k, JustCode("FAIL"))
           \/ /\ r.op = "PARTIAL_GET" /\ r.begin < n
              /\ Reply(k, Text(p, r.begin,
                               IF r.begin + r.length > n THEN n - r.begin ELSE r.length))

Serve(k) ==
  /\ up
  /\ asked[k] # NULL
  /\ reply[k] = NULL
  /\ \/ asked[k].op = "SEND" /\ ServeSend(k, asked[k])
     \/ asked[k].op = "UPDATE" /\ ServeUpdate(k, asked[k])
     \/ asked[k].op \in {"GET", "PARTIAL_GET"} /\ ServeRead(k, asked[k])
  /\ UNCHANGED <<asked, result, up>>

\* A caller learns the code of its own reply, or that the call failed on its
\* side, whatever the reply was or would have been.
Finish(k) ==
  /\ asked[k] # NULL
  /\ result[k] = NULL
  /\ \E v \in {"FAIL", "SIGPIPE", "SIGINT"} \cup (IF reply[k] = NULL THEN {} ELSE {reply[k].code}) :
       result' = [result EXCEPT ![k] = v]
  /\ UNCHANGED <<asked, store, reply, up>>

\* Refused at once: no daemon, or its queue is full.
AskInVain(k) ==
  /\ asked[k] = NULL
  /\ \E r \in Requests : asked' = [asked EXCEPT ![k] = r]
  /\ result' = [result EXCEPT ![k] = "FAIL"]
  /\ UNCHANGED <<store, reply, up>>

\* The process ends and takes every block with it.
Lose ==
  /\ up
  /\ up' = FALSE
  /\ store' = <<>>
  /\ UNCHANGED <<asked, reply, result>>

StoreNext == (\E k \in Calls : Ask(k) \/ Serve(k) \/ Finish(k) \/ AskInVain(k)) \/ Lose

StoreSpec == StoreInit /\ [][StoreNext]_storeVars
=============================================================================
