# Verification of the COMP5012 systems programs

TLA+ models of the C programs of this repository, the TLC runs that check them on
small instances, and theorems about them that TLAPS checks for every value of the
constants. Paths below are relative to the repository's root; `PROJECT.json` holds
the machine-readable lists (components, runs, mutants, the definition-to-source
map, findings, hazards, theorems).

## 1. Inventory

### The data-sharing service (`socket_coursework/`)

A **daemon** (`daemon.c`) keeps blocks of data, each under an ID and a 16-byte
secret, and serves one client at a time over an AF_UNIX stream socket. Client
programs (`full_client.c`, `cl.c`) call a **library** (`lib.c`, `lib.h`) of four
operations; each call opens a connection of its own, sends its request field by
field, reads the reply and closes.

| part | state | operations |
|---|---|---|
| daemon | static array `storage[MAX_STORAGE]`, the list from `head`, malloc'd data, the connection being served and the handler's locals | `connectionHandling` (accept, opcode, dispatch, close), `handleSendBlock`, `handleGetBlock`, `handlePartialGetBlock`, `handleOverwriteBlock` |
| daemon startup | socket path, listening sockets, processes | `daemonize`, `initSocket`, `serverSetup`, `bindListen`; `cleanup` is unreachable |
| library | none between calls; a descriptor and the position in the protocol within one | `sendNewBlock`, `getBlock`, `partialGetBlock`, `overwriteBlock` |
| connections | listen queue (10), two ends of each connection, bytes in flight | `connect`, `accept`, `send`, `recv`, `close` (the kernel's: external) |
| secret prompt | the line typed, the 16 bytes | `readClientSecret`, `isValidSecret`; `readSecret` of `cl.c` |
| client programs | what was typed and not read, the menu's choice, the arguments of a call, the array a block is read into | menus, prompts with `scanf`, `getchar` and `fgets`, the four calls, printing |

What is hard: clients and daemon interleave at every field; either side may close
or die between any two; the daemon must leave every handler by way of `close`; two
clients may send one ID at once; `send()` to a closed connection raises SIGPIPE,
which nobody handles; data is freed by hand; offsets and lengths are `uint32_t`;
daemons take the socket path from each other; what one prompt leaves unread is the
next one's answer.

What makes it correct: no two blocks under one ID; only the right secret opens a
block; a read returns what an acknowledged SEND stored; a failed call stored
nothing; no leaked descriptors; every call returns; the daemon stays up; memory a
block points to is allocated; a service that was started becomes reachable, and a
block stays as long as its daemon; the arguments of a call are what the user typed
for them. Two of these do not hold (section 5: the daemon does not stay up, a block
may point to freed memory).

### The prototype service (`Prototype daemon code/UNIX_DOMAIN_SOCKET_CODE/`)

An earlier daemon and library with two operations, SEND and GET. State as above,
without the list. The two programs disagree about the layout of a GET and about
whether a stored SEND is answered, and the loop never closes a connection. Correct
would mean: every call returns, the right secret opens a block, no descriptor and no
buffer is lost. The first two do not hold (section 5); `Prototype` states what does.

### The calendar (`Part1_Part2/calendarapp.c`)

A menu program over `entries.txt`. State: the file; per instance the date and the
array `modifyEntry` reads the file into. Operations: create (`readKeyboard`), view
(`readFile`), modify (`modifyEntry`), exit. Hard: every wait for the keyboard lies
between reading the file and writing it, so instances interleave there, and a
rewrite truncates first; what is read back with `sscanf` is not what was printed.
Correct means: real dates only, one entry per date, an entry never disappears,
modifying one date leaves the others alone. The last does not hold to the letter
(section 5).

### The FIFO chat (`Practicals/4`)

`writeread.c` and `readwrite.c` talk through one FIFO and take turns; whose turn it
is shows only in where each of them stands. State: the place of each program, what is
in the FIFO, the array each reads into. Hard: `open()` waits for the other side,
`read()` returns 0 when the other side is gone, either program may be killed and
started again. Correct means: each line is shown once, in order, by the other side,
and the two never wait for each other.

### The rest

The failed DataSharingSystem (does not compile), the fork exercises (`Part 3`), TCP
examples, a timestamp daemon and first exercises: section 6.

## 2. Modules

| module | models |
|---|---|
| `Wire` | what callers and daemon share: requests and their fields, the reply, listen queue, connection ends |
| `Library` | `lib.c`: one action per field sent and per item received, every early return |
| `Daemon` | `daemon.c`: accept loop, the four handlers, array, list and heap |
| `Service` | the composition of `Library` and `Daemon`; safety and liveness properties, the inductive invariant, the refinement mapping |
| `BlockStore` | the abstract specification: a map from ID to secret and data, each call served at one instant |
| `Startup` | executions of the daemon program that start, take the socket path, serve and die, and the calls that reach them |
| `Clients` | `cl.c` and `full_client.c` at a terminal, over the service `BlockStore` promises |
| `Prototype` | the earlier `daemon.c` and `sharedlib.c`, over `Wire` |
| `Calendar` | `calendarapp.c`, any number of instances over one file |
| `FifoChat` | `writeread.c` and `readwrite.c` on one FIFO |
| `MCService`, `MCClients`, `MCPrototype`, `MCCalendar` | small instances for TLC |
| `ServiceProofs`, `OutcomeProofs`, `DataProofs` | theorems about `Service`, each module extending the one before |
| `ClientsProofs`, `StartupProofs`, `PrototypeProofs`, `CalendarProofs`, `FifoChatProofs` | theorems about the module of that name |

How they are joined. `Service` extends `Library` and `Daemon`, which both extend
`Wire`. A caller's step leaves `daemonVars` alone and a daemon's step leaves the
callers' variables alone; they meet in `sent` (what the client has sent), `answer`
(what the daemon has sent), `backlog`, and the two ends of each connection.
`Service` is shown to implement `BlockStore`. The modules above it use that: a call
is one step in `Startup` and in `Clients`, with the outcomes `BlockStore` allows.

Correspondence to the code, the service:

* A *call* is one execution of a library function and owns its connection.
  `sent[k]` counts fields, and `got` those the daemon has received; a `recv()` that
  would block is an action that is not enabled. `id_len` and the ID are one field:
  both sides treat a stop between the two as a stop before them.
* `cpc`/`dpc` are the places where a process waits. `Handle` is the code of a handler
  from its last `recv()` to its response, which runs without waiting for anybody:
  lookup, secret check, storing, freeing and the response are one step because no
  other process can observe the daemon's memory in between.
* `Wanted` is how many fields a handler reads before it decides: a SEND of a known ID
  stops after the secret, a failed `malloc()` and an empty payload after `data_length`.
* `storage`, `chain` (the list from `head`), `live` (allocated buffers) and `mem`
  (their bytes) are the daemon's memory. Freed memory keeps its bytes or holds
  `Junk`, nondeterministically; freeing twice ends the process or is ignored.
  Corruption of the allocator beyond that is not modelled.
* `Die` is the end of the daemon: descriptors are closed, blocks are gone. Restarts,
  by hand, are the subject of `Startup`.
* `uint32_t` sums are taken modulo `Word`.
* Connecting with a full listen queue fails; on systems where it waits, that is a call
  that has not begun.
* `send()` on a connection the other side has closed raises SIGPIPE, or returns an
  error when the connection was reset with bytes unread; both are modelled where the
  code can meet both. The daemon's first byte to a client meets only SIGPIPE, for
  nothing it sent can be unread before it.

An ID, a secret and a payload are model values, and a reply's data is a *snippet*:
which payload, from where, how many bytes.

`Startup`: each execution of `main()` is a daemon of its own; `pc` is the system call
it has come to. `path` is whose socket SOCKET_PATH names, which outlives the process.
`raced` and `acked` are history variables for the properties. A call is at most one
queue entry, so the listen queue does not fill.

`Clients`: `stdin` is what was typed and not yet read, a character being one of the 22
hexadecimal digits (letters in both cases), a space, the end of the line or anything
else. A secret is sixteen bytes: `ScanHex` is what `%hhx` makes of a token, the value of
its last two digits. A block whose buffer an UPDATE freed holds bytes nobody knows
(`freed`); the next UPDATE of it may free what other blocks hold, or end the daemon, as
in `Daemon` (`overwriting` checks there that the first one cannot). `scanf`
skips blanks and leaves what it cannot use; `fgets` takes a line or as much as the
array holds. `careful` says that no line was typed that its prompt does not ask for
since the terminal was last empty. An array or a number the program did not set holds
any value or `Junk`.

`Prototype`: field counts as sent and as received differ (`FieldsSent`, `Wanted`). What
getBlock sends after `id_len` is a sequence of bytes (`GetStream`: the ID, its padding to
256, and the 8 bytes of the secret that `sizeof` of a pointer gives), and the secret the
daemon compares is the sixteen bytes it finds behind `id_len` of them, `SecretRead16`.
`heap` counts buffers. `Held` are the connections accepted and not closed.

`Calendar`: `fopen("w")`..`fclose()` waits for nobody and is one step, except that a
kill may fall between truncating and writing. `stdio` writes when its buffer is full or
the file closed, so up to `BufferedLines` lines a kill leaves all or none. `sscanf`
assigns fields from left to right, so an input is the well-formedness of the line with
the fields it yields; a description is what it is indented by and what follows, of which
`ReadEntries` loses the indent, and where nothing follows the array keeps what the stack
holds.
`stale[a]` says that another instance wrote the file after `a` had read it.

`FifoChat`: `met` is what `open()` waits for: the other side has opened the FIFO since.
The pipe's content lasts while somebody has it open.

Definitions marked *slip* are plausible mistakes in the definition that follows
each of them; the mutants of `PROJECT.json` put one in and TLC must then see its
property violated.

## 3. Runs

| run | instance | shows |
|---|---|---|
| `sharing` | 3 calls of SEND, GET, PARTIAL_GET, 2 IDs, 2 secrets, 2 payloads, 1 slot, 2 buffers, queue of 1; 1.7 M states | types; access by secret; reads return stored bytes; implements `BlockStore`; keys never change |
| `overwriting` | 3 calls of SEND, UPDATE, GET, 2 IDs, empty and non-empty payload, 2 slots, 3 buffers, queue of 1; 1.6 M | unique IDs; why the daemon ends; known leaks only; failed calls stored nothing; an UPDATE leaves the blocks of other IDs their bytes, also when its freed buffer is given to one of them |
| `interrupted` | 2 calls of all operations killed anywhere, `Word` = 4, client heap of 2, fairness; 0.3 M | no descriptor leak; results are the answers; `ServiceInv`; nobody waits for one who waits for him; every call returns, every connection is closed |
| `startup` | 3 executions of the daemon, 2 of them may be killed, 2 calls, a stale socket file or none; 0.1 M | `bind()` fails in a race only; blocks stay with their daemon; one of several keeps the path; the service comes up; connected calls are answered |
| `clients` | both programs, 2-byte secrets, 8 lines; 0.5 M | what reaches a call, which secret opens a block, what is printed, and that all input is read, some of it by every read |
| `prototype` | 2 calls, 2 IDs, 2 secrets, 1 slot, 2 descriptors; 0.5 M | the heap; why the daemon ends; which calls hang, and whom the daemon forgets |
| `calendar` | 2 instances that create, modify and are killed, 5 kinds of input, plain, indented and blank descriptions, 2 lines; 1.0 M | real dates; one entry per date; entries stay; other dates keep their words |
| `fifo_chat` | 3 texts each, 2 kills; 14 K | turns; no mutual wait before a kill; texts arrive |
| `daemon_stops`, `overwrite_frees`, `duplicate_send`, `prototype_hangs` | the operations concerned | section 5 |

Why the bounds are enough.

* *Service.* Three calls are two that race for an ID and one that observes; the daemon
  serves one at a time, so a further call only waits. One slot makes the array full
  at the second ID, and two buffers make `malloc()` fail at the third (in
  `sharing`; that a failing UPDATE does no harm either is proved only). Payloads of 0,
  2 and 3 bytes with buffers of 2 and 3, begins of 1 and 3 and lengths of 2 and 3 hit:
  empty, smaller, equal, larger, offset inside and at the end, slice inside, adjusted.
  `Word` = 16 is never reached by a sum, and `Word` = 4 is: `DataWasStored` is checked
  with the former only, as a wrapping sum breaks it. Permutations of calls, buffers,
  IDs and secrets are symmetries: nothing orders them (none is used where liveness is
  checked). `sharing` leaves UPDATE out: an accepted UPDATE leaves the block on freed
  memory and its content is then nobody's promise. In `overwriting` three calls are a
  block stored, updated, and another stored in the memory that was freed, or two stored
  and one of them updated in a third buffer; a second UPDATE of one block, which may free
  what another holds, is what the property excludes.
* *Startup.* Three executions are two that race and one that takes the path later from
  the winner; two deaths leave each kind of socket file behind.
* *Clients.* Two bytes have one separator between them, so a secret may be short, long,
  badly spaced or badly spelt, have a digit too many, or differ in the case of its
  letters. Eight lines are two commands, or one that goes wrong and its consequences;
  arrays of 3 to 8 characters have lines that fit and do not. Commands typed on one line
  come to a second UPDATE of a block, with another one typed and stored in between; what a
  read of that one prints is proved (`ReadsShowWhatWasTyped`).
* *Prototype.* One slot is full at the second ID; with two descriptors the second call
  that is left open uses up the last. The sizes of the GET are those of the code (256, 16,
  8), with an ID of one character and one of 240.
* *Calendar.* Two lines are an entry and another one that must not change; the inputs
  are a leap day of two years, which differ in the year only, the same in a century
  year, a day alone and an empty line.
* *FIFO chat.* Three texts are one more than a full round of both loops; after two kills
  each program can be in the other's place.

`CHECK_DEADLOCK FALSE` is in the configurations of modules whose system may really
stop: all daemons dead and all calls made (`startup`), all lines typed (`clients`), the
daemon dead and all calls done (`prototype`), all texts typed (`fifo_chat`). In
`Service` the rest states are the stuttering step `AllReturned` and deadlock is
checked.

Fairness. The operating system schedules runnable processes; no user has to do
anything, except where a property is about a user who was asked.

* `Service`: the daemon, and each caller *inside* a call, for the programs read all
  arguments before they connect. Not on beginning a call, nor on killing a client. A
  client suspended inside a call would hold up all others, and is outside `FairSpec`.
* `Startup`: a daemon that was started goes on starting, and serves. Not on starting
  one, killing one or calling.
* `Clients`: a program with input to read or a call to make. Not on typing.
* `Prototype`: the daemon, and each caller inside a call. Not on interrupting.
* `FifoChat`: both programs, where `TypeAndWrite` includes that a user who was asked for
  a line types one: `TextsArrive` is about texts that were typed.

## 4. Theorems

All are proved for every value of the constants, from the named assumptions of the
modules: sets of the right kind, sizes at least one where the code has it so, and
markers (`NULL`, `Junk`, `SIGPIPE`, `SIGINT`) that are no values. TLC evaluates these
assumptions in every run.

**The service.** The invariants build on each other.

* `ServiceInv` (`ServiceProofs`). Even `TypeOK` is not inductive: a slice's length is a
  natural number only if the offset is inside the block (`ServingInv`: a read under way
  stays granted), which needs a found block (`StorageInv`: the list consists of used
  slots in the order they were taken, so the first free slot is the next one and
  linking it neither closes a cycle nor reuses a linked slot) and a request that is
  there (`CallerInv`). From it: `TypeCorrect`, `IDsAreUnique`, `AccessIsKeyed`,
  `DescriptorsAreClosed`, and the action property `KeysStay`. `SliceInBlock`: if begin +
  length does not wrap, the adjusted slice ends in the block.
* `AnswerInv` (`OutcomeProofs`): each connection is answered while it is served and at no
  other time (`ServedOnce`); a caller's place follows from its answer (`PlaceInv`); a
  caller that is gone before its connection was served left for a known reason
  (`GoneInv`). From it: `ResultsAreAnswers`, `FailuresStoreNothing`.
* `NoCircularWait` (`OutcomeProofs`): the daemon never waits for a caller that waits
  for it. It needs `SentInv` (a caller that left "send" has sent all `Fields` of its
  request) and that no handler wants more than those (`WantedIsSent`, for every early
  return of the four): the safety half of `CallsReturn`.
* `HeapInv` (`OutcomeProofs`): until an UPDATE was accepted a buffer is held by one
  block or by the handler, never by two (`BufferInv`); lost buffers are counted by the
  calls that lost them (`LeakInv`). From it: `DaemonEndsOnlyForAReason`,
  `LeaksAreCounted`.
* `ContentInv` (`DataProofs`), under the assumption `PlainUse` (nobody uses UPDATE, no
  begin + length wraps): every block holds what an acknowledged call stored, and a
  handler's buffer what it received. From it: `ReadsGetStoredData`. Both halves of
  `PlainUse` are needed: an UPDATE leaves a block on freed memory, and a wrapped sum
  sends bytes past it.
* `ServiceIsABlockStore` (`DataProofs`), under `PlainUse`: the service implements
  `BlockStore`. A read takes effect when its last bytes are sent, the other operations
  with their response. Through `Contents`, `Replies` and `Running` a caller's first
  step is `Ask` or `AskInVain`, its last one `Finish`; the end of the daemon is `Lose`;
  a handler's response is `Serve`, except that a SUCCESS to a read is invisible and the
  step that sends its last bytes is the `Serve`. What a SEND links appears in `Contents`
  as `Put` (`StoreBlockPuts`, from the shape of the list and unique IDs); what a handler
  receives or frees is in a buffer no block holds, and so invisible.

**Startup.** `StartupInv`: whoever finds the path taken after it had unlinked it raced
(`RaceInv`); calls and queues agree about who is connected to whom (`QueueInv`); what a
daemon acknowledged is in its memory as long as it lives (`MemoryInv`, `AckedInv`).
From it: `StartupTypeCorrect`, `OnlyRacersFail`,
`BlocksStay`. Two more invariants hold beside it. `PathInv`: while no process
has ended, the path is held by one that has bound it, or free with somebody about to
bind it, or as it was found because nobody has unlinked it yet; from it
`OneDaemonIsReached`. `WaitingInv`: a connected call that has no answer is in the queue
of the daemon it reached, and that daemon is alive; this is `UnansweredCallsAreQueued`. They are the safety halves of `ServiceComesUp`
and `ConnectedCallsAreAnswered`.

**Clients.** `ClientsInv` follows a line from the terminal into the arguments of a call,
and exists because no property of `Clients` is inductive: they speak of the moment of a
call, and what makes them true then was read several prompts before.

* `TerminalInv`: while the user was careful, what is left on the terminal is nothing, or
  the line of the prompt the program is at, or (in `cl`) the rest of a secret from its
  next byte on (`SecretPending`). `ReadInv`: every prompt passed left its argument equal to
  the line typed there. `PlaceInv`: which prompts belong to which choice.
* `StoreInv`, `ShownInv`: what was stored and shown of a block that was typed carefully.

The lemmas are about reading: what `scanf`, `getchar()` and `fgets` take and leave of a
line typed as asked (`NumberIsRead`, `LineType`, `GetCharEnded`), and that the token
loop of `readClientSecret` and the byte loop of `cl.c` read the same bytes from a
well-formed line. `SecretsAreToldApart`: two such lines give the same bytes exactly when
they are the same line but for the case of their letters. `Decimal` is a recursive function and no induction over data is
available; that its values are numbers is proved from a least counterexample
(`LeastNatural`). From `ClientsInv`: `TypesHold`, `AnswersArrive`,
`WellFormedSecretsPass`, `SecretsOpen`, `ReadsShowWhatWasTyped`.
`ReadingEnds` gives the measure behind `InputIsRead`: each read shortens what is on the
terminal, or is one of at most `SecretBytes` rounds that leave a character to the next.

**Prototype.** `PrototypeInv` relates places, ends, queue and answers as in the service,
counts the connections held by the calls that sent something (`HeldInv`), and `heap` as
the used slots plus the handler's buffer (`StoreInv`). `ThePaddingIsRead` derives from
what crosses the socket that the sixteen bytes behind an ID of up to 240 are zeros
(`BytesAssumption`), so a stored block opens to every secret or to none (`PaddingInv`).
From it: `PrototypeTypeCorrect`, `ThePaddingDecides`,
`RefusalsFreeTheirBuffer`, `EndsForAReason`. With `WaitingInv` (who waits has sent all his
fields) and `SettledInv` (a connection the daemon went on from has all its caller may
still wait for, or its block is in the array): `OnlyAStoreForgets`, the safety half of
`OnlyStoringCallsHang`.

**Calendar.** `CalendarInv`: whatever is in the file, in an array or about to be written
has a real date (`DatesInv`); a date that was checked is still new and an array is
still what `sscanf` makes of the file, unless stale (`NewInv`, `CopyInv`); dates are unique
while nobody wrote on stale data (`OnceInv`). From it: `DatesAreReal`, `DatesAreUnique`, and the action properties `EntriesAreKept`,
`OthersAreUntouched`.

**FIFO chat.** `FifoInv`: before the first kill one of the two is the sender, and its text
is not written yet (`Before`) or written and not read (`After`); each lists where the two
can then stand. From it: `FifoTypeCorrect`, `TurnsAreTaken`, `NeverStuck`.

Only model-checked: liveness (`CallsReturn`, `ConnectionsAreClosed`, `ServiceComesUp`,
`ConnectedCallsAreAnswered`, `InputIsRead`, `OnlyStoringCallsHang`, `TextsArrive`),
which this version of TLAPS cannot prove. For the first six a theorem states that nothing
stands in the way: `NoCircularWait`, `DescriptorsAreClosed`, `OneDaemonIsReached`,
`UnansweredCallsAreQueued`, `ReadingEnds`, `OnlyAStoreForgets`; what is left to TLC is
that fair steps then get there. Every safety invariant and every action property of a
passing run but `BlocksKeepTheirBytes` is the statement of a theorem. The other way round, the types of `Startup`,
`Prototype` and `FifoChat` are proved and no run spends time on them. Of all theorems only
those on `DataWasStored` and `ImplementsBlockStore` assume more than the modules do:
`PlainUse`.

## 5. What the code does otherwise than it says

| run | source | |
|---|---|---|
| `daemon_stops` | `daemon.c:339` | a client that closes early ends the daemon with SIGPIPE at the next send, and every block is lost; `:500` says its loop "stays infinite" |
| `overwrite_frees` | `daemon.c:480` | the new data is freed after it was linked; `:475` says the old data is freed |
| `duplicate_send` | `daemon.c:237` | answered and closed while the caller still sends; `lib.c:192` waits for the answer |
| `prototype_hangs` | prototype `daemon.c:214` | a SEND that was stored is not answered; `sharedlib.c:71` waits for the answer |

The positive side of these is proved: the daemon ends only if a caller left early
(killed, buffer too small, slice adjusted, no memory) or an UPDATE freed twice
(`DaemonDiesForAReason`); a SEND whose caller was cut off stored nothing
(`FailedCallStoredNothing`); secrets typed as asked open exactly what was stored with the
same bytes (`SameBytesOpen`); what is printed begins with what was typed, and in
`full_client` ends with it (`FetchesWhatWasTyped`); a rewrite takes from other dates'
entries indents and blank texts only (`OthersKeepTheirWords`). Checked, not proved: an
UPDATE disturbs no other block before the second of the same block
(`BlocksKeepTheirBytes`).

Visible in the models, without a run of their own:

* the library refuses a slice the daemon has shortened (`lib.c:145`, `daemon.c:396`),
  and the daemon may then meet SIGPIPE: one of the reasons in `LeftEarly`;
* a begin + length that wraps is not adjusted (`daemon.c:397`): the condition of
  `SliceInBlock`;
* data received for a SEND to a full array (`daemon.c:287`) or an UPDATE of an unknown
  ID (`:488`) is never freed: `LeaksAreKnown`;
* daemons that start together may fail to bind, and a later one takes the path from one
  that runs on, unreachable, with its blocks (`Startup`);
* in `cl.c` the rest of a malformed secret becomes the data, and a menu line without a
  number runs whatever command its uninitialized variable names: the condition
  `careful` of the `Clients` properties;
* `full_client` stores up to 511 bytes and fetches into 256;
* lines other than 16 bytes of two digits are accepted and cut to another secret
  (`lib.c:332`), where `:340` and `:315` say what a secret is (`isValidSecret`, `ScanHex`);
* `cl` prints bytes of an earlier reply behind a shorter one (`cl.c:113`, `Prints`);
* the prototype compares the padding of the ID with the block's secret (`daemon.c:241`), so
  the GET of `clientget.c` is denied what `clientsend.c` has stored, though `:240`, `:254`
  and `sharedlib.c:147` mean the secret sent: `ThePaddingDecides`;
* modifying one date of the calendar takes the indent of other dates' descriptions and
  replaces blank ones (`calendarapp.c:139`), where `:204` says each entry is printed back:
  `ReadEntries`, and the exceptions in `OthersKeepTheirWords`;
* the prompt after a wrong date joins what it can read to that date (`calendarapp.c:170`),
  without the check of the format of `:151` (`TypeAgain`);
* two instances of the calendar add one date twice, and lose or restore each other's
  entries, when one writes on a stale copy; a kill inside a rewrite loses all of them
  (the conditions of `OneEntryPerDate` and `EntriesStay`). No text speaks of several
  instances, nor of a kill.

## 6. Not modelled

* The failed DataSharingSystem: it does not compile.
* The fork programs (`Part 3`): each process prints once, there is no state, and neither
  code nor texts promise an order.
* The TCP examples, the timestamp daemon, the first exercises: no state beyond one
  connection, or none.
* Short `send()`s in the library (it treats one as an error), `accept()` failing in the
  main daemon (it holds one connection at a time, `NoDescriptorLeak`), opcodes the
  library never sends, end of input at a prompt, data with zero bytes in it, numbers
  with a sign or `0x` in `scanf`.
* A calendar file of more lines than fit into a buffer of `stdio` (some forty), of which a
  kill may leave a part with a torn line, or than the 365 its array holds
  (`calendarapp.c:133`); rewrites of two instances torn into each other's bytes; stack
  bytes with an end of line in them.
* Prototype IDs of more than 240 bytes, whose padding is too short for a secret.
* A process that is suspended, and memory corruption beyond freed bytes.
