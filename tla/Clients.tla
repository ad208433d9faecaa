------------------------------ MODULE Clients ------------------------------
(****************************************************************************)
(* socket_coursework/cl.c and full_client.c, the two menu programs over the *)
(* library, with the prompts of lib.c that full_client uses.  Both read     *)
(* their terminal with scanf(), getchar() and fgets() in turn, so what one  *)
(* of these leaves unread is the next one's input: a mistake at one prompt  *)
(* may become the answer to another.                                        *)
(*                                                                          *)
(* One program runs at a time; another may be started when it has ended.    *)
(* A user types a line whenever the program waits for one.  Of a character  *)
(* only this matters: which hexadecimal digit it is, in which case, a       *)
(* space, the end of the line or anything else (signs and 0x among it).     *)
(* The data service is what BlockStore promises of it, or a failure, or     *)
(* what an UPDATE leaves of it (Daemon).                                    *)
(****************************************************************************)
EXTENDS Naturals, Sequences, FiniteSets

CONSTANTS
  Programs,      \* of {"cl", "full"}
  SecretBytes,   \* 16 in the code
  Size,          \* Size[p]: the array a line is read into, at prompts that use fgets()
  Buffer,        \* Buffer[p]: the array program p reads a block into: 1024 and 256
  Inputs,        \* Inputs[p]: what a user may type at prompt p
  MaxLines,      \* bound: lines typed
  Junk,          \* a byte nobody wrote
  NULL

\* Each digit at its value plus one, and the letters in the other case.
Digit == <<"0", "1", "2", "3", "4", "5", "6", "7", "8", "9", "a", "b", "c", "d", "e", "f">>
LowerCase == [A |-> "a", B |-> "b", C |-> "c", D |-> "d", E |-> "e", F |-> "f"]

Digits == {Digit[i] : i \in 1 .. 10}
Hex == {Digit[i] : i \in 1 .. 16} \cup DOMAIN LowerCase
Blanks == {" ", "\n"}
Chars == Hex \cup Blanks \cup {"x"}

Texts == Seq(Chars \ {"\n"})

LinePrompts == {"ID", "secret", "data"}                 \* full_client reads lines here
Prompts == LinePrompts \cup {"choice", "offset", "length"}

ASSUME ClientsAssumption ==
  /\ Programs \subseteq {"cl", "full"}
  /\ SecretBytes \in Nat \ {0}
  /\ Size \in [LinePrompts -> Nat \ {0, 1}]
  /\ Buffer \in [Programs -> Nat]
  /\ Inputs \in [Prompts -> SUBSET Texts]
  /\ MaxLines \in Nat

VARIABLES
  program,   \* the program that runs
  pc,        \* the prompt it is at, "call" before a library call, "shown" after it
  stdin,     \* characters typed and not read
  choice,    \* the number read in the menu
  id, secret, data, offset, length,   \* the arguments of the call
  byte,      \* cl's loop over the bytes of a secret
  typed,     \* the line last typed at each prompt of this command
  careful,   \* no misplaced line was typed since the terminal was last empty
  store,     \* the data service: the block of each ID
  shown,     \* what the last successful read printed, NULL if there was none
  lines      \* number of lines typed

args == <<id, secret, data, offset, length>>
vars == <<program, pc, stdin, choice, args, byte, typed, careful, store, shown, lines>>

Nothing == [p \in Prompts |-> NULL]
NoSecret == [i \in 1 .. SecretBytes |-> 0]

Init ==
  /\ program \in Programs
  /\ pc = "choice"
  /\ stdin = <<>>
  /\ choice = NULL
  /\ id = <<>> /\ secret = NoSecret /\ data = <<>>
  /\ offset = NULL /\ length = NULL
  /\ byte = 1
  /\ typed = Nothing
  /\ careful = TRUE
  /\ store = <<>>
  /\ shown = NULL
  /\ lines = 0

-----------------------------------------------------------------------------
(***************************************************************************)
(* Reading.                                                                *)
(***************************************************************************)
Drop(s, n) == SubSeq(s, n + 1, Len(s))

\* Length of the longest prefix of s within a class of characters.
Prefix(s, class) ==
  CHOOSE n \in 0 .. Len(s) :
    /\ \A i \in 1 .. n : s[i] \in class
    /\ n < Len(s) => s[n + 1] \notin class

SkipBlanks(s) == Drop(s, Prefix(s, Blanks))

\* slip: getchar() left out
LeaveCharacter(s) == s

GetChar(s) == Drop(s, 1)

\* slip: fgets(id, sizeof(id) + 1, stdin)
TakesOneMore(s, size) == IF Prefix(s, Chars \ {"\n"}) < size THEN Prefix(s, Chars \ {"\n"}) + 1 ELSE size

\* fgets(): up to the end of the line, or size - 1 characters.
Takes(s, size) ==
  IF Prefix(s, Chars \ {"\n"}) < size - 1 THEN Prefix(s, Chars \ {"\n"}) + 1 ELSE size - 1

\* What was read, without the end of the line.
Line(s, size) ==
  LET n == Takes(s, size) IN SubSeq(s, 1, IF s[n] = "\n" THEN n - 1 ELSE n)

Decimal(digits) ==
  LET value[n \in 0 .. Len(digits)] ==
        IF n = 0 THEN 0
        ELSE 10 * value[n - 1] + (CHOOSE v \in 0 .. 9 : Digit[v + 1] = digits[n])
  IN value[Len(digits)]

\* Where the program reads a line, and where it scans for a number.
ReadsLine == pc \in {"ID", "data"} \/ (pc = "secret" /\ program = "full")

Waiting ==
  /\ pc \in Prompts
  /\ IF ReadsLine THEN stdin = <<>> ELSE SkipBlanks(stdin) = <<>>

-----------------------------------------------------------------------------
(***************************************************************************)
(* Secrets.                                                                *)
(***************************************************************************)
Spaces(s) == {i \in DOMAIN s : s[i] = " "}

\* slip: one space per byte
SpacePerByte(s) ==
  /\ \A i \in DOMAIN s : s[i] \in Hex \cup {" "}
  /\ Cardinality(Spaces(s)) = SecretBytes
  /\ s[Len(s)] # " "

\* Spaces are counted; what lies between them is not looked at.
isValidSecret(s) ==
  /\ \A i \in DOMAIN s : s[i] \in Hex \cup {" "}
  /\ Cardinality(Spaces(s)) = SecretBytes - 1
  /\ s[Len(s)] # " "

\* strtok(): a token starts at each character after a space or at the front.
TokenStarts(s) == {i \in DOMAIN s : s[i] # " " /\ (i = 1 \/ s[i - 1] = " ")}

Lower(c) == IF c \in DOMAIN LowerCase THEN LowerCase[c] ELSE c

Value(c) == (CHOOSE i \in 1 .. 16 : Digit[i] = Lower(c)) - 1

\* slip: only the last digit counts
ScanDigit(s) == LET n == Prefix(s, Hex) IN IF n = 0 THEN 0 ELSE Value(s[n])

\* "%hhx" keeps the low byte of a longer number (of at most 16 digits; of more
\* it makes 255).  Where there is no digit the byte is the zero it was before.
ScanHex(s) ==
  LET n == Prefix(s, Hex)
      high == IF n > 1 THEN Value(s[n - 1]) ELSE 0
      low == IF n > 0 THEN Value(s[n]) ELSE 0
  IN 16 * high + low

\* Where the n-th token starts: one position, or none.
NthToken(s, n) ==
  {i \in TokenStarts(s) : Cardinality({j \in TokenStarts(s) : j <= i}) = n}

\* The bytes of an accepted line; those without a token stay zero.
Bytes(s) ==
  [n \in 1 .. SecretBytes |->
     IF NthToken(s, n) = {} THEN 0
     ELSE ScanHex(Drop(s, (CHOOSE i \in NthToken(s, n) : TRUE) - 1))]

\* What the prompts ask for, without counting: two digits and a space in turn.
WellFormed(s) ==
  /\ Len(s) = 3 * SecretBytes - 1
  /\ \A i \in DOMAIN s : IF i % 3 = 0 THEN s[i] = " " ELSE s[i] \in Hex

\* The same line but for the case of its letters.
Alike(s, t) == Len(s) = Len(t) /\ \A i \in DOMAIN s : Lower(s[i]) = Lower(t[i])

-----------------------------------------------------------------------------
(***************************************************************************)
(* The user.                                                               *)
(***************************************************************************)
\* One number, a text that fits, and in cl a secret as it was asked for.
AsAsked(line) ==
  CASE pc \in {"choice", "offset", "length"} ->
         line # <<>> /\ \A i \in DOMAIN line : line[i] \in Digits
    [] pc = "secret" /\ program = "cl" -> WellFormed(line)
    [] OTHER -> Len(line) + 1 < Size[pc]

TypeLine ==
  /\ Waiting /\ lines < MaxLines
  /\ \E line \in Inputs[pc] :
       /\ stdin' = stdin \o line \o <<"\n">>
       /\ typed' = [IF pc = "choice" THEN Nothing ELSE typed EXCEPT ![pc] = line]
       /\ careful' = (AsAsked(line) /\ (careful \/ pc = "choice"))
  /\ lines' = lines + 1
  /\ UNCHANGED <<program, pc, choice, args, byte, store, shown>>

-----------------------------------------------------------------------------
(***************************************************************************)
(* The programs.                                                           *)
(***************************************************************************)
\* scanf() that finds no number leaves the variable as it was: in full_client
\* zero, in cl whatever was in its place (0 stands for all that is no item).
Unscanned == IF program = "full" THEN {0} ELSE 0 .. 5

\* The arrays are cleared in every round of the loop, the numbers are not.
ReadChoice ==
  /\ pc = "choice" /\ ~Waiting
  /\ \E s \in {SkipBlanks(stdin)} : \E n \in {Prefix(s, Digits)} :
     /\ choice' \in IF n > 0 THEN {Decimal(SubSeq(s, 1, n))} ELSE Unscanned
     /\ stdin' = GetChar(Drop(s, n))
  /\ pc' = CASE choice' \in 1 .. 4 -> "ID" [] choice' = 5 -> "off" [] OTHER -> "choice"
  /\ id' = <<>> /\ secret' = NoSecret /\ data' = <<>>
  /\ offset' = NULL /\ length' = NULL
  /\ shown' = NULL
  /\ UNCHANGED <<program, byte, typed, careful, store, lines>>

\* readClientID(), and the same lines in cl.
ReadID ==
  /\ pc = "ID" /\ ~Waiting
  /\ id' = Line(stdin, Size["ID"])
  /\ stdin' = Drop(stdin, Takes(stdin, Size["ID"]))
  /\ pc' = "secret"
  /\ UNCHANGED <<program, choice, secret, data, offset, length, byte, typed, careful, store, shown, lines>>

AfterSecret ==
  CASE choice \in {1, 2} -> "data" [] choice = 3 -> "offset" [] choice = 4 -> "call"

\* readClientSecret() of full_client: a line at a time until one is accepted.
readClientSecret ==
  /\ pc = "secret" /\ program = "full" /\ ~Waiting
  /\ \E s \in {Line(stdin, Size["secret"])} :
     IF isValidSecret(s)
       THEN secret' = Bytes(s) /\ pc' = AfterSecret
       ELSE UNCHANGED <<secret, pc>>
  /\ stdin' = Drop(stdin, Takes(stdin, Size["secret"]))
  /\ UNCHANGED <<program, choice, id, data, offset, length, byte, typed, careful, store, shown, lines>>

\* readSecret() of cl: one round of its loop, and getchar() after the last.  A
\* character scanf() does not like stays where it is for all further rounds.
readSecret ==
  /\ pc = "secret" /\ program = "cl" /\ ~Waiting
  /\ \E s \in {SkipBlanks(stdin)}, last \in {byte = SecretBytes} :
     \E rest \in {Drop(s, Prefix(s, Hex))} :
     /\ secret' = [secret EXCEPT ![byte] = ScanHex(s)]
     /\ stdin' = IF last THEN GetChar(rest) ELSE rest
     /\ byte' = IF last THEN 1 ELSE byte + 1
     /\ pc' = IF last THEN AfterSecret ELSE pc
  /\ UNCHANGED <<program, choice, id, data, offset, length, typed, careful, store, shown, lines>>

ReadData ==
  /\ pc = "data" /\ ~Waiting
  /\ data' = Line(stdin, Size["data"])
  /\ stdin' = Drop(stdin, Takes(stdin, Size["data"]))
  /\ pc' = "call"
  /\ UNCHANGED <<program, choice, id, secret, offset, length, byte, typed, careful, store, shown, lines>>

\* scanf("%u"), first the offset, then the length; getchar() after both.  Where
\* no number is found the offset is indeterminate, and so is the length in cl.
ReadOffset ==
  /\ pc = "offset" /\ ~Waiting
  /\ \E s \in {SkipBlanks(stdin)} : \E n \in {Prefix(s, Digits)} :
     /\ offset' = IF n > 0 THEN Decimal(SubSeq(s, 1, n)) ELSE Junk
     /\ stdin' = Drop(s, n)
  /\ pc' = "length"
  /\ UNCHANGED <<program, choice, id, secret, data, length, byte, typed, careful, store, shown, lines>>

ReadLength ==
  /\ pc = "length" /\ ~Waiting
  /\ \E s \in {SkipBlanks(stdin)} : \E n \in {Prefix(s, Digits)} :
     /\ length' = IF n > 0 THEN Decimal(SubSeq(s, 1, n))
                  ELSE IF program = "full" THEN 0 ELSE Junk
     /\ stdin' = GetChar(Drop(s, n))
  /\ pc' = "call"
  /\ UNCHANGED <<program, choice, id, secret, data, offset, byte, typed, careful, store, shown, lines>>

-----------------------------------------------------------------------------
(***************************************************************************)
(* The calls.  A call may fail, or do what BlockStore says; back in the    *)
(* menu the screen keeps what was printed until the next choice is read.   *)
(***************************************************************************)
Calls(item) ==
  /\ pc = "call" /\ choice = item
  /\ pc' = "choice"
  /\ UNCHANGED <<program, stdin, choice, args, byte, typed, careful, lines>>

SendNewBlock ==
  /\ Calls(1)
  /\ \/ UNCHANGED store
     \/ /\ id \notin DOMAIN store /\ data # <<>>
        /\ \E new \in {[secret |-> secret, data |-> data, freed |-> FALSE,
                         typed |-> IF careful THEN typed ELSE Nothing]} :
             store' = [i \in DOMAIN store \cup {id} |-> IF i = id THEN new ELSE store[i]]
  /\ UNCHANGED shown

Opens == id \in DOMAIN store /\ store[id].secret = secret

Garbage(n) == [k \in 1 .. n |-> Junk]

\* An accepted UPDATE leaves its block on the buffer it freed last.  That one may
\* be given to a block stored later, so the next UPDATE of the first block frees
\* what others hold as well, or what is free already, which ends the daemon: one
\* started anew knows no block (Daemon.OverwriteBlock).
OverwriteBlock ==
  /\ Calls(2)
  /\ \/ UNCHANGED store
     \/ /\ Opens /\ data # <<>>
        /\ \E others \in IF store[id].freed THEN SUBSET (DOMAIN store \ {id}) ELSE {{}} :
             store' = [i \in DOMAIN store |->
               IF i \in others \cup {id}
                 THEN [secret |-> store[i].secret, freed |-> TRUE, typed |-> Nothing,
                       data |-> Garbage(IF i = id THEN Len(data) ELSE Len(store[i].data))]
                 ELSE store[i]]
     \/ Opens /\ data # <<>> /\ store[id].freed /\ store' = <<>>
  /\ UNCHANGED shown

\* slip: full_client's array not cleared
PrintsUncleared(bytes) == {bytes, Append(bytes, Junk)}

\* What printf("%s") shows of an array with these bytes at its front:
\* full_client's array was cleared before, cl's was not.
Prints(bytes) ==
  IF program = "full" /\ Len(bytes) < Buffer["full"] THEN {bytes}
  ELSE {bytes, Append(bytes, Junk)}

GetBlock ==
  /\ Calls(4)
  /\ \/ UNCHANGED shown
     \/ /\ Opens /\ Len(store[id].data) <= Buffer[program]
        /\ shown' \in Prints(store[id].data)
  /\ UNCHANGED store

\* The library terminates what it returns, and refuses an adjusted slice.
PartialGetBlock ==
  /\ Calls(3)
  /\ \/ UNCHANGED shown
     \/ /\ Opens
        /\ \E b \in 0 .. Len(store[id].data) - 1, n \in 0 .. Len(store[id].data) :
             /\ offset \in {b, Junk} /\ length \in {n, Junk}
             /\ b + n <= Len(store[id].data)
             /\ shown' = SubSeq(store[id].data, b + 1, b + n)
  /\ UNCHANGED store

Read ==
  \/ ReadChoice \/ ReadID \/ readClientSecret \/ readSecret \/ ReadData
  \/ ReadOffset \/ ReadLength

Call == SendNewBlock \/ OverwriteBlock \/ GetBlock \/ PartialGetBlock

\* The user starts a program; what its predecessor left in its buffer is gone.
StartProgram ==
  /\ pc = "off"
  /\ program' \in Programs
  /\ pc' = "choice"
  /\ stdin' = <<>>
  /\ UNCHANGED <<choice, args, byte, typed, careful, store, shown, lines>>

Next == TypeLine \/ Read \/ Call \/ StartProgram

Spec == Init /\ [][Next]_vars

\* A running program is scheduled; the user need not type.
FairSpec == Spec /\ WF_vars(Read) /\ WF_vars(Call)

-----------------------------------------------------------------------------
Bits == [1 .. SecretBytes -> 0 .. 255]

Blocks ==
  [secret : Bits, data : Seq(Chars \cup {Junk}), freed : BOOLEAN,
   typed : [Prompts -> Texts \cup {NULL}]]

TypeOK ==
  /\ program \in Programs
  /\ pc \in Prompts \cup {"call", "off"}
  /\ stdin \in Seq(Chars)
  /\ choice \in Nat \cup {NULL}
  /\ id \in Texts /\ Len(id) < Size["ID"]
  /\ secret \in Bits
  /\ data \in Texts /\ Len(data) < Size["data"]
  /\ offset \in Nat \cup {NULL, Junk} /\ length \in Nat \cup {NULL, Junk}
  /\ byte \in 1 .. SecretBytes
  /\ typed \in [Prompts -> Texts \cup {NULL}]
  /\ careful \in BOOLEAN
  /\ DOMAIN store \subseteq Texts /\ store \in [DOMAIN store -> Blocks]
  /\ lines \in 0 .. MaxLines

\* When every line since the terminal was last empty was one its prompt asks for
\* (in full_client: whatever was typed as a secret), the arguments of the call
\* are the user's answers to these prompts, and to no others.
AnswersReachTheirFields ==
  pc = "call" /\ careful =>
    /\ choice = Decimal(typed["choice"])
    /\ id = typed["ID"]
    /\ secret = Bytes(typed["secret"])
    /\ choice \in {1, 2} => data = typed["data"]
    /\ choice = 3 => offset = Decimal(typed["offset"]) /\ length = Decimal(typed["length"])

\* A secret typed as the prompt asks (lib.c:340) is not asked for again.
WellFormedIsAccepted ==
  Waiting /\ pc = "secret" /\ careful /\ typed["secret"] # NULL =>
    ~WellFormed(typed["secret"])

\* Whichever of the two programs stored a block and whichever asks for it, of
\* the secrets typed as asked those open it that say the same bytes: the line it
\* was stored with, in either case of its letters, and no other (lib.c:351, cl.c:22).
SameBytesOpen ==
  pc = "call" /\ careful /\ id \in DOMAIN store =>
    LET line == store[id].typed["secret"] IN
    line # NULL /\ WellFormed(line) /\ WellFormed(typed["secret"]) =>
      (Opens <=> Alike(typed["secret"], line))

\* What a whole read shows begins with the data somebody typed for this ID,
\* unless an UPDATE freed it; in full_client nothing follows it, unless it fills
\* the array.
FetchesWhatWasTyped ==
  shown # NULL /\ choice = 4 /\ store[id].typed # Nothing =>
    LET line == store[id].typed["data"] IN
    /\ SubSeq(shown, 1, Len(line)) = line
    /\ program = "full" /\ Len(line) < Buffer["full"] => shown = line

\* Whatever is typed, the program reads all of it and waits for the user again:
\* no character is scanned for ever.
InputIsRead == pc # "off" ~> Waiting \/ pc = "off"

\* How often the program may read on without taking a character.
RoundsLeft ==
  CASE pc = "offset" -> 1
    [] pc = "secret" /\ program = "cl" -> SecretBytes - byte
    [] OTHER -> 0

\* Why that is so: a read that finds nothing it can use takes a character all
\* the same, unless it is one of finitely many rounds that leave it to the next.
EveryReadAdvances ==
  [][Read => \/ Len(stdin') < Len(stdin)
             \/ Len(stdin') = Len(stdin) /\ RoundsLeft' < RoundsLeft]_vars
=============================================================================
