------------------------------ MODULE FifoChat ------------------------------
(*****************************************************************************)
(* Practicals/4: writeread.c and readwrite.c, two programs that talk through *)
(* the one FIFO /tmp/myfifo and take turns: each opens it to write, writes a *)
(* line, closes it, opens it to read, reads, prints and closes; the second   *)
(* starts with the reading half.  Whose turn it is shows in nothing but the  *)
(* place where each of them stands, so killing and restarting one of them    *)
(* (Ctrl-C is the only way out) puts both in the wrong place.                *)
(*                                                                           *)
(* open() of a FIFO waits for the other side, which counts from the moment   *)
(* it calls open(); what was written lasts as long as somebody has the FIFO  *)
(* open.  Texts are short enough for read(fd, str, 80) to take all there is. *)
(*                                                                           *)
(* A definition marked "slip" is a mistake one could make in the definition  *)
(* that follows it; PROJECT.json names the property that notices.            *)
(*****************************************************************************)
EXTENDS Naturals, Sequences

CONSTANTS
  Writer,     \* User2, who runs writeread.c
  Reader,     \* User1, who runs readwrite.c
  MaxTexts,   \* bound: texts each user types
  MaxKills,   \* bound: programs killed
  Junk        \* what an array holds before anything was read into it

Users == {Writer, Reader}

ASSUME FifoAssumption == Writer # Reader /\ MaxTexts \in Nat /\ MaxKills \in Nat

Other(u) == CHOOSE v \in Users : v # u

VARIABLES
  pc,      \* where each program is
  met,     \* whether the other side opened the FIFO since u called open()
  pipe,    \* texts written and not read
  str,     \* the array each program reads into
  sent,    \* number of texts each user has written
  shown,   \* number of lines each program has printed
  kills

vars == <<pc, met, pipe, str, sent, shown, kills>>

\* A text is its writer and its number.
Texts == Users \X Nat

Reading == {"opening to read", "reading", "read"}
Writing == {"opening to write", "typing", "written"}

Places == {"off", "to read", "to write"} \cup Reading \cup Writing

TypeOK ==
  /\ pc \in [Users -> Places]
  /\ met \in [Users -> BOOLEAN]
  /\ pipe \in Seq(Texts)
  /\ str \in [Users -> Texts \cup {Junk}]
  /\ sent \in [Users -> 0 .. MaxTexts]
  /\ shown \in [Users -> Nat]
  /\ kills \in 0 .. MaxKills

Init ==
  /\ pc = [u \in Users |-> "off"]
  /\ met = [u \in Users |-> FALSE]
  /\ pipe = <<>>
  /\ str = [u \in Users |-> Junk]
  /\ sent = [u \in Users |-> 0]
  /\ shown = [u \in Users |-> 0]
  /\ kills = 0

Holds(u) == pc[u] \in Reading \cup Writing

\* The last one to close the FIFO takes what is in it along.
Leave(u, place) ==
  /\ pc' = [pc EXCEPT ![u] = place]
  /\ met' = [met EXCEPT ![u] = FALSE]
  /\ pipe' = IF Holds(Other(u)) THEN pipe ELSE <<>>

-----------------------------------------------------------------------------
\* slip: both loops write first
BothWriteFirst(u) == "to write"

FirstHalf(u) == IF u = Writer THEN "to write" ELSE "to read"

Start(u) ==
  /\ pc[u] = "off"
  /\ pc' = [pc EXCEPT ![u] = FirstHalf(u)]
  /\ UNCHANGED <<met, pipe, str, sent, shown, kills>>

\* open() is called: whoever waits for this side may go on.
CallOpen(u, side, opposite) ==
  /\ pc' = [pc EXCEPT ![u] = side]
  /\ met' = [v \in Users |-> IF v = u THEN pc[Other(u)] \in opposite
                             ELSE met[v] \/ pc[v] \in opposite]
  /\ UNCHANGED <<pipe, str, sent, shown, kills>>

OpenToRead(u) == pc[u] = "to read" /\ CallOpen(u, "opening to read", Writing)

OpenToWrite(u) == pc[u] = "to write" /\ CallOpen(u, "opening to write", Reading)

\* slip: O_NONBLOCK
OpenAtOnce(u) == TRUE

OtherSideCame(u) == met[u]

\* open() returns.
Opened(u) ==
  /\ pc[u] \in {"opening to read", "opening to write"}
  /\ OtherSideCame(u)
  /\ pc' = [pc EXCEPT ![u] = IF @ = "opening to read" THEN "reading" ELSE "typing"]
  /\ UNCHANGED <<met, pipe, str, sent, shown, kills>>

\* read() and printf(): the first text there is, or the old array when read()
\* finds the FIFO empty and nobody to write to it.
ReadAndPrint(u) ==
  /\ pc[u] = "reading"
  /\ pipe # <<>> \/ pc[Other(u)] \notin Writing
  /\ str' = [str EXCEPT ![u] = IF pipe = <<>> THEN @ ELSE Head(pipe)]
  /\ pipe' = <<>>
  /\ shown' = [shown EXCEPT ![u] = @ + 1]
  /\ pc' = [pc EXCEPT ![u] = "read"]
  /\ UNCHANGED <<met, sent, kills>>

NextText(u) == <<u, sent[u] + 1>>

\* fgets() and write(); with no reader left SIGPIPE ends the program.
TypeAndWrite(u) ==
  /\ pc[u] = "typing"
  /\ sent[u] < MaxTexts
  /\ IF pc[Other(u)] \in Reading
       THEN /\ sent' = [sent EXCEPT ![u] = @ + 1]
            /\ pipe' = Append(pipe, NextText(u))
            /\ pc' = [pc EXCEPT ![u] = "written"]
            /\ UNCHANGED <<met, str>>
       ELSE /\ Leave(u, "off")
            /\ str' = [str EXCEPT ![u] = Junk]
            /\ UNCHANGED sent
  /\ UNCHANGED <<shown, kills>>

\* slip: close() without the second open()
CloseAndType(u) ==
  /\ pc[u] \in {"read", "written"}
  /\ Leave(u, "to write")
  /\ UNCHANGED <<str, sent, shown, kills>>

\* close(), and on to the other half of the loop.
Close(u) ==
  /\ pc[u] \in {"read", "written"}
  /\ Leave(u, IF pc[u] = "read" THEN "to write" ELSE "to read")
  /\ UNCHANGED <<str, sent, shown, kills>>

Kill(u) ==
  /\ pc[u] # "off"
  /\ kills < MaxKills
  /\ kills' = kills + 1
  /\ Leave(u, "off")
  /\ str' = [str EXCEPT ![u] = Junk]
  /\ UNCHANGED <<sent, shown>>

Step(u) ==
  \/ OpenToRead(u) \/ OpenToWrite(u) \/ Opened(u)
  \/ ReadAndPrint(u) \/ TypeAndWrite(u) \/ Close(u)

Next == \E u \in Users : Start(u) \/ Step(u) \/ Kill(u)

Spec == Init /\ [][Next]_vars

\* Running programs are scheduled, and a user asked for a line types one.
FairSpec == Spec /\ \A u \in Users : WF_vars(Step(u))

-----------------------------------------------------------------------------
\* As long as nobody is killed the two take turns: each line shown is the next
\* text of the other user, none is lost, none shown twice, none is one's own.
TextsTakeTurns ==
  kills = 0 => \A u \in Users :
    /\ shown[u] > 0 => str[u] = <<Other(u), shown[u]>>
    /\ sent[Other(u)] \in {shown[u], shown[u] + 1}

\* Both wait in open() for each other, on the same side: only a kill can put
\* them there.  (One that waits for a program nobody started is not stuck.)
Stuck == \A u \in Users : pc[u] \in {"opening to read", "opening to write"} /\ ~met[u]

StuckOnlyAfterAKill == kills = 0 => ~Stuck

\* A text, once written, is shown by the other program, unless one is killed.
TextsArrive ==
  \A u \in Users, n \in 1 .. MaxTexts :
    sent[u] = n ~> shown[Other(u)] >= n \/ kills > 0
=============================================================================
