------------------------------ MODULE Calendar ------------------------------
(***************************************************************************)
(* Part1_Part2/calendarapp.c: a menu program over the text file            *)
(* entries.txt, one line "DD/MM/YYYY, description" per entry.  Nothing     *)
(* locks the file, and every wait for the keyboard lies between reading it *)
(* and writing it, so several running instances interleave there.          *)
(*                                                                         *)
(* fopen("w") .. fclose() and fopen("a") .. fclose() wait for nobody: each *)
(* is one step, except that the program may be killed in a rewrite between *)
(* truncating the file and writing it.  stdio keeps what is printed in a   *)
(* buffer, and BufferedLines lines fit into it whatever they hold (36 of   *)
(* 10 + 2 + 99 + 1 bytes into 4096): up to there a kill leaves no line or  *)
(* all of them.  Longer files, of which it may leave some and a torn one,  *)
(* are not modelled.                                                       *)
(***************************************************************************)
EXTENDS Integers, Sequences, FiniteSets

CONSTANTS
  Apps,       \* running instances
  Inputs,     \* what a user may type at a date prompt
  Texts,      \* descriptions, from the first character that is no white space
  Blank,      \* nothing but white space, or nothing
  Garbage,    \* the bytes of an uninitialized array (taken to be one line)
  Choices,    \* what users choose in the menu, of "create" and "modify"
  NULL,       \* a field sscanf did not assign
  BufferedLines,   \* lines that surely fit into a buffer of stdio
  MaxLines    \* bound: lines in the file (the program assumes at most 365)

\* A typed line: well formed (DD/MM/YYYY) or not, and what sscanf("%d/%d/%d")
\* assigns from it, from left to right.
Input == [form : BOOLEAN, day : Nat \cup {NULL}, month : Nat \cup {NULL}, year : Nat \cup {NULL}]

ASSUME CalendarAssumption ==
  /\ Inputs \subseteq Input
  /\ \A i \in Inputs : i.form => NULL \notin {i.day, i.month, i.year}
  /\ Blank \notin Texts /\ Garbage \notin Texts
  /\ Choices \subseteq {"create", "modify"}
  /\ BufferedLines \in Nat /\ MaxLines \in 0 .. BufferedLines

VARIABLES
  file,     \* the lines of entries.txt
  pc,       \* pc[a]: the prompt instance a waits at
  date,     \* date[a]: day, month and year
  entries,  \* entries[a]: the array of modifyEntry
  stale,    \* stale[a]: others wrote the file since a read it (history)
  overrun   \* whether somebody wrote the file on what was stale (history)

vars == <<file, pc, date, entries, stale, overrun>>

DateOf(l) == [day |-> l.day, month |-> l.month, year |-> l.year]

Line(d, t) == [day |-> d.day, month |-> d.month, year |-> d.year, text |-> t]

\* What a user types: indented if white space stands in front, or blank.
Descriptions ==
  [indent : BOOLEAN, body : Texts] \cup [indent : {FALSE}, body : {Blank}]

NoDate == [day |-> NULL, month |-> NULL, year |-> NULL]

\* Between reading the file and writing it.
Relies(a) == pc[a] \in {"describe", "format", "retry", "find", "rewrite"}

\* Back in menu(), or ended: the variables of the functions are gone.
Leave(a, place) ==
  /\ pc' = [pc EXCEPT ![a] = place]
  /\ date' = [date EXCEPT ![a] = NoDate]
  /\ entries' = [entries EXCEPT ![a] = <<>>]

GoTo(a, place) ==
  /\ Leave(a, place)
  /\ stale' = [stale EXCEPT ![a] = FALSE]
  /\ UNCHANGED <<file, overrun>>

\* The file is written: what others have read of it is stale.
Write(a, contents, place) ==
  /\ Leave(a, place)
  /\ file' = contents
  /\ stale' = [b \in Apps |-> b # a /\ Relies(b)]
  /\ overrun' = (overrun \/ stale[a])

Init ==
  /\ file = <<>>
  /\ pc = [a \in Apps |-> "off"]
  /\ date = [a \in Apps |-> NoDate]
  /\ entries = [a \in Apps |-> <<>>]
  /\ stale = [a \in Apps |-> FALSE]
  /\ overrun = FALSE

-----------------------------------------------------------------------------
isValidFormat(i) == i.form

\* slip: every fourth year is a leap year
JulianDate(d) ==
  /\ d.year \in 1000 .. 3000
  /\ d.month \in 1 .. 12
  /\ d.day >= 1
  /\ d.day <= IF d.month = 2 THEN IF d.year % 4 = 0 THEN 29 ELSE 28
              ELSE IF d.month \in {4, 6, 9, 11} THEN 30 ELSE 31

\* The array days[], with days[1] set by the year.
Days(y) ==
  <<31, IF y % 400 = 0 \/ (y % 4 = 0 /\ y % 100 # 0) THEN 29 ELSE 28,
    31, 30, 31, 30, 31, 31, 30, 31, 30, 31>>

isValidDate(d) ==
  /\ d.year \in 1000 .. 3000
  /\ d.month \in 1 .. 12
  /\ d.day \in 1 .. Days(d.year)[d.month]

\* slip: the duplicate check compares with nothing
NeverDuplicate(d) == FALSE

\* The file is read again for each date typed.
checkDupliate(d) == \E l \in DOMAIN file : DateOf(file[l]) = d

Typed(i) == [day |-> i.day, month |-> i.month, year |-> i.year]

-----------------------------------------------------------------------------
\* main() and openCheckFile(): a missing file is created empty.
Start(a) ==
  /\ pc[a] = "off"
  /\ pc' = [pc EXCEPT ![a] = "menu"]
  /\ UNCHANGED <<file, date, entries, stale, overrun>>

\* menu(): choice 0.  Choice 2, readFile(), changes nothing.
Exit(a) ==
  /\ pc[a] = "menu"
  /\ GoTo(a, "off")

\* menu(): choice 1.
Create(a) ==
  /\ pc[a] = "menu" /\ "create" \in Choices
  /\ pc' = [pc EXCEPT ![a] = "new date"]
  /\ UNCHANGED <<file, date, entries, stale, overrun>>

\* readKeyboard(), its loop: format, duplicate and date are checked in turn.
TypeNewDate(a) ==
  /\ pc[a] = "new date"
  /\ \E i \in Inputs :
       IF isValidFormat(i) /\ ~checkDupliate(Typed(i))
            THEN /\ date' = [date EXCEPT ![a] = Typed(i)]
                 /\ pc' = [pc EXCEPT ![a] = IF isValidDate(Typed(i)) THEN "describe" ELSE @]
            ELSE UNCHANGED <<date, pc>>
  /\ UNCHANGED <<file, entries, stale, overrun>>

\* readKeyboard(), the rest: the description is read, then the line appended.
Describe(a) ==
  /\ pc[a] = "describe"
  /\ Len(file) < MaxLines
  /\ \E t \in Descriptions : Write(a, Append(file, Line(date[a], t)), "menu")

(****************************************************************************)
(* modifyEntry(): choice 3 first reads the file into an array on the stack. *)
(* After "DD/MM/YYYY," the space of the sscanf format skips white space,    *)
(* the newline included, before %[^\n] assigns the rest: a description      *)
(* loses what it is indented by, and where nothing else is left nothing is  *)
(* assigned and the array keeps whatever the stack holds.                   *)
(****************************************************************************)
StackContents == Descriptions \cup [indent : {FALSE}, body : {Garbage}]

Stripped(t) == [t EXCEPT !.indent = FALSE]

ReadEntries(a) ==
  /\ pc[a] = "menu" /\ "modify" \in Choices
  /\ \E stack \in [DOMAIN file -> StackContents] :
       entries' = [entries EXCEPT ![a] = [l \in DOMAIN file |->
         Line(DateOf(file[l]),
              IF file[l].text.body = Blank THEN stack[l] ELSE Stripped(file[l].text))]]
  /\ pc' = [pc EXCEPT ![a] = "format"]
  /\ UNCHANGED <<file, date, stale, overrun>>

\* The first loop checks the format, the second the date.
TypeFormat(a) ==
  /\ pc[a] = "format"
  /\ \E i \in Inputs :
       IF isValidFormat(i)
            THEN /\ date' = [date EXCEPT ![a] = Typed(i)]
                 /\ pc' = [pc EXCEPT ![a] = IF isValidDate(Typed(i)) THEN "find" ELSE "retry"]
            ELSE UNCHANGED <<date, pc>>
  /\ UNCHANGED <<file, entries, stale, overrun>>

\* The second loop does not look at the format: fields sscanf cannot read
\* keep their values.
Scanned(a, i) ==
  [day |-> IF i.day = NULL THEN date[a].day ELSE i.day,
   month |-> IF i.month = NULL THEN date[a].month ELSE i.month,
   year |-> IF i.year = NULL THEN date[a].year ELSE i.year]

TypeAgain(a) ==
  /\ pc[a] = "retry"
  /\ \E i \in Inputs :
       /\ date' = [date EXCEPT ![a] = Scanned(a, i)]
       /\ pc' = [pc EXCEPT ![a] = IF isValidDate(Scanned(a, i)) THEN "find" ELSE @]
  /\ UNCHANGED <<file, entries, stale, overrun>>

\* slip: the year is not compared
MatchesAnyYear(a) ==
  {l \in DOMAIN entries[a] : entries[a][l].day = date[a].day /\ entries[a][l].month = date[a].month}

Matches(a) == {l \in DOMAIN entries[a] : DateOf(entries[a][l]) = date[a]}

\* Every match gets a description of its own from the keyboard.
NewDescription(a) ==
  /\ pc[a] = "find"
  /\ \/ Matches(a) = {} /\ GoTo(a, "menu")
     \/ /\ Matches(a) # {}
        /\ \E t \in [Matches(a) -> Descriptions] :
             entries' = [entries EXCEPT ![a] = [l \in DOMAIN entries[a] |->
               IF l \in Matches(a) THEN Line(date[a], t[l]) ELSE entries[a][l]]]
        /\ pc' = [pc EXCEPT ![a] = "rewrite"]
        /\ UNCHANGED <<file, date, stale, overrun>>

\* slip: the loop stops before the last entry
RewriteAllButLast(a) ==
  /\ pc[a] = "rewrite"
  /\ Write(a, SubSeq(entries[a], 1, Len(entries[a]) - 1), "menu")

\* fopen("w") and the loop that prints the array.
Rewrite(a) ==
  /\ pc[a] = "rewrite"
  /\ Write(a, entries[a], "menu")

\* Killed between truncating the file and fclose(), which flushes the buffer.
KilledInRewrite(a) ==
  /\ pc[a] = "rewrite"
  /\ Write(a, <<>>, "off")

\* Killed at a prompt.
Killed(a) ==
  /\ pc[a] \notin {"off", "menu"}
  /\ GoTo(a, "off")

Step(a) ==
  \/ Start(a) \/ Exit(a) \/ Create(a) \/ TypeNewDate(a) \/ Describe(a)
  \/ ReadEntries(a) \/ TypeFormat(a) \/ TypeAgain(a) \/ NewDescription(a)
  \/ Rewrite(a) \/ KilledInRewrite(a) \/ Killed(a)

Next == \E a \in Apps : Step(a)

Spec == Init /\ [][Next]_vars

-----------------------------------------------------------------------------
(***************************************************************************)
(* Properties.                                                             *)
(***************************************************************************)
Lines(d) == {l \in DOMAIN file : DateOf(file[l]) = d}

\* checkDupliate keeps one entry per date, for any number of instances, as long
\* as none wrote the file after another had changed what it relied on: between
\* the check and the append, or between reading the array and rewriting it.
OneEntryPerDate ==
  ~overrun => \A l \in DOMAIN file : Cardinality(Lines(DateOf(file[l]))) = 1

\* The file holds only days of the Gregorian calendar.
OnlyRealDates ==
  \A l \in DOMAIN file :
    LET f == file[l]
        leap == f.year % 4 = 0 /\ (f.year % 100 = 0 => f.year % 400 = 0) IN
    /\ f.month \in 1 .. 12
    /\ f.day \in 1 .. 31
    /\ f.month \in {4, 6, 9, 11} => f.day <= 30
    /\ f.month = 2 => f.day <= 28 \/ (leap /\ f.day = 29)

\* An entry, once added, stays in the file and keeps its place, unless the
\* program is killed in a rewrite or rewrites from an array that is stale.
EntriesStay ==
  [][(\A a \in Apps : ~KilledInRewrite(a) /\ ~(Rewrite(a) /\ stale[a])) =>
       \A l \in DOMAIN file : l \in DOMAIN file' /\ DateOf(file'[l]) = DateOf(file[l])]_vars

\* Modifying one date leaves the entries of all others in their places, with the
\* words they had, unless the array is stale and except the blank ones; all they
\* lose is what they were indented by (calendarapp.c:139).
OthersKeepTheirWords ==
  [][\A a \in Apps : Rewrite(a) /\ ~stale[a] =>
       \A l \in DOMAIN file :
         DateOf(file[l]) # date[a] /\ file[l].text.body # Blank =>
           l \in DOMAIN file' /\ file'[l] = Line(DateOf(file[l]), Stripped(file[l].text))]_vars
=============================================================================
