--------------------------- MODULE CalendarProofs ---------------------------
(***************************************************************************)
(* Calendar's properties hold for any set of instances, of inputs and of   *)
(* texts, and for any file that fits into a buffer of stdio.  The inductive invariant adds to   *)
(* the properties what an instance still knows of the file at its prompts, *)
(* as long as nobody has written the file since it read it.                *)
(***************************************************************************)
EXTENDS Calendar, FiniteSetTheorems, TLAPS

NatDate == [day : Nat, month : Nat, year : Nat]

\* A date some fields of which may be unassigned.
MaybeDate == [day : Nat \cup {NULL}, month : Nat \cup {NULL}, year : Nat \cup {NULL}]

Entry == [day : Nat, month : Nat, year : Nat, text : StackContents]

Places == {"off", "menu", "new date", "describe", "format", "retry", "find", "rewrite"}

\* Past readKeyboard's or modifyEntry's date prompt.
HasDate == {"describe", "find", "rewrite"}

Modifying == {"format", "retry", "find", "rewrite"}

TypeInv ==
  /\ file \in Seq(Entry)
  /\ pc \in [Apps -> Places]
  /\ date \in [Apps -> MaybeDate]
  /\ entries \in [Apps -> Seq(Entry)]
  /\ stale \in [Apps -> BOOLEAN]
  /\ overrun \in BOOLEAN

\* Whatever is in the file, in an array or about to be written has a real date.
DatesInv ==
  /\ \A l \in DOMAIN file : isValidDate(DateOf(file[l]))
  /\ \A a \in Apps : \A l \in DOMAIN entries[a] : isValidDate(DateOf(entries[a][l]))
  /\ \A a \in Apps : pc[a] \in HasDate \cup {"retry"} => date[a] \in NatDate
  /\ \A a \in Apps : pc[a] \in HasDate => isValidDate(date[a])

\* The date checked is still new.
NewInv ==
  \A a \in Apps : pc[a] = "describe" /\ ~stale[a] =>
    \A l \in DOMAIN file : DateOf(file[l]) # date[a]

\* The array is still the file, but for indents, blank texts and the entry
\* modified.
CopyInv ==
  \A a \in Apps : pc[a] \in Modifying /\ ~stale[a] =>
    /\ Len(entries[a]) = Len(file)
    /\ \A l \in DOMAIN file :
         /\ DateOf(entries[a][l]) = DateOf(file[l])
         /\ \/ entries[a][l] = Line(DateOf(file[l]), Stripped(file[l].text))
            \/ file[l].text.body = Blank
            \/ pc[a] = "rewrite" /\ DateOf(file[l]) = date[a]

OnceInv ==
  ~overrun => \A l, m \in DOMAIN file : DateOf(file[l]) = DateOf(file[m]) => l = m

CalendarInv == TypeInv /\ DatesInv /\ NewInv /\ CopyInv /\ OnceInv

-----------------------------------------------------------------------------
\* A line holds the date and the description it was made of.
LEMMA LineFacts ==
  ASSUME NEW d \in NatDate, NEW t \in StackContents
  PROVE  Line(d, t) \in Entry /\ DateOf(Line(d, t)) = d /\ Line(d, t).text = t
BY DEF Line, DateOf, Entry, NatDate

\* Descriptions are among what an array may hold, and so they are stripped.
LEMMA StrippedFacts ==
  /\ Descriptions \subseteq StackContents
  /\ \A t \in StackContents : Stripped(t) \in StackContents
BY DEF Descriptions, StackContents, Stripped

\* What a user types is a date as soon as it is well formed.
LEMMA TypedFacts ==
  ASSUME NEW i \in Inputs
  PROVE  /\ Typed(i) \in MaybeDate
         /\ isValidFormat(i) => Typed(i) \in NatDate
BY CalendarAssumption DEF Typed, isValidFormat, NatDate, MaybeDate, Input

\* What Leave stores.
LEMMA NothingLeft ==
  NoDate \in MaybeDate /\ <<>> \in Seq(Entry)
<1>1. NoDate \in MaybeDate
  BY DEF NoDate, MaybeDate
<1>2. <<>> \in Seq(Entry)
  OBVIOUS
<1> QED
  BY <1>1, <1>2

\* The file is empty and no instance runs.
LEMMA InitCalendarInv == Init => CalendarInv
<1> SUFFICES ASSUME Init PROVE CalendarInv
  OBVIOUS
<1>1. TypeInv
  BY NothingLeft DEF Init, TypeInv, Places
<1> QED
  BY <1>1 DEF Init, CalendarInv, DatesInv, NewInv, CopyInv, OnceInv, HasDate, Modifying

-----------------------------------------------------------------------------
(***************************************************************************)
(* Writing the file, and leaving without writing it.                       *)
(***************************************************************************)
LEMMA WriteStep ==
  ASSUME CalendarInv, NEW a \in Apps, NEW contents \in Seq(Entry), NEW place \in {"menu", "off"},
         Write(a, contents, place),
         \A l \in DOMAIN contents : isValidDate(DateOf(contents[l])),
         ~overrun /\ ~stale[a] =>
           \A l, m \in DOMAIN contents : DateOf(contents[l]) = DateOf(contents[m]) => l = m
  PROVE  CalendarInv'
<1> USE DEF CalendarInv
<1>1. TypeInv'
  <2>1. pc' \in [Apps -> Places]
    BY DEF TypeInv, Write, Leave, Places
  <2>2. date' \in [Apps -> MaybeDate] /\ entries' \in [Apps -> Seq(Entry)]
    BY NothingLeft DEF TypeInv, Write, Leave
  <2>3. file' \in Seq(Entry)
    BY DEF Write
  <2>4. stale' \in [Apps -> BOOLEAN] /\ overrun' \in BOOLEAN
    BY DEF TypeInv, Write, Relies
  <2> QED
    BY <2>1, <2>2, <2>3, <2>4 DEF TypeInv
<1>2. \A b \in Apps : /\ b # a => pc'[b] = pc[b] /\ date'[b] = date[b] /\ entries'[b] = entries[b]
                      /\ pc'[a] = place /\ entries'[a] = <<>>
  BY DEF TypeInv, Write, Leave
<1>3. \A b \in Apps : b # a /\ pc[b] \in {"describe"} \cup Modifying => stale'[b]
  BY DEF Write, Relies, Modifying
<1>4. file' = contents /\ overrun' = (overrun \/ stale[a])
  BY DEF Write
<1>5. DatesInv'
  <2>1. \A b \in Apps : pc'[b] \in HasDate \cup {"retry"} => b # a
    BY <1>2 DEF HasDate
  <2> QED
    BY <1>2, <1>4, <2>1 DEF DatesInv
<1>6. NewInv' /\ CopyInv'
  BY <1>2, <1>3 DEF NewInv, CopyInv, Modifying
<1>7. OnceInv'
  BY <1>4 DEF OnceInv
<1> QED
  BY <1>1, <1>5, <1>6, <1>7

\* Moving between menus changes no entry.
LEMMA GoToStep ==
  ASSUME CalendarInv, NEW a \in Apps, NEW place \in {"menu", "off"}, GoTo(a, place)
  PROVE  CalendarInv'
<1> USE DEF CalendarInv
<1>1. TypeInv'
  <2>1. pc' \in [Apps -> Places] /\ stale' \in [Apps -> BOOLEAN]
    BY DEF TypeInv, GoTo, Leave, Places
  <2>2. date' \in [Apps -> MaybeDate] /\ entries' \in [Apps -> Seq(Entry)]
    BY NothingLeft DEF TypeInv, GoTo, Leave
  <2> QED
    BY <2>1, <2>2 DEF TypeInv, GoTo
<1>2. \A b \in Apps : /\ b # a => /\ pc'[b] = pc[b] /\ date'[b] = date[b]
                                  /\ entries'[b] = entries[b] /\ stale'[b] = stale[b]
                      /\ pc'[a] = place /\ entries'[a] = <<>>
  BY DEF TypeInv, GoTo, Leave
<1>3. file' = file /\ overrun' = overrun
  BY DEF GoTo
<1>4. DatesInv'
  <2>1. \A b \in Apps : pc'[b] \in HasDate \cup {"retry"} => b # a
    BY <1>2 DEF HasDate
  <2> QED
    BY <1>2, <1>3, <2>1 DEF DatesInv
<1>5. NewInv' /\ CopyInv'
  BY <1>2, <1>3 DEF NewInv, CopyInv, Modifying
<1>6. OnceInv'
  BY <1>3 DEF OnceInv
<1> QED
  BY <1>1, <1>4, <1>5, <1>6

-----------------------------------------------------------------------------
(***************************************************************************)
(* The other steps move one instance and leave the file alone.             *)
(***************************************************************************)
LEMMA MenuStep ==
  ASSUME CalendarInv, NEW a \in Apps, Start(a) \/ Create(a)
  PROVE  CalendarInv'
<1> USE DEF CalendarInv
<1>1. PICK place \in {"menu", "new date"} : pc' = [pc EXCEPT ![a] = place]
  BY DEF Start, Create
<1>2. UNCHANGED <<file, date, entries, stale, overrun>>
  BY DEF Start, Create
<1>3. TypeInv'
  BY <1>1, <1>2 DEF TypeInv, Places
<1>4. \A b \in Apps : pc'[b] = pc[b] \/ pc'[b] \in {"menu", "new date"}
  BY <1>1 DEF TypeInv
<1>5. DatesInv'
  BY <1>2, <1>4 DEF DatesInv, HasDate
<1>6. NewInv'
  BY <1>2, <1>4 DEF NewInv
<1>7. CopyInv'
  BY <1>2, <1>4 DEF CopyInv, Modifying
<1>8. OnceInv'
  BY <1>2 DEF OnceInv
<1> QED
  BY <1>3, <1>5, <1>6, <1>7, <1>8

\* The date of a new entry is read and checked.
LEMMA TypeNewDateStep ==
  ASSUME CalendarInv, NEW a \in Apps, TypeNewDate(a)
  PROVE  CalendarInv'
<1> USE DEF CalendarInv
<1>1. UNCHANGED <<file, entries, stale, overrun>> /\ pc[a] = "new date"
  BY DEF TypeNewDate
<1>2. CASE UNCHANGED <<date, pc>>
  BY <1>1, <1>2 DEF TypeInv, DatesInv, NewInv, CopyInv, OnceInv
<1>3. CASE ~UNCHANGED <<date, pc>>
  <2>1. PICK i \in Inputs :
          /\ isValidFormat(i) /\ ~checkDupliate(Typed(i))
          /\ date' = [date EXCEPT ![a] = Typed(i)]
          /\ pc' = [pc EXCEPT ![a] = IF isValidDate(Typed(i)) THEN "describe" ELSE @]
    BY <1>3 DEF TypeNewDate
  <2>2. Typed(i) \in NatDate
    BY <2>1, TypedFacts
  <2>3. TypeInv'
    BY <1>1, <2>1, TypedFacts DEF TypeInv, Places
  <2>4. /\ \A b \in Apps : b # a => pc'[b] = pc[b] /\ date'[b] = date[b]
        /\ date'[a] = Typed(i)
        /\ pc'[a] = "new date" \/ (pc'[a] = "describe" /\ isValidDate(Typed(i)))
    BY <1>1, <2>1 DEF TypeInv
  <2>5. DatesInv'
    BY <1>1, <2>2, <2>4 DEF DatesInv, HasDate
  <2>6. NewInv'
    <3>1. \A l \in DOMAIN file : DateOf(file[l]) # Typed(i)
      BY <2>1 DEF checkDupliate
    <3>2. \A l \in DOMAIN file : DateOf(file'[l]) = DateOf(file[l])
      BY <1>1
    <3> QED
      BY <1>1, <2>4, <3>1, <3>2 DEF NewInv
  <2>7. CopyInv' /\ OnceInv'
    BY <1>1, <2>4 DEF CopyInv, OnceInv, Modifying
  <2> QED
    BY <2>3, <2>5, <2>6, <2>7
<1> QED
  BY <1>2, <1>3

\* The description is typed and the line appended to the file.
LEMMA DescribeStep ==
  ASSUME CalendarInv, NEW a \in Apps, Describe(a)
  PROVE  CalendarInv'
<1> USE DEF CalendarInv
<1>1. PICK t \in Descriptions : Write(a, Append(file, Line(date[a], t)), "menu")
  BY DEF Describe
<1> DEFINE new == Append(file, Line(date[a], t))
<1>2. pc[a] = "describe" /\ date[a] \in NatDate /\ isValidDate(date[a])
  BY DEF Describe, DatesInv, HasDate
<1>3. Line(date[a], t) \in Entry /\ DateOf(Line(date[a], t)) = date[a]
  BY <1>2, LineFacts, StrippedFacts
<1>4. new \in Seq(Entry)
  BY <1>3 DEF TypeInv
<1>5. /\ DOMAIN new = 1 .. Len(file) + 1 /\ Len(file) \in Nat
      /\ \A l \in DOMAIN file : new[l] = file[l]
      /\ new[Len(file) + 1] = Line(date[a], t)
  BY <1>3 DEF TypeInv
<1>6. \A l \in DOMAIN new : l \in DOMAIN file \/ l = Len(file) + 1
  <2>1. DOMAIN file = 1 .. Len(file)
    BY DEF TypeInv
  <2> HIDE DEF new, CalendarInv
  <2> QED
    BY <1>5, <2>1
<1>7. \A l \in DOMAIN new : isValidDate(DateOf(new[l]))
  <2>1. ASSUME NEW l \in DOMAIN new PROVE isValidDate(DateOf(new[l]))
    <3>1. CASE l \in DOMAIN file
      BY <1>5, <3>1 DEF DatesInv
    <3>2. CASE l = Len(file) + 1
      BY <1>2, <1>3, <1>5, <3>2
    <3> HIDE DEF new
    <3> QED
      BY <1>6, <2>1, <3>1, <3>2
  <2> QED
    BY <2>1
<1>8. ~overrun /\ ~stale[a] => \A l, m \in DOMAIN new : DateOf(new[l]) = DateOf(new[m]) => l = m
  BY <1>2, <1>3, <1>5, <1>6 DEF NewInv, OnceInv
<1> QED
  BY <1>1, <1>4, <1>7, <1>8, WriteStep

\* modifyEntry() copies the file.
LEMMA ReadEntriesStep ==
  ASSUME CalendarInv, NEW a \in Apps, ReadEntries(a)
  PROVE  CalendarInv'
<1> USE DEF CalendarInv
<1>1. PICK stack \in [DOMAIN file -> StackContents] :
        entries' = [entries EXCEPT ![a] = [l \in DOMAIN file |->
          Line(DateOf(file[l]),
               IF file[l].text.body = Blank THEN stack[l] ELSE Stripped(file[l].text))]]
  BY DEF ReadEntries
<1> DEFINE text(l) == IF file[l].text.body = Blank THEN stack[l] ELSE Stripped(file[l].text)
           copy == [l \in DOMAIN file |-> Line(DateOf(file[l]), text(l))]
<1>2. UNCHANGED <<file, date, stale, overrun>> /\ pc' = [pc EXCEPT ![a] = "format"]
  BY DEF ReadEntries
<1>3. \A l \in DOMAIN file :
        /\ copy[l] \in Entry /\ DateOf(copy[l]) = DateOf(file[l])
        /\ \/ copy[l] = Line(DateOf(file[l]), Stripped(file[l].text))
           \/ file[l].text.body = Blank
  <2> SUFFICES ASSUME NEW l \in DOMAIN file
               PROVE  /\ copy[l] \in Entry /\ DateOf(copy[l]) = DateOf(file[l])
                      /\ \/ copy[l] = Line(DateOf(file[l]), Stripped(file[l].text))
                         \/ file[l].text.body = Blank
    OBVIOUS
  <2>1. DateOf(file[l]) \in NatDate /\ file[l].text \in StackContents
    <3>1. file[l] \in Entry
      BY DEF TypeInv
    <3> QED
      BY <3>1 DEF Entry, DateOf, NatDate
  <2>2. text(l) \in StackContents
    BY <2>1, StrippedFacts
  <2>3. copy[l] = Line(DateOf(file[l]), text(l))
    OBVIOUS
  <2>4. text(l) = Stripped(file[l].text) \/ file[l].text.body = Blank
    OBVIOUS
  <2> HIDE DEF copy, text
  <2> QED
    BY <2>1, <2>2, <2>3, <2>4, LineFacts
<1>4. copy \in Seq(Entry) /\ Len(copy) = Len(file) /\ DOMAIN copy = DOMAIN file
  <2>1. DOMAIN file = 1 .. Len(file) /\ Len(file) \in Nat
    BY DEF TypeInv
  <2>2. copy \in [1 .. Len(file) -> Entry]
    BY <1>3, <2>1
  <2> QED
    BY <2>1, <2>2
<1>5. /\ \A b \in Apps : b # a => pc'[b] = pc[b] /\ entries'[b] = entries[b]
      /\ pc'[a] = "format" /\ entries'[a] = copy
  BY <1>1, <1>2 DEF TypeInv
<1> HIDE DEF copy
<1>6. TypeInv'
  <2>1. entries' = [entries EXCEPT ![a] = copy]
    BY <1>1 DEF copy
  <2> QED
    BY <1>2, <1>4, <2>1 DEF TypeInv, Places
<1>7. DatesInv'
  BY <1>2, <1>3, <1>4, <1>5 DEF DatesInv, HasDate
<1>8. NewInv' /\ OnceInv'
  BY <1>2, <1>5 DEF NewInv, OnceInv
<1>9. CopyInv'
  BY <1>2, <1>3, <1>4, <1>5 DEF CopyInv
<1> QED
  BY <1>6, <1>7, <1>8, <1>9

\* The date to modify is read and looked up in the copy.
LEMMA TypeFormatStep ==
  ASSUME CalendarInv, NEW a \in Apps, TypeFormat(a)
  PROVE  CalendarInv'
<1> USE DEF CalendarInv
<1>1. UNCHANGED <<file, entries, stale, overrun>> /\ pc[a] = "format"
  BY DEF TypeFormat
<1>2. CASE UNCHANGED <<date, pc>>
  BY <1>1, <1>2 DEF TypeInv, DatesInv, NewInv, CopyInv, OnceInv
<1>3. CASE ~UNCHANGED <<date, pc>>
  <2>1. PICK i \in Inputs :
          /\ isValidFormat(i)
          /\ date' = [date EXCEPT ![a] = Typed(i)]
          /\ pc' = [pc EXCEPT ![a] = IF isValidDate(Typed(i)) THEN "find" ELSE "retry"]
    BY <1>3 DEF TypeFormat
  <2>2. Typed(i) \in NatDate
    BY <2>1, TypedFacts
  <2>3. TypeInv'
    BY <1>1, <2>1, TypedFacts DEF TypeInv, Places
  <2>4. /\ \A b \in Apps : b # a => pc'[b] = pc[b] /\ date'[b] = date[b]
        /\ date'[a] = Typed(i)
        /\ pc'[a] = "retry" \/ (pc'[a] = "find" /\ isValidDate(Typed(i)))
    BY <1>1, <2>1 DEF TypeInv
  <2>5. DatesInv'
    BY <1>1, <2>2, <2>4 DEF DatesInv, HasDate
  <2>6. NewInv' /\ CopyInv' /\ OnceInv'
    BY <1>1, <2>4 DEF NewInv, CopyInv, OnceInv, Modifying
  <2> QED
    BY <2>3, <2>5, <2>6
<1> QED
  BY <1>2, <1>3

\* A field that was not read keeps a value that is a number.
LEMMA TypeAgainStep ==
  ASSUME CalendarInv, NEW a \in Apps, TypeAgain(a)
  PROVE  CalendarInv'
<1> USE DEF CalendarInv
<1>1. UNCHANGED <<file, entries, stale, overrun>> /\ pc[a] = "retry"
  BY DEF TypeAgain
<1>2. PICK i \in Inputs :
        /\ date' = [date EXCEPT ![a] = Scanned(a, i)]
        /\ pc' = [pc EXCEPT ![a] = IF isValidDate(Scanned(a, i)) THEN "find" ELSE @]
  BY DEF TypeAgain
<1>3. Scanned(a, i) \in NatDate /\ Scanned(a, i) \in MaybeDate
  <2>1. date[a] \in NatDate
    BY <1>1 DEF DatesInv
  <2>2. i \in Input
    BY CalendarAssumption
  <2> QED
    BY <2>1, <2>2 DEF Scanned, NatDate, MaybeDate, Input
<1>4. TypeInv'
  BY <1>1, <1>2, <1>3 DEF TypeInv, Places
<1>5. /\ \A b \in Apps : b # a => pc'[b] = pc[b] /\ date'[b] = date[b]
      /\ date'[a] = Scanned(a, i)
      /\ pc'[a] = "retry" \/ (pc'[a] = "find" /\ isValidDate(Scanned(a, i)))
  BY <1>1, <1>2 DEF TypeInv
<1>6. DatesInv'
  BY <1>1, <1>3, <1>5 DEF DatesInv, HasDate
<1>7. NewInv' /\ CopyInv' /\ OnceInv'
  BY <1>1, <1>5 DEF NewInv, CopyInv, OnceInv, Modifying
<1> QED
  BY <1>4, <1>6, <1>7

\* The new description replaces the one in the copy.
LEMMA NewDescriptionStep ==
  ASSUME CalendarInv, NEW a \in Apps, NewDescription(a)
  PROVE  CalendarInv'
<1> USE DEF CalendarInv
<1>1. CASE GoTo(a, "menu")
  BY <1>1, GoToStep
<1>2. CASE ~GoTo(a, "menu")
  <2>1. PICK t \in [Matches(a) -> Descriptions] :
          entries' = [entries EXCEPT ![a] = [l \in DOMAIN entries[a] |->
            IF l \in Matches(a) THEN Line(date[a], t[l]) ELSE entries[a][l]]]
    BY <1>2 DEF NewDescription
  <2> DEFINE new == [l \in DOMAIN entries[a] |->
            IF l \in Matches(a) THEN Line(date[a], t[l]) ELSE entries[a][l]]
  <2>2. /\ UNCHANGED <<file, date, stale, overrun>>
        /\ pc[a] = "find" /\ pc' = [pc EXCEPT ![a] = "rewrite"]
    BY <1>2 DEF NewDescription
  <2>3. date[a] \in NatDate /\ isValidDate(date[a])
    BY <2>2 DEF DatesInv, HasDate
  <2>4. \A l \in DOMAIN entries[a] :
          /\ new[l] \in Entry /\ DateOf(new[l]) = DateOf(entries[a][l])
          /\ new[l] = entries[a][l] \/ DateOf(entries[a][l]) = date[a]
    <3> SUFFICES ASSUME NEW l \in DOMAIN entries[a]
                 PROVE  /\ new[l] \in Entry /\ DateOf(new[l]) = DateOf(entries[a][l])
                        /\ new[l] = entries[a][l] \/ DateOf(entries[a][l]) = date[a]
      OBVIOUS
    <3>1. CASE l \in Matches(a)
      <4>1. new[l] = Line(date[a], t[l]) /\ t[l] \in StackContents
        BY <3>1, StrippedFacts
      <4>2. DateOf(entries[a][l]) = date[a]
        BY <3>1 DEF Matches
      <4> HIDE DEF new
      <4> QED
        BY <2>3, <4>1, <4>2, LineFacts
    <3>2. CASE l \notin Matches(a)
      BY <3>2 DEF TypeInv
    <3> QED
      BY <3>1, <3>2
  <2>5. new \in Seq(Entry) /\ Len(new) = Len(entries[a]) /\ DOMAIN new = DOMAIN entries[a]
    <3>1. DOMAIN entries[a] = 1 .. Len(entries[a]) /\ Len(entries[a]) \in Nat
      BY DEF TypeInv
    <3>2. new \in [1 .. Len(entries[a]) -> Entry]
      BY <2>4, <3>1
    <3> QED
      BY <3>1, <3>2
  <2>6. entries' = [entries EXCEPT ![a] = new]
    BY <2>1
  <2> HIDE DEF new
  <2>7. /\ \A b \in Apps : b # a => pc'[b] = pc[b] /\ entries'[b] = entries[b]
        /\ pc'[a] = "rewrite" /\ entries'[a] = new
    BY <2>2, <2>6 DEF TypeInv
  <2>8. TypeInv'
    BY <2>2, <2>5, <2>6 DEF TypeInv, Places
  <2>9. DatesInv'
    BY <2>2, <2>3, <2>4, <2>5, <2>7 DEF DatesInv, HasDate
  <2>10. NewInv' /\ OnceInv'
    BY <2>2, <2>7 DEF NewInv, OnceInv
  <2>11. CopyInv'
    <3> SUFFICES ASSUME ~stale[a]
                 PROVE  /\ Len(new) = Len(file)
                        /\ \A l \in DOMAIN file :
                             /\ DateOf(new[l]) = DateOf(file[l])
                             /\ \/ new[l] = Line(DateOf(file[l]), Stripped(file[l].text))
                                \/ file[l].text.body = Blank
                                \/ DateOf(file[l]) = date[a]
      BY <2>2, <2>7 DEF CopyInv
    <3>1. /\ Len(entries[a]) = Len(file)
          /\ \A l \in DOMAIN file :
               /\ DateOf(entries[a][l]) = DateOf(file[l])
               /\ \/ entries[a][l] = Line(DateOf(file[l]), Stripped(file[l].text))
                  \/ file[l].text.body = Blank
      BY <2>2 DEF CopyInv, Modifying
    <3>2. DOMAIN file = DOMAIN entries[a]
      BY <3>1 DEF TypeInv
    <3> QED
      BY <2>4, <2>5, <3>1, <3>2
  <2> QED
    BY <2>8, <2>9, <2>10, <2>11
<1> QED
  BY <1>1, <1>2

\* The copy replaces the file.
LEMMA RewriteStep ==
  ASSUME CalendarInv, NEW a \in Apps, Rewrite(a) \/ KilledInRewrite(a)
  PROVE  CalendarInv'
<1> USE DEF CalendarInv
<1>1. CASE KilledInRewrite(a)
  <2> DEFINE nothing == <<>>
  <2>1. Write(a, nothing, "off")
    BY <1>1 DEF KilledInRewrite
  <2>2. nothing \in Seq(Entry) /\ DOMAIN nothing = {}
    BY NothingLeft
  <2> HIDE DEF nothing
  <2> QED
    BY <2>1, <2>2, WriteStep
<1>2. CASE Rewrite(a)
  <2>1. pc[a] = "rewrite" /\ Write(a, entries[a], "menu")
    BY <1>2 DEF Rewrite
  <2>2. entries[a] \in Seq(Entry) /\ \A l \in DOMAIN entries[a] : isValidDate(DateOf(entries[a][l]))
    BY DEF TypeInv, DatesInv
  <2>3. ~overrun /\ ~stale[a] =>
          \A l, m \in DOMAIN entries[a] : DateOf(entries[a][l]) = DateOf(entries[a][m]) => l = m
    <3>1. ~stale[a] => /\ DOMAIN entries[a] = DOMAIN file
                       /\ \A l \in DOMAIN file : DateOf(entries[a][l]) = DateOf(file[l])
      BY <2>1 DEF CopyInv, Modifying, TypeInv
    <3> QED
      BY <3>1 DEF OnceInv
  <2> QED
    BY <2>1, <2>2, <2>3, WriteStep
<1> QED
  BY <1>1, <1>2

-----------------------------------------------------------------------------
\* The invariant holds in every state.
THEOREM CalendarInvHolds == Spec => []CalendarInv
<1>1. Init => CalendarInv
  BY InitCalendarInv
<1>2. CalendarInv /\ [Next]_vars => CalendarInv'
  <2> SUFFICES ASSUME CalendarInv, [Next]_vars PROVE CalendarInv'
    OBVIOUS
  <2>1. CASE UNCHANGED vars
    BY <2>1 DEF vars, CalendarInv, TypeInv, DatesInv, NewInv, CopyInv, OnceInv
  <2>2. ASSUME NEW a \in Apps, Step(a) PROVE CalendarInv'
    <3>1. CASE Exit(a) \/ Killed(a)
      BY <3>1, GoToStep DEF Exit, Killed
    <3> QED
      BY <2>2, <3>1, MenuStep, TypeNewDateStep, DescribeStep, ReadEntriesStep,
         TypeFormatStep, TypeAgainStep, NewDescriptionStep, RewriteStep DEF Step
  <2> QED
    BY <2>1, <2>2 DEF Next
<1> QED
  BY <1>1, <1>2, PTL DEF Spec

(***************************************************************************)
(* No sequence of prompts, kills and instances brings a day that does not  *)
(* exist into the file (isValidDate and the prompts that call it).         *)
(***************************************************************************)
THEOREM DatesAreReal == Spec => []OnlyRealDates
<1>1. CalendarInv => OnlyRealDates
  <2> SUFFICES ASSUME CalendarInv, NEW l \in DOMAIN file
               PROVE  LET f == file[l]
                          leap == f.year % 4 = 0 /\ (f.year % 100 = 0 => f.year % 400 = 0) IN
                      /\ f.month \in 1 .. 12
                      /\ f.day \in 1 .. 31
                      /\ f.month \in {4, 6, 9, 11} => f.day <= 30
                      /\ f.month = 2 => f.day <= 28 \/ (leap /\ f.day = 29)
    BY DEF OnlyRealDates
  <2> DEFINE y == file[l].year  m == file[l].month  d == file[l].day
  <2>1. y \in 1000 .. 3000 /\ m \in 1 .. 12 /\ d \in 1 .. Days(y)[m]
    <3>1. isValidDate(DateOf(file[l]))
      BY DEF CalendarInv, DatesInv
    <3>2. DateOf(file[l]).year = y /\ DateOf(file[l]).month = m /\ DateOf(file[l]).day = d
      BY DEF DateOf
    <3> HIDE DEF y, m, d
    <3> QED
      BY <3>1, <3>2 DEF isValidDate
  <2> HIDE DEF y, m, d
  <2>2. /\ m \in {1, 3, 5, 7, 8, 10, 12} => Days(y)[m] = 31
        /\ m \in {4, 6, 9, 11} => Days(y)[m] = 30
        /\ m = 2 => Days(y)[m] = IF y % 400 = 0 \/ (y % 4 = 0 /\ y % 100 # 0) THEN 29 ELSE 28
    BY DEF Days
  <2>3. m \in {1, 3, 5, 7, 8, 10, 12} \/ m \in {4, 6, 9, 11} \/ m = 2
    BY <2>1
  <2>4. y % 400 = 0 => y % 4 = 0
    BY <2>1
  <2>5. /\ m \in 1 .. 12 /\ d \in 1 .. 31
        /\ m \in {4, 6, 9, 11} => d <= 30
        /\ m = 2 => d <= 28 \/ (y % 4 = 0 /\ (y % 100 = 0 => y % 400 = 0) /\ d = 29)
    BY <2>1, <2>2, <2>3, <2>4
  <2> QED
    BY <2>5 DEF y, m, d
<1> QED
  BY <1>1, CalendarInvHolds, PTL

\* As long as nobody wrote the file on stale knowledge, checkDupliate keeps one
\* entry per date.
THEOREM DatesAreUnique == Spec => []OneEntryPerDate
<1>1. CalendarInv => OneEntryPerDate
  <2> SUFFICES ASSUME CalendarInv, ~overrun, NEW l \in DOMAIN file
               PROVE  Cardinality(Lines(DateOf(file[l]))) = 1
    BY DEF OneEntryPerDate
  <2>1. Lines(DateOf(file[l])) = {l}
    BY DEF CalendarInv, OnceInv, Lines
  <2> QED
    BY <2>1, FS_Singleton
<1> QED
  BY <1>1, CalendarInvHolds, PTL

\* An entry keeps its line through every step but a rewrite that was killed or
\* that relied on a stale array.
THEOREM EntriesAreKept == Spec => EntriesStay
<1> DEFINE Kept == \A l \in DOMAIN file : l \in DOMAIN file' /\ DateOf(file'[l]) = DateOf(file[l])
           Harmless == \A a \in Apps : ~KilledInRewrite(a) /\ ~(Rewrite(a) /\ stale[a])
<1>1. CalendarInv /\ [Next]_vars => [Harmless => Kept]_vars
  <2> SUFFICES ASSUME CalendarInv, NEW a \in Apps, Step(a), Harmless PROVE Kept
    BY DEF Next
  <2>1. CASE Rewrite(a)
    <3>1. file' = entries[a] /\ pc[a] = "rewrite" /\ ~stale[a]
      BY <2>1 DEF Rewrite, Write
    <3>2. /\ Len(entries[a]) = Len(file)
          /\ \A l \in DOMAIN file : DateOf(entries[a][l]) = DateOf(file[l])
      BY <3>1 DEF CalendarInv, CopyInv, Modifying
    <3>3. DOMAIN entries[a] = DOMAIN file
      BY <3>2 DEF CalendarInv, TypeInv
    <3> QED
      BY <3>1, <3>2, <3>3
  <2>2. CASE Describe(a)
    <3>1. PICK t \in Descriptions : file' = Append(file, Line(date[a], t))
      BY <2>2 DEF Describe, Write
    <3>2. Line(date[a], t) \in Entry
      BY <2>2, LineFacts, StrippedFacts DEF Describe, CalendarInv, DatesInv, HasDate
    <3>3. \A l \in DOMAIN file : l \in DOMAIN file' /\ file'[l] = file[l]
      BY <3>1, <3>2 DEF CalendarInv, TypeInv
    <3> QED
      BY <3>3
  <2>3. CASE ~Rewrite(a) /\ ~Describe(a)
    <3>1. file' = file
      BY <2>3 DEF Step, Start, Exit, Create, TypeNewDate, ReadEntries, TypeFormat, TypeAgain,
                  NewDescription, Killed, GoTo
    <3> QED
      BY <3>1
  <2> QED
    BY <2>1, <2>2, <2>3
<1> QED
  BY <1>1, CalendarInvHolds, PTL DEF Spec, EntriesStay

\* A rewrite from an array that is not stale leaves the other entries the words
\* they had: of all that sscanf() makes of them, only indents and blank texts go.
THEOREM OthersAreUntouched == Spec => OthersKeepTheirWords
<1> DEFINE Others(a) == \A l \in DOMAIN file :
             DateOf(file[l]) # date[a] /\ file[l].text.body # Blank =>
               l \in DOMAIN file' /\ file'[l] = Line(DateOf(file[l]), Stripped(file[l].text))
           Touched == \A a \in Apps : Rewrite(a) /\ ~stale[a] => Others(a)
<1>1. CalendarInv /\ [Next]_vars => [Touched]_vars
  <2> SUFFICES ASSUME CalendarInv, NEW a \in Apps, Rewrite(a), ~stale[a] PROVE Others(a)
    OBVIOUS
  <2>1. file' = entries[a] /\ pc[a] = "rewrite"
    BY DEF Rewrite, Write
  <2>2. /\ Len(entries[a]) = Len(file)
        /\ \A l \in DOMAIN file :
             \/ entries[a][l] = Line(DateOf(file[l]), Stripped(file[l].text))
             \/ file[l].text.body = Blank
             \/ DateOf(file[l]) = date[a]
    BY <2>1 DEF CalendarInv, CopyInv, Modifying
  <2>3. DOMAIN entries[a] = DOMAIN file
    BY <2>2 DEF CalendarInv, TypeInv
  <2> QED
    BY <2>1, <2>2, <2>3
<1> QED
  BY <1>1, CalendarInvHolds, PTL DEF Spec, OthersKeepTheirWords
=============================================================================
