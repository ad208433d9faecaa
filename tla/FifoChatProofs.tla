--------------------------- MODULE FifoChatProofs ---------------------------
(***************************************************************************)
(* The two programs of FifoChat take turns, for any number of texts: while *)
(* nobody is killed, one of them is the sender of the turn and the other   *)
(* its receiver, and the places where they stand determine what is in the  *)
(* FIFO and who has met whom.                                              *)
(***************************************************************************)
EXTENDS FifoChat, TLAPS

\* The text of the turn is not written yet.  A program that is off has not
\* said or shown anything.
Before(s, r) ==
  /\ pc[s] \in {"off", "read", "to write", "opening to write", "typing"}
  /\ pc[r] \in {"off", "written", "to read", "opening to read", "reading"}
  /\ pc[s] = "off" => s = Writer
  /\ pc[r] = "off" => r = Reader
  /\ pc[s] = "opening to write" => (met[s] <=> pc[r] \in {"opening to read", "reading"})
  /\ pc[r] = "opening to read" => (met[r] <=> pc[s] \in {"opening to write", "typing"})
  /\ pc[s] = "typing" => pc[r] \in {"opening to read", "reading"}
  /\ pc[r] = "reading" => pc[s] \in {"opening to write", "typing"}
  /\ pipe = <<>>
  /\ sent[s] = shown[r]

\* It is written and not read yet.
After(s, r) ==
  /\ pc[s] \in {"written", "to read", "opening to read"}
  /\ pc[s] = "opening to read" => ~met[s]
  /\ pc[r] = "reading" \/ (pc[r] = "opening to read" /\ met[r])
  /\ pipe = << <<s, sent[s]>> >>
  /\ sent[s] = shown[r] + 1

Turn(s, r) == (Before(s, r) \/ After(s, r)) /\ sent[r] = shown[s]

LastShown == \A u \in Users : shown[u] > 0 => str[u] = <<Other(u), shown[u]>>

TurnInv == kills = 0 => LastShown /\ (Turn(Writer, Reader) \/ Turn(Reader, Writer))

FifoInv == TypeOK /\ TurnInv

\* The two programs are each other's partner.
LEMMA TwoUsers ==
  /\ Writer # Reader
  /\ Other(Writer) = Reader
  /\ Other(Reader) = Writer
  /\ \A u \in Users : Other(u) \in Users /\ Other(u) # u /\ Other(Other(u)) = u
<1>1. Writer # Reader
  BY FifoAssumption
<1>2. \A v \in Users : (v # Writer <=> v = Reader) /\ (v # Reader <=> v = Writer)
  BY <1>1 DEF Users
<1>3. Other(Writer) = Reader /\ Other(Reader) = Writer
  BY <1>2 DEF Other, Users
<1> QED
  BY <1>1, <1>3 DEF Users

\* read() of a FIFO with one text in it.
LEMMA HeadOfOne == ASSUME NEW x PROVE <<x>> # <<>> /\ Head(<<x>>) = x
OBVIOUS

\* An empty FIFO is a sequence of texts.
LEMMA EmptyPipe == <<>> \in Seq(Texts)
OBVIOUS

\* Neither program runs and the FIFO is empty.
LEMMA InitFifoInv == Init => FifoInv
<1> SUFFICES ASSUME Init PROVE FifoInv
  OBVIOUS
<1>1. TypeOK
  <2>1. "off" \in Places
    BY DEF Places
  <2> QED
    BY <2>1, FifoAssumption, EmptyPipe DEF Init, TypeOK
<1>2. Turn(Writer, Reader) /\ LastShown
  BY FifoAssumption DEF Init, Turn, Before, LastShown, Users
<1> QED
  BY <1>1, <1>2 DEF FifoInv, TurnInv

\* Every action keeps the types.
LEMMA TypeStep ==
  ASSUME TypeOK, NEW u \in Users, Start(u) \/ Step(u) \/ Kill(u)
  PROVE  TypeOK'
<1>1. CASE Start(u) \/ Opened(u)
  <2>1. \E p \in Places : pc' = [pc EXCEPT ![u] = p]
    BY <1>1 DEF Start, Opened, FirstHalf, Places, Reading, Writing
  <2>2. UNCHANGED <<met, pipe, str, sent, shown, kills>>
    BY <1>1 DEF Start, Opened
  <2> QED
    BY <2>1, <2>2 DEF TypeOK
<1>2. CASE OpenToRead(u) \/ OpenToWrite(u)
  <2>1. \E p \in Places : pc' = [pc EXCEPT ![u] = p]
    BY <1>2 DEF OpenToRead, OpenToWrite, CallOpen, Places, Reading, Writing
  <2>2. met' \in [Users -> BOOLEAN]
    <3>1. PICK S : met' = [v \in Users |-> IF v = u THEN pc[Other(u)] \in S ELSE met[v] \/ pc[v] \in S]
      BY <1>2 DEF OpenToRead, OpenToWrite, CallOpen
    <3>2. \A v \in Users : (IF v = u THEN pc[Other(u)] \in S ELSE met[v] \/ pc[v] \in S) \in BOOLEAN
      <4>1. \A v \in Users : (met[v] \/ pc[v] \in S) \in BOOLEAN
        BY Zenon
      <4>2. \A x : (x \in S) \in BOOLEAN
        OBVIOUS
      <4> QED
        BY <4>1, <4>2, Zenon
    <3> QED
      BY <3>1, <3>2, Zenon
  <2>3. UNCHANGED <<pipe, str, sent, shown, kills>>
    BY <1>2 DEF OpenToRead, OpenToWrite, CallOpen
  <2> QED
    BY <2>1, <2>2, <2>3 DEF TypeOK
<1>3. CASE ReadAndPrint(u)
  <2>1. pipe # <<>> => Head(pipe) \in Texts
    BY DEF TypeOK
  <2>2. str' \in [Users -> Texts \cup {Junk}]
    BY <1>3, <2>1 DEF ReadAndPrint, TypeOK
  <2>3. pipe' \in Seq(Texts)
    BY <1>3, EmptyPipe DEF ReadAndPrint
  <2>4. pc' = [pc EXCEPT ![u] = "read"] /\ "read" \in Places
    BY <1>3 DEF ReadAndPrint, Places, Reading
  <2>5. shown' \in [Users -> Nat] /\ UNCHANGED <<met, sent, kills>>
    BY <1>3, FifoAssumption DEF ReadAndPrint, TypeOK
  <2> QED
    BY <2>2, <2>3, <2>4, <2>5 DEF TypeOK
<1>4. ASSUME NEW place \in {"off", "to read", "to write"}, Leave(u, place)
      PROVE  /\ pc' \in [Users -> Places]
             /\ met' \in [Users -> BOOLEAN]
             /\ pipe' \in Seq(Texts)
  <2>1. pc' = [pc EXCEPT ![u] = place] /\ place \in Places
    BY <1>4 DEF Leave, Places
  <2>2. pc' \in [Users -> Places]
    BY <2>1 DEF TypeOK
  <2>3. met' \in [Users -> BOOLEAN]
    BY <1>4 DEF Leave, TypeOK
  <2>4. pipe' \in Seq(Texts)
    BY <1>4, EmptyPipe DEF Leave, TypeOK
  <2> QED
    BY <2>2, <2>3, <2>4
<1>5. CASE Close(u)
  <2>1. UNCHANGED <<str, sent, shown, kills>>
    BY <1>5 DEF Close
  <2> QED
    BY <1>4, <1>5, <2>1 DEF Close, TypeOK
<1>6. CASE Kill(u)
  <2>1. str' \in [Users -> Texts \cup {Junk}] /\ UNCHANGED <<sent, shown>>
    BY <1>6 DEF Kill, TypeOK
  <2>2. kills' \in 0 .. MaxKills
    BY <1>6, FifoAssumption DEF Kill, TypeOK
  <2> QED
    BY <1>4, <1>6, <2>1, <2>2 DEF Kill, TypeOK
<1>7. CASE TypeAndWrite(u)
  <2>1. UNCHANGED <<shown, kills>>
    BY <1>7 DEF TypeAndWrite
  <2>2. CASE pc[Other(u)] \in Reading
    <3>1. NextText(u) \in Texts
      BY DEF NextText, TypeOK, Texts
    <3>2. pipe' = Append(pipe, NextText(u)) /\ UNCHANGED <<met, str>>
      BY <1>7, <2>2 DEF TypeAndWrite
    <3>3. pipe' \in Seq(Texts)
      BY <3>1, <3>2 DEF TypeOK
    <3>4. sent' \in [Users -> 0 .. MaxTexts]
      BY <1>7, <2>2, FifoAssumption DEF TypeAndWrite, TypeOK
    <3>5. pc' = [pc EXCEPT ![u] = "written"] /\ "written" \in Places
      BY <1>7, <2>2 DEF TypeAndWrite, Places, Writing
    <3> QED
      BY <2>1, <3>2, <3>3, <3>4, <3>5 DEF TypeOK
  <2>3. CASE pc[Other(u)] \notin Reading
    <3>1. str' \in [Users -> Texts \cup {Junk}] /\ UNCHANGED sent /\ Leave(u, "off")
      BY <1>7, <2>3 DEF TypeAndWrite, TypeOK
    <3> QED
      BY <1>4, <2>1, <3>1 DEF TypeOK
  <2> QED
    BY <2>2, <2>3
<1> QED
  BY <1>1, <1>2, <1>3, <1>5, <1>6, <1>7 DEF Step

-----------------------------------------------------------------------------
\* What a step of the sender makes of a turn; and of the receiver.
LEMMA SenderStep ==
  ASSUME TypeOK, NEW s \in Users, NEW r \in Users, r = Other(s), s # r,
         Turn(s, r), LastShown, Start(s) \/ Step(s)
  PROVE  Turn(s, r)' /\ LastShown'
<1> USE DEF Turn
<1>1. CASE Start(s)
  BY <1>1, TwoUsers DEF Start, FirstHalf, Before, After, LastShown, TypeOK, Users
<1>2. CASE OpenToRead(s) \/ OpenToWrite(s)
  BY <1>2, TwoUsers DEF OpenToRead, OpenToWrite, CallOpen, Before, After, Reading, Writing, LastShown, TypeOK
<1>3. CASE Opened(s)
  BY <1>3 DEF Opened, OtherSideCame, Before, After, LastShown, TypeOK
<1>4. CASE ReadAndPrint(s)
  BY <1>4 DEF ReadAndPrint, Before, After
<1>5. CASE TypeAndWrite(s)
  <2>1. pc[s] = "typing" /\ Before(s, r) /\ pc[r] \in Reading
    BY <1>5 DEF TypeAndWrite, Before, After, Reading
  <2>2. /\ sent' = [sent EXCEPT ![s] = @ + 1]
        /\ pipe' = << <<s, sent[s] + 1>> >>
        /\ pc' = [pc EXCEPT ![s] = "written"]
        /\ UNCHANGED <<met, str, shown, kills>>
    <3>1. pipe' = Append(<<>>, <<s, sent[s] + 1>>)
      BY <1>5, <2>1 DEF TypeAndWrite, NextText, Before
    <3> QED
      BY <1>5, <2>1, <3>1 DEF TypeAndWrite
  <2> QED
    BY <2>1, <2>2 DEF Before, After, LastShown, TypeOK
<1>6. CASE Close(s)
  BY <1>6, TwoUsers DEF Close, Leave, Holds, Before, After, Reading, Writing, LastShown, TypeOK
<1> QED
  BY <1>1, <1>2, <1>3, <1>4, <1>5, <1>6 DEF Step

\* The steps of the user whose turn it is to read.
LEMMA ReceiverStep ==
  ASSUME TypeOK, NEW s \in Users, NEW r \in Users, r = Other(s), s # r,
         Turn(s, r), LastShown, Start(r) \/ Step(r)
  PROVE  (Turn(s, r) \/ Turn(r, s))' /\ LastShown'
<1> USE DEF Turn
<1>0. s = Other(r)
  BY TwoUsers
<1>1. CASE Start(r)
  BY <1>1, TwoUsers DEF Start, FirstHalf, Before, After, LastShown, TypeOK, Users
<1>2. CASE OpenToRead(r) \/ OpenToWrite(r)
  BY <1>0, <1>2, TwoUsers DEF OpenToRead, OpenToWrite, CallOpen, Before, After, Reading, Writing, LastShown, TypeOK
<1>3. CASE Opened(r)
  BY <1>3 DEF Opened, OtherSideCame, Before, After, LastShown, TypeOK
<1>4. CASE ReadAndPrint(r)
  <2>1. pc[r] = "reading" /\ After(s, r)
    BY <1>0, <1>4 DEF ReadAndPrint, Before, After, Writing
  <2>2. /\ str' = [str EXCEPT ![r] = <<s, sent[s]>>]
        /\ pipe' = <<>>
        /\ shown' = [shown EXCEPT ![r] = @ + 1]
        /\ pc' = [pc EXCEPT ![r] = "read"]
        /\ UNCHANGED <<met, sent, kills>>
    <3>1. pipe # <<>> /\ Head(pipe) = <<s, sent[s]>>
      BY <2>1, HeadOfOne DEF After
    <3> QED
      BY <1>4, <3>1 DEF ReadAndPrint
  <2>3. LastShown'
    BY <1>0, <2>1, <2>2, TwoUsers DEF After, LastShown, TypeOK
  <2>4. Before(r, s)'
    BY <2>1, <2>2 DEF After, Before, TypeOK
  <2> QED
    BY <2>1, <2>2, <2>3, <2>4 DEF After, TypeOK
<1>5. CASE TypeAndWrite(r)
  BY <1>5 DEF TypeAndWrite, Before, After
<1>6. CASE Close(r)
  BY <1>0, <1>6 DEF Close, Leave, Holds, Before, After, Reading, Writing, LastShown, TypeOK
<1> QED
  BY <1>1, <1>2, <1>3, <1>4, <1>5, <1>6 DEF Step

-----------------------------------------------------------------------------
\* The invariant holds whatever the two users do.
THEOREM FifoInvHolds == Spec => []FifoInv
<1>1. FifoInv /\ [Next]_vars => FifoInv'
  <2> SUFFICES ASSUME FifoInv, [Next]_vars PROVE FifoInv'
    OBVIOUS
  <2>1. CASE UNCHANGED vars
    BY <2>1 DEF vars, FifoInv, TypeOK, TurnInv, LastShown, Turn, Before, After
  <2>2. ASSUME NEW u \in Users, Start(u) \/ Step(u) PROVE FifoInv'
    <3>1. TypeOK'
      BY <2>2, TypeStep DEF FifoInv
    <3>2. kills' = kills
      BY <2>2 DEF Start, Step, OpenToRead, OpenToWrite, CallOpen, Opened, ReadAndPrint, TypeAndWrite, Close
    <3>3. ASSUME kills = 0 PROVE LastShown' /\ (Turn(Writer, Reader)' \/ Turn(Reader, Writer)')
      <4>1. PICK s \in Users : Turn(s, Other(s))
        BY <3>3, TwoUsers DEF FifoInv, TurnInv, Users
      <4>2. /\ Other(s) \in Users /\ Other(s) # s /\ TypeOK /\ LastShown
            /\ u = s \/ u = Other(s)
            /\ {s, Other(s)} = {Writer, Reader}
        BY <3>3, TwoUsers DEF FifoInv, TurnInv, Users
      <4>3. LastShown' /\ (Turn(s, Other(s))' \/ Turn(Other(s), s)')
        <5>1. CASE u = s
          BY <2>2, <4>1, <4>2, <5>1, SenderStep
        <5>2. CASE u = Other(s)
          BY <2>2, <4>1, <4>2, <5>2, ReceiverStep
        <5> QED
          BY <4>2, <5>1, <5>2
      <4>4. CASE s = Writer
        BY <4>3, <4>4, TwoUsers
      <4>5. CASE s = Reader
        BY <4>3, <4>5, TwoUsers
      <4> QED
        BY <4>4, <4>5 DEF Users
    <3> QED
      BY <3>1, <3>2, <3>3 DEF FifoInv, TurnInv
  <2>3. ASSUME NEW u \in Users, Kill(u) PROVE FifoInv'
    <3>1. TypeOK'
      BY <2>3, TypeStep DEF FifoInv
    <3>2. kills \in Nat /\ kills' = kills + 1
      BY <2>3, FifoAssumption DEF FifoInv, TypeOK, Kill
    <3> QED
      BY <3>1, <3>2 DEF FifoInv, TurnInv
  <2> QED
    BY <2>1, <2>2, <2>3 DEF Next
<1> QED
  BY <1>1, InitFifoInv, PTL DEF Spec

\* Both programs and the FIFO keep their types, for any number of texts and kills.
THEOREM FifoTypeCorrect == Spec => []TypeOK
<1>1. FifoInv => TypeOK
  BY DEF FifoInv
<1> QED
  BY <1>1, FifoInvHolds, PTL

\* While nobody is killed every line shown is the other user's next text.
THEOREM TurnsAreTaken == Spec => []TextsTakeTurns
<1>1. FifoInv => TextsTakeTurns
  <2> SUFFICES ASSUME FifoInv, kills = 0, NEW u \in Users
               PROVE  /\ shown[u] > 0 => str[u] = <<Other(u), shown[u]>>
                      /\ sent[Other(u)] \in {shown[u], shown[u] + 1}
    BY DEF TextsTakeTurns
  <2>1. LastShown /\ (Turn(Writer, Reader) \/ Turn(Reader, Writer))
    BY DEF FifoInv, TurnInv
  <2>2. CASE u = Writer
    BY <2>1, <2>2, TwoUsers DEF LastShown, Turn, Before, After
  <2>3. CASE u = Reader
    BY <2>1, <2>3, TwoUsers DEF LastShown, Turn, Before, After
  <2> QED
    BY <2>2, <2>3 DEF Users
<1> QED
  BY <1>1, FifoInvHolds, PTL

\* While nobody is killed the two never wait for each other in open().
THEOREM NeverStuck == Spec => []StuckOnlyAfterAKill
<1>1. FifoInv => StuckOnlyAfterAKill
  <2> SUFFICES ASSUME FifoInv, kills = 0 PROVE ~Stuck
    BY DEF StuckOnlyAfterAKill
  <2>1. Turn(Writer, Reader) \/ Turn(Reader, Writer)
    BY DEF FifoInv, TurnInv
  <2> QED
    BY <2>1 DEF Stuck, Turn, Before, After, Users
<1> QED
  BY <1>1, FifoInvHolds, PTL
=============================================================================
