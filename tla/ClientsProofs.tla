--------------------------- MODULE ClientsProofs ---------------------------
(****************************************************************************)
(* Theorems about Clients, for every size of the arrays, every length of a  *)
(* secret, and whatever users type.  First what the ways of reading do to a *)
(* line that was typed as asked, then the secrets, then the invariant.      *)
(****************************************************************************)
EXTENDS Clients, FiniteSetTheorems, FunctionTheorems, SequenceTheorems, WellFoundedInduction, TLAPS

EndOfLine == <<"\n">>

\* What is on the terminal ends with the end of a line.
Ended(s) == s # <<>> => s[Len(s)] = "\n"

Number(line) == line \in Texts /\ line # <<>> /\ \A i \in DOMAIN line : line[i] \in Digits

\* At a prompt that scans a number there is nothing to scan, or the number asked for.
NumberPending(p) ==
  SkipBlanks(stdin) = <<>> \/ (SkipBlanks(stdin) = typed[p] \o EndOfLine /\ Number(typed[p]))

\* At a prompt that reads a line nothing is left over, or there is one that fits.
LinePending(p) ==
  stdin = <<>> \/ (stdin = typed[p] \o EndOfLine /\ typed[p] \in Texts /\ Len(typed[p]) + 1 < Size[p])

\* cl has not been told a secret, or has read the first byte - 1 bytes of it.
SecretPending ==
  \/ stdin = <<>> /\ byte = 1 /\ typed["secret"] = NULL
  \/ /\ typed["secret"] \in Texts /\ WellFormed(typed["secret"])
     /\ SkipBlanks(stdin) = Drop(typed["secret"] \o EndOfLine, 3 * (byte - 1))
     /\ \A i \in 1 .. byte - 1 : secret[i] = Bytes(typed["secret"])[i]

\* The menu's item leads to the prompts it needs.
PlaceInv ==
  /\ pc \in {"ID", "secret", "call"} => choice \in 1 .. 4
  /\ pc = "data" => choice \in {1, 2}
  /\ pc \in {"offset", "length"} => choice = 3
  /\ pc # "secret" \/ program = "full" => byte = 1
  /\ pc # "choice" => shown = NULL
  /\ Ended(stdin)

\* What is on the terminal belongs to the prompt the program is at.
TerminalInv ==
  careful =>
    /\ pc = "choice" => /\ NumberPending("choice")
                        /\ SkipBlanks(stdin) = <<>> \/ typed["secret"] = NULL
    /\ pc \in {"ID", "data"} => LinePending(pc)
    /\ pc = "ID" => typed["secret"] = NULL
    /\ pc \in {"offset", "length"} => NumberPending(pc)
    /\ pc = "secret" /\ program = "full" =>
         /\ LinePending("secret")
         /\ stdin = <<>> => typed["secret"] = NULL \/ ~isValidSecret(typed["secret"])
    /\ pc = "secret" /\ program = "cl" => SecretPending
    /\ pc = "call" => stdin = <<>>

Command == {"ID", "secret", "data", "offset", "length", "call"}

\* What was read so far is what was typed for it.
ReadInv ==
  careful =>
    /\ pc \in Command => choice = Decimal(typed["choice"])
    /\ pc \in Command \ {"ID"} => id = typed["ID"]
    /\ pc \in {"data", "offset", "length", "call"} =>
         /\ typed["secret"] \in Texts /\ isValidSecret(typed["secret"])
         /\ secret = Bytes(typed["secret"])
    /\ pc = "call" /\ choice \in {1, 2} => data = typed["data"]
    /\ pc \in {"length", "call"} /\ choice = 3 => offset = Decimal(typed["offset"])
    /\ pc = "call" /\ choice = 3 => length = Decimal(typed["length"])

\* A block that was typed in carefully holds what was typed.
StoreInv ==
  \A i \in DOMAIN store : store[i].typed # Nothing =>
    /\ store[i].secret = Bytes(store[i].typed["secret"])
    /\ store[i].data = store[i].typed["data"]

ShownInv ==
  shown # NULL /\ choice = 4 => id \in DOMAIN store /\ shown \in Prints(store[id].data)

ClientsInv ==
  TypeOK /\ PlaceInv /\ TerminalInv /\ ReadInv /\ StoreInv /\ ShownInv

-----------------------------------------------------------------------------
(***************************************************************************)
(* Reading.                                                                *)
(***************************************************************************)
\* A non-empty set of natural numbers has a least one.
LEMMA LeastNatural ==
  ASSUME NEW S \in SUBSET Nat, S # {}
  PROVE  \E m \in S : \A k \in S : m <= k
<1> DEFINE R == OpToRel(<, Nat)
<1>1. \A x, y \in Nat : y < x => <<y, x>> \in R
  BY DEF OpToRel
<1>2. \E x \in S : \A y \in S : <<y, x>> \notin R
  <2> HIDE DEF R
  <2>1. IsWellFoundedOn(R, Nat)
    BY NatLessThanWellFounded DEF R
  <2> QED
    BY <2>1, WFMin
<1> HIDE DEF R
<1>3. PICK x \in S : \A y \in S : <<y, x>> \notin R
  BY <1>2
<1>4. \A y \in S : ~(y < x)
  BY <1>1, <1>3
<1> QED
  BY <1>4

\* The prefix within a class ends where the class does.
LEMMA PrefixProperties ==
  ASSUME NEW S, NEW s \in Seq(S), NEW class
  PROVE  /\ Prefix(s, class) \in 0 .. Len(s)
         /\ \A i \in 1 .. Prefix(s, class) : s[i] \in class
         /\ Prefix(s, class) < Len(s) => s[Prefix(s, class) + 1] \notin class
<1> DEFINE ends == {i \in 1 .. Len(s) : s[i] \notin class}
           Is(n) == (\A i \in 1 .. n : s[i] \in class) /\ (n < Len(s) => s[n + 1] \notin class)
<1>1. Len(s) \in Nat
  OBVIOUS
<1>2. CASE ends = {}
  <2>1. Is(Len(s))
    BY <1>1, <1>2
  <2> QED
    BY <1>1, <2>1 DEF Prefix
<1>3. CASE ends # {}
  <2>1. PICK e \in ends : \A i \in ends : e <= i
    <3>1. ends \in SUBSET Nat
      BY <1>1
    <3> HIDE DEF ends
    <3> QED
      BY <1>3, <3>1, LeastNatural
  <2>2. Is(e - 1) /\ e - 1 \in 0 .. Len(s)
    BY <1>1, <2>1
  <2> QED
    BY <2>2 DEF Prefix
<1> QED
  BY <1>2, <1>3

LEMMA PrefixIs ==
  ASSUME NEW S, NEW s \in Seq(S), NEW class, NEW n \in 0 .. Len(s),
         \A i \in 1 .. n : s[i] \in class, n < Len(s) => s[n + 1] \notin class
  PROVE  Prefix(s, class) = n
<1> DEFINE m == Prefix(s, class)
<1>1. /\ m \in 0 .. Len(s) /\ Len(s) \in Nat
      /\ \A i \in 1 .. m : s[i] \in class
      /\ m < Len(s) => s[m + 1] \notin class
  BY PrefixProperties
<1> HIDE DEF m
<1>2. ~(m < n)
  BY <1>1
<1>3. ~(n < m)
  BY <1>1
<1> QED
  BY <1>1, <1>2, <1>3 DEF m

LEMMA DropProperties ==
  ASSUME NEW S, NEW s \in Seq(S), NEW n \in 0 .. Len(s)
  PROVE  /\ Drop(s, n) \in Seq(S)
         /\ Len(Drop(s, n)) = Len(s) - n
         /\ \A i \in 1 .. Len(s) - n : Drop(s, n)[i] = s[n + i]
<1>1. Len(s) \in Nat /\ \A i \in n + 1 .. Len(s) : s[i] \in S
  BY ElementOfSeq
<1> QED
  BY <1>1, SubSeqProperties DEF Drop

LEMMA DropTwice ==
  ASSUME NEW S, NEW s \in Seq(S), NEW n \in 0 .. Len(s), NEW m \in 0 .. Len(s) - n
  PROVE  Drop(Drop(s, n), m) = Drop(s, n + m)
<1> DEFINE t == Drop(s, n)
<1>1. /\ t \in Seq(S) /\ Len(t) = Len(s) - n /\ Len(s) \in Nat /\ m \in 0 .. Len(t)
      /\ \A i \in 1 .. Len(s) - n : t[i] = s[n + i]
  <2>1. /\ t \in Seq(S) /\ Len(t) = Len(s) - n
        /\ \A i \in 1 .. Len(s) - n : t[i] = s[n + i]
    BY DropProperties, ZenonT(60)
  <2> HIDE DEF t
  <2>2. Len(s) \in Nat
    OBVIOUS
  <2>3. m \in 0 .. Len(t)
    BY <2>1
  <2> QED
    BY <2>1, <2>2, <2>3
<1> HIDE DEF t
<1>2. /\ Drop(t, m) \in Seq(S) /\ Len(Drop(t, m)) = Len(t) - m
      /\ \A i \in 1 .. Len(t) - m : Drop(t, m)[i] = t[m + i]
  BY <1>1, DropProperties, ZenonT(60)
<1>3. /\ n + m \in 0 .. Len(s)
      /\ Drop(s, n + m) \in Seq(S) /\ Len(Drop(s, n + m)) = Len(s) - (n + m)
      /\ \A i \in 1 .. Len(s) - (n + m) : Drop(s, n + m)[i] = s[n + m + i]
  <2>1. n + m \in 0 .. Len(s)
    BY <1>1
  <2> QED
    BY <2>1, DropProperties, ZenonT(60)
<1>4. /\ Len(Drop(t, m)) = Len(Drop(s, n + m))
      /\ \A i \in 1 .. Len(Drop(t, m)) : Drop(t, m)[i] = Drop(s, n + m)[i]
  <2>1. Len(Drop(t, m)) = Len(Drop(s, n + m))
    <3>1. Len(Drop(t, m)) = Len(t) - m /\ Len(t) = Len(s) - n /\ Len(s) \in Nat
      BY <1>1, <1>2
    <3>2. Len(Drop(s, n + m)) = Len(s) - (n + m)
      BY <1>3
    <3> QED
      BY <3>1, <3>2
  <2>2. ASSUME NEW i \in 1 .. Len(Drop(t, m))
        PROVE  Drop(t, m)[i] = Drop(s, n + m)[i]
    <3>1. Drop(t, m)[i] = t[m + i] /\ m + i \in 1 .. Len(s) - n
      BY <1>1, <1>2
    <3>2. t[m + i] = s[n + (m + i)] /\ n + (m + i) = n + m + i
      BY <1>1, <3>1
    <3> QED
      BY <1>1, <1>2, <1>3, <2>1, <3>1, <3>2
  <2> QED
    BY <2>1, <2>2
<1> QED
  BY <1>2, <1>3, <1>4, SeqEqual DEF t

LEMMA DropAll ==
  ASSUME NEW S, NEW s \in Seq(S)
  PROVE  Drop(s, Len(s)) = <<>> /\ Drop(s, 0) = s
<1> QED
  BY SubSeqEmpty, SubSeqFull DEF Drop

LEMMA DropConcat ==
  ASSUME NEW S, NEW s \in Seq(S), NEW t \in Seq(S)
  PROVE  Drop(s \o t, Len(s)) = t
<1> DEFINE u == s \o t
<1>1. /\ u \in Seq(S) /\ Len(u) = Len(s) + Len(t) /\ Len(s) \in Nat /\ Len(t) \in Nat
      /\ \A i \in 1 .. Len(s) + Len(t) : u[i] = IF i <= Len(s) THEN s[i] ELSE t[i - Len(s)]
  BY ConcatProperties
<1> HIDE DEF u
<1>2. /\ Drop(u, Len(s)) \in Seq(S) /\ Len(Drop(u, Len(s))) = Len(u) - Len(s)
      /\ \A i \in 1 .. Len(u) - Len(s) : Drop(u, Len(s))[i] = u[Len(s) + i]
  <2>1. Len(s) \in 0 .. Len(u)
    BY <1>1
  <2> QED
    BY <1>1, <2>1, DropProperties, ZenonT(60)
<1>3. Len(Drop(u, Len(s))) = Len(t)
  BY <1>1, <1>2
<1>4. ASSUME NEW i \in 1 .. Len(Drop(u, Len(s)))
      PROVE  Drop(u, Len(s))[i] = t[i]
  <2>1. i \in 1 .. Len(t) /\ Len(s) + i \in 1 .. Len(s) + Len(t)
    BY <1>1, <1>3
  <2>2. u[Len(s) + i] = t[i]
    BY <1>1, <2>1
  <2> QED
    BY <1>1, <1>2, <2>1, <2>2
<1> QED
  BY <1>2, <1>3, <1>4, SeqEqual DEF u

LEMMA DigitsAre == Digits = {"0", "1", "2", "3", "4", "5", "6", "7", "8", "9"}
<1>1. 1 .. 10 = {1, 2, 3, 4, 5, 6, 7, 8, 9, 10}
  OBVIOUS
<1> QED
  BY <1>1 DEF Digits, Digit

LEMMA HexIs ==
  Hex = Digits \cup {"a", "b", "c", "d", "e", "f"} \cup {"A", "B", "C", "D", "E", "F"}
<1>1. 1 .. 16 = (1 .. 10) \cup {11, 12, 13, 14, 15, 16}
  OBVIOUS
<1>2. {Digit[i] : i \in 1 .. 16} = Digits \cup {Digit[i] : i \in {11, 12, 13, 14, 15, 16}}
  BY <1>1 DEF Digits
<1>3. {Digit[i] : i \in {11, 12, 13, 14, 15, 16}} = {"a", "b", "c", "d", "e", "f"}
  BY DEF Digit
<1>4. DOMAIN LowerCase = {"A", "B", "C", "D", "E", "F"}
  BY DEF LowerCase
<1> QED
  BY <1>2, <1>3, <1>4 DEF Hex

LEMMA CharacterClasses ==
  /\ Digits \subseteq Hex /\ Hex \subseteq Chars
  /\ \A c \in Hex : c \notin Blanks
  /\ " " \in Chars /\ "\n" \in Chars /\ " " # "\n" /\ " " \notin Hex /\ "\n" \notin Hex
  /\ " " \in Blanks /\ "\n" \in Blanks
<1> QED
  BY DigitsAre, HexIs DEF Blanks, Chars

LEMMA EndOfLineIs ==
  /\ EndOfLine \in Seq(Chars) /\ Len(EndOfLine) = 1 /\ EndOfLine[1] = "\n" /\ EndOfLine # <<>>
<1>1. "\n" \in Chars
  BY CharacterClasses
<1> QED
  BY <1>1 DEF EndOfLine

\* A text and the end of its line.
LEMMA LineEnds ==
  ASSUME NEW line \in Texts
  PROVE  /\ Len(line) \in Nat /\ line \in Seq(Chars)
         /\ line \o EndOfLine \in Seq(Chars)
         /\ Len(line \o EndOfLine) = Len(line) + 1
         /\ \A i \in 1 .. Len(line) : (line \o EndOfLine)[i] = line[i] /\ line[i] \in Chars \ {"\n"}
         /\ (line \o EndOfLine)[Len(line) + 1] = "\n"
<1>1. line \in Seq(Chars) /\ Len(line) \in Nat /\ \A i \in 1 .. Len(line) : line[i] \in Chars \ {"\n"}
  BY SeqMonotonic, ElementOfSeq DEF Texts
<1>2. EndOfLine \in Seq(Chars) /\ Len(EndOfLine) = 1 /\ EndOfLine[1] = "\n"
  BY EndOfLineIs
<1>3. /\ line \o EndOfLine \in Seq(Chars)
      /\ Len(line \o EndOfLine) = Len(line) + 1
      /\ \A i \in 1 .. Len(line) + 1 :
           (line \o EndOfLine)[i] = IF i <= Len(line) THEN line[i] ELSE EndOfLine[i - Len(line)]
  BY <1>1, <1>2, ConcatProperties
<1>4. (line \o EndOfLine)[Len(line) + 1] = "\n"
  BY <1>1, <1>2, <1>3
<1>5. \A i \in 1 .. Len(line) : (line \o EndOfLine)[i] = line[i]
  BY <1>1, <1>3
<1> QED
  BY <1>1, <1>3, <1>4, <1>5

LEMMA OnlyEndOfLine ==
  /\ EndOfLine \in Seq(Chars) /\ EndOfLine # <<>>
  /\ SkipBlanks(EndOfLine) = <<>> /\ GetChar(EndOfLine) = <<>>
  /\ SkipBlanks(<<>>) = <<>>
<1>1. EndOfLine \in Seq(Chars) /\ Len(EndOfLine) = 1 /\ EndOfLine[1] \in Blanks /\ EndOfLine # <<>>
  BY EndOfLineIs, CharacterClasses
<1>2. Prefix(EndOfLine, Blanks) = 1
  <2>1. /\ 1 \in 0 .. Len(EndOfLine) /\ \A i \in 1 .. 1 : EndOfLine[i] \in Blanks
        /\ 1 < Len(EndOfLine) => EndOfLine[1 + 1] \notin Blanks
    BY <1>1
  <2> QED
    BY <1>1, <2>1, PrefixIs
<1>3. <<>> \in Seq(Chars) /\ Len(<<>>) = 0
  OBVIOUS
<1>4. Prefix(<<>>, Blanks) = 0
  <2>1. /\ 0 \in 0 .. Len(<<>>) /\ \A i \in 1 .. 0 : <<>>[i] \in Blanks
        /\ 0 < Len(<<>>) => <<>>[0 + 1] \notin Blanks
    BY <1>3
  <2> QED
    BY <1>3, <2>1, PrefixIs
<1> QED
  BY <1>1, <1>2, <1>3, <1>4, DropAll DEF SkipBlanks, GetChar

\* A number that was typed is scanned as a whole; what is left is the end of its line.
LEMMA NumberIsRead ==
  ASSUME NEW line, Number(line), NEW s, s = line \o EndOfLine
  PROVE  /\ s \in Seq(Chars) /\ SkipBlanks(s) = s /\ s # <<>> /\ line[1] \notin Blanks
         /\ Len(line) > 0 /\ Prefix(s, Digits) = Len(line)
         /\ SubSeq(s, 1, Len(line)) = line /\ Drop(s, Len(line)) = EndOfLine
<1>1. /\ line \in Texts /\ line # <<>> /\ Len(line) \in Nat /\ Len(line) > 0
      /\ \A i \in 1 .. Len(line) : line[i] \in Digits
  BY DEF Number, Texts
<1>2. /\ line \in Seq(Chars) /\ s \in Seq(Chars) /\ Len(s) = Len(line) + 1
      /\ \A i \in 1 .. Len(line) : s[i] = line[i]
      /\ s[Len(line) + 1] = "\n"
  BY <1>1, LineEnds
<1>3. "\n" \notin Digits /\ \A i \in 1 .. Len(line) : s[i] \in Digits /\ s[i] \notin Blanks
  BY <1>1, <1>2, CharacterClasses
<1>4. Prefix(s, Digits) = Len(line)
  <2>1. /\ Len(line) \in 0 .. Len(s) /\ \A i \in 1 .. Len(line) : s[i] \in Digits
        /\ Len(line) < Len(s) => s[Len(line) + 1] \notin Digits
    BY <1>1, <1>2, <1>3
  <2> QED
    BY <1>2, <2>1, PrefixIs
<1>5. Prefix(s, Blanks) = 0
  <2>1. /\ 0 \in 0 .. Len(s) /\ \A i \in 1 .. 0 : s[i] \in Blanks
        /\ 0 < Len(s) => s[0 + 1] \notin Blanks
    BY <1>1, <1>2, <1>3
  <2> QED
    BY <1>2, <2>1, PrefixIs
<1>6. SkipBlanks(s) = s
  BY <1>2, <1>5, DropAll DEF SkipBlanks
<1>7. SubSeq(s, 1, Len(line)) = line
  <2>1. /\ SubSeq(s, 1, Len(line)) \in Seq(Chars)
        /\ Len(SubSeq(s, 1, Len(line))) = Len(line)
        /\ \A i \in 1 .. Len(line) : SubSeq(s, 1, Len(line))[i] = s[i]
    <3>1. \A i \in 1 .. Len(line) : s[i] \in Chars
      BY <1>1, <1>2, ElementOfSeq
    <3> QED
      BY <1>1, <3>1, SubSeqProperties
  <2> QED
    BY <1>2, <2>1, SeqEqual
<1>8. Drop(s, Len(line)) = EndOfLine
  BY <1>2, OnlyEndOfLine, DropConcat
<1> QED
  BY <1>1, <1>2, <1>3, <1>4, <1>6, <1>7, <1>8

\* A line that fits is read as a whole, with its end.
LEMMA LineIsRead ==
  ASSUME NEW line \in Texts, NEW size \in Nat, Len(line) + 1 < size, NEW s, s = line \o EndOfLine
  PROVE  Line(s, size) = line /\ Drop(s, Takes(s, size)) = <<>>
<1>1. /\ Len(line) \in Nat /\ line \in Seq(Chars) /\ s \in Seq(Chars) /\ Len(s) = Len(line) + 1
      /\ \A i \in 1 .. Len(line) : s[i] = line[i] /\ s[i] \in Chars \ {"\n"}
      /\ s[Len(line) + 1] = "\n"
  BY LineEnds
<1>2. Prefix(s, Chars \ {"\n"}) = Len(line)
  <2>1. /\ Len(line) \in 0 .. Len(s) /\ \A i \in 1 .. Len(line) : s[i] \in Chars \ {"\n"}
        /\ Len(line) < Len(s) => s[Len(line) + 1] \notin Chars \ {"\n"}
    BY <1>1
  <2> QED
    BY <1>1, <2>1, PrefixIs
<1>3. Takes(s, size) = Len(line) + 1
  BY <1>1, <1>2 DEF Takes
<1>4. Line(s, size) = SubSeq(s, 1, Len(line))
  BY <1>1, <1>3 DEF Line
<1>5. SubSeq(s, 1, Len(line)) = line
  <2>1. /\ SubSeq(s, 1, Len(line)) \in Seq(Chars)
        /\ Len(SubSeq(s, 1, Len(line))) = Len(line)
        /\ \A i \in 1 .. Len(line) : SubSeq(s, 1, Len(line))[i] = s[i]
    <3>1. \A i \in 1 .. Len(line) : s[i] \in Chars
      BY <1>1
    <3> QED
      BY <1>1, <3>1, SubSeqProperties
  <2> QED
    BY <1>1, <2>1, SeqEqual
<1> QED
  BY <1>1, <1>3, <1>4, <1>5, DropAll

\* Blanks in front of what was typed are skipped, and nothing else.
LEMMA BlanksAreSkipped ==
  ASSUME NEW s \in Seq(Chars), SkipBlanks(s) = <<>>,
         NEW line \in Texts, line # <<>>, line[1] \notin Blanks
  PROVE  SkipBlanks(s \o line \o EndOfLine) = line \o EndOfLine
<1> DEFINE t == line \o EndOfLine
           u == s \o t
           n == Prefix(s, Blanks)
<1>1. /\ Len(s) \in Nat /\ n \in 0 .. Len(s) /\ \A i \in 1 .. n : s[i] \in Blanks
  BY PrefixProperties
<1>2. n = Len(s)
  <2>1. Len(Drop(s, n)) = Len(s) - n /\ Len(<<>>) = 0 /\ Drop(s, n) = <<>>
    BY <1>1, DropProperties DEF SkipBlanks
  <2> QED
    BY <1>1, <2>1
<1>3. /\ t \in Seq(Chars) /\ Len(t) \in Nat /\ Len(t) > 0 /\ t[1] \notin Blanks
  <2>1. Len(line) \in Nat /\ Len(line) > 0
    BY DEF Texts
  <2> QED
    BY <2>1, LineEnds
<1> HIDE DEF t, n
<1>4. /\ u \in Seq(Chars) /\ Len(u) = Len(s) + Len(t)
      /\ \A i \in 1 .. Len(s) + Len(t) : u[i] = IF i <= Len(s) THEN s[i] ELSE t[i - Len(s)]
  BY <1>3, ConcatProperties
<1> HIDE DEF u
<1>5. /\ \A i \in 1 .. Len(s) : u[i] \in Blanks
      /\ u[Len(s) + 1] \notin Blanks
  BY <1>1, <1>2, <1>3, <1>4
<1>6. Prefix(u, Blanks) = Len(s)
  <2>1. Len(s) \in 0 .. Len(u)
    BY <1>1, <1>3, <1>4
  <2> QED
    BY <1>4, <1>5, <2>1, PrefixIs
<1>7. SkipBlanks(u) = t
  BY <1>3, <1>6, DropConcat DEF SkipBlanks, u
<1>8. s \o line \o EndOfLine = u
  BY OnlyEndOfLine, LineEnds, ConcatAssociative DEF u, t
<1> QED
  BY <1>7, <1>8 DEF t

\* The value of digits is a natural number.
LEMMA DecimalIsNatural ==
  ASSUME NEW digits \in Seq(Digits)
  PROVE  Decimal(digits) \in Nat
<1> DEFINE N == Len(digits)
           V(n) == CHOOSE v \in 0 .. 9 : Digit[v + 1] = digits[n]
           Upto(g, m) == /\ g \in [0 .. m -> Nat] /\ g[0] = 0
                         /\ \A n \in 1 .. m : g[n] = 10 * g[n - 1] + V(n)
           value[n \in 0 .. N] == IF n = 0 THEN 0 ELSE 10 * value[n - 1] + V(n)
<1>1. N \in Nat
  OBVIOUS
<1>2. \A n \in 1 .. N : V(n) \in Nat
  <2>1. \A n \in 1 .. N : \E i \in 1 .. 10 : digits[n] = Digit[i]
    BY ElementOfSeq DEF Digits
  <2>2. \A n \in 1 .. N : \E v \in 0 .. 9 : Digit[v + 1] = digits[n]
    <3> TAKE n \in 1 .. N
    <3>1. PICK i \in 1 .. 10 : digits[n] = Digit[i]
      BY <2>1
    <3>2. i - 1 \in 0 .. 9 /\ Digit[(i - 1) + 1] = digits[n]
      BY <3>1
    <3> QED
      BY <3>2
  <2>3. \A n \in 1 .. N : V(n) \in 0 .. 9
    BY <2>2
  <2> HIDE DEF V
  <2> QED
    BY <2>3
<1> HIDE DEF N, V
<1>3. \A m \in 0 .. N : \E g : Upto(g, m)
  <2> DEFINE bad == {m \in 0 .. N : ~ \E g : Upto(g, m)}
  <2> SUFFICES ASSUME bad # {} PROVE FALSE
    OBVIOUS
  <2>1. PICK m \in bad : \A k \in bad : m <= k
    <3>1. bad \in SUBSET Nat
      BY <1>1
    <3> HIDE DEF bad
    <3> QED
      BY <3>1, LeastNatural
  <2>2. m \in 0 .. N /\ m \in Nat /\ ~ \E g : Upto(g, m)
    BY <1>1, <2>1
  <2>3. m # 0
    <3> SUFFICES ASSUME m = 0 PROVE FALSE
      OBVIOUS
    <3>1. Upto([n \in 0 .. 0 |-> 0], 0)
      OBVIOUS
    <3> QED
      BY <2>2, <3>1
  <2>4. m - 1 \in 0 .. N /\ m - 1 \notin bad
    <3>1. m - 1 \in 0 .. N /\ m - 1 < m
      BY <1>1, <2>2, <2>3
    <3> HIDE DEF bad
    <3> QED
      BY <2>1, <2>2, <3>1
  <2>5. PICK g : Upto(g, m - 1)
    BY <2>4
  <2> DEFINE h == [n \in 0 .. m |-> IF n = m THEN 10 * g[m - 1] + V(m) ELSE g[n]]
  <2>6. h \in [0 .. m -> Nat]
    <3>1. g[m - 1] \in Nat /\ V(m) \in Nat
      BY <1>1, <1>2, <2>2, <2>3, <2>5
    <3>2. \A n \in 0 .. m : n # m => g[n] \in Nat
      BY <2>2, <2>3, <2>5
    <3> QED
      BY <3>1, <3>2
  <2>7. h[0] = 0
    BY <2>2, <2>3, <2>5
  <2>8. ASSUME NEW n \in 1 .. m PROVE h[n] = 10 * h[n - 1] + V(n)
    <3>1. n - 1 \in 0 .. m - 1 /\ h[n - 1] = g[n - 1]
      BY <2>2, <2>8
    <3>2. CASE n = m
      BY <3>1, <3>2
    <3>3. CASE n # m
      BY <2>2, <2>5, <3>1, <3>3
    <3> QED
      BY <3>2, <3>3
  <2> QED
    BY <2>2, <2>6, <2>7, <2>8
<1>4. PICK g : Upto(g, N)
  <2>1. N \in 0 .. N
    BY <1>1
  <2> HIDE DEF Upto
  <2> QED
    BY <1>3, <2>1
<1>5. g = [n \in 0 .. N |-> IF n = 0 THEN 0 ELSE 10 * g[n - 1] + V(n)]
  BY <1>1, <1>4
<1>6. value = [n \in 0 .. N |-> IF n = 0 THEN 0 ELSE 10 * value[n - 1] + V(n)]
  BY <1>5
<1> HIDE DEF value
<1>7. value \in [0 .. N -> Nat]
  <2> DEFINE bad == {n \in 0 .. N : value[n] \notin Nat}
  <2>1. bad = {}
    <3> SUFFICES ASSUME bad # {} PROVE FALSE
      OBVIOUS
    <3>1. PICK m \in bad : \A k \in bad : m <= k
      <4>1. bad \in SUBSET Nat
        BY <1>1
      <4> HIDE DEF bad
      <4> QED
        BY <4>1, LeastNatural
    <3>2. m # 0
      BY <1>6, <3>1
    <3>3. m - 1 \in 0 .. N /\ value[m - 1] \in Nat
      BY <1>1, <3>1, <3>2
    <3>4. value[m] = 10 * value[m - 1] + V(m) /\ V(m) \in Nat
      BY <1>1, <1>2, <1>6, <3>1, <3>2
    <3> QED
      BY <3>1, <3>3, <3>4
  <2> QED
    BY <1>6, <2>1
<1>8. Decimal(digits) = value[N]
  BY DEF Decimal, value, N, V
<1> QED
  BY <1>1, <1>7, <1>8

-----------------------------------------------------------------------------
(***************************************************************************)
(* Secrets.                                                                *)
(***************************************************************************)
LEMMA SecretHasBytes == SecretBytes \in Nat /\ SecretBytes > 0
<1> QED
  BY ClientsAssumption

LEMMA TextPositions ==
  ASSUME NEW s \in Texts
  PROVE  s \in Seq(Chars) /\ Len(s) \in Nat /\ DOMAIN s = 1 .. Len(s)
<1> QED
  BY LineEnds DEF Texts

\* Where digits and spaces are in a line that is as the prompt asks.
LEMMA WellFormedPositions ==
  ASSUME NEW s \in Texts, WellFormed(s)
  PROVE  /\ Len(s) = 3 * SecretBytes - 1
         /\ \A j \in 1 .. SecretBytes : s[3 * j - 2] \in Hex /\ s[3 * j - 1] \in Hex
         /\ \A j \in 1 .. SecretBytes - 1 : s[3 * j] = " "
<1>1. Len(s) = 3 * SecretBytes - 1
  BY DEF WellFormed
<1>2. \A i \in 1 .. 3 * SecretBytes - 1 : IF i % 3 = 0 THEN s[i] = " " ELSE s[i] \in Hex
  BY <1>1, TextPositions DEF WellFormed
<1>3. ASSUME NEW j \in 1 .. SecretBytes PROVE s[3 * j - 2] \in Hex /\ s[3 * j - 1] \in Hex
  <2>1. /\ 3 * j - 2 \in 1 .. 3 * SecretBytes - 1 /\ (3 * j - 2) % 3 # 0
        /\ 3 * j - 1 \in 1 .. 3 * SecretBytes - 1 /\ (3 * j - 1) % 3 # 0
    BY SecretHasBytes
  <2> QED
    BY <1>2, <2>1
<1>4. ASSUME NEW j \in 1 .. SecretBytes - 1 PROVE s[3 * j] = " "
  <2>1. 3 * j \in 1 .. 3 * SecretBytes - 1 /\ (3 * j) % 3 = 0
    BY SecretHasBytes
  <2> QED
    BY <1>2, <2>1
<1> QED
  BY <1>1, <1>3, <1>4

LEMMA ThreeResidues ==
  ASSUME NEW i \in Nat, NEW n \in Nat, i > 0, i <= 3 * n - 1
  PROVE  \E j \in 1 .. n : i = 3 * j - 2 \/ i = 3 * j - 1 \/ (i = 3 * j /\ j <= n - 1)
<1>1. (i + 2) \div 3 \in 1 .. n /\ LET j == (i + 2) \div 3 IN
        i = 3 * j - 2 \/ i = 3 * j - 1 \/ (i = 3 * j /\ j <= n - 1)
  OBVIOUS
<1> QED
  BY <1>1

\* What the prompt asks for is accepted.
LEMMA WellFormedIsValid ==
  ASSUME NEW s \in Texts, WellFormed(s)
  PROVE  isValidSecret(s)
<1> DEFINE n == SecretBytes - 1
<1>1. n \in Nat /\ SecretBytes = n + 1 /\ Len(s) = 3 * n + 2 /\ DOMAIN s = 1 .. 3 * n + 2
  <2>1. Len(s) = 3 * SecretBytes - 1
    BY DEF WellFormed
  <2> QED
    BY <2>1, SecretHasBytes, TextPositions
<1>2. \A j \in 1 .. n + 1 : s[3 * j - 2] \in Hex /\ s[3 * j - 1] \in Hex
  BY <1>1, WellFormedPositions
<1>3. \A j \in 1 .. n : s[3 * j] = " "
  BY <1>1, WellFormedPositions
<1>4. \A i \in DOMAIN s : s[i] \in Hex \cup {" "}
  BY DEF WellFormed
<1> HIDE DEF n
<1>5. s[Len(s)] # " "
  <2>1. Len(s) = 3 * (n + 1) - 1 /\ n + 1 \in 1 .. n + 1
    BY <1>1
  <2>2. s[Len(s)] \in Hex
    BY <1>2, <2>1
  <2> QED
    BY <2>2, CharacterClasses
<1> DEFINE f == [j \in 1 .. n |-> 3 * j]
<1>6. f \in Bijection(1 .. n, Spaces(s))
  <2>1. ASSUME NEW j \in 1 .. n PROVE 3 * j \in Spaces(s)
    <3>1. 3 * j \in DOMAIN s
      BY <1>1
    <3> QED
      BY <1>3, <3>1 DEF Spaces
  <2>2. ASSUME NEW i \in Spaces(s) PROVE \E j \in 1 .. n : 3 * j = i
    <3>1. i \in 1 .. 3 * n + 2 /\ s[i] \notin Hex
      BY <1>1, CharacterClasses DEF Spaces
    <3>2. i \in Nat /\ n + 1 \in Nat /\ i > 0 /\ i <= 3 * (n + 1) - 1
      BY <1>1, <3>1
    <3>3. PICK j \in 1 .. n + 1 :
            i = 3 * j - 2 \/ i = 3 * j - 1 \/ (i = 3 * j /\ j <= (n + 1) - 1)
      BY <3>2, ThreeResidues
    <3>4. i # 3 * j - 2 /\ i # 3 * j - 1
      BY <1>2, <3>1
    <3>5. i = 3 * j /\ j \in 1 .. n
      BY <1>1, <3>3, <3>4
    <3> QED
      BY <3>5
  <2>3. f \in [1 .. n -> Spaces(s)]
    BY <2>1
  <2>4. \A j, k \in 1 .. n : f[j] = f[k] => j = k
    BY <1>1
  <2>5. \A i \in Spaces(s) : \E j \in 1 .. n : f[j] = i
    BY <2>2
  <2> QED
    BY <2>3, <2>4, <2>5, Fun_IsBij
<1>7. IsFiniteSet(1 .. n) /\ Cardinality(1 .. n) = n
  <2>1. 1 \in Int /\ n \in Int /\ n = IF 1 > n THEN 0 ELSE n - 1 + 1
    BY <1>1
  <2> QED
    BY <2>1, FS_Interval
<1>8. Cardinality(Spaces(s)) = n
  BY <1>6, <1>7, FS_Bijection DEF ExistsBijection
<1> QED
  BY <1>4, <1>5, <1>8 DEF isValidSecret, n

\* A digit has a value below 16, and the value tells it but for its case.
LEMMA HexValues ==
  /\ \A c \in Hex : Value(c) \in 0 .. 15
  /\ \A c, d \in Hex : Value(c) = Value(d) <=> Lower(c) = Lower(d)
<1>1. ASSUME NEW c \in Hex
      PROVE  \E i \in 1 .. 16 : Digit[i] = Lower(c)
  <2>1. CASE c \in DOMAIN LowerCase
    <3>1. Lower(c) \in {"a", "b", "c", "d", "e", "f"}
      BY <2>1 DEF Lower, LowerCase
    <3>2. /\ 11 \in 1 .. 16 /\ 12 \in 1 .. 16 /\ 13 \in 1 .. 16 /\ 14 \in 1 .. 16
          /\ 15 \in 1 .. 16 /\ 16 \in 1 .. 16
          /\ Digit[11] = "a" /\ Digit[12] = "b" /\ Digit[13] = "c" /\ Digit[14] = "d"
          /\ Digit[15] = "e" /\ Digit[16] = "f"
      BY DEF Digit
    <3> QED
      BY <3>1, <3>2
  <2>2. CASE c \notin DOMAIN LowerCase
    BY <2>2 DEF Hex, Lower
  <2> QED
    BY <2>1, <2>2
<1>2. ASSUME NEW c \in Hex
      PROVE  Value(c) \in 0 .. 15 /\ Digit[Value(c) + 1] = Lower(c)
  <2> DEFINE i == CHOOSE i \in 1 .. 16 : Digit[i] = Lower(c)
  <2>1. i \in 1 .. 16 /\ Digit[i] = Lower(c)
    BY <1>1
  <2>2. Value(c) = i - 1
    BY DEF Value
  <2> HIDE DEF i
  <2>3. Value(c) + 1 = i /\ Value(c) \in 0 .. 15
    BY <2>1, <2>2
  <2> QED
    BY <2>1, <2>3
<1>3. ASSUME NEW c \in Hex, NEW d \in Hex
      PROVE  Value(c) = Value(d) <=> Lower(c) = Lower(d)
  <2>1. Lower(c) = Lower(d) => Value(c) = Value(d)
    BY DEF Value
  <2>2. Value(c) = Value(d) => Lower(c) = Lower(d)
    BY <1>2
  <2> QED
    BY <2>1, <2>2
<1> QED
  BY <1>2, <1>3

\* Two digits are scanned as one byte.
LEMMA TwoDigits ==
  ASSUME NEW t \in Seq(Chars), Len(t) >= 2, t[1] \in Hex, t[2] \in Hex,
         Len(t) > 2 => t[3] \notin Hex
  PROVE  Prefix(t, Hex) = 2 /\ ScanHex(t) = 16 * Value(t[1]) + Value(t[2])
<1>1. Len(t) \in Nat /\ 2 \in 0 .. Len(t)
  OBVIOUS
<1>2. /\ \A i \in 1 .. 2 : t[i] \in Hex
      /\ 2 < Len(t) => t[2 + 1] \notin Hex
  <2>1. 1 .. 2 = {1, 2}
    OBVIOUS
  <2> QED
    BY <1>1, <2>1
<1>3. Prefix(t, Hex) = 2
  BY <1>1, <1>2, PrefixIs
<1> QED
  BY <1>3 DEF ScanHex

\* Two digits can be told from their byte, but for their case.
LEMMA ByteTellsDigits ==
  ASSUME NEW a \in Hex, NEW b \in Hex, NEW c \in Hex, NEW d \in Hex
  PROVE  16 * Value(a) + Value(b) = 16 * Value(c) + Value(d)
           <=> Lower(a) = Lower(c) /\ Lower(b) = Lower(d)
<1>1. Value(a) \in 0 .. 15 /\ Value(b) \in 0 .. 15 /\ Value(c) \in 0 .. 15 /\ Value(d) \in 0 .. 15
  BY HexValues
<1>2. \A w, x, y, z \in 0 .. 15 : 16 * w + x = 16 * y + z <=> w = y /\ x = z
  OBVIOUS
<1>3. Value(a) = Value(c) <=> Lower(a) = Lower(c)
  BY HexValues
<1>4. Value(b) = Value(d) <=> Lower(b) = Lower(d)
  BY HexValues
<1> QED
  BY <1>1, <1>2, <1>3, <1>4

\* A scanned byte is a byte.
LEMMA ScanHexType ==
  ASSUME NEW s \in Seq(Chars)
  PROVE  ScanHex(s) \in 0 .. 255
<1> DEFINE n == Prefix(s, Hex)
<1>1. n \in 0 .. Len(s) /\ Len(s) \in Nat /\ \A i \in 1 .. n : s[i] \in Hex
  BY PrefixProperties
<1> DEFINE high == IF n > 1 THEN Value(s[n - 1]) ELSE 0
           low == IF n > 0 THEN Value(s[n]) ELSE 0
<1>2. ScanHex(s) = 16 * high + low
  BY DEF ScanHex
<1> HIDE DEF n
<1>3. high \in 0 .. 15
  BY <1>1, HexValues
<1>4. low \in 0 .. 15
  BY <1>1, HexValues
<1> HIDE DEF high, low
<1> QED
  BY <1>2, <1>3, <1>4

LEMMA BytesType ==
  ASSUME NEW s \in Seq(Chars)
  PROVE  Bytes(s) \in Bits
<1>1. ASSUME NEW n \in 1 .. SecretBytes
      PROVE  Bytes(s)[n] \in 0 .. 255
  <2>1. CASE NthToken(s, n) = {}
    BY <2>1 DEF Bytes
  <2>2. CASE NthToken(s, n) # {}
    <3> DEFINE i == CHOOSE i \in NthToken(s, n) : TRUE
    <3>1. i \in DOMAIN s
      BY <2>2 DEF NthToken, TokenStarts
    <3> HIDE DEF i
    <3>2. i - 1 \in 0 .. Len(s)
      BY <3>1
    <3>3. Drop(s, i - 1) \in Seq(Chars)
      BY <3>2, DropProperties, ZenonT(60)
    <3>4. Bytes(s)[n] = ScanHex(Drop(s, i - 1))
      BY <2>2 DEF Bytes, i
    <3> QED
      BY <3>3, <3>4, ScanHexType
  <2> QED
    BY <2>1, <2>2
<1>2. Bytes(s) = [n \in 1 .. SecretBytes |-> Bytes(s)[n]]
  BY DEF Bytes
<1> QED
  BY <1>1, <1>2 DEF Bits

\* The tokens of a line as the prompt asks start at every third character.
LEMMA WellFormedTokens ==
  ASSUME NEW s \in Texts, WellFormed(s), NEW n \in 1 .. SecretBytes
  PROVE  NthToken(s, n) = {3 * n - 2}
<1>1. DOMAIN s = 1 .. 3 * SecretBytes - 1
  BY TextPositions DEF WellFormed
<1>2. \A j \in 1 .. SecretBytes : s[3 * j - 2] \in Hex /\ s[3 * j - 1] \in Hex
  BY WellFormedPositions
<1>3. \A j \in 1 .. SecretBytes - 1 : s[3 * j] = " "
  BY WellFormedPositions
<1>4. ASSUME NEW j \in 1 .. SecretBytes PROVE 3 * j - 2 \in TokenStarts(s)
  <2>1. 3 * j - 2 \in DOMAIN s
    BY <1>1, SecretHasBytes
  <2>2. s[3 * j - 2] # " "
    BY <1>2, CharacterClasses
  <2>3. 3 * j - 2 = 1 \/ s[(3 * j - 2) - 1] = " "
    <3>1. CASE j = 1
      BY <3>1
    <3>2. CASE j # 1
      <4>1. j - 1 \in 1 .. SecretBytes - 1 /\ 3 * (j - 1) = (3 * j - 2) - 1
        BY <3>2, SecretHasBytes
      <4> QED
        BY <1>3, <4>1
    <3> QED
      BY <3>1, <3>2
  <2> QED
    BY <2>1, <2>2, <2>3 DEF TokenStarts
<1>5. ASSUME NEW i \in TokenStarts(s) PROVE \E j \in 1 .. SecretBytes : i = 3 * j - 2
  <2>1. i \in Nat /\ i > 0 /\ i <= 3 * SecretBytes - 1
    <3>1. i \in 1 .. 3 * SecretBytes - 1
      BY <1>1 DEF TokenStarts
    <3> QED
      BY <3>1, SecretHasBytes
  <2>2. PICK j \in 1 .. SecretBytes :
          i = 3 * j - 2 \/ i = 3 * j - 1 \/ (i = 3 * j /\ j <= SecretBytes - 1)
    BY <2>1, SecretHasBytes, ThreeResidues
  <2>3. i # 3 * j - 1
    <3> SUFFICES ASSUME i = 3 * j - 1 PROVE FALSE
      OBVIOUS
    <3>1. i - 1 = 3 * j - 2 /\ i # 1
      BY <2>1
    <3>2. s[i - 1] = " "
      BY <3>1 DEF TokenStarts
    <3> QED
      BY <1>2, <3>1, <3>2, CharacterClasses
  <2>4. ~(i = 3 * j /\ j <= SecretBytes - 1)
    <3> SUFFICES ASSUME i = 3 * j, j <= SecretBytes - 1 PROVE FALSE
      OBVIOUS
    <3>1. j \in 1 .. SecretBytes - 1
      BY SecretHasBytes
    <3>2. s[i] = " "
      BY <1>3, <3>1
    <3> QED
      BY <3>2 DEF TokenStarts
  <2> QED
    BY <2>2, <2>3, <2>4
<1> DEFINE upto(i) == {k \in TokenStarts(s) : k <= i}
<1>6. ASSUME NEW j \in 1 .. SecretBytes PROVE Cardinality(upto(3 * j - 2)) = j
  <2> DEFINE f == [k \in 1 .. j |-> 3 * k - 2]
             T == upto(3 * j - 2)
  <2>1. j \in Nat /\ j > 0 /\ j <= SecretBytes
    BY SecretHasBytes
  <2>2. \A k \in 1 .. j : 3 * k - 2 \in T
    <3> TAKE k \in 1 .. j
    <3>1. k \in 1 .. SecretBytes /\ 3 * k - 2 <= 3 * j - 2
      BY <2>1, SecretHasBytes
    <3> QED
      BY <1>4, <3>1
  <2>3. \A i \in T : \E k \in 1 .. j : i = 3 * k - 2
    <3> TAKE i \in T
    <3>1. PICK k \in 1 .. SecretBytes : i = 3 * k - 2
      BY <1>5
    <3>2. 3 * k - 2 <= 3 * j - 2
      BY <3>1
    <3>3. k \in 1 .. j
      BY <2>1, <3>2, SecretHasBytes
    <3> QED
      BY <3>1, <3>3
  <2> HIDE DEF T
  <2>4. f \in [1 .. j -> T]
    BY <2>2
  <2>5. \A k, l \in 1 .. j : f[k] = f[l] => k = l
    BY <2>1
  <2>6. \A i \in T : \E k \in 1 .. j : f[k] = i
    BY <2>3
  <2>7. f \in Bijection(1 .. j, T)
    BY <2>4, <2>5, <2>6, Fun_IsBij
  <2>8. IsFiniteSet(1 .. j) /\ Cardinality(1 .. j) = j
    <3>1. 1 \in Int /\ j \in Int /\ j = IF 1 > j THEN 0 ELSE j - 1 + 1
      BY <2>1
    <3> QED
      BY <3>1, FS_Interval
  <2>9. Cardinality(T) = j
    BY <2>7, <2>8, FS_Bijection DEF ExistsBijection
  <2> QED
    BY <2>9 DEF T
<1>7. 3 * n - 2 \in NthToken(s, n)
  BY <1>4, <1>6 DEF NthToken
<1>8. ASSUME NEW i \in NthToken(s, n) PROVE i = 3 * n - 2
  <2>1. i \in TokenStarts(s) /\ Cardinality(upto(i)) = n
    BY DEF NthToken
  <2>2. PICK j \in 1 .. SecretBytes : i = 3 * j - 2
    BY <1>5, <2>1
  <2> HIDE DEF upto
  <2>3. Cardinality(upto(i)) = j
    BY <1>6, <2>2
  <2> QED
    BY <2>1, <2>2, <2>3
<1> QED
  BY <1>7, <1>8

LEMMA BytesOfWellFormed ==
  ASSUME NEW s \in Texts, WellFormed(s), NEW n \in 1 .. SecretBytes
  PROVE  Bytes(s)[n] = 16 * Value(s[3 * n - 2]) + Value(s[3 * n - 1])
<1> DEFINE t == Drop(s, 3 * n - 3)
<1>1. s \in Seq(Chars) /\ Len(s) = 3 * SecretBytes - 1
  BY TextPositions DEF WellFormed
<1>2. n \in Nat /\ n > 0 /\ n <= SecretBytes /\ 3 * n - 3 \in 0 .. Len(s)
  BY <1>1, SecretHasBytes
<1>3. Bytes(s)[n] = ScanHex(t)
  <2>1. NthToken(s, n) = {3 * n - 2}
    BY WellFormedTokens
  <2>2. NthToken(s, n) # {} /\ (CHOOSE i \in NthToken(s, n) : TRUE) = 3 * n - 2
    BY <2>1
  <2>3. (3 * n - 2) - 1 = 3 * n - 3
    BY <1>2
  <2> QED
    BY <2>2, <2>3 DEF Bytes
<1>4. /\ t \in Seq(Chars) /\ Len(t) = Len(s) - (3 * n - 3)
      /\ \A i \in 1 .. Len(s) - (3 * n - 3) : t[i] = s[(3 * n - 3) + i]
  BY <1>1, <1>2, DropProperties, ZenonT(60)
<1> HIDE DEF t
<1>5. /\ Len(t) >= 2 /\ 1 \in 1 .. Len(s) - (3 * n - 3) /\ 2 \in 1 .. Len(s) - (3 * n - 3)
      /\ (3 * n - 3) + 1 = 3 * n - 2 /\ (3 * n - 3) + 2 = 3 * n - 1
  <2>1. Len(t) = Len(s) - (3 * n - 3)
    BY <1>4
  <2> QED
    BY <1>1, <1>2, <2>1, SecretHasBytes
<1>6. t[1] = s[3 * n - 2] /\ t[2] = s[3 * n - 1]
  BY <1>4, <1>5
<1>7. s[3 * n - 2] \in Hex /\ s[3 * n - 1] \in Hex
  BY WellFormedPositions
<1>8. Len(t) > 2 => t[3] \notin Hex
  <2> SUFFICES ASSUME Len(t) > 2 PROVE t[3] \notin Hex
    OBVIOUS
  <2>1. Len(t) = Len(s) - (3 * n - 3)
    BY <1>4
  <2>2. n \in 1 .. SecretBytes - 1 /\ 3 \in 1 .. Len(s) - (3 * n - 3) /\ (3 * n - 3) + 3 = 3 * n
    BY <1>1, <1>2, <2>1, SecretHasBytes
  <2>3. t[3] = s[3 * n] /\ s[3 * n] = " "
    BY <1>4, <2>2, WellFormedPositions
  <2> QED
    BY <2>3, CharacterClasses
<1>9. t \in Seq(Chars)
  BY <1>4
<1> QED
  BY <1>3, <1>5, <1>6, <1>7, <1>8, <1>9, TwoDigits

\* Secrets are compared byte by byte.
LEMMA SameBytes ==
  ASSUME NEW b \in Bits, NEW c \in Bits, \A i \in 1 .. SecretBytes : b[i] = c[i]
  PROVE  b = c
<1> DEFINE D == 1 .. SecretBytes
           R == 0 .. 255
<1>1. b \in [D -> R] /\ c \in [D -> R] /\ \A i \in D : b[i] = c[i]
  BY DEF Bits
<1> HIDE DEF D, R
<1>2. b = [i \in D |-> b[i]] /\ c = [i \in D |-> c[i]]
  BY <1>1
<1> QED
  BY <1>1, <1>2

\* Two lines as the prompt asks give the same secret exactly when they are the same line
\* but for the case of its letters.
THEOREM SecretsAreToldApart ==
  ASSUME NEW s \in Texts, NEW t \in Texts, WellFormed(s), WellFormed(t)
  PROVE  Bytes(s) = Bytes(t) <=> Alike(s, t)
<1>1. /\ Len(s) = 3 * SecretBytes - 1 /\ Len(t) = Len(s)
      /\ DOMAIN s = 1 .. Len(s)
  BY TextPositions DEF WellFormed
<1>2. ASSUME NEW n \in 1 .. SecretBytes
      PROVE  Bytes(s)[n] = Bytes(t)[n]
               <=> /\ Lower(s[3 * n - 2]) = Lower(t[3 * n - 2])
                   /\ Lower(s[3 * n - 1]) = Lower(t[3 * n - 1])
  <2>1. s[3 * n - 2] \in Hex /\ s[3 * n - 1] \in Hex /\ t[3 * n - 2] \in Hex /\ t[3 * n - 1] \in Hex
    BY WellFormedPositions
  <2>2. /\ Bytes(s)[n] = 16 * Value(s[3 * n - 2]) + Value(s[3 * n - 1])
        /\ Bytes(t)[n] = 16 * Value(t[3 * n - 2]) + Value(t[3 * n - 1])
    BY BytesOfWellFormed
  <2> QED
    BY <2>1, <2>2, ByteTellsDigits
<1>3. ASSUME NEW n \in 1 .. SecretBytes - 1 PROVE s[3 * n] = t[3 * n]
  BY WellFormedPositions
<1>4. ASSUME Bytes(s) = Bytes(t) PROVE Alike(s, t)
  <2>1. ASSUME NEW i \in 1 .. Len(s) PROVE Lower(s[i]) = Lower(t[i])
    <3>1. i \in Nat /\ i > 0 /\ i <= 3 * SecretBytes - 1
      BY <1>1, SecretHasBytes
    <3>2. PICK j \in 1 .. SecretBytes :
            i = 3 * j - 2 \/ i = 3 * j - 1 \/ (i = 3 * j /\ j <= SecretBytes - 1)
      BY <3>1, SecretHasBytes, ThreeResidues
    <3>3. CASE i = 3 * j - 2 \/ i = 3 * j - 1
      BY <1>2, <1>4, <3>3
    <3>4. CASE i = 3 * j /\ j <= SecretBytes - 1
      <4>1. j \in 1 .. SecretBytes - 1
        BY <3>4, SecretHasBytes
      <4> QED
        BY <1>3, <3>4, <4>1
    <3> QED
      BY <3>2, <3>3, <3>4
  <2> QED
    BY <1>1, <2>1 DEF Alike
<1>5. ASSUME Alike(s, t) PROVE Bytes(s) = Bytes(t)
  <2>1. \A i \in 1 .. Len(s) : Lower(s[i]) = Lower(t[i])
    BY <1>1, <1>5 DEF Alike
  <2>2. ASSUME NEW n \in 1 .. SecretBytes PROVE Bytes(s)[n] = Bytes(t)[n]
    <3>1. 3 * n - 2 \in 1 .. Len(s) /\ 3 * n - 1 \in 1 .. Len(s)
      BY <1>1, SecretHasBytes
    <3> QED
      BY <1>2, <2>1, <3>1
  <2>3. Bytes(s) \in Bits /\ Bytes(t) \in Bits
    BY TextPositions, BytesType
  <2> QED
    BY <2>2, <2>3, SameBytes
<1> QED
  BY <1>4, <1>5

\* One round of cl's loop over a secret as asked: it scans the next byte and comes to
\* the next one, and behind the last to the end of the line.
LEMMA SecretRound ==
  ASSUME NEW line \in Texts, WellFormed(line), NEW k \in 1 .. SecretBytes,
         NEW s, s = Drop(line \o EndOfLine, 3 * (k - 1)),
         NEW rest, rest = Drop(s, Prefix(s, Hex))
  PROVE  /\ s # <<>> /\ ScanHex(s) = Bytes(line)[k]
         /\ k = SecretBytes => GetChar(rest) = <<>>
         /\ k # SecretBytes => SkipBlanks(rest) = Drop(line \o EndOfLine, 3 * k)
<1> DEFINE u == line \o EndOfLine
           m == 3 * k - 3
<1>1. Len(line) = 3 * SecretBytes - 1
  BY DEF WellFormed
<1>2. u \in Seq(Chars) /\ Len(u) = 3 * SecretBytes
  <2>1. u \in Seq(Chars) /\ Len(u) = Len(line) + 1
    BY LineEnds
  <2> HIDE DEF u
  <2> QED
    BY <1>1, <2>1, SecretHasBytes
<1>3. \A i \in 1 .. Len(line) : u[i] = line[i]
  BY LineEnds
<1>4. u[3 * SecretBytes] = "\n"
  BY <1>1, LineEnds, SecretHasBytes
<1>5. k \in Nat /\ k > 0 /\ k <= SecretBytes /\ m \in 0 .. Len(u) /\ m \in Nat /\ m = 3 * (k - 1)
  BY <1>2, SecretHasBytes
<1> HIDE DEF u, m
<1>6. s = Drop(u, m)
  BY <1>5 DEF u
<1>7. /\ s \in Seq(Chars) /\ Len(s) = Len(u) - m
      /\ \A i \in 1 .. Len(u) - m : s[i] = u[m + i]
  BY <1>2, <1>5, <1>6, DropProperties, ZenonT(60)
<1>8. Len(s) >= 3 /\ Len(s) \in Nat
  <2>1. Len(s) = Len(u) - m
    BY <1>7
  <2> QED
    BY <1>2, <1>5, <2>1, SecretHasBytes DEF m
<1>9. s[1] = line[3 * k - 2] /\ s[2] = line[3 * k - 1]
  <2>1. /\ 1 \in 1 .. Len(u) - m /\ 2 \in 1 .. Len(u) - m
        /\ m + 1 = 3 * k - 2 /\ m + 2 = 3 * k - 1
        /\ 3 * k - 2 \in 1 .. Len(line) /\ 3 * k - 1 \in 1 .. Len(line)
    BY <1>1, <1>2, <1>5, SecretHasBytes DEF m
  <2> QED
    BY <1>3, <1>7, <2>1
<1>10. s[3] = IF k = SecretBytes THEN "\n" ELSE " "
  <2>1. 3 \in 1 .. Len(u) - m /\ m + 3 = 3 * k
    BY <1>2, <1>5, SecretHasBytes DEF m
  <2>2. s[3] = u[3 * k]
    BY <1>7, <2>1
  <2>3. CASE k = SecretBytes
    BY <1>4, <2>2, <2>3
  <2>4. CASE k # SecretBytes
    <3>1. k \in 1 .. SecretBytes - 1 /\ 3 * k \in 1 .. Len(line)
      BY <1>1, <1>5, <2>4, SecretHasBytes
    <3> QED
      BY <1>3, <2>2, <2>4, <3>1, WellFormedPositions
  <2> QED
    BY <2>3, <2>4
<1>11. s[1] \in Hex /\ s[2] \in Hex /\ s[3] \in Blanks /\ s[3] \notin Hex
  BY <1>9, <1>10, WellFormedPositions, CharacterClasses
<1>12. Prefix(s, Hex) = 2 /\ ScanHex(s) = 16 * Value(s[1]) + Value(s[2])
  BY <1>7, <1>8, <1>11, TwoDigits
<1>13. ScanHex(s) = Bytes(line)[k]
  BY <1>9, <1>12, BytesOfWellFormed
<1>14. rest = Drop(s, 2)
  BY <1>12
<1>15. /\ rest \in Seq(Chars) /\ Len(rest) = Len(s) - 2
       /\ \A i \in 1 .. Len(s) - 2 : rest[i] = s[2 + i]
  <2>1. 2 \in 0 .. Len(s)
    BY <1>8
  <2>2. s \in Seq(Chars)
    BY <1>7
  <2>3. /\ Drop(s, 2) \in Seq(Chars) /\ Len(Drop(s, 2)) = Len(s) - 2
        /\ \A i \in 1 .. Len(s) - 2 : Drop(s, 2)[i] = s[2 + i]
    BY <2>1, <2>2, DropProperties, ZenonT(60)
  <2> QED
    BY <1>14, <2>3
<1>16. Drop(rest, 1) = Drop(u, 3 * k)
  <2>1. 1 \in 0 .. Len(s) - 2 /\ 2 \in 0 .. Len(s)
    BY <1>8
  <2>2. Drop(rest, 1) = Drop(s, 2 + 1)
    BY <1>7, <1>14, <2>1, DropTwice
  <2>3. 3 \in 0 .. Len(u) - m /\ m + 3 = 3 * k
    BY <1>2, <1>5, SecretHasBytes DEF m
  <2>4. Drop(s, 3) = Drop(u, m + 3)
    BY <1>2, <1>5, <1>6, <2>3, DropTwice
  <2> QED
    BY <2>2, <2>3, <2>4
<1>17. ASSUME k = SecretBytes PROVE GetChar(rest) = <<>>
  BY <1>2, <1>16, <1>17, DropAll DEF GetChar
<1>18. ASSUME k # SecretBytes PROVE SkipBlanks(rest) = Drop(u, 3 * k)
  <2>1. Len(s) >= 6
    <3>1. Len(s) = Len(u) - m
      BY <1>7
    <3> QED
      BY <1>2, <1>5, <1>18, <3>1, SecretHasBytes DEF m
  <2>2. rest[1] = s[3] /\ rest[2] = s[4]
    BY <1>8, <1>15, <2>1
  <2>3. s[4] = line[3 * (k + 1) - 2] /\ k + 1 \in 1 .. SecretBytes
    <3>1. /\ 4 \in 1 .. Len(u) - m /\ m + 4 = 3 * (k + 1) - 2
          /\ 3 * (k + 1) - 2 \in 1 .. Len(line) /\ k + 1 \in 1 .. SecretBytes
      BY <1>1, <1>2, <1>5, <1>18, SecretHasBytes DEF m
    <3> QED
      BY <1>3, <1>7, <3>1
  <2>4. rest[1] \in Blanks /\ rest[2] \notin Blanks
    BY <1>11, <2>2, <2>3, WellFormedPositions, CharacterClasses
  <2>5. Prefix(rest, Blanks) = 1
    <3>1. Len(rest) \in Nat /\ Len(rest) >= 4
      BY <1>8, <1>15, <2>1
    <3>2. /\ 1 \in 0 .. Len(rest) /\ \A i \in 1 .. 1 : rest[i] \in Blanks
          /\ 1 < Len(rest) => rest[1 + 1] \notin Blanks
      BY <2>4, <3>1
    <3> QED
      BY <1>15, <3>2, PrefixIs
  <2> QED
    BY <1>16, <2>5 DEF SkipBlanks
<1>19. s # <<>>
  BY <1>8
<1> QED
  BY <1>13, <1>17, <1>18, <1>19 DEF u

-----------------------------------------------------------------------------
(***************************************************************************)
(* Whatever is typed: the types of what is read and of what is left.       *)
(***************************************************************************)
LEMMA DropEnded ==
  ASSUME NEW s \in Seq(Chars), Ended(s), NEW n \in 0 .. Len(s)
  PROVE  Drop(s, n) \in Seq(Chars) /\ Ended(Drop(s, n))
<1> DEFINE t == Drop(s, n)
<1>1. /\ t \in Seq(Chars) /\ Len(t) = Len(s) - n
      /\ \A i \in 1 .. Len(s) - n : t[i] = s[n + i]
  BY DropProperties, ZenonT(60)
<1> HIDE DEF t
<1>2. ASSUME t # <<>> PROVE t[Len(t)] = "\n"
  <2>1. Len(t) \in Nat /\ Len(t) > 0 /\ Len(s) \in Nat
    BY <1>1, <1>2
  <2>2. Len(s) - n \in 1 .. Len(s) - n /\ n + (Len(s) - n) = Len(s) /\ s # <<>>
    BY <1>1, <2>1
  <2>3. t[Len(t)] = s[Len(s)]
    BY <1>1, <2>2
  <2> QED
    BY <2>2, <2>3 DEF Ended
<1> QED
  BY <1>1, <1>2 DEF Ended, t

LEMMA GetCharEnded ==
  ASSUME NEW s \in Seq(Chars), Ended(s)
  PROVE  GetChar(s) \in Seq(Chars) /\ Ended(GetChar(s))
<1>1. CASE s = <<>>
  <2>1. Drop(s, 1) = <<>>
    <3>1. Len(s) = 0
      BY <1>1
    <3> QED
      BY <3>1, SubSeqEmpty DEF Drop
  <2>2. GetChar(s) = <<>>
    BY <2>1 DEF GetChar
  <2>3. <<>> \in Seq(Chars) /\ Ended(<<>>)
    BY DEF Ended
  <2> QED
    BY <2>2, <2>3
<1>2. CASE s # <<>>
  <2>1. 1 \in 0 .. Len(s)
    BY <1>2
  <2>2. Drop(s, 1) \in Seq(Chars) /\ Ended(Drop(s, 1))
    BY <2>1, DropEnded
  <2> QED
    BY <2>2 DEF GetChar
<1> QED
  BY <1>1, <1>2

LEMMA SkipBlanksEnded ==
  ASSUME NEW s \in Seq(Chars), Ended(s)
  PROVE  SkipBlanks(s) \in Seq(Chars) /\ Ended(SkipBlanks(s))
<1>1. Prefix(s, Blanks) \in 0 .. Len(s)
  BY PrefixProperties
<1> QED
  BY <1>1, DropEnded DEF SkipBlanks

LEMMA TypedEnded ==
  ASSUME NEW s \in Seq(Chars), NEW line \in Texts
  PROVE  s \o line \o EndOfLine \in Seq(Chars) /\ Ended(s \o line \o EndOfLine)
<1> DEFINE t == s \o line
           u == t \o EndOfLine
<1>1. t \in Seq(Chars)
  BY LineEnds, ConcatProperties
<1> HIDE DEF t
<1>2. EndOfLine \in Seq(Chars) /\ Len(EndOfLine) = 1 /\ EndOfLine[1] = "\n"
  BY EndOfLineIs
<1>3. /\ u \in Seq(Chars) /\ Len(u) = Len(t) + 1
      /\ \A i \in 1 .. Len(t) + 1 : u[i] = IF i <= Len(t) THEN t[i] ELSE EndOfLine[i - Len(t)]
  <2>1. EndOfLine \in Seq(Chars)
    BY <1>2
  <2>2. /\ u \in Seq(Chars) /\ Len(u) = Len(t) + Len(EndOfLine)
        /\ \A i \in 1 .. Len(t) + Len(EndOfLine) :
             u[i] = IF i <= Len(t) THEN t[i] ELSE EndOfLine[i - Len(t)]
    BY <1>1, <2>1, ConcatProperties
  <2> QED
    BY <1>2, <2>2
<1>4. Len(t) \in Nat /\ Len(t) + 1 \in 1 .. Len(t) + 1 /\ (Len(t) + 1) - Len(t) = 1 /\ ~(Len(t) + 1 <= Len(t))
  BY <1>1
<1>5. u[Len(t) + 1] = "\n"
  BY <1>2, <1>3, <1>4
<1> QED
  BY <1>3, <1>5 DEF Ended, t

LEMMA LineType ==
  ASSUME NEW s \in Seq(Chars), Ended(s), s # <<>>, NEW size \in Nat \ {0, 1}
  PROVE  /\ Takes(s, size) \in 0 .. Len(s)
         /\ Line(s, size) \in Texts /\ Len(Line(s, size)) < size
<1> DEFINE text == Chars \ {"\n"}
           p == Prefix(s, text)
           n == Takes(s, size)
<1>1. Len(s) \in Nat /\ Len(s) > 0 /\ s[Len(s)] = "\n" /\ \A i \in 1 .. Len(s) : s[i] \in Chars
  BY ElementOfSeq DEF Ended
<1>2. /\ p \in 0 .. Len(s) /\ \A i \in 1 .. p : s[i] \in text
      /\ p < Len(s) => s[p + 1] \notin text
  BY PrefixProperties
<1>3. n = IF p < size - 1 THEN p + 1 ELSE size - 1
  BY DEF Takes
<1>4. p < Len(s)
  <2> SUFFICES ASSUME p = Len(s) PROVE FALSE
    BY <1>1, <1>2
  <2>1. Len(s) \in 1 .. p
    BY <1>1
  <2>2. s[Len(s)] \in text
    BY <1>2, <2>1
  <2> QED
    BY <1>1, <2>2
<1>5. s[p + 1] = "\n" /\ p \in Nat /\ p + 1 \in 1 .. Len(s)
  <2>1. p \in Nat /\ p + 1 \in 1 .. Len(s)
    BY <1>1, <1>2, <1>4
  <2> QED
    BY <1>1, <1>2, <1>4, <2>1
<1> HIDE DEF p, n
<1>6. CASE p < size - 1
  <2>1. n = p + 1 /\ n - 1 = p /\ n \in 0 .. Len(s)
    BY <1>1, <1>3, <1>5, <1>6
  <2>2. Line(s, size) = SubSeq(s, 1, p)
    BY <1>5, <2>1 DEF Line, n
  <2>3. SubSeq(s, 1, p) \in Seq(text) /\ Len(SubSeq(s, 1, p)) = p
    <3>1. \A i \in 1 .. p : s[i] \in text
      BY <1>2
    <3>2. 1 \in Int /\ p \in Int /\ p = IF 1 <= p THEN p - 1 + 1 ELSE 0
      BY <1>5
    <3> HIDE DEF text
    <3> QED
      BY <3>1, <3>2, SubSeqProperties
  <2>4. p < size
    BY <1>5, <1>6
  <2> QED
    BY <2>1, <2>2, <2>3, <2>4 DEF Texts, n
<1>7. CASE ~(p < size - 1)
  <2>1. n = size - 1 /\ n \in 1 .. p /\ n \in 0 .. Len(s) /\ n \in Nat /\ n >= 1 /\ n < size
    BY <1>1, <1>3, <1>5, <1>7
  <2>2. s[n] # "\n"
    BY <1>2, <2>1
  <2>3. Line(s, size) = SubSeq(s, 1, n)
    BY <2>2 DEF Line, n
  <2>4. SubSeq(s, 1, n) \in Seq(text) /\ Len(SubSeq(s, 1, n)) = n
    <3>1. \A i \in 1 .. n : s[i] \in text
      BY <1>2, <1>5, <2>1
    <3>2. 1 \in Int /\ n \in Int /\ n = IF 1 <= n THEN n - 1 + 1 ELSE 0
      BY <2>1
    <3> HIDE DEF text
    <3> QED
      BY <3>1, <3>2, SubSeqProperties
  <2> QED
    BY <2>1, <2>3, <2>4 DEF Texts, n
<1> QED
  BY <1>6, <1>7

LEMMA ScannedIsNatural ==
  ASSUME NEW s \in Seq(Chars)
  PROVE  /\ Prefix(s, Digits) \in 0 .. Len(s)
         /\ Decimal(SubSeq(s, 1, Prefix(s, Digits))) \in Nat
<1> DEFINE n == Prefix(s, Digits)
<1>1. n \in 0 .. Len(s) /\ \A i \in 1 .. n : s[i] \in Digits
  BY PrefixProperties
<1> HIDE DEF n
<1>2. SubSeq(s, 1, n) \in Seq(Digits)
  <2>1. 1 \in Int /\ n \in Int
    BY <1>1
  <2> QED
    BY <1>1, <2>1, SubSeqProperties
<1> QED
  BY <1>1, <1>2, DecimalIsNatural DEF n

-----------------------------------------------------------------------------
(***************************************************************************)
(* The invariant.                                                          *)
(***************************************************************************)
LEMMA PromptsAre ==
  /\ Prompts = {"ID", "secret", "data", "choice", "offset", "length"}
  /\ \A p \in LinePrompts : Size[p] \in Nat \ {0, 1}
  /\ \A p \in Prompts : Inputs[p] \subseteq Texts
<1> QED
  BY ClientsAssumption DEF Prompts, LinePrompts

LEMMA ProgramsAre == \A p \in Programs : p \in {"cl", "full"}
<1> QED
  BY ClientsAssumption

LEMMA NothingTyped == Nothing \in [Prompts -> Texts \cup {NULL}] /\ \A p \in Prompts : Nothing[p] = NULL
<1> QED
  BY DEF Nothing

LEMMA ClearedSecret == NoSecret \in Bits
<1> QED
  BY DEF NoSecret, Bits

LEMMA EmptyText ==
  <<>> \in Texts /\ <<>> \in Seq(Chars) /\ Ended(<<>>)
  /\ \A p \in LinePrompts : Len(<<>>) < Size[p]
<1>1. <<>> \in Texts /\ <<>> \in Seq(Chars) /\ Len(<<>>) = 0
  BY DEF Texts
<1>2. Ended(<<>>)
  BY DEF Ended
<1>3. \A p \in LinePrompts : 0 < Size[p]
  BY PromptsAre
<1> QED
  BY <1>1, <1>2, <1>3

LEMMA InitHolds == Init => ClientsInv
<1> SUFFICES ASSUME Init PROVE ClientsInv
  OBVIOUS
<1>1. TypeOK
  <2>1. 1 \in 1 .. SecretBytes
    BY SecretHasBytes
  <2>2. lines \in 0 .. MaxLines
    BY ClientsAssumption DEF Init
  <2>3. DOMAIN store \subseteq Texts /\ store \in [DOMAIN store -> Blocks]
    <3>1. store = <<>> /\ DOMAIN store = {}
      BY DEF Init
    <3> QED
      BY <3>1
  <2>4. id \in Texts /\ Len(id) < Size["ID"] /\ data \in Texts /\ Len(data) < Size["data"]
    BY EmptyText DEF Init, LinePrompts
  <2>5. secret \in Bits
    BY ClearedSecret DEF Init
  <2> QED
    BY <2>1, <2>2, <2>3, <2>4, <2>5, EmptyText, NothingTyped, PromptsAre DEF Init, TypeOK
<1>2. PlaceInv
  BY EmptyText DEF Init, PlaceInv
<1>3. TerminalInv
  BY OnlyEndOfLine DEF Init, TerminalInv, NumberPending
<1>4. ReadInv
  BY DEF Init, ReadInv, Command
<1>5. StoreInv
  BY DEF Init, StoreInv
<1>6. ShownInv
  BY DEF Init, ShownInv
<1> QED
  BY <1>1, <1>2, <1>3, <1>4, <1>5, <1>6 DEF ClientsInv

\* The user types a line.
LEMMA TypeLineStep ==
  ASSUME ClientsInv, TypeLine
  PROVE  ClientsInv'
<1> USE DEF ClientsInv
<1>1. /\ pc \in Prompts /\ lines < MaxLines /\ lines' = lines + 1
      /\ UNCHANGED <<program, pc, choice, id, secret, data, offset, length, byte, store, shown>>
  BY DEF TypeLine, Waiting, args
<1>2. IF ReadsLine THEN stdin = <<>> ELSE SkipBlanks(stdin) = <<>>
  BY DEF TypeLine, Waiting
<1>3. PICK line \in Inputs[pc] :
        /\ stdin' = stdin \o line \o EndOfLine
        /\ typed' = [IF pc = "choice" THEN Nothing ELSE typed EXCEPT ![pc] = line]
        /\ careful' = (AsAsked(line) /\ (careful \/ pc = "choice"))
  BY DEF TypeLine, EndOfLine
<1>4. line \in Texts /\ stdin \in Seq(Chars) /\ typed \in [Prompts -> Texts \cup {NULL}]
  BY <1>1, PromptsAre DEF TypeOK
<1>5. stdin' \in Seq(Chars) /\ Ended(stdin')
  BY <1>3, <1>4, TypedEnded
<1>6. /\ typed' \in [Prompts -> Texts \cup {NULL}] /\ typed'[pc] = line
      /\ pc # "choice" => \A p \in Prompts \ {pc} : typed'[p] = typed[p]
      /\ pc = "choice" => \A p \in Prompts \ {pc} : typed'[p] = NULL
  BY <1>1, <1>3, <1>4, NothingTyped
<1>7. TypeOK'
  <2>1. lines' \in 0 .. MaxLines
    BY <1>1, ClientsAssumption DEF TypeOK
  <2>2. careful' \in BOOLEAN
    BY <1>3 DEF TypeOK
  <2> QED
    BY <1>1, <1>5, <1>6, <2>1, <2>2 DEF TypeOK
<1>8. PlaceInv'
  BY <1>1, <1>5 DEF PlaceInv
<1>9. TerminalInv'
  <2> SUFFICES ASSUME careful' PROVE TerminalInv'
    BY DEF TerminalInv
  <2>1. AsAsked(line) /\ (careful \/ pc = "choice")
    BY <1>3
  <2>2. CASE pc \in {"choice", "offset", "length"}
    <3>1. Number(line)
      BY <1>4, <2>1, <2>2 DEF AsAsked, Number
    <3>2. SkipBlanks(stdin) = <<>>
      BY <1>2, <2>2 DEF ReadsLine
    <3>3. SkipBlanks(stdin') = line \o EndOfLine
      BY <1>3, <1>4, <3>1, <3>2, NumberIsRead, BlanksAreSkipped DEF Number
    <3>4. NumberPending(pc)'
      BY <1>1, <1>6, <3>1, <3>3 DEF NumberPending
    <3>5. pc = "choice" => typed'["secret"] = NULL
      BY <1>6, PromptsAre
    <3> QED
      BY <1>1, <2>2, <3>4, <3>5 DEF TerminalInv
  <2>3. CASE pc = "secret" /\ program = "cl"
    <3>1. WellFormed(line) /\ careful
      BY <2>1, <2>3 DEF AsAsked
    <3>2. SkipBlanks(stdin) = <<>>
      BY <1>2, <2>3 DEF ReadsLine
    <3>3. stdin = <<>> /\ byte = 1
      <4>1. SecretPending
        BY <2>3, <3>1 DEF TerminalInv
      <4>2. CASE stdin = <<>> /\ byte = 1 /\ typed["secret"] = NULL
        BY <4>2
      <4>3. CASE /\ typed["secret"] \in Texts /\ WellFormed(typed["secret"])
                 /\ SkipBlanks(stdin) = Drop(typed["secret"] \o EndOfLine, 3 * (byte - 1))
        <5>1. byte \in 1 .. SecretBytes
          BY DEF TypeOK
        <5>2. SkipBlanks(stdin) # <<>>
          BY <4>3, <5>1, SecretRound
        <5> QED
          BY <3>2, <5>2
      <4> QED
        BY <4>1, <4>2, <4>3 DEF SecretPending
    <3>4. line # <<>> /\ line[1] \notin Blanks
      <4>1. 1 \in 1 .. SecretBytes /\ 3 * 1 - 2 = 1
        BY SecretHasBytes
      <4>2. Len(line) = 3 * SecretBytes - 1 /\ line[3 * 1 - 2] \in Hex
        BY <1>4, <3>1, <4>1, WellFormedPositions
      <4>3. line # <<>>
        <5>1. Len(line) # 0 /\ Len(<<>>) = 0
          BY <4>2, SecretHasBytes
        <5> QED
          BY <5>1
      <4>4. line[1] \in Hex
        BY <4>1, <4>2
      <4> QED
        BY <4>3, <4>4, CharacterClasses
    <3>5. SkipBlanks(stdin') = line \o EndOfLine
      BY <1>3, <1>4, <3>2, <3>4, BlanksAreSkipped
    <3>6. line \o EndOfLine = Drop(line \o EndOfLine, 3 * (byte - 1))
      <4>1. 3 * (byte - 1) = 0
        BY <3>3
      <4> QED
        BY <1>4, <4>1, LineEnds, DropAll
    <3>7. \A i \in 1 .. byte - 1 : FALSE
      BY <3>3
    <3>8. SecretPending'
      BY <1>1, <1>4, <1>6, <2>3, <3>1, <3>5, <3>6, <3>7 DEF SecretPending
    <3> QED
      BY <1>1, <2>3, <3>8 DEF TerminalInv
  <2>4. CASE pc \in {"ID", "data"} \/ (pc = "secret" /\ program # "cl")
    <3>1. Len(line) + 1 < Size[pc]
      BY <2>1, <2>4 DEF AsAsked
    <3>2. stdin = <<>>
      BY <1>1, <1>2, <2>4, ProgramsAre DEF ReadsLine, TypeOK
    <3>3. stdin' = line \o EndOfLine /\ stdin' # <<>>
      <4>1. line \in Seq(Chars) /\ EndOfLine \in Seq(Chars)
        BY <1>4, LineEnds, EndOfLineIs
      <4>2. <<>> \o line = line
        BY <4>1, ConcatEmptySeq
      <4>3. Len(line \o EndOfLine) = Len(line) + 1 /\ Len(line) \in Nat
        BY <1>4, LineEnds
      <4> QED
        BY <1>3, <3>2, <4>2, <4>3
    <3>4. LinePending(pc)'
      BY <1>1, <1>4, <1>6, <3>1, <3>3 DEF LinePending
    <3>5. pc = "ID" => typed'["secret"] = NULL
      BY <1>6, <2>1, PromptsAre DEF TerminalInv
    <3> QED
      BY <1>1, <2>4, <3>3, <3>4, <3>5 DEF TerminalInv
  <2> QED
    BY <1>1, <2>2, <2>3, <2>4, PromptsAre
<1>10. ReadInv'
  <2> SUFFICES ASSUME careful' PROVE ReadInv'
    BY DEF ReadInv
  <2>1. CASE pc = "choice"
    BY <1>1, <2>1 DEF ReadInv, Command
  <2>2. CASE pc # "choice"
    <3>1. careful
      BY <1>3, <2>2
    <3>2. pc # "call" /\ \A p \in Prompts \ {pc} : typed'[p] = typed[p]
      BY <1>1, <1>6, <2>2, PromptsAre
    <3> QED
      BY <1>1, <2>2, <3>1, <3>2, PromptsAre DEF ReadInv, Command
  <2> QED
    BY <2>1, <2>2
<1>11. StoreInv' /\ ShownInv'
  BY <1>1 DEF StoreInv, ShownInv, Prints
<1> QED
  BY <1>7, <1>8, <1>9, <1>10, <1>11

\* An item is chosen in the menu.
LEMMA ReadChoiceStep ==
  ASSUME ClientsInv, ReadChoice
  PROVE  ClientsInv'
<1> USE DEF ClientsInv
<1> DEFINE s == SkipBlanks(stdin)
           n == Prefix(s, Digits)
<1>1. /\ pc = "choice" /\ s # <<>>
      /\ choice' \in IF n > 0 THEN {Decimal(SubSeq(s, 1, n))} ELSE Unscanned
      /\ stdin' = GetChar(Drop(s, n))
      /\ pc' = CASE choice' \in 1 .. 4 -> "ID" [] choice' = 5 -> "off" [] OTHER -> "choice"
      /\ id' = <<>> /\ secret' = NoSecret /\ data' = <<>>
      /\ offset' = NULL /\ length' = NULL /\ shown' = NULL
      /\ UNCHANGED <<program, byte, typed, careful, store, lines>>
  BY PromptsAre DEF ReadChoice, Waiting, ReadsLine
<1>2. s \in Seq(Chars) /\ Ended(s)
  BY SkipBlanksEnded DEF TypeOK, PlaceInv
<1>3. n \in 0 .. Len(s) /\ choice' \in Nat
  <2>1. \A c \in Unscanned : c \in Nat
    BY DEF Unscanned
  <2> QED
    BY <1>1, <1>2, <2>1, ScannedIsNatural
<1>4. stdin' \in Seq(Chars) /\ Ended(stdin')
  <2>1. Drop(s, n) \in Seq(Chars) /\ Ended(Drop(s, n))
    BY <1>2, <1>3, DropEnded
  <2> QED
    BY <1>1, <2>1, GetCharEnded
<1>5. pc' \in {"ID", "off", "choice"} /\ (pc' = "ID" => choice' \in 1 .. 4)
  BY <1>1
<1>6. ASSUME careful
      PROVE  choice' = Decimal(typed["choice"]) /\ stdin' = <<>> /\ typed["secret"] = NULL
  <2>1. s = typed["choice"] \o EndOfLine /\ Number(typed["choice"]) /\ typed["secret"] = NULL
    BY <1>1, <1>6 DEF TerminalInv, NumberPending
  <2> HIDE DEF s
  <2>2. Len(typed["choice"]) > 0 /\ n = Len(typed["choice"])
        /\ SubSeq(s, 1, n) = typed["choice"] /\ Drop(s, n) = EndOfLine
    BY <2>1, NumberIsRead
  <2> QED
    BY <1>1, <2>1, <2>2, OnlyEndOfLine
<1> HIDE DEF s, n
<1>7. TypeOK'
  <2>1. id' \in Texts /\ Len(id') < Size["ID"] /\ data' \in Texts /\ Len(data') < Size["data"]
    BY <1>1, EmptyText DEF LinePrompts
  <2>2. secret' \in Bits
    BY <1>1, ClearedSecret
  <2> QED
    BY <1>1, <1>3, <1>4, <1>5, <2>1, <2>2, PromptsAre DEF TypeOK
<1>8. PlaceInv'
  BY <1>1, <1>4, <1>5 DEF PlaceInv
<1>9. TerminalInv'
  BY <1>1, <1>5, <1>6, OnlyEndOfLine DEF TerminalInv, NumberPending, LinePending
<1>10. ReadInv'
  BY <1>1, <1>5, <1>6 DEF ReadInv, Command
<1>11. StoreInv' /\ ShownInv'
  BY <1>1 DEF StoreInv, ShownInv
<1> QED
  BY <1>7, <1>8, <1>9, <1>10, <1>11

\* The ID is read, cut to its array.
LEMMA ReadIDStep ==
  ASSUME ClientsInv, ReadID
  PROVE  ClientsInv'
<1> USE DEF ClientsInv
<1>1. /\ pc = "ID" /\ stdin # <<>> /\ pc' = "secret"
      /\ id' = Line(stdin, Size["ID"])
      /\ stdin' = Drop(stdin, Takes(stdin, Size["ID"]))
      /\ UNCHANGED <<program, choice, secret, data, offset, length, byte, typed, careful, store, shown, lines>>
  BY PromptsAre DEF ReadID, Waiting, ReadsLine
<1>2. stdin \in Seq(Chars) /\ Ended(stdin) /\ Size["ID"] \in Nat \ {0, 1}
  BY PromptsAre DEF TypeOK, PlaceInv, LinePrompts
<1>3. stdin' \in Seq(Chars) /\ Ended(stdin') /\ id' \in Texts /\ Len(id') < Size["ID"]
  BY <1>1, <1>2, LineType, DropEnded
<1>4. ASSUME careful
      PROVE  stdin' = <<>> /\ id' = typed["ID"] /\ typed["secret"] = NULL
             /\ choice = Decimal(typed["choice"])
  BY <1>1, <1>2, <1>4, LineIsRead DEF TerminalInv, LinePending, ReadInv, Command
<1>5. TypeOK'
  BY <1>1, <1>3, PromptsAre DEF TypeOK
<1>6. PlaceInv'
  BY <1>1, <1>3 DEF PlaceInv
<1>7. TerminalInv'
  BY <1>1, <1>4 DEF TerminalInv, LinePending, SecretPending, PlaceInv
<1>8. ReadInv'
  BY <1>1, <1>4 DEF ReadInv, Command
<1>9. StoreInv' /\ ShownInv'
  BY <1>1 DEF StoreInv, ShownInv, PlaceInv
<1> QED
  BY <1>5, <1>6, <1>7, <1>8, <1>9

\* full_client reads a line for the secret and accepts it or asks again.
LEMMA readClientSecretStep ==
  ASSUME ClientsInv, readClientSecret
  PROVE  ClientsInv'
<1> USE DEF ClientsInv
<1> DEFINE s == Line(stdin, Size["secret"])
<1>1. /\ pc = "secret" /\ program = "full" /\ stdin # <<>>
      /\ IF isValidSecret(s) THEN secret' = Bytes(s) /\ pc' = AfterSecret ELSE UNCHANGED <<secret, pc>>
      /\ stdin' = Drop(stdin, Takes(stdin, Size["secret"]))
      /\ UNCHANGED <<program, choice, id, data, offset, length, byte, typed, careful, store, shown, lines>>
  BY PromptsAre DEF readClientSecret, Waiting, ReadsLine
<1>2. stdin \in Seq(Chars) /\ Ended(stdin) /\ Size["secret"] \in Nat \ {0, 1}
  BY PromptsAre DEF TypeOK, PlaceInv, LinePrompts
<1>3. stdin' \in Seq(Chars) /\ Ended(stdin') /\ s \in Texts
  BY <1>1, <1>2, LineType, DropEnded
<1>4. ASSUME careful
      PROVE  stdin' = <<>> /\ s = typed["secret"]
  BY <1>1, <1>2, <1>4, LineIsRead DEF TerminalInv, LinePending
<1> HIDE DEF s
<1>5. /\ choice \in {1, 2} => AfterSecret = "data"
      /\ choice = 3 => AfterSecret = "offset"
      /\ choice = 4 => AfterSecret = "call"
      /\ choice \in 1 .. 4
  BY <1>1 DEF AfterSecret, PlaceInv
<1>6. pc' \in {"secret", "data", "offset", "call"}
  BY <1>1, <1>5
<1>7. Bytes(s) \in Bits
  <2>1. s \in Seq(Chars)
    BY <1>3, TextPositions
  <2> QED
    BY <2>1, BytesType
<1>8. TypeOK'
  <2>1. secret' \in Bits
    BY <1>1, <1>7 DEF TypeOK
  <2> QED
    BY <1>1, <1>3, <1>6, <2>1, PromptsAre DEF TypeOK
<1>9. PlaceInv'
  BY <1>1, <1>3, <1>5, <1>6 DEF PlaceInv
<1>10. TerminalInv'
  <2> SUFFICES ASSUME careful PROVE TerminalInv'
    BY <1>1 DEF TerminalInv
  <2>1. pc' = "secret" => ~isValidSecret(typed["secret"])
    BY <1>1, <1>4, <1>5
  <2> QED
    BY <1>1, <1>4, <1>6, <2>1, OnlyEndOfLine DEF TerminalInv, LinePending, NumberPending
<1>11. ReadInv'
  <2> SUFFICES ASSUME careful PROVE ReadInv'
    BY <1>1 DEF ReadInv
  <2>1. pc' # "secret" => isValidSecret(typed["secret"]) /\ secret' = Bytes(typed["secret"])
    BY <1>1, <1>4
  <2> QED
    BY <1>1, <1>3, <1>4, <1>5, <1>6, <2>1 DEF ReadInv, Command
<1>12. StoreInv' /\ ShownInv'
  BY <1>1 DEF StoreInv, ShownInv, PlaceInv
<1> QED
  BY <1>8, <1>9, <1>10, <1>11, <1>12

\* cl scans a byte of the secret, and behind the last the end of its line.
LEMMA readSecretStep ==
  ASSUME ClientsInv, readSecret
  PROVE  ClientsInv'
<1> USE DEF ClientsInv
<1> DEFINE s == SkipBlanks(stdin)
           rest == Drop(s, Prefix(s, Hex))
           last == byte = SecretBytes
<1>1. /\ pc = "secret" /\ program = "cl" /\ s # <<>>
      /\ secret' = [secret EXCEPT ![byte] = ScanHex(s)]
      /\ stdin' = IF last THEN GetChar(rest) ELSE rest
      /\ byte' = IF last THEN 1 ELSE byte + 1
      /\ pc' = IF last THEN AfterSecret ELSE pc
      /\ UNCHANGED <<program, choice, id, data, offset, length, typed, careful, store, shown, lines>>
  BY PromptsAre DEF readSecret, Waiting, ReadsLine
<1>2. s \in Seq(Chars) /\ Ended(s)
  BY SkipBlanksEnded DEF TypeOK, PlaceInv
<1>3. rest \in Seq(Chars) /\ Ended(rest)
  <2>1. Prefix(s, Hex) \in 0 .. Len(s)
    BY <1>2, PrefixProperties
  <2> QED
    BY <1>2, <2>1, DropEnded
<1>4. stdin' \in Seq(Chars) /\ Ended(stdin')
  BY <1>1, <1>3, GetCharEnded
<1>5. /\ byte \in 1 .. SecretBytes /\ byte' \in 1 .. SecretBytes
      /\ byte \in Nat /\ SecretBytes \in Nat
  BY <1>1, SecretHasBytes DEF TypeOK
<1>6. /\ secret' \in Bits
      /\ secret'[byte] = ScanHex(s)
      /\ \A i \in 1 .. SecretBytes : i # byte => secret'[i] = secret[i]
  <2>1. secret \in [1 .. SecretBytes -> 0 .. 255] /\ ScanHex(s) \in 0 .. 255
    BY <1>2, ScanHexType DEF TypeOK, Bits
  <2>2. /\ secret' \in [1 .. SecretBytes -> 0 .. 255]
        /\ secret'[byte] = ScanHex(s)
        /\ \A i \in 1 .. SecretBytes : i # byte => secret'[i] = secret[i]
    BY <1>1, <1>5, <2>1
  <2> QED
    BY <2>2 DEF Bits
<1>7. /\ choice \in {1, 2} => AfterSecret = "data"
      /\ choice = 3 => AfterSecret = "offset"
      /\ choice = 4 => AfterSecret = "call"
      /\ choice \in 1 .. 4
  BY <1>1 DEF AfterSecret, PlaceInv
<1>8. pc' \in {"secret", "data", "offset", "call"} /\ (pc' = "secret" <=> ~last)
  BY <1>1, <1>7
<1>9. ASSUME careful
      PROVE  /\ typed["secret"] \in Texts /\ WellFormed(typed["secret"])
             /\ \A i \in 1 .. byte : secret'[i] = Bytes(typed["secret"])[i]
             /\ last => stdin' = <<>>
             /\ ~last => SkipBlanks(stdin') = Drop(typed["secret"] \o EndOfLine, 3 * byte)
  <2> DEFINE line == typed["secret"]
  <2>1. SecretPending
    BY <1>1, <1>9 DEF TerminalInv
  <2>2. stdin # <<>>
    BY <1>1, OnlyEndOfLine
  <2>3. /\ line \in Texts /\ WellFormed(line)
        /\ s = Drop(line \o EndOfLine, 3 * (byte - 1))
        /\ \A i \in 1 .. byte - 1 : secret[i] = Bytes(line)[i]
    BY <2>1, <2>2 DEF SecretPending
  <2> HIDE DEF s, line
  <2>4. /\ ScanHex(s) = Bytes(line)[byte]
        /\ byte = SecretBytes => GetChar(rest) = <<>>
        /\ byte # SecretBytes => SkipBlanks(rest) = Drop(line \o EndOfLine, 3 * byte)
    <3>1. rest = Drop(s, Prefix(s, Hex))
      OBVIOUS
    <3> HIDE DEF rest
    <3> QED
      BY <1>5, <2>3, <3>1, SecretRound, SMTT(60)
  <2>5. ASSUME NEW i \in 1 .. byte PROVE secret'[i] = Bytes(line)[i]
    <3>1. CASE i = byte
      BY <1>6, <2>4, <3>1
    <3>2. CASE i # byte
      <4>1. i \in 1 .. byte - 1 /\ i \in 1 .. SecretBytes
        BY <1>5, <3>2
      <4> QED
        BY <1>6, <2>3, <3>2, <4>1
    <3> QED
      BY <3>1, <3>2
  <2> QED
    BY <1>1, <2>3, <2>4, <2>5 DEF line
<1> HIDE DEF s, rest
<1>10. ASSUME careful, last PROVE secret' = Bytes(typed["secret"])
  <2>1. typed["secret"] \in Seq(Chars)
    BY <1>9, <1>10, TextPositions
  <2>2. Bytes(typed["secret"]) \in Bits
    BY <2>1, BytesType
  <2>3. \A i \in 1 .. SecretBytes : secret'[i] = Bytes(typed["secret"])[i]
    BY <1>9, <1>10
  <2> QED
    BY <1>6, <2>2, <2>3, SameBytes
<1> HIDE DEF last
<1>11. TypeOK'
  BY <1>1, <1>4, <1>5, <1>6, <1>8, PromptsAre DEF TypeOK
<1>12. PlaceInv'
  BY <1>1, <1>4, <1>7, <1>8 DEF PlaceInv
<1>13. TerminalInv'
  <2> SUFFICES ASSUME careful PROVE TerminalInv'
    BY <1>1 DEF TerminalInv
  <2>1. CASE last
    BY <1>1, <1>8, <1>9, <2>1, OnlyEndOfLine DEF TerminalInv, LinePending, NumberPending
  <2>2. CASE ~last
    <3>1. byte' = byte + 1 /\ byte' - 1 = byte
      BY <1>1, <1>5, <2>2
    <3>2. SecretPending'
      BY <1>1, <1>9, <2>2, <3>1 DEF SecretPending
    <3> QED
      BY <1>1, <1>8, <2>2, <3>2 DEF TerminalInv
  <2> QED
    BY <2>1, <2>2
<1>14. ReadInv'
  <2> SUFFICES ASSUME careful PROVE ReadInv'
    BY <1>1 DEF ReadInv
  <2>1. last => /\ typed["secret"] \in Texts /\ isValidSecret(typed["secret"])
                /\ secret' = Bytes(typed["secret"])
    BY <1>9, <1>10, WellFormedIsValid
  <2> QED
    BY <1>1, <1>7, <1>8, <2>1 DEF ReadInv, Command
<1>15. StoreInv' /\ ShownInv'
  BY <1>1 DEF StoreInv, ShownInv, PlaceInv
<1> QED
  BY <1>11, <1>12, <1>13, <1>14, <1>15

\* The data is read, cut to its array.
LEMMA ReadDataStep ==
  ASSUME ClientsInv, ReadData
  PROVE  ClientsInv'
<1> USE DEF ClientsInv
<1>1. /\ pc = "data" /\ stdin # <<>> /\ pc' = "call"
      /\ data' = Line(stdin, Size["data"])
      /\ stdin' = Drop(stdin, Takes(stdin, Size["data"]))
      /\ UNCHANGED <<program, choice, id, secret, offset, length, byte, typed, careful, store, shown, lines>>
  BY PromptsAre DEF ReadData, Waiting, ReadsLine
<1>2. stdin \in Seq(Chars) /\ Ended(stdin) /\ Size["data"] \in Nat \ {0, 1} /\ choice \in {1, 2}
  BY <1>1, PromptsAre DEF TypeOK, PlaceInv, LinePrompts
<1>3. stdin' \in Seq(Chars) /\ Ended(stdin') /\ data' \in Texts /\ Len(data') < Size["data"]
  BY <1>1, <1>2, LineType, DropEnded
<1>4. ASSUME careful
      PROVE  stdin' = <<>> /\ data' = typed["data"]
  BY <1>1, <1>2, <1>4, LineIsRead DEF TerminalInv, LinePending
<1>5. TypeOK'
  BY <1>1, <1>3, PromptsAre DEF TypeOK
<1>6. PlaceInv'
  BY <1>1, <1>2, <1>3 DEF PlaceInv
<1>7. TerminalInv'
  BY <1>1, <1>4 DEF TerminalInv
<1>8. ReadInv'
  BY <1>1, <1>2, <1>4 DEF ReadInv, Command
<1>9. StoreInv' /\ ShownInv'
  BY <1>1 DEF StoreInv, ShownInv, PlaceInv
<1> QED
  BY <1>5, <1>6, <1>7, <1>8, <1>9

\* The offset is scanned; the end of its line stays and is skipped later.
LEMMA ReadOffsetStep ==
  ASSUME ClientsInv, ReadOffset
  PROVE  ClientsInv'
<1> USE DEF ClientsInv
<1> DEFINE s == SkipBlanks(stdin)
           n == Prefix(s, Digits)
<1>1. /\ pc = "offset" /\ s # <<>> /\ pc' = "length"
      /\ offset' = IF n > 0 THEN Decimal(SubSeq(s, 1, n)) ELSE Junk
      /\ stdin' = Drop(s, n)
      /\ UNCHANGED <<program, choice, id, secret, data, length, byte, typed, careful, store, shown, lines>>
  BY PromptsAre DEF ReadOffset, Waiting, ReadsLine
<1>2. s \in Seq(Chars) /\ Ended(s)
  BY SkipBlanksEnded DEF TypeOK, PlaceInv
<1>3. n \in 0 .. Len(s) /\ offset' \in Nat \cup {NULL, Junk}
  BY <1>1, <1>2, ScannedIsNatural
<1>4. stdin' \in Seq(Chars) /\ Ended(stdin')
  BY <1>1, <1>2, <1>3, DropEnded
<1>5. ASSUME careful
      PROVE  offset' = Decimal(typed["offset"]) /\ SkipBlanks(stdin') = <<>>
  <2>1. s = typed["offset"] \o EndOfLine /\ Number(typed["offset"])
    BY <1>1, <1>5 DEF TerminalInv, NumberPending
  <2> HIDE DEF s
  <2>2. Len(typed["offset"]) > 0 /\ n = Len(typed["offset"])
        /\ SubSeq(s, 1, n) = typed["offset"] /\ Drop(s, n) = EndOfLine
    BY <2>1, NumberIsRead
  <2> QED
    BY <1>1, <2>1, <2>2, OnlyEndOfLine
<1> HIDE DEF s, n
<1>6. TypeOK'
  BY <1>1, <1>3, <1>4, PromptsAre DEF TypeOK
<1>7. PlaceInv'
  BY <1>1, <1>4 DEF PlaceInv
<1>8. TerminalInv'
  BY <1>1, <1>5 DEF TerminalInv, NumberPending
<1>9. ReadInv'
  BY <1>1, <1>5 DEF ReadInv, Command
<1>10. StoreInv' /\ ShownInv'
  BY <1>1 DEF StoreInv, ShownInv, PlaceInv
<1> QED
  BY <1>6, <1>7, <1>8, <1>9, <1>10

\* The length is scanned, with the end of its line.
LEMMA ReadLengthStep ==
  ASSUME ClientsInv, ReadLength
  PROVE  ClientsInv'
<1> USE DEF ClientsInv
<1> DEFINE s == SkipBlanks(stdin)
           n == Prefix(s, Digits)
<1>1. /\ pc = "length" /\ s # <<>> /\ pc' = "call"
      /\ length' = IF n > 0 THEN Decimal(SubSeq(s, 1, n))
                   ELSE IF program = "full" THEN 0 ELSE Junk
      /\ stdin' = GetChar(Drop(s, n))
      /\ UNCHANGED <<program, choice, id, secret, data, offset, byte, typed, careful, store, shown, lines>>
  BY PromptsAre DEF ReadLength, Waiting, ReadsLine
<1>2. s \in Seq(Chars) /\ Ended(s) /\ choice = 3
  BY <1>1, SkipBlanksEnded DEF TypeOK, PlaceInv
<1>3. n \in 0 .. Len(s) /\ length' \in Nat \cup {NULL, Junk}
  BY <1>1, <1>2, ScannedIsNatural
<1>4. stdin' \in Seq(Chars) /\ Ended(stdin')
  <2>1. Drop(s, n) \in Seq(Chars) /\ Ended(Drop(s, n))
    BY <1>2, <1>3, DropEnded
  <2> QED
    BY <1>1, <2>1, GetCharEnded
<1>5. ASSUME careful
      PROVE  length' = Decimal(typed["length"]) /\ stdin' = <<>>
  <2>1. s = typed["length"] \o EndOfLine /\ Number(typed["length"])
    BY <1>1, <1>5 DEF TerminalInv, NumberPending
  <2> HIDE DEF s
  <2>2. Len(typed["length"]) > 0 /\ n = Len(typed["length"])
        /\ SubSeq(s, 1, n) = typed["length"] /\ Drop(s, n) = EndOfLine
    BY <2>1, NumberIsRead
  <2> QED
    BY <1>1, <2>1, <2>2, OnlyEndOfLine
<1> HIDE DEF s, n
<1>6. TypeOK'
  BY <1>1, <1>3, <1>4, PromptsAre DEF TypeOK
<1>7. PlaceInv'
  BY <1>1, <1>2, <1>4 DEF PlaceInv
<1>8. TerminalInv'
  BY <1>1, <1>5 DEF TerminalInv
<1>9. ReadInv'
  BY <1>1, <1>2, <1>5 DEF ReadInv, Command
<1>10. StoreInv' /\ ShownInv'
  BY <1>1 DEF StoreInv, ShownInv, PlaceInv
<1> QED
  BY <1>6, <1>7, <1>8, <1>9, <1>10

\* Back in the menu after a call: all but the store and the screen is as it was, and
\* nothing is left on a terminal that was used with care.
LEMMA CallReturns ==
  ASSUME ClientsInv, NEW item \in 1 .. 4, Calls(item)
  PROVE  /\ pc = "call" /\ choice = item /\ pc' = "choice" /\ shown = NULL
         /\ UNCHANGED <<program, stdin, choice, args, byte, typed, careful, lines>>
         /\ PlaceInv' /\ TerminalInv' /\ ReadInv'
<1>1. /\ pc = "call" /\ choice = item /\ pc' = "choice"
      /\ UNCHANGED <<program, stdin, choice, args, byte, typed, careful, lines>>
  BY DEF Calls
<1>2. /\ UNCHANGED <<program, stdin, choice, id, secret, data, offset, length, byte, typed, careful, lines>>
  BY <1>1 DEF args
<1>3. shown = NULL /\ byte = 1 /\ Ended(stdin)
  BY <1>1 DEF ClientsInv, PlaceInv
<1>4. PlaceInv'
  BY <1>1, <1>2, <1>3 DEF PlaceInv
<1>5. TerminalInv'
  <2> SUFFICES ASSUME careful PROVE TerminalInv'
    BY <1>1 DEF TerminalInv
  <2>1. SkipBlanks(stdin) = <<>>
    BY <1>1, OnlyEndOfLine DEF ClientsInv, TerminalInv
  <2> QED
    BY <1>1, <2>1 DEF TerminalInv, NumberPending
<1>6. ReadInv'
  BY <1>1 DEF ReadInv, Command
<1> QED
  BY <1>1, <1>3, <1>4, <1>5, <1>6

\* A call that leaves the store in its type leaves everything in its type.
LEMMA CallKeepsTypes ==
  ASSUME TypeOK, pc' = "choice",
         UNCHANGED <<program, stdin, choice, args, byte, typed, careful, lines>>,
         DOMAIN store' \subseteq Texts, store' \in [DOMAIN store' -> Blocks]
  PROVE  TypeOK'
<1>1. UNCHANGED <<program, stdin, choice, id, secret, data, offset, length, byte, typed, careful, lines>>
  BY DEF args
<1> QED
  BY <1>1, PromptsAre DEF TypeOK

\* What is typed as data may be stored.
LEMMA TextsAreData ==
  /\ Texts \subseteq Seq(Chars \cup {Junk})
  /\ \A n \in Nat : Garbage(n) \in Seq(Chars \cup {Junk})
<1>1. Chars \ {"\n"} \subseteq Chars \cup {Junk}
  OBVIOUS
<1>2. Seq(Chars \ {"\n"}) \subseteq Seq(Chars \cup {Junk})
  BY <1>1, SeqMonotonic
<1>3. ASSUME NEW n \in Nat PROVE Garbage(n) \in Seq(Chars \cup {Junk})
  BY DEF Garbage
<1> QED
  BY <1>2, <1>3 DEF Texts

\* SEND stores the arguments, and what was typed for them.
LEMMA SendNewBlockStep ==
  ASSUME ClientsInv, SendNewBlock
  PROVE  ClientsInv'
<1>1. /\ pc = "call" /\ choice = 1 /\ pc' = "choice" /\ shown = NULL
      /\ UNCHANGED <<program, stdin, choice, args, byte, typed, careful, lines>>
      /\ PlaceInv' /\ TerminalInv' /\ ReadInv' /\ UNCHANGED shown
  BY CallReturns DEF SendNewBlock
<1>2. TypeOK /\ StoreInv /\ DOMAIN store \subseteq Texts /\ store \in [DOMAIN store -> Blocks]
  BY DEF ClientsInv, TypeOK
<1> DEFINE new == [secret |-> secret, data |-> data, freed |-> FALSE,
                   typed |-> IF careful THEN typed ELSE Nothing]
<1>3. \/ UNCHANGED store
      \/ store' = [i \in DOMAIN store \cup {id} |-> IF i = id THEN new ELSE store[i]]
  BY DEF SendNewBlock
<1>4. /\ new \in Blocks
      /\ new.secret = secret /\ new.data = data /\ new.typed = IF careful THEN typed ELSE Nothing
  <2>1. data \in Seq(Chars \cup {Junk}) /\ secret \in Bits
    BY <1>2, TextsAreData DEF TypeOK
  <2>2. (IF careful THEN typed ELSE Nothing) \in [Prompts -> Texts \cup {NULL}]
    BY <1>2, NothingTyped DEF TypeOK
  <2> QED
    BY <2>1, <2>2 DEF Blocks
<1>5. new.typed # Nothing => /\ new.secret = Bytes(new.typed["secret"])
                             /\ new.data = new.typed["data"]
  BY <1>1, <1>4 DEF ClientsInv, ReadInv, Command
<1> HIDE DEF new
<1>6. /\ DOMAIN store' \subseteq Texts /\ store' \in [DOMAIN store' -> Blocks]
      /\ \A i \in DOMAIN store' : store'[i] = new \/ (i \in DOMAIN store /\ store'[i] = store[i])
  <2>1. CASE UNCHANGED store
    BY <1>2, <2>1
  <2>2. CASE store' = [i \in DOMAIN store \cup {id} |-> IF i = id THEN new ELSE store[i]]
    <3>1. id \in Texts
      BY <1>2 DEF TypeOK
    <3> QED
      BY <1>2, <1>4, <2>2, <3>1
  <2> QED
    BY <1>3, <2>1, <2>2
<1>7. TypeOK'
  BY <1>1, <1>2, <1>6, CallKeepsTypes
<1>8. StoreInv'
  BY <1>2, <1>5, <1>6 DEF StoreInv
<1>9. ShownInv'
  BY <1>1 DEF ShownInv
<1> QED
  BY <1>1, <1>7, <1>8, <1>9 DEF ClientsInv

\* An accepted UPDATE leaves its block, and the blocks it frees with it, with bytes nobody
\* typed; the others keep theirs, unless the daemon ends.
LEMMA OverwriteBlockStep ==
  ASSUME ClientsInv, OverwriteBlock
  PROVE  ClientsInv'
<1>1. /\ pc = "call" /\ choice = 2 /\ pc' = "choice" /\ shown = NULL
      /\ UNCHANGED <<program, stdin, choice, args, byte, typed, careful, lines>>
      /\ PlaceInv' /\ TerminalInv' /\ ReadInv' /\ UNCHANGED shown
  BY CallReturns DEF OverwriteBlock
<1>2. TypeOK /\ StoreInv /\ DOMAIN store \subseteq Texts /\ store \in [DOMAIN store -> Blocks]
  BY DEF ClientsInv, TypeOK
<1> DEFINE Spoilt(i) ==
             [secret |-> store[i].secret, freed |-> TRUE, typed |-> Nothing,
              data |-> Garbage(IF i = id THEN Len(data) ELSE Len(store[i].data))]
<1>3. \/ UNCHANGED store
      \/ store' = <<>>
      \/ \E others : store' = [i \in DOMAIN store |->
                               IF i \in others \cup {id} THEN Spoilt(i) ELSE store[i]]
  BY DEF OverwriteBlock
<1>4. ASSUME NEW i \in DOMAIN store
      PROVE  Spoilt(i) \in Blocks /\ Spoilt(i).typed = Nothing
  <2>1. store[i] \in Blocks
    BY <1>2
  <2>2. store[i].secret \in Bits /\ Len(store[i].data) \in Nat /\ Len(data) \in Nat
    <3>1. store[i].secret \in Bits /\ store[i].data \in Seq(Chars \cup {Junk})
      BY <2>1 DEF Blocks
    <3>2. data \in Seq(Chars)
      BY <1>2, TextPositions DEF TypeOK
    <3> QED
      BY <3>1, <3>2
  <2>3. Garbage(IF i = id THEN Len(data) ELSE Len(store[i].data)) \in Seq(Chars \cup {Junk})
    BY <2>2, TextsAreData
  <2> QED
    BY <2>2, <2>3, NothingTyped DEF Blocks
<1> HIDE DEF Spoilt
<1>5. /\ DOMAIN store' \subseteq Texts /\ store' \in [DOMAIN store' -> Blocks]
      /\ \A i \in DOMAIN store' :
           (i \in DOMAIN store /\ store'[i] = store[i]) \/ store'[i].typed = Nothing
  <2>1. CASE UNCHANGED store
    BY <1>2, <2>1
  <2>2. CASE store' = <<>>
    <3>1. DOMAIN store' = {}
      BY <2>2
    <3> QED
      BY <2>2, <3>1
  <2>3. CASE \E others : store' = [i \in DOMAIN store |->
                                  IF i \in others \cup {id} THEN Spoilt(i) ELSE store[i]]
    BY <1>2, <1>4, <2>3
  <2> QED
    BY <1>3, <2>1, <2>2, <2>3
<1>6. TypeOK'
  BY <1>1, <1>2, <1>5, CallKeepsTypes
<1>7. StoreInv'
  BY <1>2, <1>5 DEF StoreInv
<1>8. ShownInv'
  BY <1>1 DEF ShownInv
<1> QED
  BY <1>1, <1>6, <1>7, <1>8 DEF ClientsInv

\* A whole read shows the block that was asked for.
LEMMA GetBlockStep ==
  ASSUME ClientsInv, GetBlock
  PROVE  ClientsInv'
<1>1. /\ pc = "call" /\ choice = 4 /\ pc' = "choice" /\ shown = NULL
      /\ UNCHANGED <<program, stdin, choice, args, byte, typed, careful, lines>>
      /\ PlaceInv' /\ TerminalInv' /\ ReadInv' /\ UNCHANGED store
  BY CallReturns DEF GetBlock
<1>2. TypeOK'
  BY <1>1, CallKeepsTypes DEF ClientsInv, TypeOK
<1>3. StoreInv'
  BY <1>1 DEF ClientsInv, StoreInv
<1>4. ShownInv'
  BY <1>1 DEF GetBlock, Opens, Prints, ShownInv, args
<1> QED
  BY <1>1, <1>2, <1>3, <1>4 DEF ClientsInv

\* A slice is shown by the third item only.
LEMMA PartialGetBlockStep ==
  ASSUME ClientsInv, PartialGetBlock
  PROVE  ClientsInv'
<1>1. /\ pc = "call" /\ choice = 3 /\ pc' = "choice" /\ shown = NULL
      /\ UNCHANGED <<program, stdin, choice, args, byte, typed, careful, lines>>
      /\ PlaceInv' /\ TerminalInv' /\ ReadInv' /\ UNCHANGED store
  BY CallReturns DEF PartialGetBlock
<1>2. TypeOK'
  BY <1>1, CallKeepsTypes DEF ClientsInv, TypeOK
<1>3. StoreInv'
  BY <1>1 DEF ClientsInv, StoreInv
<1>4. ShownInv'
  BY <1>1 DEF ShownInv
<1> QED
  BY <1>1, <1>2, <1>3, <1>4 DEF ClientsInv

\* A program starts with an empty terminal.
LEMMA StartProgramStep ==
  ASSUME ClientsInv, StartProgram
  PROVE  ClientsInv'
<1>1. /\ pc = "off" /\ pc' = "choice" /\ stdin' = <<>> /\ program' \in Programs
      /\ UNCHANGED <<choice, id, secret, data, offset, length, byte, typed, careful, store, shown, lines>>
  BY DEF StartProgram, args
<1>2. shown = NULL /\ byte = 1
  BY <1>1 DEF ClientsInv, PlaceInv
<1>3. TypeOK'
  BY <1>1, EmptyText, PromptsAre DEF ClientsInv, TypeOK
<1>4. PlaceInv'
  BY <1>1, <1>2, EmptyText DEF PlaceInv
<1>5. TerminalInv'
  BY <1>1, OnlyEndOfLine DEF TerminalInv, NumberPending
<1>6. ReadInv'
  BY <1>1 DEF ReadInv, Command
<1>7. StoreInv' /\ ShownInv'
  BY <1>1, <1>2 DEF ClientsInv, StoreInv, ShownInv
<1> QED
  BY <1>3, <1>4, <1>5, <1>6, <1>7 DEF ClientsInv

\* The parts of the invariant hold in every reachable state, whatever is typed.
THEOREM ClientsInvHolds == Spec => []ClientsInv
<1>1. Init => ClientsInv
  BY InitHolds
<1>2. ClientsInv /\ [Next]_vars => ClientsInv'
  <2> SUFFICES ASSUME ClientsInv, [Next]_vars PROVE ClientsInv'
    OBVIOUS
  <2>1. CASE TypeLine
    BY <2>1, TypeLineStep
  <2>2. CASE Read
    BY <2>2, ReadChoiceStep, ReadIDStep, readClientSecretStep, readSecretStep, ReadDataStep,
       ReadOffsetStep, ReadLengthStep DEF Read
  <2>3. CASE Call
    BY <2>3, SendNewBlockStep, OverwriteBlockStep, GetBlockStep, PartialGetBlockStep DEF Call
  <2>4. CASE StartProgram
    BY <2>4, StartProgramStep
  <2>5. CASE UNCHANGED vars
    <3>1. UNCHANGED <<program, pc, stdin, choice, id, secret, data, offset, length, byte, typed,
                      careful, store, shown, lines>>
      BY <2>5 DEF vars, args
    <3>2. TypeOK'
      BY <3>1 DEF ClientsInv, TypeOK
    <3>3. PlaceInv'
      BY <3>1 DEF ClientsInv, PlaceInv
    <3>4. TerminalInv'
      BY <3>1 DEF ClientsInv, TerminalInv, NumberPending, LinePending, SecretPending
    <3>5. ReadInv'
      BY <3>1 DEF ClientsInv, ReadInv
    <3>6. StoreInv' /\ ShownInv'
      BY <3>1 DEF ClientsInv, StoreInv, ShownInv, Prints
    <3> QED
      BY <3>2, <3>3, <3>4, <3>5, <3>6 DEF ClientsInv
  <2> QED
    BY <2>1, <2>2, <2>3, <2>4, <2>5 DEF Next
<1> QED
  BY <1>1, <1>2, PTL DEF Spec

\* Every variable of the two programs keeps its type; in particular what is read into the
\* arrays of an ID and of the data leaves room for the terminating zero, however long the
\* line was, and what is scanned for a byte of a secret is a byte.
THEOREM TypesHold == Spec => []TypeOK
<1> QED
  BY ClientsInvHolds, PTL DEF ClientsInv

\* As long as lines are typed as asked, what a library call is given is what the user
\* answered at the prompts of these arguments, in both programs, at every length.
THEOREM AnswersArrive == Spec => []AnswersReachTheirFields
<1>1. ClientsInv => AnswersReachTheirFields
  BY DEF ClientsInv, ReadInv, Command, AnswersReachTheirFields
<1> QED
  BY <1>1, ClientsInvHolds, PTL

\* A secret typed as the prompt asks is never asked for again: not by full_client, that
\* accepts it, nor by cl, that leaves the prompt after the last byte.
THEOREM WellFormedSecretsPass == Spec => []WellFormedIsAccepted
<1>1. ASSUME ClientsInv, Waiting, pc = "secret", careful, typed["secret"] # NULL
      PROVE  ~WellFormed(typed["secret"])
  <2>1. typed["secret"] \in Texts /\ program \in {"cl", "full"}
    BY <1>1, PromptsAre, ProgramsAre DEF ClientsInv, TypeOK
  <2>2. CASE program = "full"
    <3>1. stdin = <<>> /\ ~isValidSecret(typed["secret"])
      BY <1>1, <2>2 DEF ClientsInv, TerminalInv, Waiting, ReadsLine
    <3> QED
      BY <2>1, <3>1, WellFormedIsValid
  <2>3. CASE program = "cl"
    <3> SUFFICES ASSUME WellFormed(typed["secret"]) PROVE FALSE
      OBVIOUS
    <3> DEFINE line == typed["secret"]
    <3>1. SkipBlanks(stdin) = <<>> /\ byte \in 1 .. SecretBytes
      BY <1>1, <2>3 DEF ClientsInv, TypeOK, Waiting, ReadsLine
    <3>2. SecretPending
      BY <1>1, <2>3 DEF ClientsInv, TerminalInv
    <3>3. SkipBlanks(stdin) = Drop(line \o EndOfLine, 3 * (byte - 1))
      BY <1>1, <3>2 DEF SecretPending
    <3> DEFINE s == Drop(line \o EndOfLine, 3 * (byte - 1))
               rest == Drop(s, Prefix(s, Hex))
    <3>4. s # <<>>
      <4> HIDE DEF line, rest
      <4>1. line \in Texts /\ WellFormed(line)
        BY <2>1 DEF line
      <4>2. s = Drop(line \o EndOfLine, 3 * (byte - 1)) /\ rest = Drop(s, Prefix(s, Hex))
        BY DEF rest
      <4> HIDE DEF s
      <4> QED
        BY <3>1, <4>1, <4>2, SecretRound
    <3> QED
      BY <3>1, <3>3, <3>4
  <2> QED
    BY <2>1, <2>2, <2>3
<1>2. ClientsInv => WellFormedIsAccepted
  BY <1>1 DEF WellFormedIsAccepted
<1> QED
  BY <1>2, ClientsInvHolds, PTL

\* Of the lines typed as asked a block is opened by those that are the one it was stored
\* with in either case of its letters, and by no others, whichever program read the one and
\* the other: cl byte by byte, full_client by its tokens.
THEOREM SecretsOpen == Spec => []SameBytesOpen
<1>1. ASSUME ClientsInv, pc = "call", careful, id \in DOMAIN store,
             store[id].typed["secret"] # NULL,
             WellFormed(store[id].typed["secret"]), WellFormed(typed["secret"])
      PROVE  Opens <=> Alike(typed["secret"], store[id].typed["secret"])
  <2> DEFINE line == store[id].typed["secret"]
  <2>1. typed["secret"] \in Texts /\ secret = Bytes(typed["secret"])
    BY <1>1 DEF ClientsInv, ReadInv
  <2>2. store[id].typed \in [Prompts -> Texts \cup {NULL}]
    BY <1>1 DEF ClientsInv, TypeOK, Blocks
  <2>3. line \in Texts /\ store[id].typed # Nothing
    BY <1>1, <2>2, PromptsAre DEF Nothing
  <2>4. store[id].secret = Bytes(line)
    BY <1>1, <2>3 DEF ClientsInv, StoreInv
  <2>5. Bytes(typed["secret"]) = Bytes(line) <=> Alike(typed["secret"], line)
    BY <1>1, <2>1, <2>3, SecretsAreToldApart
  <2> QED
    BY <1>1, <2>1, <2>4, <2>5 DEF Opens
<1>2. ClientsInv => SameBytesOpen
  BY <1>1 DEF SameBytesOpen
<1> QED
  BY <1>2, ClientsInvHolds, PTL

\* A whole read shows the data that was typed for the ID, from its first byte, and in
\* full_client nothing behind it unless it fills the array it is read into.
THEOREM ReadsShowWhatWasTyped == Spec => []FetchesWhatWasTyped
<1>1. ASSUME ClientsInv, shown # NULL, choice = 4, store[id].typed # Nothing
      PROVE  LET line == store[id].typed["data"] IN
             /\ SubSeq(shown, 1, Len(line)) = line
             /\ program = "full" /\ Len(line) < Buffer["full"] => shown = line
  <2> DEFINE bytes == store[id].data
             line == store[id].typed["data"]
  <2>1. id \in DOMAIN store /\ shown \in Prints(bytes)
    BY <1>1 DEF ClientsInv, ShownInv
  <2>2. bytes = line
    BY <1>1, <2>1 DEF ClientsInv, StoreInv
  <2>3. bytes \in Seq(Chars \cup {Junk})
    <3>1. store[id] \in Blocks
      BY <1>1, <2>1 DEF ClientsInv, TypeOK
    <3> QED
      BY <3>1 DEF Blocks
  <2> HIDE DEF bytes, line
  <2>4. shown = bytes \/ shown = Append(bytes, Junk)
    BY <2>1 DEF Prints
  <2>5. program = "full" /\ Len(bytes) < Buffer["full"] => shown = bytes
    BY <2>1 DEF Prints
  <2>6. SubSeq(shown, 1, Len(bytes)) = bytes
    BY <2>3, <2>4
  <2> QED
    BY <2>2, <2>5, <2>6 DEF line
<1>2. ClientsInv => FetchesWhatWasTyped
  BY <1>1 DEF FetchesWhatWasTyped
<1> QED
  BY <1>2, ClientsInvHolds, PTL

-----------------------------------------------------------------------------
(***************************************************************************)
(* Reading comes to an end: the length of what is on the terminal, and how *)
(* often the program may leave it as it is, decrease with every read.      *)
(***************************************************************************)
\* Scanning takes nothing away from what follows, and the getchar() after it one character.
LEMMA ScanShortens ==
  ASSUME NEW t \in Seq(Chars), NEW class, NEW s, s = SkipBlanks(t), s # <<>>,
         NEW rest, rest = Drop(s, Prefix(s, class))
  PROVE  /\ Len(t) \in Nat /\ Len(rest) \in Nat /\ Len(rest) <= Len(t)
         /\ Len(GetChar(rest)) \in Nat /\ Len(GetChar(rest)) < Len(t)
<1>1. /\ Prefix(t, Blanks) \in 0 .. Len(t) /\ Len(t) \in Nat
      /\ s \in Seq(Chars) /\ Len(s) = Len(t) - Prefix(t, Blanks)
  <2>1. Prefix(t, Blanks) \in 0 .. Len(t) /\ Len(t) \in Nat
    BY PrefixProperties
  <2>2. s = Drop(t, Prefix(t, Blanks))
    BY DEF SkipBlanks
  <2> QED
    BY <2>1, <2>2, DropProperties, ZenonT(60)
<1>2. Len(s) \in Nat /\ Len(s) > 0 /\ Len(s) <= Len(t)
  BY <1>1
<1>3. /\ Prefix(s, class) \in 0 .. Len(s)
      /\ rest \in Seq(Chars) /\ Len(rest) = Len(s) - Prefix(s, class)
  <2>1. Prefix(s, class) \in 0 .. Len(s)
    BY <1>1, PrefixProperties
  <2> QED
    BY <1>1, <2>1, DropProperties, ZenonT(60)
<1>4. Len(rest) \in Nat /\ Len(rest) <= Len(s)
  BY <1>2, <1>3
<1>5. CASE rest = <<>>
  <2>1. Len(rest) = 0
    BY <1>5
  <2>2. GetChar(rest) = <<>>
    <3>1. Drop(rest, 1) = <<>>
      BY <1>3, <2>1, SubSeqEmpty DEF Drop
    <3> QED
      BY <3>1 DEF GetChar
  <2> QED
    BY <1>2, <1>4, <2>1, <2>2
<1>6. CASE rest # <<>>
  <2>1. 1 \in 0 .. Len(rest)
    BY <1>3, <1>6
  <2>2. Len(GetChar(rest)) = Len(rest) - 1
    BY <1>3, <2>1, DropProperties DEF GetChar
  <2> QED
    BY <1>2, <1>4, <2>1, <2>2
<1> QED
  BY <1>2, <1>4, <1>5, <1>6

\* fgets() takes at least one character.
LEMMA LineShortens ==
  ASSUME NEW t \in Seq(Chars), Ended(t), t # <<>>, NEW size \in Nat \ {0, 1}
  PROVE  Len(Drop(t, Takes(t, size))) < Len(t)
<1>1. Prefix(t, Chars \ {"\n"}) \in Nat
  <2>1. Prefix(t, Chars \ {"\n"}) \in 0 .. Len(t)
    BY PrefixProperties
  <2> QED
    BY <2>1
<1>2. Takes(t, size) \in 0 .. Len(t) /\ Takes(t, size) > 0 /\ Len(t) \in Nat
  <2>1. Takes(t, size) \in 0 .. Len(t)
    BY LineType
  <2>2. Prefix(t, Chars \ {"\n"}) + 1 >= 1 /\ size - 1 >= 1
    BY <1>1
  <2>3. Takes(t, size) > 0
    BY <1>1, <2>2 DEF Takes
  <2> QED
    BY <2>1, <2>3
<1>3. Len(Drop(t, Takes(t, size))) = Len(t) - Takes(t, size)
  BY <1>2, DropProperties, ZenonT(60)
<1> QED
  BY <1>2, <1>3

\* However a line is misplaced or misspelt, the programs do not scan it for ever: every
\* read takes a character from the terminal, or is the scan of an offset, or a round of
\* cl's loop that is not its last (cl.c:33, cl.c:22).
THEOREM ReadingEnds == Spec => EveryReadAdvances
<1> DEFINE Advance == \/ Len(stdin') < Len(stdin)
                      \/ Len(stdin') = Len(stdin) /\ RoundsLeft' < RoundsLeft
<1>1. ASSUME ClientsInv, Read PROVE Advance
  <2>1. stdin \in Seq(Chars) /\ Ended(stdin) /\ byte \in 1 .. SecretBytes /\ program \in {"cl", "full"}
    BY <1>1, ProgramsAre DEF ClientsInv, TypeOK, PlaceInv
  <2> DEFINE s == SkipBlanks(stdin)
             Scanned(class) == Drop(s, Prefix(s, class))
  <2>2. CASE ReadChoice
    <3>1. s # <<>> /\ stdin' = GetChar(Scanned(Digits))
      BY <2>2, PromptsAre DEF ReadChoice, Waiting, ReadsLine
    <3> HIDE DEF s
    <3> QED
      BY <2>1, <3>1, ScanShortens DEF s
  <2>3. CASE ReadID
    <3>1. stdin # <<>> /\ stdin' = Drop(stdin, Takes(stdin, Size["ID"])) /\ Size["ID"] \in Nat \ {0, 1}
      BY <2>3, PromptsAre DEF ReadID, Waiting, ReadsLine, LinePrompts
    <3> QED
      BY <2>1, <3>1, LineShortens
  <2>4. CASE readClientSecret
    <3>1. /\ stdin # <<>> /\ stdin' = Drop(stdin, Takes(stdin, Size["secret"]))
          /\ Size["secret"] \in Nat \ {0, 1}
      BY <2>4, PromptsAre DEF readClientSecret, Waiting, ReadsLine, LinePrompts
    <3> QED
      BY <2>1, <3>1, LineShortens
  <2>5. CASE ReadData
    <3>1. /\ stdin # <<>> /\ stdin' = Drop(stdin, Takes(stdin, Size["data"]))
          /\ Size["data"] \in Nat \ {0, 1}
      BY <2>5, PromptsAre DEF ReadData, Waiting, ReadsLine, LinePrompts
    <3> QED
      BY <2>1, <3>1, LineShortens
  <2>6. CASE ReadOffset
    <3>1. s # <<>> /\ stdin' = Scanned(Digits) /\ pc = "offset" /\ pc' = "length"
      BY <2>6, PromptsAre DEF ReadOffset, Waiting, ReadsLine
    <3>2. RoundsLeft = 1 /\ RoundsLeft' = 0
      BY <3>1 DEF RoundsLeft
    <3>3. Len(stdin') \in Nat /\ Len(stdin) \in Nat /\ Len(stdin') <= Len(stdin)
      <4> HIDE DEF s
      <4> QED
        BY <2>1, <3>1, ScanShortens DEF s
    <3> QED
      BY <3>2, <3>3
  <2>7. CASE ReadLength
    <3>1. s # <<>> /\ stdin' = GetChar(Scanned(Digits))
      BY <2>7, PromptsAre DEF ReadLength, Waiting, ReadsLine
    <3> HIDE DEF s
    <3> QED
      BY <2>1, <3>1, ScanShortens DEF s
  <2>8. CASE readSecret
    <3>1. /\ s # <<>> /\ pc = "secret" /\ program = "cl" /\ program' = program
          /\ stdin' = IF byte = SecretBytes THEN GetChar(Scanned(Hex)) ELSE Scanned(Hex)
          /\ byte # SecretBytes => byte' = byte + 1 /\ pc' = pc
      BY <2>8, PromptsAre DEF readSecret, Waiting, ReadsLine
    <3>2. /\ Len(Scanned(Hex)) \in Nat /\ Len(stdin) \in Nat /\ Len(Scanned(Hex)) <= Len(stdin)
          /\ Len(GetChar(Scanned(Hex))) < Len(stdin)
      <4> HIDE DEF s
      <4> QED
        BY <2>1, <3>1, ScanShortens DEF s
    <3>3. CASE byte = SecretBytes
      BY <3>1, <3>2, <3>3
    <3>4. CASE byte # SecretBytes
      <4>1. RoundsLeft' < RoundsLeft
        BY <2>1, <3>1, <3>4, SecretHasBytes DEF RoundsLeft
      <4> QED
        BY <3>1, <3>2, <3>4, <4>1
    <3> QED
      BY <3>3, <3>4
  <2> QED
    BY <1>1, <2>2, <2>3, <2>4, <2>5, <2>6, <2>7, <2>8 DEF Read
<1>2. ClientsInv => [Read => Advance]_vars
  BY <1>1
<1> QED
  BY <1>2, ClientsInvHolds, PTL DEF EveryReadAdvances

=============================================================================
