-------------------------- MODULE SerialLineProofs --------------------------
(***************************************************************************)
(* Proofs about SerialLine, for every set of lines and every size of the   *)
(* buffers.  LineTypeOK holds whatever the host does; ReadStable needs a   *)
(* host that paces its lines.                                              *)
(***************************************************************************)
EXTENDS SerialLine, FiniteSetTheorems, SequenceTheorems, TLAPS

\* The sizes, as separate facts.
LEMMA Constants == Size \in Nat /\ Size > 4 /\ MaxLines \in Nat
  BY LineAssumption DEF LineAssumption

\* A letter has at most three arguments.
LEMMA FieldsFew ==
  ASSUME NEW letter \in Letters
  PROVE  Len(Fields(letter)) \in 0..3
<1>1. CASE letter \in {"Q", "S"}
  BY <1>1 DEF Fields
<1>2. CASE letter = "R"
  BY <1>2 DEF Fields
<1>3. CASE letter \in {"Y", "W", "N"}
  BY <1>3 DEF Fields
<1>4. CASE letter \in {"X", "I", "?"}
  BY <1>4 DEF Fields
<1> QED
  BY <1>1, <1>2, <1>3, <1>4 DEF Letters

\* The separator is behind a head, and a head is the first field.
LEMMA FieldsInOrder ==
  ASSUME NEW letter \in Letters, NEW i \in 1..Len(Fields(letter))
  PROVE  /\ Fields(letter)[i] \in {"head", "sep", "data"}
         /\ Fields(letter)[i] = "head" <=> i = 1 /\ letter \in {"Q", "S", "R"}
         /\ Fields(letter)[i] = "sep" <=> i = 2 /\ letter \in {"Q", "S"}
<1>1. CASE letter \in {"Q", "S"}
  BY <1>1 DEF Fields
<1>2. CASE letter = "R"
  BY <1>2 DEF Fields
<1>3. CASE letter \in {"Y", "W", "N"}
  BY <1>3 DEF Fields
<1>4. CASE letter \in {"X", "I", "?"}
  BY <1>4 DEF Fields
<1> QED
  BY <1>1, <1>2, <1>3, <1>4 DEF Letters

\* The characters of a line.
Chars == {"letter", "help", "head", "sep", "data", "rest", "end"}

\* The fields of a line.
LEMMA LineTyped ==
  ASSUME NEW n \in Numbers
  PROVE  LET l == Lines[n]
         IN /\ l \in [letter : Letters, priority : Nat, repeat : Nat, length : Nat,
                      plus : BOOLEAN, data : Nat, wide : Nat, rest : Nat, fields : Nat]
            /\ l.letter \in Letters /\ l.plus \in BOOLEAN
            /\ l.priority \in Nat /\ l.repeat \in Nat /\ l.length \in Nat
            /\ l.data \in Nat /\ l.rest \in Nat /\ l.wide \in Nat
            /\ l.wide > 0 => l.letter \in {"Q", "S", "R"} /\ l.fields > 0
            /\ Width(l) \in Nat /\ Width(l) = l.fields + l.wide
            /\ l.fields \in 0..Len(Fields(l.letter))
            /\ l.fields \in 0..3
<1>1. IsLine(Lines[n])
  BY LineAssumption DEF LineAssumption, Numbers
<1>2. Lines[n].letter \in Letters /\ Lines[n].fields \in Nat
      /\ Lines[n].fields <= Len(Fields(Lines[n].letter))
  BY <1>1 DEF IsLine
<1>3. Len(Fields(Lines[n].letter)) \in 0..3
  BY <1>2, FieldsFew
<1>4. Lines[n].fields \in 0..3 /\ Lines[n].fields \in 0..Len(Fields(Lines[n].letter))
  <2>1. \A m \in 0..3 : \A k \in Nat : k <= m => k \in 0..3 /\ k \in 0..m
    OBVIOUS
  <2> QED
    BY <1>2, <1>3, <2>1
<1>5. Lines[n] \in [letter : Letters, priority : Nat, repeat : Nat, length : Nat,
                    plus : BOOLEAN, data : Nat, wide : Nat, rest : Nat, fields : Nat]
  BY <1>1 DEF IsLine
<1>6. Width(Lines[n]) \in Nat
  BY <1>2, <1>5 DEF Width
<1> QED
  BY <1>1, <1>2, <1>4, <1>5, <1>6 DEF IsLine, Width

\* A number of characters of one kind.
LEMMA SameTyped ==
  ASSUME NEW k \in Nat, NEW c \in Chars
  PROVE  LET s == [i \in 1..k |-> c]
         IN s \in Seq(Chars) /\ Len(s) = k /\ \A i \in 1..k : s[i] = c
<1> DEFINE s == [i \in 1..k |-> c]
<1>1. s \in [1..k -> Chars] /\ DOMAIN s = 1..k
  OBVIOUS
<1>2. s \in Seq(Chars)
  BY <1>1, SeqDef
<1>3. Len(s) = k
  <2>1. Len(s) \in Nat /\ DOMAIN s = 1..Len(s)
    BY <1>2, LenProperties
  <2> HIDE DEF s
  <2> QED
    BY <1>1, <2>1
<1> QED
  BY <1>2, <1>3

\* Of which kind the cells of the arguments are: those of the head come first.
LEMMA KindTyped ==
  ASSUME NEW n \in Numbers, NEW i \in 1..Width(Lines[n])
  PROVE  LET l == Lines[n]
         IN /\ Kind(l, i) \in {"head", "sep", "data"}
            /\ Kind(l, i) = "head" <=> i <= l.wide + 1 /\ l.letter \in {"Q", "S", "R"}
<1> DEFINE l == Lines[n]
<1>1. /\ l.letter \in Letters /\ l.fields \in Nat /\ l.wide \in Nat
      /\ l.fields \in 0..Len(Fields(l.letter)) /\ Len(Fields(l.letter)) \in 0..3
      /\ l.wide > 0 => l.letter \in {"Q", "S", "R"} /\ l.fields > 0
      /\ Width(l) = l.fields + l.wide
  BY LineTyped, FieldsFew
<1> HIDE DEF l
<1>2. CASE i <= l.wide
  BY <1>1, <1>2 DEF Kind, l
<1>3. CASE ~(i <= l.wide)
  <2>1. i - l.wide \in 1..Len(Fields(l.letter)) /\ (i - l.wide = 1 <=> i <= l.wide + 1)
    <3>1. \A f, w \in Nat, m \in 0..3 : f \in 0..m => \A j \in 1..(f + w) : ~(j <= w) =>
             j - w \in 1..m /\ (j - w = 1 <=> j <= w + 1)
      OBVIOUS
    <3> QED
      BY <1>1, <1>3, <3>1 DEF l
  <2>2. Kind(l, i) = Fields(l.letter)[i - l.wide]
    BY <1>3 DEF Kind
  <2> QED
    BY <1>1, <2>1, <2>2, FieldsInOrder DEF l
<1> QED
  BY <1>2, <1>3

\* The text of a line: its letter, its arguments, what is behind them, its end.
LEMMA TextShape ==
  ASSUME NEW n \in Numbers, Lines[n].letter # "?"
  PROVE  LET l == Lines[n]
             w == Width(l)
         IN /\ Len(Text(n)) = 2 + w + l.rest
            /\ Text(n)[1] = "letter"
            /\ \A i \in 1..w : Text(n)[i + 1] = Kind(l, i)
            /\ \A i \in w + 1..w + l.rest : Text(n)[i + 1] = "rest"
            /\ Text(n)[2 + w + l.rest] = "end"
<1> DEFINE l == Lines[n]
           w == Width(l)
           given == [i \in 1..w |-> Kind(l, i)]
           behind == [i \in 1..l.rest |-> "rest"]
           args == given \o behind
<1>1. w \in Nat /\ l.rest \in Nat
  BY LineTyped
<1>2. given \in Seq(Chars) /\ Len(given) = w /\ \A i \in 1..w : given[i] = Kind(l, i)
  <2>1. \A i \in 1..w : Kind(l, i) \in Chars
    BY KindTyped DEF Chars
  <2> HIDE DEF l, w
  <2>2. given \in [1..w -> Chars] /\ DOMAIN given = 1..w
    BY <2>1
  <2>3. given \in Seq(Chars)
    BY <1>1, <2>2, SeqDef
  <2>4. Len(given) = w
    <3>1. Len(given) \in Nat /\ DOMAIN given = 1..Len(given)
      BY <2>3, LenProperties
    <3> HIDE DEF given
    <3> QED
      BY <1>1, <2>2, <3>1
  <2> QED
    BY <2>3, <2>4
<1>3. behind \in Seq(Chars) /\ Len(behind) = l.rest
      /\ \A i \in 1..l.rest : behind[i] = "rest"
  BY <1>1, SameTyped DEF Chars
<1> HIDE DEF given, behind
<1>4. args \in Seq(Chars) /\ Len(args) = w + l.rest
      /\ \A i \in 1..w + l.rest :
           args[i] = IF i <= w THEN given[i] ELSE behind[i - w]
  <2>1. /\ args \in Seq(Chars) /\ Len(args) = Len(given) + Len(behind)
        /\ \A i \in 1..Len(given) + Len(behind) :
             args[i] = IF i <= Len(given) THEN given[i] ELSE behind[i - Len(given)]
    BY <1>2, <1>3, ConcatProperties
  <2> HIDE DEF args
  <2>2. Len(given) = w /\ Len(behind) = l.rest
    BY <1>2, <1>3
  <2> QED
    BY <2>1, <2>2
<1> HIDE DEF args
<1>5. <<"letter">> \in Seq(Chars) /\ Len(<<"letter">>) = 1 /\ <<"end">> \in Seq(Chars)
      /\ Len(<<"end">>) = 1 /\ <<"letter">>[1] = "letter" /\ <<"end">>[1] = "end"
  BY DEF Chars
<1> DEFINE open == <<"letter">> \o args
<1>6. open \in Seq(Chars) /\ Len(open) = 1 + (w + l.rest)
      /\ \A i \in 1..1 + (w + l.rest) :
           open[i] = IF i <= 1 THEN <<"letter">>[i] ELSE args[i - 1]
  BY <1>4, <1>5, ConcatProperties
<1> HIDE DEF open
<1>7. /\ Len(open \o <<"end">>) = 1 + (w + l.rest) + 1
      /\ \A i \in 1..1 + (w + l.rest) + 1 :
           (open \o <<"end">>)[i] = IF i <= 1 + (w + l.rest) THEN open[i]
                                    ELSE <<"end">>[i - (1 + (w + l.rest))]
  BY <1>5, <1>6, ConcatProperties
<1>8. Text(n) = open \o <<"end">>
  BY DEF Text, open, args, given, behind, w
<1> HIDE DEF l, w
<1>9. /\ Len(Text(n)) = 2 + w + l.rest /\ Text(n)[1] = "letter"
      /\ Text(n)[2 + w + l.rest] = "end"
  <2>1. Len(Text(n)) = 2 + w + l.rest
    <3>1. Len(Text(n)) = 1 + (w + l.rest) + 1
      BY <1>7, <1>8
    <3>2. 1 + (w + l.rest) + 1 = 2 + w + l.rest
      BY <1>1
    <3> QED
      BY <3>1, <3>2, Zenon
  <2>2. Text(n)[1] = open[1] /\ open[1] = <<"letter">>[1]
    BY <1>1, <1>6, <1>7, <1>8
  <2>3. 1 + (w + l.rest) + 1 = 2 + w + l.rest
        /\ (1 + (w + l.rest) + 1) - (1 + (w + l.rest)) = 1
        /\ 1 + (w + l.rest) + 1 \in 1..1 + (w + l.rest) + 1
        /\ ~(1 + (w + l.rest) + 1 <= 1 + (w + l.rest))
    BY <1>1
  <2>4. Text(n)[2 + w + l.rest] = <<"end">>[1]
    BY <1>7, <1>8, <2>3
  <2> QED
    BY <1>5, <2>1, <2>2, <2>4
<1>10. \A i \in 1..w + l.rest : Text(n)[i + 1] = args[i]
  BY <1>1, <1>6, <1>7, <1>8
<1>11. \A i \in 1..w : Text(n)[i + 1] = Kind(l, i)
  <2> SUFFICES ASSUME NEW i \in 1..w PROVE Text(n)[i + 1] = Kind(l, i)
    OBVIOUS
  <2>1. i \in 1..w + l.rest /\ i <= w
    BY <1>1
  <2>2. given[i] = Kind(l, i)
    BY <1>2
  <2> QED
    BY <1>4, <1>10, <2>1, <2>2
<1>12. \A i \in w + 1..w + l.rest : Text(n)[i + 1] = "rest"
  <2> SUFFICES ASSUME NEW i \in w + 1..w + l.rest
               PROVE  Text(n)[i + 1] = "rest"
    OBVIOUS
  <2>1. i \in 1..w + l.rest /\ ~(i <= w) /\ i - w \in 1..l.rest
    BY <1>1
  <2> QED
    BY <1>3, <1>4, <1>10, <2>1
<1> QED
  BY <1>9, <1>11, <1>12 DEF l, w

\* A request for information, and what may follow it.
LEMMA HelpShape ==
  ASSUME NEW n \in Numbers, Lines[n].letter = "?"
  PROVE  /\ Len(Text(n)) = 1 + Lines[n].rest /\ Text(n)[1] = "help"
         /\ \A k \in 2..Len(Text(n)) : Text(n)[k] = "end"
<1> DEFINE r == Lines[n].rest
           none == [i \in 1..r |-> "end"]
<1>1. r \in Nat
  BY LineTyped
<1>2. none \in Seq(Chars) /\ Len(none) = r /\ \A i \in 1..r : none[i] = "end"
  BY <1>1, SameTyped DEF Chars
<1>3. <<"help">> \in Seq(Chars) /\ Len(<<"help">>) = 1 /\ <<"help">>[1] = "help"
  BY DEF Chars
<1>4. Text(n) = <<"help">> \o none
  BY DEF Text
<1> HIDE DEF none, r
<1>5. /\ Len(<<"help">> \o none) = 1 + r
      /\ \A i \in 1..1 + r :
           (<<"help">> \o none)[i] = IF i <= 1 THEN <<"help">>[i] ELSE none[i - 1]
  BY <1>2, <1>3, ConcatProperties
<1>6. \A k \in 2..1 + r : k - 1 \in 1..r /\ k \in 1..1 + r /\ ~(k <= 1)
  BY <1>1
<1>7. 1 \in 1..1 + r
  BY <1>1
<1> QED
  BY <1>2, <1>3, <1>4, <1>5, <1>6, <1>7 DEF r

\* A line begins with its letter, and the cells of its head come next.
LEMMA TextBegins ==
  ASSUME NEW n \in Numbers
  PROVE  LET l == Lines[n]
         IN /\ Len(Text(n)) \in Nat \ {0}
            /\ Text(n)[1] \in {"letter", "help"}
            /\ \A k \in 2..Len(Text(n)) : Text(n)[k] \in {"head", "sep", "data", "rest", "end"}
            /\ \A k \in 2..Len(Text(n)) : Text(n)[k] = "head" =>
                 k <= 2 + l.wide /\ l.letter \in {"Q", "S", "R"}
<1> DEFINE l == Lines[n]
           w == Width(l)
           r == l.rest
           t == Text(n)
<1>1. w \in Nat /\ r \in Nat /\ l.wide \in Nat
  BY LineTyped
<1>2. CASE l.letter = "?"
  <2>1. Len(t) = 1 + r /\ t[1] = "help" /\ \A k \in 2..Len(t) : t[k] = "end"
    BY <1>2, HelpShape
  <2>2. 1 + r \in Nat \ {0}
    BY <1>1
  <2> QED
    BY <2>1, <2>2
<1>3. CASE l.letter # "?"
  <2>1. /\ Len(t) = 2 + w + r /\ t[1] = "letter" /\ t[2 + w + r] = "end"
        /\ \A i \in 1..w : t[i + 1] = Kind(l, i)
        /\ \A i \in w + 1..w + r : t[i + 1] = "rest"
    BY <1>3, TextShape
  <2>2. \A i \in 1..w : /\ Kind(l, i) \in {"head", "sep", "data"}
                         /\ Kind(l, i) = "head" => i <= l.wide + 1 /\ l.letter \in {"Q", "S", "R"}
    BY KindTyped
  <2> HIDE DEF l, w, r, t
  <2>3. ASSUME NEW k \in 2..2 + w + r
        PROVE  /\ t[k] \in {"head", "sep", "data", "rest", "end"}
               /\ t[k] = "head" => k <= 2 + l.wide /\ l.letter \in {"Q", "S", "R"}
    <3>1. k = 2 + w + r \/ (k - 1 \in 1..w /\ k = (k - 1) + 1)
            \/ (k - 1 \in w + 1..w + r /\ k = (k - 1) + 1)
      BY <1>1
    <3>2. CASE k = 2 + w + r
      BY <2>1, <3>2
    <3>3. CASE k - 1 \in 1..w /\ k = (k - 1) + 1
      <4>1. t[k] = Kind(l, k - 1)
        BY <2>1, <3>3
      <4>2. k - 1 <= l.wide + 1 => k <= 2 + l.wide
        BY <1>1
      <4>3. /\ Kind(l, k - 1) \in {"head", "sep", "data"}
            /\ Kind(l, k - 1) = "head" => k - 1 <= l.wide + 1 /\ l.letter \in {"Q", "S", "R"}
        BY <3>3, KindTyped DEF l, w
      <4> DEFINE kind == Kind(l, k - 1)
      <4>4. t[k] = kind /\ kind \in {"head", "sep", "data"}
            /\ (kind = "head" => k - 1 <= l.wide + 1 /\ l.letter \in {"Q", "S", "R"})
        BY <4>1, <4>3
      <4> HIDE DEF kind
      <4> QED
        BY <4>2, <4>4
    <3>4. CASE k - 1 \in w + 1..w + r /\ k = (k - 1) + 1
      <4>1. t[k] = "rest"
        BY <2>1, <3>4
      <4> QED
        BY <4>1
    <3> QED
      BY <3>1, <3>2, <3>3, <3>4
  <2>4. 2 + w + r \in Nat \ {0}
    BY <1>1
  <2> QED
    BY <2>1, <2>3, <2>4 DEF l, w, r, t
<1> QED
  BY <1>2, <1>3

\* Where lines fit, no cell of a head is one of the last two.
LEMMA HeadFits ==
  ASSUME AllFit, NEW n \in Numbers, NEW k \in 2..Len(Text(n)), Text(n)[k] = "head"
  PROVE  k <= Size - 2
<1>1. k <= 2 + Lines[n].wide /\ Lines[n].letter \in {"Q", "S", "R"}
  BY TextBegins
<1>2. Len(Fields(Lines[n].letter)) >= 2
  BY <1>1 DEF Fields
<1>3. 1 + Len(Fields(Lines[n].letter)) + Lines[n].wide < Size
  BY DEF AllFit, Fits
<1>4. Lines[n].wide \in Nat /\ Len(Fields(Lines[n].letter)) \in 0..3 /\ k \in Nat
  <2>1. k \in Nat
    BY TextBegins
  <2> QED
    BY <2>1, LineTyped, FieldsFew
<1> QED
  BY <1>1, <1>2, <1>3, <1>4, Constants

\* What is stored is a cell.
LEMMA CellTyped ==
  ASSUME NEW n \in Numbers,
         NEW is \in {"letter", "head", "sep", "data", "rest"}
  PROVE  Cell(is, n) \in Cells
  BY DEF Cell, Cells

\* The terminator is a cell like others.
LEMMA NulTyped == Nul \in Cells
  BY DEF Cells

\* One cell of one buffer is written.
LEMMA BufferWritten ==
  ASSUME bufs \in [1..2 -> [1..Size -> Cells]],
         NEW b \in 1..2, NEW i \in 1..Size, NEW c \in Cells
  PROVE  [bufs EXCEPT ![b][i] = c] \in [1..2 -> [1..Size -> Cells]]
  OBVIOUS

\* A position inside a buffer holds a cell.
LEMMA CellRead ==
  ASSUME bufs \in [1..2 -> [1..Size -> Cells]], NEW b \in 1..2, NEW i \in 1..Size
  PROVE  bufs[b][i] \in Cells
  OBVIOUS

\* What appending makes of a sequence.
LEMMA AppendTyped ==
  ASSUME NEW S, NEW s \in Seq(S), NEW e \in S
  PROVE  Append(s, e) \in Seq(S) /\ Len(Append(s, e)) = Len(s) + 1 /\ Len(s) \in Nat
  OBVIOUS

\* The increment stays inside the buffer.
LEMMA FurtherTyped ==
  ASSUME NEW i \in 1..Size
  PROVE  Further(i) \in 1..Size
  BY Constants DEF Further

-----------------------------------------------------------------------------
(* The invariant of the types.  Where every line fits, a head ends at least *)
(* two cells before the end of a buffer: so does the reading of one, and   *)
(* the step over the separator behind it stays inside.                     *)

Shape == DOMAIN task = {"pc", "letter", "buffer", "pos", "got"}

\* The interrupt has stored no more characters than it has received.
Sent ==
  host.line # 0 =>
    /\ host.next <= Len(Text(host.line))
    /\ host.next > 1 => uart.index <= host.next

HeadsLow ==
  AllFit => \A b \in 1..2, i \in 1..Size : bufs[b][i].is = "head" => i <= Size - 2

Reading ==
  /\ task.pc \in {"args", "read"} => task.letter \in Letters
  /\ task.pc = "read" =>
       /\ Len(task.got) <= Len(Wanted)
       /\ Len(task.got) = 0 => task.pos = 2
       /\ Len(task.got) = 1 => task.pos <= Size + 1 /\ (AllFit => task.pos <= Size - 1)

LineInv == LineTypeOK /\ Shape /\ Sent /\ HeadsLow /\ Reading

\* Both buffers and the task start empty.
LEMMA LineInitially == Init => LineInv
<1> SUFFICES ASSUME Init PROVE LineInv
  OBVIOUS
<1>1. host \in [line : {0} \cup Numbers, next : Nat \ {0}, left : 0..MaxLines]
  <2>1. host = [line |-> 0, next |-> 1, left |-> MaxLines]
    BY DEF Init
  <2> QED
    BY <2>1, Constants
<1>2. bufs \in [1..2 -> [1..Size -> Cells]]
  BY NulTyped DEF Init
<1>3. uart \in [active : 1..2, index : 1..Size]
  <2>1. uart = [active |-> 1, index |-> 1]
    BY DEF Init
  <2> QED
    BY <2>1, Constants
<1>4. cmd \in [buffer : 1..2, notified : BOOLEAN]
  <2>1. cmd = [buffer |-> 1, notified |-> FALSE]
    BY DEF Init
  <2> QED
    BY <2>1
<1>5. /\ task.pc = "idle" /\ task.letter = "" /\ task.buffer = 1
      /\ task.pos = 1 /\ task.got = <<>> /\ Shape
  BY DEF Init, Shape
<1>6. task.got \in Seq(Cells) /\ task.pos \in 1..(Size + 2) /\ task.buffer \in 1..2
      /\ task.pos <= Size
  <2>1. <<>> \in Seq(Cells)
    OBVIOUS
  <2>2. 1 \in 1..(Size + 2) /\ 1 \in 1..2 /\ 1 <= Size
    BY Constants
  <2> QED
    BY <1>5, <2>1, <2>2
<1>7. Reading
  BY <1>5 DEF Reading
<1>8. LineTypeOK
  BY <1>1, <1>2, <1>3, <1>4, <1>5, <1>6 DEF LineTypeOK
<1>9. Sent
  <2>1. host = [line |-> 0, next |-> 1, left |-> MaxLines]
    BY DEF Init
  <2> QED
    BY <2>1 DEF Sent
<1>10. HeadsLow
  BY DEF Init, HeadsLow, Nul, Cell
<1> QED
  BY <1>5, <1>7, <1>8, <1>9, <1>10 DEF LineInv

\* The interrupt moves the host on by one character.
LEMMA ReceivesTyped ==
  ASSUME LineTypeOK, Sent, NEW c, Receives(c)
  PROVE  /\ host.line \in Numbers
         /\ host' \in [line : {0} \cup Numbers, next : Nat \ {0}, left : 0..MaxLines]
         /\ host.next \in 1..Len(Text(host.line)) /\ Text(host.line)[host.next] = c
         /\ host'.line # 0 => /\ host'.line = host.line /\ host'.next = host.next + 1
                              /\ host'.next <= Len(Text(host.line))
<1>1. host.line \in Numbers /\ host.line # 0 /\ Text(host.line)[host.next] = c
  BY DEF Receives, LineTypeOK
<1>4. host.next \in 1..Len(Text(host.line)) /\ Len(Text(host.line)) \in Nat
  <2>1. host.next \in Nat \ {0} /\ host.next <= Len(Text(host.line))
    BY <1>1 DEF LineTypeOK, Sent
  <2>2. Len(Text(host.line)) \in Nat
    BY <1>1, TextBegins
  <2> QED
    BY <2>1, <2>2
<1>2. CASE host.next = Len(Text(host.line))
  <2>1. host' = [line |-> 0, next |-> host.next, left |-> host.left]
    BY <1>2 DEF Receives, LineTypeOK
  <2> QED
    BY <1>1, <1>4, <2>1 DEF LineTypeOK
<1>3. CASE host.next # Len(Text(host.line))
  <2>1. host' = [line |-> host.line, next |-> host.next + 1, left |-> host.left]
    BY <1>3 DEF Receives, LineTypeOK
  <2>2. host.next \in Nat \ {0} /\ host.left \in 0..MaxLines
    BY DEF LineTypeOK
  <2>3. host.next + 1 \in Nat \ {0}
    BY <2>2
  <2>4. host.next + 1 <= Len(Text(host.line))
    BY <1>3, <1>4
  <2> QED
    BY <1>1, <1>4, <2>1, <2>2, <2>3, <2>4
<1> QED
  BY <1>2, <1>3, <1>1

\* A step of the host or of the interrupt leaves the task alone.
LEMMA TaskKept ==
  ASSUME LineInv, UNCHANGED task
  PROVE  /\ Shape' /\ Reading'
         /\ task'.pc \in {"idle", "dispatch", "args", "read"}
         /\ task'.letter \in Letters \cup {""} /\ task'.buffer \in 1..2
         /\ task'.pos \in 1..(Size + 2) /\ task'.got \in Seq(Cells)
         /\ AllFit => task'.pos <= Size
  BY DEF LineInv, LineTypeOK, Shape, Reading, Wanted

\* What the host does leaves the buffers alone.
LEMMA HostTyped ==
  ASSUME LineInv, HostStarts \/ HostBreaksOff
  PROVE  LineInv'
<1>1. UNCHANGED <<bufs, uart, cmd, task>>
  BY DEF HostStarts, HostBreaksOff, isrVars
<1>2. host' \in [line : {0} \cup Numbers, next : Nat \ {0}, left : 0..MaxLines]
  <2>1. CASE HostStarts
    <3>1. PICK n \in Numbers : host' = [line |-> n, next |-> 1, left |-> host.left - 1]
      BY <2>1 DEF HostStarts
    <3>2. host.left \in 0..MaxLines /\ host.left > 0
      BY <2>1 DEF HostStarts, LineInv, LineTypeOK
    <3>3. host.left - 1 \in 0..MaxLines
      BY <3>2, Constants
    <3> QED
      BY <3>1, <3>3
  <2>2. CASE HostBreaksOff
    <3>1. host' = [line |-> 0, next |-> host.next, left |-> host.left]
      BY <2>2 DEF HostBreaksOff, LineInv, LineTypeOK
    <3> QED
      BY <3>1 DEF LineInv, LineTypeOK
  <2> QED
    BY <2>1, <2>2
<1>3. Sent'
  <2>1. CASE HostStarts
    <3>1. PICK n \in Numbers : host' = [line |-> n, next |-> 1, left |-> host.left - 1]
      BY <2>1 DEF HostStarts
    <3>2. host'.line = n /\ host'.next = 1 /\ ~(1 > 1)
      BY <3>1
    <3>3. 1 <= Len(Text(n))
      BY TextBegins
    <3> QED
      BY <3>2, <3>3 DEF Sent
  <2>2. CASE HostBreaksOff
    <3>1. host'.line = 0
      BY <2>2 DEF HostBreaksOff, LineInv, LineTypeOK
    <3> QED
      BY <3>1 DEF Sent
  <2> QED
    BY <2>1, <2>2
<1>4. HeadsLow'
  BY <1>1 DEF LineInv, HeadsLow
<1> QED
  BY <1>1, <1>2, <1>3, <1>4, TaskKept DEF LineInv, LineTypeOK

\* A character goes to a cell of the active buffer, the last at most.
LEMMA StoreTyped ==
  ASSUME LineInv, StoreLetter \/ Store
  PROVE  LineInv'
<1>1. PICK c \in {"letter", "head", "sep", "data", "rest"}, i \in 1..Size :
        /\ Receives(c) /\ UNCHANGED <<cmd, task>>
        /\ bufs' = [bufs EXCEPT ![uart.active][i] = Cell(c, host.line)]
        /\ uart' = [uart EXCEPT !.index = Further(i)]
        /\ c = "letter" => i = 1
        /\ c # "letter" => i = uart.index
  <2>1. CASE StoreLetter
    <3>1. 1 \in 1..Size
      BY Constants
    <3> QED
      BY <2>1, <3>1 DEF StoreLetter
  <2>2. CASE Store
    BY <2>2 DEF Store, LineInv, LineTypeOK
  <2> QED
    BY <2>1, <2>2
<1>2. /\ host.line \in Numbers
      /\ host' \in [line : {0} \cup Numbers, next : Nat \ {0}, left : 0..MaxLines]
      /\ host.next \in 1..Len(Text(host.line)) /\ Text(host.line)[host.next] = c
      /\ host'.line # 0 => /\ host'.line = host.line /\ host'.next = host.next + 1
                           /\ host'.next <= Len(Text(host.line))
  BY <1>1, ReceivesTyped DEF LineInv
<1>3. bufs' \in [1..2 -> [1..Size -> Cells]]
  <2>1. Cell(c, host.line) \in Cells
    BY <1>2, CellTyped
  <2>2. uart.active \in 1..2 /\ bufs \in [1..2 -> [1..Size -> Cells]]
    BY DEF LineInv, LineTypeOK
  <2> QED
    BY <1>1, <2>1, <2>2, BufferWritten
<1>4. uart' \in [active : 1..2, index : 1..Size]
  <2>1. uart' = [active |-> uart.active, index |-> Further(i)]
    BY <1>1 DEF LineInv, LineTypeOK
  <2> QED
    BY <2>1, FurtherTyped DEF LineInv, LineTypeOK
<1>5. Len(Text(host.line)) \in Nat /\ host.next \in Nat /\ i \in Nat /\ i <= host.next
  <2>1. Len(Text(host.line)) \in Nat /\ Text(host.line)[1] \in {"letter", "help"}
    BY <1>2, TextBegins
  <2>2. host.next \in Nat /\ host.next >= 1 /\ i \in Nat
    BY <1>2, <2>1
  <2>3. CASE c = "letter"
    BY <1>1, <2>2, <2>3
  <2>4. CASE c # "letter"
    <3>1. host.next # 1
      BY <1>2, <2>1, <2>4
    <3>2. host.next > 1 /\ host.line # 0
      BY <1>1, <2>2, <3>1 DEF Receives
    <3> QED
      BY <1>1, <2>1, <2>2, <2>4, <3>2 DEF LineInv, Sent
  <2> QED
    BY <2>1, <2>2, <2>3, <2>4
<1>6. Sent'
  <2>1. uart'.index = Further(i)
    BY <1>1 DEF LineInv, LineTypeOK
  <2>2. Further(i) <= host.next + 1
    BY <1>5 DEF Further
  <2> QED
    BY <1>2, <2>1, <2>2 DEF Sent
<1>7. HeadsLow'
  <2> SUFFICES ASSUME AllFit, NEW b \in 1..2, NEW j \in 1..Size, bufs'[b][j].is = "head"
               PROVE  j <= Size - 2
    BY DEF HeadsLow
  <2>1. bufs[b][j].is = "head" => j <= Size - 2
    BY DEF LineInv, HeadsLow
  <2>2. CASE b = uart.active /\ j = i
    <3>1. bufs'[b][j] = Cell(c, host.line)
      BY <1>1, <2>2 DEF LineInv, LineTypeOK
    <3>2. c = "head"
      BY <3>1 DEF Cell
    <3>3. host.next # 1
      BY <1>2, <3>2, TextBegins
    <3>4. host.next \in 2..Len(Text(host.line))
      BY <1>2, <1>5, <3>3
    <3>5. host.next <= Size - 2
      BY <1>2, <3>2, <3>4, HeadFits
    <3> QED
      BY <1>5, <2>2, <3>5, Constants
  <2>3. CASE ~(b = uart.active /\ j = i)
    <3>1. bufs'[b][j] = bufs[b][j]
      BY <1>1, <2>3 DEF LineInv, LineTypeOK
    <3> QED
      BY <2>1, <3>1
  <2> QED
    BY <2>2, <2>3
<1> QED
  BY <1>1, <1>2, <1>3, <1>4, <1>6, <1>7, TaskKept DEF LineInv, LineTypeOK

\* The end of a line exchanges the buffers and notifies the task.
LEMMA PublishTyped ==
  ASSUME LineInv, PublishHelp \/ PublishLine
  PROVE  LineInv'
<1>1. /\ Publish /\ UNCHANGED task
      /\ \E c : Receives(c)
  BY DEF PublishHelp, PublishLine, Publish
<1>2. /\ host.line \in Numbers
      /\ host' \in [line : {0} \cup Numbers, next : Nat \ {0}, left : 0..MaxLines]
      /\ host.next \in 1..Len(Text(host.line))
      /\ host'.line # 0 => /\ host'.line = host.line /\ host'.next = host.next + 1
                           /\ host'.next <= Len(Text(host.line))
  BY <1>1, ReceivesTyped DEF LineInv
<1>3. uart.active \in 1..2 /\ uart.index \in 1..Size /\ bufs \in [1..2 -> [1..Size -> Cells]]
  BY DEF LineInv, LineTypeOK
<1>4. bufs' \in [1..2 -> [1..Size -> Cells]]
  <2>1. CASE PublishHelp
    <3> DEFINE first == [bufs EXCEPT ![uart.active][1] = Cell("letter", host.line)]
    <3>1. first \in [1..2 -> [1..Size -> Cells]]
      BY <1>2, <1>3, CellTyped, BufferWritten, Constants
    <3>2. bufs' = [first EXCEPT ![uart.active][2] = Nul]
      BY <2>1 DEF PublishHelp
    <3> HIDE DEF first
    <3> QED
      BY <1>3, <3>1, <3>2, NulTyped, Constants
  <2>2. CASE PublishLine
    BY <2>2, <1>3, NulTyped, BufferWritten DEF PublishLine
  <2> QED
    BY <2>1, <2>2
<1>5. uart' \in [active : 1..2, index : 1..Size]
  <2>1. other_buffer(uart.active) \in 1..2
    BY <1>3 DEF other_buffer
  <2>2. Further(1) \in 1..Size
    BY FurtherTyped, Constants
  <2> QED
    BY <1>1, <2>1, <2>2 DEF Publish
<1>6. cmd' \in [buffer : 1..2, notified : BOOLEAN]
  BY <1>1, <1>3 DEF Publish
<1>7. Sent'
  <2>1. uart'.index = 2
    BY <1>1, Constants DEF Publish, Further
  <2>2. Len(Text(host.line)) \in Nat
    BY <1>2, TextBegins
  <2>3. host.next + 1 >= 2
    BY <1>2, <2>2
  <2>4. host'.line # 0 => uart'.index <= host'.next
    BY <1>2, <2>1, <2>3
  <2> QED
    BY <1>2, <2>4 DEF Sent
<1>8. HeadsLow'
  <2> SUFFICES ASSUME AllFit, NEW b \in 1..2, NEW j \in 1..Size, bufs'[b][j].is = "head"
               PROVE  j <= Size - 2
    BY DEF HeadsLow
  <2>1. bufs[b][j].is = "head" => j <= Size - 2
    BY DEF LineInv, HeadsLow
  <2>2. bufs'[b][j] = bufs[b][j] \/ bufs'[b][j] = Nul \/ bufs'[b][j] = Cell("letter", host.line)
    <3>1. CASE PublishHelp
      BY <1>3, <3>1 DEF PublishHelp
    <3>2. CASE PublishLine
      BY <1>3, <3>2 DEF PublishLine
    <3> QED
      BY <3>1, <3>2
  <2>3. Nul.is # "head" /\ Cell("letter", host.line).is # "head"
    BY DEF Nul, Cell
  <2> QED
    BY <2>1, <2>2, <2>3
<1> QED
  BY <1>1, <1>2, <1>4, <1>5, <1>6, <1>7, <1>8, TaskKept DEF LineInv, LineTypeOK

\* What LineInv says of the task.
TaskFits ==
  /\ Shape /\ Reading
  /\ task.pc \in {"idle", "dispatch", "args", "read"}
  /\ task.letter \in Letters \cup {""} /\ task.buffer \in 1..2
  /\ task.pos \in 1..(Size + 2) /\ task.got \in Seq(Cells)
  /\ AllFit => task.pos <= Size

\* Which field is read next tells how many have been read.
LEMMA FieldNext ==
  ASSUME LineInv, NEW field \in {"head", "sep", "data"}, Reads(field)
  PROVE  /\ task.letter \in Letters /\ task.got \in Seq(Cells) /\ Len(task.got) \in Nat
         /\ Len(task.got) + 1 <= Len(Wanted) /\ Len(Wanted) \in 0..3
         /\ field = "head" => Len(task.got) = 0 /\ task.pos = 2
         /\ field = "sep" => /\ Len(task.got) = 1 /\ task.pos <= Size + 1
                             /\ AllFit => task.pos <= Size - 1
         /\ field = "data" /\ Len(task.got) = 0 => task.pos = 2
<1>1. /\ task.pc = "read" /\ Len(task.got) < Len(Wanted)
      /\ Wanted[Len(task.got) + 1] = field
  BY DEF Reads
<1>2. task.letter \in Letters /\ task.got \in Seq(Cells) /\ Len(task.got) \in Nat
  <2>1. task.letter \in Letters /\ task.got \in Seq(Cells)
    BY <1>1 DEF LineInv, LineTypeOK, Reading
  <2> QED
    BY <2>1
<1>3. Len(Wanted) \in 0..3
  BY <1>2, FieldsFew DEF Wanted
<1>4. Len(task.got) + 1 \in 1..Len(Wanted)
  BY <1>1, <1>2, <1>3
<1>5. (field = "head" => Len(task.got) + 1 = 1) /\ (field = "sep" => Len(task.got) + 1 = 2)
  BY <1>1, <1>2, <1>4, FieldsInOrder DEF Wanted
<1>6. /\ Len(task.got) = 0 => task.pos = 2
      /\ Len(task.got) = 1 => task.pos <= Size + 1 /\ (AllFit => task.pos <= Size - 1)
  BY <1>1 DEF LineInv, Reading
<1>7. Len(task.got) + 1 <= Len(Wanted)
  BY <1>1, <1>2, <1>3
<1>8. (field = "head" => Len(task.got) = 0) /\ (field = "sep" => Len(task.got) = 1)
  <2> DEFINE m == Len(task.got)
  <2>1. m \in Nat /\ (field = "head" => m + 1 = 1) /\ (field = "sep" => m + 1 = 2)
    BY <1>2, <1>5
  <2>2. (m + 1 = 1 => m = 0) /\ (m + 1 = 2 => m = 1)
    <3> HIDE DEF m
    <3> QED
      BY <2>1
  <2> QED
    BY <2>1, <2>2, Zenon
<1>9. field = "data" /\ Len(task.got) = 0 => task.pos = 2
  BY <1>6
<1>10. field = "head" => Len(task.got) = 0 /\ task.pos = 2
  BY <1>6, <1>8
<1>11. field = "sep" => /\ Len(task.got) = 1 /\ task.pos <= Size + 1
                        /\ AllFit => task.pos <= Size - 1
  BY <1>6, <1>8
<1> QED
  BY <1>2, <1>3, <1>7, <1>9, <1>10, <1>11

\* Reading a field leaves the task where it may be.
LEMMA FieldTyped ==
  ASSUME LineInv, ReadHead \/ ReadSep \/ ReadData
  PROVE  TaskFits'
<1>1. /\ Shape /\ bufs \in [1..2 -> [1..Size -> Cells]] /\ task.buffer \in 1..2
      /\ task.pos \in 1..(Size + 2) /\ (AllFit => task.pos <= Size)
  BY DEF LineInv, LineTypeOK
<1>2. Size \in Nat /\ Size > 4
  BY Constants
<1>3. ASSUME NEW field \in {"head", "sep", "data"}, Reads(field),
             NEW cell \in Cells, NEW pos \in 1..(Size + 2), AllFit => pos <= Size,
             Len(task.got) = 0 => pos <= Size + 1 /\ (AllFit => pos <= Size - 1),
             task' = [task EXCEPT !.got = Append(@, cell), !.pos = pos]
      PROVE  TaskFits'
  <2>1. /\ task'.pc = "read" /\ task'.letter = task.letter
        /\ task'.buffer = task.buffer /\ task'.pos = pos
        /\ task'.got = Append(task.got, cell) /\ Shape'
    BY <1>1, <1>3 DEF Shape, Reads
  <2>2. /\ task.letter \in Letters /\ task.got \in Seq(Cells) /\ Len(task.got) \in Nat
        /\ Len(task.got) + 1 <= Len(Wanted) /\ Len(Wanted) \in 0..3
    BY <1>3, FieldNext
  <2>3. task'.got \in Seq(Cells) /\ Len(task'.got) = Len(task.got) + 1
    BY <1>3, <2>1, <2>2, AppendTyped
  <2>4. Wanted' = Wanted
    BY <2>1 DEF Wanted
  <2>5. Reading'
    <3>1. Len(task'.got) # 0 /\ (Len(task'.got) = 1 => Len(task.got) = 0)
      BY <2>2, <2>3
    <3>2. Len(task'.got) <= Len(Wanted')
      BY <2>2, <2>3, <2>4
    <3> QED
      BY <1>3, <2>1, <2>2, <3>1, <3>2 DEF Reading
  <2> QED
    BY <1>1, <1>3, <2>1, <2>2, <2>3, <2>5 DEF TaskFits
<1>4. CASE ReadHead
  <2>1. PICK e, cell :
          /\ e \in task.pos..(Size + 1)
          /\ cell \in HeadsRead(task.buffer, task.pos, e)
          /\ HeadEnds(task.buffer, task.pos, e)
          /\ task' = [task EXCEPT !.got = Append(@, cell), !.pos = e]
    BY <1>4 DEF ReadHead
  <2>2. Reads("head") /\ task.pos = 2
    BY <1>4, FieldNext DEF ReadHead
  <2>3. e \in 1..(Size + 2) /\ e <= Size + 1 /\ e >= 2
    BY <1>2, <2>1, <2>2
  <2>4. ASSUME AllFit
        PROVE  e <= Size - 1
    <3> SUFFICES ASSUME ~(e <= Size - 1) PROVE FALSE
      OBVIOUS
    <3>1. Size - 1 \in task.pos..(e - 1) /\ Size - 1 \in 1..Size
      BY <1>2, <2>1, <2>2
    <3>2. CASE e >= Size
      <4>1. bufs[task.buffer][Size - 1].is = "head"
        BY <2>1, <3>1 DEF HeadEnds
      <4>2. Size - 1 <= Size - 2
        BY <1>1, <2>4, <3>1, <4>1 DEF LineInv, HeadsLow
      <4> QED
        BY <1>2, <4>2
    <3> QED
      BY <1>2, <2>3, <3>2
  <2>5. cell \in Cells
    <3>1. bufs[task.buffer][task.pos] \in Cells
      <4>1. 2 \in 1..Size
        BY <1>2
      <4> QED
        BY <1>1, <2>2, <4>1, CellRead
    <3> QED
      BY <2>1, <3>1 DEF HeadsRead
  <2>6. AllFit => e <= Size
    BY <1>2, <2>3, <2>4
  <2> QED
    BY <1>3, <2>1, <2>2, <2>3, <2>4, <2>5, <2>6
<1>5. ASSUME NEW cell \in CellsAt(task.buffer, task.pos)
      PROVE  cell \in Cells
  BY <1>1, <1>5, CellRead DEF CellsAt
<1>6. CASE ReadSep
  <2>1. PICK cell \in CellsAt(task.buffer, task.pos) :
          task' = [task EXCEPT !.got = Append(@, cell), !.pos = @ + 1]
    BY <1>6 DEF ReadSep
  <2>2. task' = [task EXCEPT !.got = Append(@, cell), !.pos = task.pos + 1]
    BY <1>1, <2>1 DEF Shape
  <2>3. /\ Reads("sep") /\ Len(task.got) = 1 /\ task.pos <= Size + 1
        /\ AllFit => task.pos <= Size - 1
    BY <1>6, FieldNext DEF ReadSep
  <2>4. /\ task.pos + 1 \in 1..(Size + 2) /\ (AllFit => task.pos + 1 <= Size)
        /\ Len(task.got) # 0
    BY <1>1, <1>2, <2>3
  <2>5. cell \in Cells
    BY <1>5, <2>1
  <2> QED
    BY <1>3, <2>2, <2>3, <2>4, <2>5, Zenon
<1>7. CASE ReadData
  <2>1. PICK cell \in CellsAt(task.buffer, task.pos) :
          task' = [task EXCEPT !.got = Append(@, cell)]
    BY <1>7 DEF ReadData
  <2>2. task' = [task EXCEPT !.got = Append(@, cell), !.pos = task.pos]
    BY <1>1, <2>1 DEF Shape
  <2>3. Reads("data") /\ (Len(task.got) = 0 => task.pos = 2)
    BY <1>7, FieldNext DEF ReadData
  <2>4. Len(task.got) = 0 => task.pos <= Size + 1 /\ (AllFit => task.pos <= Size - 1)
    BY <1>2, <2>3
  <2> QED
    BY <1>1, <1>3, <1>5, <2>1, <2>2, <2>3, <2>4
<1> QED
  BY <1>4, <1>6, <1>7

\* The steps of the task: only TaskTake changes what the interrupt writes.
LEMMA TaskTyped ==
  ASSUME LineInv, TaskStep
  PROVE  LineInv'
<1>1. /\ Shape /\ Reading /\ LineTypeOK
      /\ task.pos \in 1..(Size + 2) /\ task.got \in Seq(Cells)
      /\ AllFit => task.pos <= Size
      /\ task.letter \in Letters \cup {""} /\ task.buffer \in 1..2
      /\ Sent /\ HeadsLow
  BY DEF LineInv, LineTypeOK
<1> SUFFICES UNCHANGED <<host, bufs, uart>> /\ cmd' \in [buffer : 1..2, notified : BOOLEAN]
             /\ TaskFits'
  BY <1>1 DEF TaskFits, LineInv, LineTypeOK, Sent, HeadsLow
<1>2. UNCHANGED <<host, bufs, uart>>
  BY DEF TaskStep, TaskTake, Dispatch, Arguments, ReadHead, ReadSep, ReadData, Perform, isrVars
<1>3. cmd' \in [buffer : 1..2, notified : BOOLEAN]
  <2>1. CASE TaskTake
    <3>1. cmd' = [buffer |-> cmd.buffer, notified |-> FALSE]
      BY <2>1, <1>1 DEF TaskTake, LineTypeOK
    <3> QED
      BY <3>1, <1>1 DEF LineTypeOK
  <2>2. CASE ~TaskTake
    BY <2>2, <1>1 DEF TaskStep, Dispatch, Arguments, ReadHead, ReadSep, ReadData, Perform, isrVars, LineTypeOK
  <2> QED
    BY <2>1, <2>2
<1>4. TaskFits'
  <2>1. CASE TaskTake
    <3>1. /\ task'.pc = "dispatch" /\ task'.letter = task.letter
          /\ task'.buffer = task.buffer /\ task'.pos = task.pos
          /\ task'.got = task.got /\ Shape'
      BY <2>1, <1>1 DEF TaskTake, Shape
    <3> QED
      BY <3>1, <1>1 DEF TaskFits, Reading
  <2>2. CASE Dispatch
    <3> DEFINE cell == bufs[cmd.buffer][1]
    <3>1. cell \in Cells
      <4>1. cmd.buffer \in 1..2 /\ bufs \in [1..2 -> [1..Size -> Cells]]
        BY <1>1 DEF LineTypeOK
      <4>2. 1 \in 1..Size
        BY Constants
      <4> QED
        BY <4>1, <4>2, CellRead
    <3>2. CASE cell.is = "letter"
      <4>1. cell.line \in Numbers
        BY <3>1, <3>2 DEF Cells, Nul, Cell
      <4>2. Lines[cell.line].letter \in Letters
        BY <4>1, LineAssumption DEF LineAssumption, IsLine, Numbers
      <4>3. /\ task'.pc = "args" /\ task'.letter = Lines[cell.line].letter
            /\ task'.buffer = task.buffer /\ task'.pos = task.pos
            /\ task'.got = task.got /\ Shape'
        BY <2>2, <3>2, <1>1 DEF Dispatch, Shape
      <4> QED
        BY <4>2, <4>3, <1>1 DEF TaskFits, Reading
    <3>3. CASE cell.is # "letter"
      <4>1. /\ task'.pc = "idle" /\ task'.letter = task.letter
            /\ task'.buffer = task.buffer /\ task'.pos = task.pos
            /\ task'.got = task.got /\ Shape'
        BY <2>2, <3>3, <1>1 DEF Dispatch, Shape
      <4> QED
        BY <4>1, <1>1 DEF TaskFits, Reading
    <3> QED
      BY <3>2, <3>3
  <2>3. CASE Arguments
    <3>1. /\ task'.pc = "read" /\ task'.letter = task.letter
          /\ task'.buffer = cmd.buffer /\ task'.pos = 2
          /\ task'.got = <<>> /\ Shape'
      BY <2>3, <1>1 DEF Arguments, Shape
    <3>2. task.letter \in Letters
      BY <2>3, <1>1 DEF Arguments, Reading
    <3>3. 2 \in 1..(Size + 2) /\ 2 <= Size /\ cmd.buffer \in 1..2
      <4>1. 2 \in 1..(Size + 2) /\ 2 <= Size
        BY Constants
      <4>2. cmd.buffer \in 1..2
        BY <1>1 DEF LineTypeOK
      <4> QED
        BY <4>1, <4>2
    <3>4. task'.got \in Seq(Cells) /\ Len(task'.got) = 0
      <4>1. <<>> \in Seq(Cells) /\ Len(<<>>) = 0
        OBVIOUS
      <4> QED
        BY <4>1, <3>1
    <3>5. Len(Wanted') \in 0..3
      <4>1. Wanted' = Fields(task.letter)
        BY <3>1 DEF Wanted
      <4> QED
        BY <4>1, <3>2, FieldsFew
    <3>6. Reading'
      BY <3>1, <3>2, <3>4, <3>5 DEF Reading
    <3> QED
      BY <3>1, <3>2, <3>3, <3>4, <3>6 DEF TaskFits
  <2>4. CASE ReadHead \/ ReadSep \/ ReadData
    BY <1>1, <2>4, FieldTyped
  <2>5. CASE Perform
    <3>1. /\ task'.pc = "idle" /\ task'.letter = task.letter
          /\ task'.buffer = task.buffer /\ task'.pos = task.pos
          /\ task'.got = task.got /\ Shape'
      BY <2>5, <1>1 DEF Perform, Shape
    <3> QED
      BY <3>1, <1>1 DEF TaskFits, Reading
  <2> QED
    BY <2>1, <2>2, <2>3, <2>4, <2>5 DEF TaskStep, TaskFits
<1> QED
  BY <1>2, <1>3, <1>4

\* Every step preserves the invariant.
LEMMA LineStep ==
  ASSUME LineInv, [Next]_vars
  PROVE  LineInv'
<1>1. CASE HostStarts \/ HostBreaksOff
  BY <1>1, HostTyped
<1>2. CASE StoreLetter \/ Store
  BY <1>2, StoreTyped
<1>3. CASE PublishHelp \/ PublishLine
  BY <1>3, PublishTyped
<1>4. CASE TaskStep
  BY <1>4, TaskTyped
<1>5. CASE UNCHANGED vars
  BY <1>5 DEF vars, isrVars, LineInv, LineTypeOK, Shape, Sent, HeadsLow, Reading, Wanted
<1> QED
  BY <1>1, <1>2, <1>3, <1>4, <1>5 DEF Next

\* Whatever the host sends, and when: the interrupt stays inside the buffers; and
\* if no line is so wide that its arguments do not fit, the task reads no more
\* than the buffer it was given.
THEOREM LineTypeCorrect == Spec => []LineTypeOK
<1>1. LineInv /\ [Next]_vars => LineInv'
  BY LineStep
<1>2. LineInv => LineTypeOK
  BY DEF LineInv
<1> QED
  BY <1>1, <1>2, LineInitially, PTL DEF Spec

-----------------------------------------------------------------------------
(* Who owns which buffer.  The interrupt hands one over only to a task that *)
(* is through with the other: from the notification until the command is   *)
(* carried out, the task's buffer is not the active one.                   *)

ReadInv ==
  /\ task.pc # "idle" => ~cmd.notified
  /\ cmd.notified \/ task.pc # "idle" => cmd.buffer # uart.active
  /\ task.pc = "read" => task.buffer = cmd.buffer

\* The task starts with nothing to read.
LEMMA ReadInitially == Init => ReadInv
<1> SUFFICES ASSUME Init PROVE ReadInv
  OBVIOUS
<1>1. task.pc = "idle"
  BY DEF Init
<1>2. ~cmd.notified
  <2>1. cmd = [buffer |-> 1, notified |-> FALSE]
    BY DEF Init
  <2> QED
    BY <2>1
<1> QED
  BY <1>1, <1>2 DEF ReadInv

\* The interrupt writes into the active buffer only, and the one it hands over
\* is not active any more.
LEMMA IsrKeeps ==
  ASSUME HostPaces, LineInv, ReadInv,
         StoreLetter \/ Store \/ PublishHelp \/ PublishLine
  PROVE  /\ ReadInv'
         /\ task.pc = "read" => bufs'[task.buffer] = bufs[task.buffer]
<1>1. /\ uart.active \in 1..2 /\ cmd.buffer \in 1..2 /\ task.buffer \in 1..2
      /\ bufs \in [1..2 -> [1..Size -> Cells]] /\ UNCHANGED task
      /\ uart \in [active : 1..2, index : 1..Size]
  BY DEF LineInv, LineTypeOK, StoreLetter, Store, PublishHelp, PublishLine, Publish
<1>2. CASE StoreLetter \/ Store
  <2>1. PICK i, c : /\ bufs' = [bufs EXCEPT ![uart.active][i] = c]
                    /\ uart'.active = uart.active /\ UNCHANGED cmd
    BY <1>1, <1>2 DEF StoreLetter, Store
  <2>2. ReadInv'
    BY <1>1, <2>1 DEF ReadInv
  <2>3. task.pc = "read" => bufs'[task.buffer] = bufs[task.buffer]
    BY <1>1, <2>1 DEF ReadInv
  <2> QED
    BY <2>2, <2>3
<1>3. CASE PublishHelp \/ PublishLine
  <2>1. Handled /\ Publish
    BY <1>3 DEF PublishHelp, PublishLine
  <2>2. task.pc = "idle"
    BY <2>1 DEF Handled
  <2>3. cmd'.buffer # uart'.active /\ cmd'.notified
    BY <1>1, <2>1 DEF Publish, other_buffer
  <2>4. ReadInv'
    BY <1>1, <2>2, <2>3 DEF ReadInv
  <2> QED
    BY <2>2, <2>4
<1> QED
  BY <1>2, <1>3

\* The task writes to no buffer, and reads the one it was given.
LEMMA TaskKeeps ==
  ASSUME LineInv, ReadInv, TaskStep
  PROVE  ReadInv' /\ UNCHANGED bufs
<1>1. Shape /\ cmd \in [buffer : 1..2, notified : BOOLEAN] /\ task.buffer \in 1..2
  BY DEF LineInv, LineTypeOK
<1>2. UNCHANGED <<bufs, uart>>
  BY DEF TaskStep, TaskTake, Dispatch, Arguments, ReadHead, ReadSep, ReadData, Perform, isrVars
<1>3. CASE TaskTake
  <2>1. /\ cmd.notified /\ cmd'.buffer = cmd.buffer /\ ~cmd'.notified
        /\ task'.pc = "dispatch"
    BY <1>1, <1>3 DEF TaskTake, Shape
  <2> QED
    BY <1>2, <2>1 DEF ReadInv
<1>4. CASE Dispatch \/ Perform
  <2>1. UNCHANGED cmd /\ task.pc # "idle" /\ task'.pc \in {"args", "idle"}
    BY <1>1, <1>4 DEF Dispatch, Perform, isrVars, Shape
  <2> QED
    BY <1>2, <2>1 DEF ReadInv
<1>5. CASE Arguments
  <2>1. UNCHANGED cmd /\ task.pc # "idle" /\ task'.pc = "read" /\ task'.buffer = cmd.buffer
    BY <1>1, <1>5 DEF Arguments, isrVars, Shape
  <2> QED
    BY <1>2, <2>1 DEF ReadInv
<1>6. CASE ReadHead \/ ReadSep \/ ReadData
  <2>1. UNCHANGED cmd /\ task.pc = "read" /\ task'.pc = "read" /\ task'.buffer = task.buffer
    BY <1>1, <1>6 DEF ReadHead, ReadSep, ReadData, Reads, isrVars, Shape
  <2> QED
    BY <1>2, <2>1 DEF ReadInv
<1> QED
  BY <1>2, <1>3, <1>4, <1>5, <1>6 DEF TaskStep

\* With a host that ends a line only when the one before it was handled, the
\* two buffers are enough: the line being read does not change.
THEOREM ReadUndisturbed ==
  ASSUME HostPaces
  PROVE  Spec => ReadStable
<1> DEFINE Inv == LineInv /\ ReadInv
<1>1. Init => Inv
  BY LineInitially, ReadInitially
<1>2. Inv /\ [Next]_vars => Inv' /\ (task.pc = "read" => bufs'[task.buffer] = bufs[task.buffer])
  <2> SUFFICES ASSUME LineInv, ReadInv, [Next]_vars
               PROVE  Inv' /\ (task.pc = "read" => bufs'[task.buffer] = bufs[task.buffer])
    OBVIOUS
  <2>1. LineInv'
    BY LineStep
  <2>2. CASE HostStarts \/ HostBreaksOff
    <3>1. UNCHANGED <<isrVars, task>>
      BY <2>2 DEF HostStarts, HostBreaksOff
    <3> QED
      BY <2>1, <3>1 DEF isrVars, ReadInv
  <2>3. CASE StoreLetter \/ Store \/ PublishHelp \/ PublishLine
    BY <2>1, <2>3, IsrKeeps
  <2>4. CASE TaskStep
    BY <2>1, <2>4, TaskKeeps
  <2>5. CASE UNCHANGED vars
    BY <2>1, <2>5 DEF vars, isrVars, ReadInv
  <2> QED
    BY <2>2, <2>3, <2>4, <2>5 DEF Next
<1> QED
  BY <1>1, <1>2, PTL DEF Spec, ReadStable
=============================================================================
