------------------------- MODULE SerialAskedProofs -------------------------
(***************************************************************************)
(* The serial line does what the manual says: for every number of lines,   *)
(* every size of the buffers and whatever is left in them of lines that    *)
(* were broken off, a host that waits until a line was handled, and sends  *)
(* lines about which code and manual agree, gets each of them carried out  *)
(* once and in order.                                                      *)
(*                                                                         *)
(* AsAsked looks at the histories only.  The invariant follows a line from *)
(* the host through the active buffer (Incoming) and the one handed over   *)
(* (Carries) to what the task has read of it (ReadSoFar).                  *)
(***************************************************************************)
EXTENDS SerialLineProofs

AllClear == \A n \in Numbers : ClearLine(Lines[n])

-----------------------------------------------------------------------------
(* Lines and their texts.                                                  *)

\* The arguments of a clear line fit.
LEMMA WidthFits ==
  ASSUME NEW n \in Numbers, ClearLine(Lines[n])
  PROVE  /\ Width(Lines[n]) \in Nat /\ Width(Lines[n]) + 1 < Size
         /\ Lines[n].fields = 0 => Width(Lines[n]) = 0
<1> DEFINE l == Lines[n]
           m == Len(Fields(l.letter))
<1>1. /\ l.fields \in 0..m /\ m \in 0..3 /\ l.wide \in Nat
      /\ Width(l) = l.fields + l.wide
      /\ l.wide > 0 => l.fields > 0
  BY LineTyped, FieldsFew
<1>2. 1 + m + l.wide < Size
  BY DEF ClearLine, Fits
<1> HIDE DEF l, m
<1> QED
  BY <1>1, <1>2, Constants DEF l

\* A request for information is a single character.
LEMMA HelpText ==
  ASSUME NEW n \in Numbers, Lines[n].letter = "?", ClearLine(Lines[n])
  PROVE  Len(Text(n)) = 1 /\ Text(n)[1] = "help" /\ Lines[n].fields = 0
<1>1. Lines[n].rest = 0
  BY DEF ClearLine
<1>2. Len(Fields("?")) = 0
  BY DEF Fields
<1>3. Lines[n].fields \in 0..0
  BY <1>2, LineTyped
<1>4. Len(Text(n)) = 1 + 0 /\ Text(n)[1] = "help"
  BY <1>1, HelpShape
<1> QED
  BY <1>3, <1>4

-----------------------------------------------------------------------------
(* What a handler makes of the cells it has read.                          *)

\* A power of two, as the number of subsets, is a number.
LEMMA PowerTyped ==
  ASSUME NEW k \in Nat
  PROVE  2^k \in Nat
<1>1. IsFiniteSet(1..k) /\ Cardinality(1..k) = k
  BY FS_Interval
<1>2. IsFiniteSet(SUBSET (1..k)) /\ Cardinality(SUBSET (1..k)) = 2^k
  BY <1>1, FS_SUBSET
<1> QED
  BY <1>2, FS_CardinalityType

\* The two checks the handlers of Q, S and R share make of clear lines what
\* the manual does.
LEMMA CheckedMeans ==
  ASSUME NEW n \in Numbers, ClearLine(Lines[n]), Lines[n].letter \in {"Q", "S", "R"},
         Lines[n].fields = Len(Fields(Lines[n].letter)), NEW frame
  PROVE  Checked(Lines[n].priority, Lines[n].length, Lines[n].data, frame)
           = IF InRange(Lines[n]) THEN frame ELSE Error
<1> DEFINE l == Lines[n]
<1>1. l.priority \in Nat /\ l.length \in Nat /\ l.data \in Nat
  BY LineTyped
<1>2. 2^l.length \in Nat
  BY <1>1, PowerTyped
<1>3. priority_or_length_illegal(l.priority, l.length)
        <=> ~(l.priority \in 1..6 /\ l.length \in 0..32)
  <2>1. \A p, k \in Nat : k > 32 \/ p \notin 1..6 <=> ~(p \in 1..6 /\ k \in 0..32)
    OBVIOUS
  <2> HIDE DEF l
  <2> QED
    BY <1>1, <2>1 DEF priority_or_length_illegal, MAX_DATA_LENGTH
<1>4. l.length \in 0..32 => (data_illegal(l.data, l.length) <=> ~(l.data < 2^l.length))
  <2> SUFFICES ASSUME l.length \in 0..32
               PROVE  l.data >= 2^l.length + 1 <=> ~(l.data < 2^l.length)
    BY DEF data_illegal
  <2>1. l.data # 2^l.length
    <3>1. l.length <= 32
      <4>1. \A k \in 0..32 : k <= 32
        OBVIOUS
      <4> HIDE DEF l
      <4> QED
        BY <4>1
    <3> QED
      BY <3>1 DEF ClearLine, MAX_DATA_LENGTH
  <2>2. \A p, d \in Nat : d # p => (d >= p + 1 <=> ~(d < p))
    OBVIOUS
  <2> QED
    BY <1>1, <1>2, <2>1, <2>2
<1>5. InRange(l) <=> l.priority \in 1..6 /\ l.length \in 0..32 /\ l.data < 2^l.length
  <2>1. l.priority # 6
    BY DEF ClearLine
  <2>2. InRange(l) <=> /\ l.priority \in 1..(IF l.letter = "Q" THEN 6 ELSE 5)
                       /\ l.length \in 0..32 /\ l.data < 2^l.length
    BY DEF InRange
  <2>3. \A p \in Nat : p # 6 => (p \in 1..5 <=> p \in 1..6)
    OBVIOUS
  <2> HIDE DEF l
  <2> QED
    BY <1>1, <2>1, <2>2, <2>3
<1> HIDE DEF l
<1>6. priority_or_length_illegal(l.priority, l.length) \/ data_illegal(l.data, l.length)
        <=> ~InRange(l)
  BY <1>3, <1>4, <1>5
<1>7. Checked(l.priority, l.length, l.data, frame) = IF InRange(l) THEN frame ELSE Error
  BY <1>6 DEF Checked
<1> QED
  BY <1>7 DEF l

\* The head of a clear line is read as it is, bytes or not.
LEMMA HeadMeans ==
  ASSUME NEW n \in Numbers, ClearLine(Lines[n]), Lines[n].letter \in {"Q", "S", "R"}
  PROVE  LET first == HeadRead(Read("head", Cell("head", n)))
         IN /\ first.priority = Lines[n].priority /\ first.length = Lines[n].length
            /\ Lines[n].letter = "R" => first.repeat = Lines[n].repeat
<1> DEFINE l == Lines[n]
<1>1. l \in [letter : Letters, priority : Nat, repeat : Nat, length : Nat,
             plus : BOOLEAN, data : Nat, wide : Nat, rest : Nat, fields : Nat]
  BY LineTyped
<1>2. Read("head", Cell("head", n)) = l
  BY DEF Read, Cell
<1>3. /\ l.priority % 256 = l.priority /\ l.length % 256 = l.length
      /\ l.letter = "R" => l.repeat % 256 = l.repeat
  <2>1. \A k \in Nat : k < 256 => k % 256 = k
    OBVIOUS
  <2>2. l.priority < 256 /\ l.length < 256 /\ (l.letter = "R" => l.repeat < 256)
    BY DEF ClearLine
  <2> QED
    BY <1>1, <2>1, <2>2
<1> HIDE DEF l
<1>4. /\ HeadRead(l).priority = l.priority % 256 /\ HeadRead(l).length = l.length % 256
      /\ HeadRead(l).repeat = l.repeat % 256
  BY <1>1 DEF HeadRead, Byte
<1> QED
  BY <1>2, <1>3, <1>4 DEF l

\* Without a head there is no priority, and without data there are none.
LEMMA NoHead ==
  ASSUME NEW cell, cell.is \in {"nul", "rest"}
  PROVE  HeadRead(Read("head", cell)).priority = 0 /\ Read("data", cell).data = 0
<1>1. Read("head", cell) = NoNumber /\ Read("data", cell) = NoNumber
  BY DEF Read
<1>2. NoNumber.data = 0 /\ HeadRead(NoNumber).priority = 0 % 256
  BY DEF NoNumber, HeadRead, Byte
<1>3. 0 % 256 = 0
  OBVIOUS
<1> QED
  BY <1>1, <1>2, <1>3

\* The cells a handler has read of line n when it has read all it wants: the
\* arguments of the line, or none of them.
AllRead(n, got) ==
  /\ got \in Seq(Cells) /\ Len(got) = Len(Fields(Lines[n].letter))
  /\ \/ /\ Lines[n].fields = Len(Fields(Lines[n].letter))
        /\ \A i \in 1..Len(got) : got[i] = Cell(Fields(Lines[n].letter)[i], n)
     \/ /\ Lines[n].fields = 0 /\ Len(got) > 0
        /\ got[1].is \in {"nul", "rest"}

\* From the fields of a clear line each handler makes what the manual says of it.
LEMMA EffectMeant ==
  ASSUME NEW n \in Numbers, ClearLine(Lines[n]), NEW got, AllRead(n, got)
  PROVE  Effect(Lines[n].letter, got) = Meant(Lines[n])
<1> DEFINE l == Lines[n]
           first == HeadRead(Read("head", got[1]))
           data == Read("data", got[Len(got)]).data
           twice == IF Read("sep", got[2]).plus THEN 1 ELSE 0
<1>1. l.letter \in Letters
  BY LineTyped
<1>2. l.letter \in {"Q", "S", "R"} => (InRange(l) => l.fields = Len(Fields(l.letter)))
  BY DEF InRange
<1>3. CASE l.letter \in {"Q", "S"}
  <2>1. Fields(l.letter) = <<"head", "sep", "data">> /\ Len(got) = 3
    BY <1>3 DEF Fields, AllRead
  <2>2. Effect(l.letter, got) =
          Checked(first.priority, first.length, data,
                  Frame(IF l.letter = "Q" THEN get_query_type(first.priority)
                        ELSE get_forward_type(first.priority), twice, first.length, data))
    BY <1>3 DEF Effect
  <2>3. Meant(l) = IF ~InRange(l) THEN Error
                   ELSE Frame(TypeAsked(l), IF l.plus THEN 1 ELSE 0, l.length, l.data)
    BY <1>3 DEF Meant, Command
  <2>4. CASE l.fields = 3
    <3>1. got[1] = Cell("head", n) /\ got[2] = Cell("sep", n) /\ got[3] = Cell("data", n)
      BY <2>1, <2>4 DEF AllRead
    <3>2. first.priority = l.priority /\ first.length = l.length
      BY <1>3, <3>1, HeadMeans
    <3>3. data = l.data /\ twice = IF l.plus THEN 1 ELSE 0
      BY <2>1, <3>1 DEF Read, Cell
    <3> HIDE DEF first, data, twice
    <3>4. TypeAsked(l) = IF l.letter = "Q" THEN get_query_type(first.priority)
                         ELSE get_forward_type(first.priority)
      BY <1>3, <3>2 DEF TypeAsked, ClearLine
    <3>5. Effect(l.letter, got) = IF InRange(l) THEN
              Frame(TypeAsked(l), IF l.plus THEN 1 ELSE 0, l.length, l.data) ELSE Error
      BY <1>3, <2>1, <2>2, <2>4, <3>2, <3>3, <3>4, CheckedMeans
    <3> QED
      BY <2>3, <3>5
  <2>5. CASE l.fields = 0
    <3>1. first.priority = 0
      BY <2>1, <2>5, NoHead DEF AllRead
    <3>2. ~InRange(l)
      BY <1>2, <1>3, <2>1, <2>5
    <3> QED
      BY <2>2, <2>3, <3>1, <3>2 DEF Checked, priority_or_length_illegal
  <2> QED
    BY <2>1, <2>4, <2>5 DEF AllRead
<1>4. CASE l.letter = "R"
  <2>1. Fields(l.letter) = <<"head", "data">> /\ Len(got) = 2
    BY <1>4 DEF Fields, AllRead
  <2>2. Effect(l.letter, got) =
          Checked(first.priority, first.length, data,
                  Frame(get_forward_type(first.priority), first.repeat, first.length, data))
    BY <1>4 DEF Effect
  <2>3. Meant(l) = IF ~InRange(l) THEN Error
                   ELSE Frame(get_forward_type(l.priority), l.repeat, l.length, l.data)
    BY <1>4 DEF Meant, Command, TypeAsked
  <2>4. CASE l.fields = 2
    <3>1. got[1] = Cell("head", n) /\ got[2] = Cell("data", n)
      BY <2>1, <2>4 DEF AllRead
    <3>2. first.priority = l.priority /\ first.length = l.length /\ first.repeat = l.repeat
      BY <1>4, <3>1, HeadMeans
    <3>3. data = l.data
      BY <2>1, <3>1 DEF Read, Cell
    <3> HIDE DEF first, data
    <3>5. Effect(l.letter, got) = IF InRange(l) THEN
              Frame(get_forward_type(l.priority), l.repeat, l.length, l.data) ELSE Error
      BY <1>4, <2>1, <2>2, <2>4, <3>2, <3>3, CheckedMeans
    <3> QED
      BY <2>3, <3>5
  <2>5. CASE l.fields = 0
    <3>1. first.priority = 0
      BY <2>1, <2>5, NoHead DEF AllRead
    <3>2. ~InRange(l)
      BY <1>2, <1>4, <2>1, <2>5
    <3> QED
      BY <2>2, <2>3, <3>1, <3>2 DEF Checked, priority_or_length_illegal
  <2> QED
    BY <2>1, <2>4, <2>5 DEF AllRead
<1>5. CASE l.letter \in {"Y", "W", "N"}
  <2>1. Fields(l.letter) = <<"data">> /\ Len(got) = 1
    BY <1>5 DEF Fields, AllRead
  <2>2. l.data \in Nat
    BY LineTyped
  <2>3. CASE l.fields = 1
    <3>1. got[1] = Cell("data", n)
      BY <2>1, <2>3 DEF AllRead
    <3>2. data = l.data
      BY <2>1, <3>1 DEF Read, Cell
    <3>3. InRange(l) <=> IF l.letter = "Y" THEN l.data \in 0..255 ELSE l.data > 0
      BY <1>5, <2>1, <2>3 DEF InRange
    <3>4. Effect(l.letter, got) =
            CASE l.letter = "Y" -> IF l.data > 255 THEN Error ELSE Frame("BACKWARD", 0, 8, l.data)
              [] l.letter = "W" -> IF l.data = 0 THEN Error ELSE Act("start", l.data)
              [] l.letter = "N" -> IF l.data = 0 THEN Error ELSE Act("next", l.data)
      BY <1>5, <3>2 DEF Effect
    <3> HIDE DEF data
    <3> QED
      <4>1. CASE l.letter = "Y"
        <5>1. Meant(l) = IF InRange(l) THEN Frame("BACKWARD", 0, 8, l.data) ELSE Error
          BY <4>1 DEF Meant, Command
        <5>2. InRange(l) <=> ~(l.data > 255)
          BY <2>2, <3>3, <4>1
        <5> QED
          BY <3>4, <4>1, <5>1, <5>2
      <4>2. CASE l.letter = "W"
        <5>1. Meant(l) = IF InRange(l) THEN Act("start", l.data) ELSE Error
          BY <4>2 DEF Meant, Command
        <5>2. InRange(l) <=> ~(l.data = 0)
          BY <2>2, <3>3, <4>2
        <5> QED
          BY <3>4, <4>2, <5>1, <5>2
      <4>3. CASE l.letter = "N"
        <5>1. Meant(l) = IF InRange(l) THEN Act("next", l.data) ELSE Error
          BY <4>3 DEF Meant, Command
        <5>2. InRange(l) <=> ~(l.data = 0)
          BY <2>2, <3>3, <4>3
        <5> QED
          BY <3>4, <4>3, <5>1, <5>2
      <4> QED
        BY <1>5, <4>1, <4>2, <4>3
  <2>4. CASE l.fields = 0
    <3>1. data = 0
      BY <2>1, <2>4, NoHead DEF AllRead
    <3>2. l.letter # "Y"
      BY <2>4 DEF ClearLine
    <3>3. ~InRange(l)
      BY <2>1, <2>4 DEF InRange
    <3> QED
      BY <1>5, <3>1, <3>2, <3>3 DEF Effect, Meant, Command
  <2> QED
    BY <2>1, <2>3, <2>4 DEF AllRead
<1>6. CASE l.letter \in {"X", "I", "?"}
  <2>1. Fields(l.letter) = <<>> /\ l.fields = 0
    BY <1>6, LineTyped DEF Fields
  <2>2. InRange(l)
    BY <1>6, <2>1 DEF InRange
  <2> QED
    BY <1>6, <2>2 DEF Effect, Meant, Command
<1> QED
  BY <1>1, <1>3, <1>4, <1>5, <1>6 DEF Letters

-----------------------------------------------------------------------------
(* The invariant.                                                          *)

\* Buffer b holds line n: its arguments, or nothing that could be taken for
\* one, whatever is behind.
Carries(b, n) ==
  LET l == Lines[n]
  IN /\ n \in Numbers
     /\ bufs[b][1] = Cell("letter", n)
     /\ \A i \in 1..Width(l) : bufs[b][i + 1] = Cell(Kind(l, i), n)
     /\ l.fields = 0 => bufs[b][2].is \in {"nul", "rest"}

\* What has arrived of the line the host is sending is in the active buffer.
Incoming ==
  host.line # 0 =>
    LET l == Lines[host.line]
        b == bufs[uart.active]
    IN host.next > 1 =>
         /\ l.letter # "?"
         /\ uart.index = IF host.next <= Size THEN host.next ELSE Size
         /\ b[1] = Cell("letter", host.line)
         /\ \A i \in 1..Width(l) :
              i + 1 < host.next => b[i + 1] = Cell(Kind(l, i), host.line)
         /\ l.fields = 0 /\ host.next > 2 => b[2].is = "rest"

\* The line the task was given and has not carried out yet.
Current == bufs[cmd.buffer][1].line

\* What the task has read of it, and where the next field is.
ReadSoFar ==
  LET l == Lines[Current]
      m == Len(task.got)
  IN IF l.fields = Len(Fields(l.letter))
     THEN /\ m = 0 => task.pos = 2
          /\ m > 0 /\ m < l.fields => task.pos = 2 + l.wide + m
          /\ \A i \in 1..m : task.got[i] = Cell(Fields(l.letter)[i], Current)
     ELSE IF m = 0 THEN task.pos = 2
          ELSE task.got[1].is \in {"nul", "rest"}

Underway ==
  /\ ~Handled => Carries(cmd.buffer, Current)
  /\ task.pc \in {"args", "read"} => task.letter = Lines[Current].letter
  /\ task.pc = "read" => ReadSoFar

Meanings == {Meant(Lines[n]) : n \in Numbers}

\* All that was asked for is done, but for the line underway.
Accounts ==
  /\ done \in Seq(Meanings)
  /\ asked = IF Handled THEN done ELSE Append(done, Meant(Lines[Current]))

AskInv == Incoming /\ Underway /\ Accounts

\* Before the first line nothing is asked for, and nothing done.
LEMMA AskInitially == Init => AskInv
<1> SUFFICES ASSUME Init PROVE AskInv
  OBVIOUS
<1>1. host.line = 0 /\ task.pc = "idle" /\ ~cmd.notified /\ done = <<>> /\ asked = <<>>
  <2>1. host = [line |-> 0, next |-> 1, left |-> MaxLines]
        /\ cmd = [buffer |-> 1, notified |-> FALSE]
        /\ task.pc = "idle" /\ done = <<>> /\ asked = <<>>
    BY DEF Init
  <2> QED
    BY <2>1
<1>2. <<>> \in Seq(Meanings)
  OBVIOUS
<1> QED
  BY <1>1, <1>2 DEF AskInv, Incoming, Underway, Accounts, Handled

\* Where a text has which character.
LEMMA CharacterAt ==
  ASSUME NEW n \in Numbers, Lines[n].letter # "?", NEW k \in 1..Len(Text(n))
  PROVE  LET l == Lines[n]
             w == Width(l)
         IN /\ Text(n)[k] # "help"
            /\ Text(n)[k] = "letter" <=> k = 1
            /\ Text(n)[k] = "end" <=> k = Len(Text(n))
            /\ k - 1 \in 1..w => Text(n)[k] = Kind(l, k - 1)
            /\ 1 < k /\ k < Len(Text(n)) /\ k - 1 > w => Text(n)[k] = "rest"
            /\ Len(Text(n)) >= 2 + w
<1> DEFINE l == Lines[n]
           f == Width(l)
           r == l.rest
           t == Text(n)
<1>2. \A i \in 1..f : Kind(l, i) \in {"head", "sep", "data"}
  BY KindTyped
<1>3. /\ Len(t) = 2 + f + r /\ t[1] = "letter" /\ t[2 + f + r] = "end"
      /\ \A i \in 1..f : t[i + 1] = Kind(l, i)
      /\ \A i \in f + 1..f + r : t[i + 1] = "rest"
  BY TextShape
<1>4. f \in Nat /\ r \in Nat
  BY LineTyped
<1>5. k \in 1..2 + f + r
  BY <1>3
<1> HIDE DEF l, f, r, t
<1>6. k = 1 \/ k = 2 + f + r \/ (k - 1 \in 1..f /\ k = (k - 1) + 1 /\ k # 1 /\ k # 2 + f + r)
      \/ (k - 1 \in f + 1..f + r /\ k = (k - 1) + 1 /\ k # 1 /\ k # 2 + f + r)
  BY <1>4, <1>5
<1>7. 2 + f + r # 1 /\ 2 + f + r >= 2 + f
  BY <1>4
<1>8. /\ t[k] # "help" /\ (t[k] = "letter" <=> k = 1) /\ (t[k] = "end" <=> k = 2 + f + r)
  <2>1. CASE k = 1
    BY <1>3, <1>7, <2>1
  <2>2. CASE k = 2 + f + r
    BY <1>3, <1>7, <2>2
  <2>3. CASE k - 1 \in 1..f /\ k = (k - 1) + 1 /\ k # 1 /\ k # 2 + f + r
    <3>1. t[k] = Kind(l, k - 1) /\ Kind(l, k - 1) \in {"head", "sep", "data"}
      <4>1. t[k] = Kind(l, k - 1)
        BY <1>3, <2>3
      <4>2. Kind(l, k - 1) \in {"head", "sep", "data"}
        BY <2>3, KindTyped DEF f, l
      <4> QED
        BY <4>1, <4>2
    <3> QED
      BY <2>3, <3>1
  <2>4. CASE k - 1 \in f + 1..f + r /\ k = (k - 1) + 1 /\ k # 1 /\ k # 2 + f + r
    <3>1. t[k] = "rest"
      BY <1>3, <2>4
    <3> QED
      BY <2>4, <3>1
  <2> QED
    BY <1>6, <2>1, <2>2, <2>3, <2>4
<1>9. k - 1 \in 1..f => t[k] = Kind(l, k - 1)
  BY <1>3, <1>5
<1>10. 1 < k /\ k < 2 + f + r /\ k - 1 > f => t[k] = "rest"
  <2> SUFFICES ASSUME 1 < k, k < 2 + f + r, k - 1 > f PROVE t[k] = "rest"
    OBVIOUS
  <2>1. k - 1 \in f + 1..f + r /\ k = (k - 1) + 1
    BY <1>4, <1>5
  <2> QED
    BY <1>3, <2>1
<1> QED
  BY <1>3, <1>7, <1>8, <1>9, <1>10 DEF l, f, r, t

-----------------------------------------------------------------------------
(* The steps of the host and of the interrupt.                             *)

\* A step that leaves the task, the notification and the task's buffer alone
\* changes nothing about the line underway.
LEMMA UnderwayKept ==
  ASSUME Underway, Accounts, UNCHANGED <<cmd, task, done, asked>>,
         ~Handled => bufs'[cmd.buffer] = bufs[cmd.buffer]
  PROVE  Underway' /\ Accounts'
<1>1. Handled' <=> Handled
  BY DEF Handled
<1>2. CASE Handled
  <2>1. Underway'
    BY <1>1, <1>2 DEF Underway, Handled
  <2>2. Accounts'
    BY <1>1, <1>2 DEF Accounts, Meanings
  <2> QED
    BY <2>1, <2>2
<1>3. CASE ~Handled
  <2>1. Current' = Current
    BY <1>3 DEF Current
  <2>2. Carries(cmd.buffer, Current)'
    BY <1>3, <2>1 DEF Underway, Carries
  <2>3. task'.pc \in {"args", "read"} => task'.letter = Lines[Current'].letter
    BY <2>1 DEF Underway
  <2>4. ReadSoFar => ReadSoFar'
    BY <2>1 DEF ReadSoFar
  <2>5. Underway'
    BY <2>2, <2>3, <2>4 DEF Underway
  <2>6. Accounts'
    BY <1>1, <1>3, <2>1 DEF Accounts, Meanings
  <2> QED
    BY <2>5, <2>6
<1> QED
  BY <1>2, <1>3

\* The host begins a line, or breaks it off: nothing is asked yet.
LEMMA HostAsks ==
  ASSUME AllClear, LineInv, AskInv, HostStarts \/ HostBreaksOff
  PROVE  AskInv'
<1>1. UNCHANGED <<bufs, uart, cmd, task, done, asked>>
  BY DEF HostStarts, HostBreaksOff, isrVars
<1>2. Underway' /\ Accounts'
  BY <1>1, UnderwayKept DEF AskInv
<1>3. Incoming'
  <2>1. CASE HostStarts
    <3>1. PICK n \in Numbers : host' = [line |-> n, next |-> 1, left |-> host.left - 1]
      BY <2>1 DEF HostStarts
    <3>2. host'.line = n /\ host'.next = 1
      BY <3>1
    <3>4. ~(host'.next > 1)
      BY <3>2
    <3> QED
      BY <3>2, <3>4 DEF Incoming
  <2>2. CASE HostBreaksOff
    <3>1. host'.line = 0
      BY <2>2 DEF HostBreaksOff, LineInv, LineTypeOK
    <3> QED
      BY <3>1 DEF Incoming
  <2> QED
    BY <2>1, <2>2
<1> QED
  BY <1>2, <1>3 DEF AskInv

\* The interrupt handles the character at which the host is.
LEMMA ReceivesAt ==
  ASSUME AllClear, LineInv, NEW c, Receives(c)
  PROVE  LET n == host.line
             k == host.next
         IN /\ n \in Numbers /\ k \in 1..Len(Text(n)) /\ Text(n)[k] = c
            /\ Len(Text(n)) \in Nat
            /\ Lines[n].letter = "?" => c = "help" /\ k = Len(Text(n))
            /\ k = Len(Text(n)) => host'.line = 0
            /\ k # Len(Text(n)) => host'.line = n /\ host'.next = k + 1
<1> DEFINE n == host.line
           k == host.next
<1>1. n \in Numbers /\ k \in 1..Len(Text(n)) /\ Text(n)[k] = c
  BY ReceivesTyped DEF LineInv
<1>2. Len(Text(n)) \in Nat
  BY <1>1, TextBegins
<1>3. Lines[n].letter = "?" => c = "help" /\ k = Len(Text(n))
  <2> SUFFICES ASSUME Lines[n].letter = "?" PROVE c = "help" /\ k = Len(Text(n))
    OBVIOUS
  <2>1. Len(Text(n)) = 1 /\ Text(n)[1] = "help"
    BY <1>1, HelpText DEF AllClear
  <2>2. k = 1
    BY <1>1, <2>1
  <2> QED
    BY <1>1, <2>1, <2>2
<1>4. k = Len(Text(n)) => host'.line = 0
  BY DEF Receives, LineInv, LineTypeOK
<1>5. k # Len(Text(n)) => host'.line = n /\ host'.next = k + 1
  BY DEF Receives, LineInv, LineTypeOK
<1> QED
  BY <1>1, <1>2, <1>3, <1>4, <1>5

\* The interrupt stores a character behind those it has stored before.
LEMMA StoreAsks ==
  ASSUME AllClear, LineInv, ReadInv, AskInv, StoreLetter \/ Store
  PROVE  AskInv'
<1> DEFINE n == host.line
           k == host.next
           l == Lines[n]
           w == uart.active
<1>1. PICK c \in {"letter", "head", "sep", "data", "rest"}, i \in 1..Size :
        /\ Receives(c) /\ UNCHANGED <<cmd, task, done, asked>>
        /\ bufs' = [bufs EXCEPT ![uart.active][i] = Cell(c, host.line)]
        /\ uart' = [uart EXCEPT !.index = Further(i)]
        /\ c = "letter" => i = 1
        /\ c # "letter" => i = uart.index
  <2>1. CASE StoreLetter
    <3>1. 1 \in 1..Size
      BY Constants
    <3> QED
      BY <2>1, <3>1 DEF StoreLetter
  <2>2. CASE Store
    <3>1. uart.index \in 1..Size
      BY DEF LineInv, LineTypeOK
    <3> QED
      BY <2>2, <3>1 DEF Store
  <2> QED
    BY <2>1, <2>2
<1>2. /\ n \in Numbers /\ k \in 1..Len(Text(n)) /\ Text(n)[k] = c
      /\ Len(Text(n)) \in Nat
      /\ l.letter # "?" /\ k # Len(Text(n))
      /\ host'.line = n /\ host'.next = k + 1
  <2>1. /\ n \in Numbers /\ k \in 1..Len(Text(n)) /\ Text(n)[k] = c /\ l.letter # "?"
        /\ Len(Text(n)) \in Nat
        /\ k # Len(Text(n)) => host'.line = n /\ host'.next = k + 1
    BY <1>1, ReceivesAt
  <2>2. k # Len(Text(n))
    BY <1>1, <2>1, CharacterAt
  <2> QED
    BY <2>1, <2>2
<1>3. /\ w \in 1..2 /\ uart.index \in 1..Size
      /\ bufs \in [1..2 -> [1..Size -> Cells]]
      /\ uart \in [active : 1..2, index : 1..Size]
  BY DEF LineInv, LineTypeOK
<1>4. /\ uart'.active = w /\ uart'.index = Further(i)
      /\ \A j \in 1..Size : bufs'[w][j] = IF j = i THEN Cell(c, n) ELSE bufs[w][j]
      /\ \A b \in 1..2 : b # w => bufs'[b] = bufs[b]
  BY <1>1, <1>3
<1>5. Underway' /\ Accounts'
  <2>1. ~Handled => cmd.buffer # w /\ cmd.buffer \in 1..2
    BY DEF ReadInv, Handled, LineInv, LineTypeOK
  <2> QED
    BY <1>1, <1>4, <2>1, UnderwayKept DEF AskInv
<1>6. /\ Text(n)[k] = "letter" <=> k = 1
      /\ k - 1 \in 1..Width(l) => Text(n)[k] = Kind(l, k - 1)
      /\ 1 < k /\ k < Len(Text(n)) /\ k - 1 > Width(l) => Text(n)[k] = "rest"
  BY <1>2, CharacterAt
<1>7. k > 1 => /\ uart.index = IF k <= Size THEN k ELSE Size
               /\ bufs[w][1] = Cell("letter", n)
               /\ \A j \in 1..Width(l) :
                    j + 1 < k => bufs[w][j + 1] = Cell(Kind(l, j), n)
               /\ l.fields = 0 /\ k > 2 => bufs[w][2].is = "rest"
  <2>1. n # 0
    BY <1>1 DEF Receives
  <2> QED
    BY <2>1 DEF AskInv, Incoming
<1>8. Width(l) \in Nat /\ Width(l) + 1 < Size /\ (l.fields = 0 => Width(l) = 0)
  BY <1>2, WidthFits DEF AllClear
<1>9. Size \in Nat /\ Size > 4 /\ k \in Nat /\ k >= 1
  <2>1. k \in Nat \ {0}
    BY DEF LineInv, LineTypeOK
  <2>2. k >= 1
    BY <2>1
  <2> QED
    BY <2>1, <2>2, Constants
<1>10. k + 1 <= Len(Text(n)) /\ k < Len(Text(n))
  <2>2. \A m, q \in Nat : q \in 1..m /\ q # m => q + 1 <= m /\ q < m
    OBVIOUS
  <2> QED
    BY <1>2, <1>9, <2>2
<1>11. i = IF k <= Size THEN k ELSE Size
  <2>1. CASE k = 1
    BY <1>1, <1>2, <1>6, <1>9, <2>1
  <2>2. CASE k > 1
    BY <1>1, <1>2, <1>6, <1>7, <1>9, <2>2
  <2> QED
    BY <1>9, <2>1, <2>2
<1>12. uart'.index = IF k + 1 <= Size THEN k + 1 ELSE Size
  <2>1. Further(i) = IF k + 1 <= Size THEN k + 1 ELSE Size
    BY <1>9, <1>11 DEF Further
  <2> QED
    BY <1>4, <2>1
<1>13. bufs'[w][1] = Cell("letter", n)
  <2>1. CASE k = 1
    <3>1. i = 1 /\ 1 \in 1..Size /\ c = "letter"
      BY <1>2, <1>6, <1>9, <1>11, <2>1
    <3> QED
      BY <1>4, <3>1
  <2>2. CASE k > 1
    <3>1. i # 1 /\ 1 \in 1..Size
      BY <1>9, <1>11, <2>2
    <3> QED
      BY <1>4, <1>7, <2>2, <3>1
  <2> QED
    BY <1>9, <2>1, <2>2
<1>14. ASSUME NEW j \in 1..Width(l), j + 1 < k + 1
       PROVE  bufs'[w][j + 1] = Cell(Kind(l, j), n)
  <2>1. j \in Nat /\ j >= 1 /\ j + 1 < Size /\ j + 1 \in 1..Size
    <3>1. \A f, m \in Nat : f + 1 < m =>
            \A q \in 1..f : q \in Nat /\ q >= 1 /\ q + 1 < m /\ q + 1 \in 1..m
      OBVIOUS
    <3> QED
      BY <1>8, <1>9, <3>1
  <2>2. CASE j + 1 < k
    <3>1. i # j + 1 /\ k > 1
      BY <1>9, <1>11, <2>1, <2>2
    <3> QED
      BY <1>4, <1>7, <2>1, <2>2, <3>1
  <2>3. CASE ~(j + 1 < k)
    <3>1. j + 1 = k /\ k - 1 = j /\ i = j + 1
      BY <1>9, <1>11, <1>14, <2>1, <2>3
    <3>2. c = Kind(l, j)
      BY <1>2, <1>6, <3>1
    <3> QED
      BY <1>4, <2>1, <3>1, <3>2
  <2> QED
    BY <2>2, <2>3
<1>15. ASSUME l.fields = 0, k + 1 > 2
       PROVE  bufs'[w][2].is = "rest"
  <2>1. k > 1 /\ 2 \in 1..Size /\ k - 1 > Width(l)
    BY <1>8, <1>9, <1>15
  <2>2. c = "rest"
    BY <1>2, <1>6, <1>10, <2>1
  <2>3. CASE k = 2
    <3>1. i = 2
      BY <1>9, <1>11, <2>3
    <3>2. bufs'[w][2] = Cell(c, n)
      BY <1>4, <2>1, <3>1
    <3> QED
      BY <2>2, <3>2 DEF Cell
  <2>4. CASE k > 2
    <3>1. i # 2
      BY <1>9, <1>11, <2>4
    <3> QED
      BY <1>4, <1>7, <1>15, <2>1, <2>4, <3>1
  <2> QED
    BY <1>9, <2>1, <2>3, <2>4
<1>16. Incoming'
  BY <1>2, <1>4, <1>12, <1>13, <1>14, <1>15 DEF Incoming
<1> QED
  BY <1>5, <1>16 DEF AskInv

\* The end of a line, or the request for information: the active buffer holds
\* the whole line, and becomes the task's.
LEMMA PublishAsks ==
  ASSUME HostPaces, AllClear, LineInv, ReadInv, AskInv, PublishHelp \/ PublishLine
  PROVE  AskInv'
<1> DEFINE n == host.line
           k == host.next
           l == Lines[n]
           w == uart.active
<1>1. /\ Handled /\ Publish
      /\ w \in 1..2 /\ uart.index \in 1..Size
      /\ bufs \in [1..2 -> [1..Size -> Cells]]
  BY DEF PublishHelp, PublishLine, LineInv, LineTypeOK
<1>2. task'.pc = "idle" /\ cmd'.buffer = w /\ cmd'.notified /\ UNCHANGED <<task, done>>
  BY <1>1 DEF Publish, Handled
<1>3. Size \in Nat /\ Size > 4 /\ {1, 2, 3, 4} \subseteq 1..Size
  BY Constants
<1>4. /\ n \in Numbers /\ k \in 1..Len(Text(n)) /\ host'.line = 0
      /\ asked' = Append(asked, Meant(l))
      /\ bufs'[w][1] = Cell("letter", n)
      /\ \A i \in 1..Width(l) : bufs'[w][i + 1] = Cell(Kind(l, i), n)
      /\ l.fields = 0 => bufs'[w][2].is \in {"nul", "rest"}
  <2>1. CASE PublishHelp
    <3>1. Receives("help")
      BY <2>1 DEF PublishHelp
    <3>2. /\ n \in Numbers /\ k \in 1..Len(Text(n)) /\ Text(n)[k] = "help"
          /\ l.letter = "?" => k = Len(Text(n))
          /\ k = Len(Text(n)) => host'.line = 0
      BY <3>1, ReceivesAt
    <3>3. l.letter = "?" /\ l.fields = 0 /\ Width(l) = 0
      BY <3>2, CharacterAt, HelpText, WidthFits DEF AllClear
    <3>4. bufs'[w][1] = Cell("letter", n) /\ bufs'[w][2] = Nul
      <4> DEFINE first == [bufs EXCEPT ![w][1] = Cell("letter", n)]
      <4>1. /\ first \in [1..2 -> [1..Size -> Cells]]
            /\ first[w][1] = Cell("letter", n)
        BY <1>1, <1>3, <3>2, CellTyped, BufferWritten
      <4>2. bufs' = [first EXCEPT ![w][2] = Nul]
        BY <2>1 DEF PublishHelp
      <4> HIDE DEF first
      <4> QED
        BY <1>1, <1>3, <4>1, <4>2
    <3>5. asked' = Append(asked, Meant(l))
      BY <2>1 DEF PublishHelp, Asks
    <3>6. \A i \in 1..0 : FALSE
      OBVIOUS
    <3>7. Nul.is = "nul"
      BY DEF Nul, Cell
    <3> HIDE DEF l
    <3> QED
      BY <3>2, <3>3, <3>4, <3>5, <3>6, <3>7
  <2>2. CASE PublishLine
    <3>1. Receives("end") /\ bufs' = [bufs EXCEPT ![w][uart.index] = Nul]
      BY <2>2 DEF PublishLine
    <3>2. /\ n \in Numbers /\ k \in 1..Len(Text(n)) /\ Text(n)[k] = "end"
          /\ l.letter # "?"
          /\ k = Len(Text(n)) => host'.line = 0
      BY <3>1, ReceivesAt
    <3>3. k = Len(Text(n)) /\ k >= 2 + Width(l)
      BY <3>2, CharacterAt
    <3>4. Width(l) \in Nat /\ Width(l) + 1 < Size /\ k \in Nat
      BY <3>2, WidthFits DEF AllClear, LineInv, LineTypeOK
    <3>5. k > 1
      <4>1. \A f, m \in Nat : m >= 2 + f => m > 1
        OBVIOUS
      <4> QED
        BY <3>3, <3>4, <4>1
    <3>6. /\ uart.index = IF k <= Size THEN k ELSE Size
          /\ bufs[w][1] = Cell("letter", n)
          /\ \A i \in 1..Width(l) :
               i + 1 < k => bufs[w][i + 1] = Cell(Kind(l, i), n)
          /\ l.fields = 0 /\ k > 2 => bufs[w][2].is = "rest"
      <4>1. n # 0
        BY <3>1 DEF Receives
      <4> QED
        BY <3>5, <4>1 DEF AskInv, Incoming
    <3>7. \A j \in 1..Size : bufs'[w][j] = IF j = uart.index THEN Nul ELSE bufs[w][j]
      BY <1>1, <3>1
    <3>8. bufs'[w][1] = Cell("letter", n)
      <4>1. uart.index # 1 /\ 1 \in 1..Size
        BY <1>3, <3>4, <3>5, <3>6
      <4> QED
        BY <3>6, <3>7, <4>1
    <3>9. ASSUME NEW i \in 1..Width(l)
          PROVE  bufs'[w][i + 1] = Cell(Kind(l, i), n)
      <4>1. \A f, m, s \in Nat : m >= 2 + f /\ f + 1 < s =>
              \A j \in 1..f : /\ j + 1 < m /\ j + 1 \in 1..s
                              /\ j + 1 # IF m <= s THEN m ELSE s
        OBVIOUS
      <4>2. i + 1 < k /\ i + 1 \in 1..Size /\ i + 1 # IF k <= Size THEN k ELSE Size
        <5> HIDE DEF l, k
        <5> QED
          BY <1>3, <3>3, <3>4, <4>1
      <4>3. i + 1 # uart.index
        BY <3>6, <4>2
      <4> QED
        BY <3>6, <3>7, <4>2, <4>3
    <3>10. ASSUME l.fields = 0
           PROVE  bufs'[w][2].is \in {"nul", "rest"}
      <4>1. Nul.is = "nul" /\ 2 \in 1..Size
        BY <1>3 DEF Nul, Cell
      <4>2. uart.index = 2 \/ k > 2
        BY <1>3, <3>4, <3>5, <3>6
      <4> QED
        BY <3>6, <3>7, <3>10, <4>1, <4>2
    <3>11. asked' = Append(asked, Meant(l))
      BY <2>2, <3>2 DEF PublishLine, Asks
    <3> QED
      BY <3>2, <3>3, <3>8, <3>9, <3>10, <3>11
  <2> QED
    BY <2>1, <2>2
<1>5. Current' = n
  BY <1>2, <1>4 DEF Current, Cell
<1>6. ~Handled'
  BY <1>2 DEF Handled
<1>7. Incoming'
  BY <1>4 DEF Incoming
<1>8. Underway'
  <2>1. Carries(cmd.buffer, Current)'
    BY <1>2, <1>4, <1>5 DEF Carries
  <2> QED
    BY <1>2, <2>1 DEF Underway
<1>9. Accounts'
  <2>1. done \in Seq(Meanings) /\ asked = done
    BY <1>1 DEF AskInv, Accounts
  <2> QED
    BY <1>2, <1>4, <1>5, <1>6, <2>1 DEF Accounts, Meanings
<1> QED
  BY <1>7, <1>8, <1>9 DEF AskInv

-----------------------------------------------------------------------------
(* The steps of the task.                                                  *)

\* The data are the last field.
LEMMA DataLast ==
  ASSUME NEW letter \in Letters, NEW i \in 1..Len(Fields(letter)), Fields(letter)[i] = "data"
  PROVE  i = Len(Fields(letter))
<1>1. CASE letter \in {"Q", "S"}
  BY <1>1 DEF Fields
<1>2. CASE letter = "R"
  BY <1>2 DEF Fields
<1>3. CASE letter \in {"Y", "W", "N"}
  BY <1>3 DEF Fields
<1>4. CASE letter \in {"X", "I", "?"}
  BY <1>4 DEF Fields
<1> QED
  BY <1>1, <1>2, <1>3, <1>4 DEF Letters

\* A field of line n has been read.
LEMMA FieldRead ==
  ASSUME LineInv, Underway, NEW field \in {"head", "sep", "data"}, Reads(field),
         NEW cell \in Cells, NEW pos,
         task' = [task EXCEPT !.got = Append(@, cell), !.pos = pos], UNCHANGED <<bufs, cmd>>
  PROVE  LET n == Current
             l == Lines[n]
             m == Len(task.got)
         IN /\ task'.pos = pos /\ Current' = n
            /\ m \in Nat /\ Len(task'.got) = m + 1 /\ task'.got[m + 1] = cell
            /\ \A i \in 1..m : task'.got[i] = task.got[i]
            /\ task.letter = l.letter /\ ReadSoFar
            /\ m + 1 \in 1..Len(Fields(l.letter)) /\ Fields(l.letter)[m + 1] = field
<1> DEFINE n == Current
           l == Lines[n]
           m == Len(task.got)
<1>1. task.pc = "read" /\ m < Len(Wanted) /\ Wanted[m + 1] = field
  BY DEF Reads
<1>2. task.got \in Seq(Cells) /\ m \in Nat /\ m + 1 <= Len(Wanted) /\ Len(Wanted) \in 0..3
  BY FieldNext
<1>3. task'.pos = pos /\ task'.got = Append(task.got, cell)
  BY DEF LineInv, Shape
<1>4. /\ Len(task'.got) = m + 1 /\ task'.got[m + 1] = cell
      /\ \A i \in 1..m : task'.got[i] = task.got[i]
  BY <1>2, <1>3
<1>5. task.letter = l.letter /\ ReadSoFar
  BY <1>1 DEF Underway
<1>6. m + 1 \in 1..Len(Fields(l.letter)) /\ Fields(l.letter)[m + 1] = field
  BY <1>1, <1>2, <1>5 DEF Wanted
<1>7. Current' = Current
  BY DEF Current
<1> QED
  BY <1>2, <1>3, <1>4, <1>5, <1>6, <1>7

\* Where a head of a clear line ends that has all its fields.
LEMMA HeadWhole ==
  ASSUME AllClear, NEW b \in 1..2, NEW n, Carries(b, n),
         Lines[n].letter \in {"Q", "S", "R"}, Lines[n].fields = Len(Fields(Lines[n].letter)),
         NEW e \in 2..(Size + 1), HeadEnds(b, 2, e)
  PROVE  e = 3 + Lines[n].wide
<1> DEFINE l == Lines[n]
           w == l.wide
<1>1. n \in Numbers
  BY DEF Carries
<1>2. /\ w \in Nat /\ Width(l) = l.fields + w /\ Width(l) \in Nat /\ Width(l) + 1 < Size
      /\ l.fields \in 0..3
  BY <1>1, LineTyped, WidthFits DEF AllClear
<1>3. l.fields >= 2
  BY DEF Fields
<1>4. ASSUME NEW i \in 1..Width(l)
      PROVE  bufs[b][i + 1].is = "head" <=> i <= w + 1
  <2>1. bufs[b][i + 1] = Cell(Kind(l, i), n)
    BY <1>4 DEF Carries
  <2>2. Kind(l, i) = "head" <=> i <= w + 1
    BY <1>1, <1>4, KindTyped
  <2> QED
    BY <2>1, <2>2 DEF Cell
<1> HIDE DEF l, w
<1>5. CASE e < 3 + w
  <2>1. e - 1 \in 1..Width(l) /\ e - 1 <= w + 1 /\ (e - 1) + 1 = e /\ e <= Size
    BY <1>2, <1>3, <1>5, Constants
  <2>2. bufs[b][e].is = "head"
    BY <1>4, <2>1
  <2> QED
    BY <2>1, <2>2 DEF HeadEnds
<1>6. CASE e > 3 + w
  <2>1. 2 + w \in 1..Width(l) /\ ~(2 + w <= w + 1) /\ (2 + w) + 1 = 3 + w
        /\ 3 + w \in 2..(e - 1)
    BY <1>2, <1>3, <1>6, Constants
  <2>2. bufs[b][3 + w].is # "head"
    BY <1>4, <2>1
  <2>3. bufs[b][3 + w].is = "head"
    BY <2>1 DEF HeadEnds
  <2> QED
    BY <2>2, <2>3
<1> QED
  BY <1>2, <1>5, <1>6, Constants DEF w, l

\* The task reads the next field, if the line has any.
LEMMA FieldAsks ==
  ASSUME AllClear, LineInv, ReadInv, Underway, ReadHead \/ ReadSep \/ ReadData
  PROVE  ReadSoFar'
<1> DEFINE n == Current
           l == Lines[n]
           m == Len(task.got)
           b == task.buffer
<1>1. /\ Carries(b, n) /\ ReadSoFar /\ n \in Numbers
      /\ UNCHANGED <<bufs, cmd>>
      /\ bufs \in [1..2 -> [1..Size -> Cells]] /\ b \in 1..2 /\ task.pos \in Nat
  <2>1. task.pc = "read" /\ UNCHANGED <<bufs, cmd>>
    BY DEF ReadHead, ReadSep, ReadData, Reads, isrVars
  <2>2. Carries(b, n) /\ ReadSoFar
    BY <2>1 DEF Underway, ReadInv, Handled
  <2>3. bufs \in [1..2 -> [1..Size -> Cells]] /\ b \in 1..2 /\ task.pos \in Nat
    <3>1. task.pos \in 1..(Size + 2) /\ \A q \in 1..(Size + 2) : q \in Nat
      <4>1. Size \in Nat
        BY Constants
      <4>2. \A q \in 1..(Size + 2) : q \in Nat
        BY <4>1
      <4> QED
        BY <4>2 DEF LineInv, LineTypeOK
    <3>2. bufs \in [1..2 -> [1..Size -> Cells]] /\ b \in 1..2
      BY DEF LineInv, LineTypeOK
    <3> QED
      BY <3>1, <3>2
  <2> QED
    BY <2>1, <2>2, <2>3 DEF Carries
<1>2. /\ Width(l) \in Nat /\ Width(l) + 1 < Size /\ Width(l) = l.fields + l.wide
      /\ l.wide \in Nat /\ l.letter \in Letters /\ Size \in Nat /\ Size > 4
      /\ l.wide > 0 => l.letter \in {"Q", "S", "R"} /\ l.fields > 0
      /\ l.fields \in 0..3
  BY <1>1, LineTyped, WidthFits, Constants DEF AllClear
<1>3. \A i \in 1..Width(l) : bufs[b][i + 1] = Cell(Kind(l, i), n)
  BY <1>1 DEF Carries
\* Of a line with all its fields, the next one is read.
<1>4. ASSUME NEW field \in {"head", "sep", "data"}, Reads(field), NEW pos,
             l.fields = Len(Fields(l.letter)),
             task' = [task EXCEPT !.got = Append(@, Cell(field, n)), !.pos = pos],
             m + 1 < l.fields => pos = 3 + l.wide + m
      PROVE  ReadSoFar'
  <2>1. Cell(field, n) \in Cells
    BY <1>1, CellTyped
  <2>2. /\ task'.pos = pos /\ Current' = n
        /\ m \in Nat /\ Len(task'.got) = m + 1 /\ task'.got[m + 1] = Cell(field, n)
        /\ \A i \in 1..m : task'.got[i] = task.got[i]
        /\ Fields(l.letter)[m + 1] = field
    BY <1>1, <1>4, <2>1, FieldRead
  <2>3. \A i \in 1..m : task.got[i] = Cell(Fields(l.letter)[i], n)
    BY <1>1, <1>4 DEF ReadSoFar
  <2>4. \A i \in 1..m + 1 : task'.got[i] = Cell(Fields(l.letter)[i], n)
    <3>1. \A i \in 1..m + 1 : i \in 1..m \/ i = m + 1
      BY <2>2
    <3> QED
      BY <2>2, <2>3, <3>1
  <2>5. Len(task'.got) > 0 /\ Len(task'.got) # 0
    BY <2>2
  <2>6. m + 1 < l.fields => task'.pos = 2 + l.wide + (m + 1)
    <3>1. \A w, k \in Nat : 3 + w + k = 2 + w + (k + 1)
      OBVIOUS
    <3> QED
      BY <1>2, <1>4, <2>2, <3>1
  <2> QED
    BY <1>4, <2>2, <2>4, <2>5, <2>6 DEF ReadSoFar
\* Of a line without fields, what is behind its letter.
<1>5. ASSUME NEW field \in {"head", "sep", "data"}, Reads(field), NEW cell \in Cells, NEW pos,
             l.fields # Len(Fields(l.letter)),
             task' = [task EXCEPT !.got = Append(@, cell), !.pos = pos],
             m = 0 => cell = bufs[b][2]
      PROVE  ReadSoFar'
  <2>1. /\ Current' = n /\ m \in Nat /\ Len(task'.got) = m + 1 /\ task'.got[m + 1] = cell
        /\ \A i \in 1..m : task'.got[i] = task.got[i]
    BY <1>1, <1>5, FieldRead
  <2>2. l.fields = 0
    BY <1>1, <1>5 DEF AllClear, ClearLine
  <2>3. task'.got[1].is \in {"nul", "rest"}
    <3>1. CASE m = 0
      BY <1>1, <1>5, <2>1, <2>2, <3>1 DEF Carries
    <3>2. CASE m # 0
      <4>1. 1 \in 1..m
        BY <2>1, <3>2
      <4> QED
        BY <1>1, <1>5, <2>1, <3>2, <4>1 DEF ReadSoFar
    <3> QED
      BY <3>1, <3>2
  <2>4. Len(task'.got) # 0
    BY <2>1
  <2> QED
    BY <1>5, <2>1, <2>3, <2>4 DEF ReadSoFar
<1>6. CASE ReadHead
  <2>1. PICK e, cell :
          /\ e \in task.pos..(Size + 1)
          /\ cell \in HeadsRead(b, task.pos, e) /\ HeadEnds(b, task.pos, e)
          /\ task' = [task EXCEPT !.got = Append(@, cell), !.pos = e]
    BY <1>6 DEF ReadHead
  <2>2. Reads("head") /\ m = 0 /\ task.pos = 2 /\ task.letter \in Letters /\ m + 1 \in 1..Len(Wanted)
    <3>1. Reads("head") /\ m = 0 /\ task.pos = 2 /\ task.letter \in Letters
          /\ m + 1 <= Len(Wanted) /\ Len(Wanted) \in 0..3
      BY <1>6, FieldNext DEF ReadHead
    <3> QED
      BY <3>1
  <2>3. task.letter = l.letter
    BY <2>2 DEF Underway, Reads
  <2>4. l.letter \in {"Q", "S", "R"}
    BY <1>2, <2>2, <2>3, FieldsInOrder DEF Reads, Wanted
  <2>5. CASE l.fields = Len(Fields(l.letter))
    <3>1. e = 3 + l.wide
      BY <1>1, <2>1, <2>2, <2>4, <2>5, HeadWhole
    <3>2. bufs[b][2] = Cell("head", n)
      <4>1. 1 \in 1..Width(l) /\ 1 <= l.wide + 1 /\ 1 + 1 = 2
        <5>1. l.fields >= 2
          BY <2>4, <2>5 DEF Fields
        <5> QED
          BY <1>2, <5>1
      <4>2. Kind(l, 1) = "head"
        BY <1>1, <2>4, <4>1, KindTyped
      <4> QED
        BY <1>3, <4>1, <4>2
    <3>3. cell = Cell("head", n)
      <4>1. Cell("head", n).is = "head" /\ Cell("head", n).line = n
        BY DEF Cell
      <4>2. e = 2 + 1 + l.wide
        BY <1>2, <3>1
      <4> QED
        BY <2>1, <2>2, <3>2, <4>1, <4>2 DEF HeadsRead
    <3>4. e = 3 + l.wide + m
      BY <1>2, <2>2, <3>1
    <3> QED
      BY <1>4, <2>1, <2>2, <2>5, <3>3, <3>4
  <2>6. CASE l.fields # Len(Fields(l.letter))
    <3>1. l.fields = 0
      BY <1>1, <2>6 DEF AllClear, ClearLine
    <3>2. bufs[b][2].is # "head" /\ bufs[b][2] \in Cells
      <4>1. 2 \in 1..Size
        BY <1>2
      <4> QED
        BY <1>1, <3>1, <4>1, CellRead DEF Carries
    <3>3. cell = bufs[b][2]
      BY <2>1, <2>2, <3>2 DEF HeadsRead
    <3> QED
      BY <1>5, <2>1, <2>2, <2>6, <3>2, <3>3
  <2> QED
    BY <2>5, <2>6
\* Where the separator and the data of a line with all its fields are.
<1>7. ASSUME NEW field \in {"sep", "data"}, Reads(field), NEW cell \in CellsAt(b, task.pos),
             l.fields = Len(Fields(l.letter))
      PROVE  cell = Cell(field, n) /\ (m > 0 => task.pos = 2 + l.wide + m)
  <2>1. m \in Nat /\ m + 1 \in 1..l.fields /\ Fields(l.letter)[m + 1] = field
    <3>1. task.letter = l.letter /\ m \in Nat /\ m + 1 <= Len(Wanted) /\ Len(Wanted) \in 0..3
          /\ Wanted[m + 1] = field
      BY <1>7, FieldNext DEF Underway, Reads
    <3> QED
      BY <1>7, <3>1 DEF Wanted
  <2>2. task.pos = 2 + l.wide + m
    <3>1. m = 0 => l.wide = 0
      <4>1. m = 0 => l.letter \notin {"Q", "S", "R"}
        BY <1>2, <1>7, <2>1, FieldsInOrder
      <4> QED
        BY <1>2, <4>1
    <3>2. (m = 0 => task.pos = 2) /\ (m > 0 /\ m < l.fields => task.pos = 2 + l.wide + m)
      BY <1>1, <1>7 DEF ReadSoFar
    <3>3. \A w, k, f \in Nat : k + 1 \in 1..f => (k = 0 /\ w = 0 => 2 = 2 + w + k)
                                               /\ (k # 0 => k > 0) /\ k < f
      OBVIOUS
    <3> QED
      BY <1>2, <2>1, <3>1, <3>2, <3>3
  <2> DEFINE i == m + 1 + l.wide
  <2>3. /\ ~(i <= l.wide) /\ i - l.wide = m + 1 /\ i \in 1..Width(l)
        /\ task.pos = i + 1 /\ i + 1 \in 1..Size
    <3>1. \A w, k, f, s \in Nat : k + 1 \in 1..f /\ f + w + 1 < s =>
             /\ ~(k + 1 + w <= w) /\ k + 1 + w - w = k + 1 /\ k + 1 + w \in 1..(f + w)
             /\ 2 + w + k = k + 1 + w + 1 /\ k + 1 + w + 1 \in 1..s
      OBVIOUS
    <3>2. /\ l.wide \in Nat /\ l.fields \in Nat /\ Width(l) = l.fields + l.wide
          /\ m \in Nat /\ m + 1 \in 1..l.fields /\ Size \in Nat /\ Width(l) + 1 < Size
      BY <1>2, <2>1
    <3> HIDE DEF l, m
    <3> QED
      BY <2>2, <3>1, <3>2
  <2> HIDE DEF i
  <2>4. Kind(l, i) = field
    <3>1. Kind(l, i) = Fields(l.letter)[i - l.wide]
      BY <2>3 DEF Kind
    <3>2. Fields(l.letter)[i - l.wide] = Fields(l.letter)[m + 1]
      BY <2>3
    <3> QED
      BY <2>1, <3>1, <3>2
  <2>5. bufs[b][task.pos] = Cell(field, n)
    BY <1>3, <2>3, <2>4
  <2>6. task.pos \in 1..Size
    BY <2>3
  <2> QED
    BY <1>7, <2>2, <2>5, <2>6 DEF CellsAt
<1>8. ASSUME NEW cell \in CellsAt(b, task.pos)
      PROVE  cell \in Cells
  BY <1>1, <1>8, CellRead DEF CellsAt
<1>9. CASE ReadSep
  <2>1. PICK cell \in CellsAt(b, task.pos) :
          task' = [task EXCEPT !.got = Append(@, cell), !.pos = task.pos + 1]
    BY <1>9 DEF ReadSep, LineInv, Shape
  <2>2. Reads("sep") /\ m = 1
    BY <1>9, FieldNext DEF ReadSep
  <2>3. CASE l.fields = Len(Fields(l.letter))
    <3>1. cell = Cell("sep", n) /\ task.pos = 2 + l.wide + m
      BY <1>7, <2>1, <2>2, <2>3
    <3>2. task.pos + 1 = 3 + l.wide + m
      BY <1>2, <2>2, <3>1
    <3> QED
      BY <1>4, <2>1, <2>2, <2>3, <3>1, <3>2
  <2>4. CASE l.fields # Len(Fields(l.letter))
    <3>1. ~(m = 0)
      BY <2>2
    <3>2. cell \in Cells
      BY <1>8, <2>1
    <3> QED
      BY <1>5, <2>1, <2>2, <2>4, <3>1, <3>2
  <2> QED
    BY <2>3, <2>4
<1>10. CASE ReadData
  <2>1. PICK cell \in CellsAt(b, task.pos) :
          task' = [task EXCEPT !.got = Append(@, cell), !.pos = task.pos]
    BY <1>10 DEF ReadData, LineInv, Shape
  <2>2. Reads("data") /\ m \in Nat /\ (m = 0 => task.pos = 2)
    BY <1>10, FieldNext DEF ReadData
  <2>3. CASE l.fields = Len(Fields(l.letter))
    <3>1. cell = Cell("data", n)
      BY <1>7, <2>1, <2>2, <2>3
    <3>2. ~(m + 1 < l.fields)
      <4>1. task.letter = l.letter /\ m + 1 <= Len(Wanted) /\ Len(Wanted) \in 0..3
            /\ Wanted[m + 1] = "data"
        BY <2>2, FieldNext DEF Underway, Reads
      <4>2. m + 1 \in 1..Len(Fields(l.letter)) /\ Fields(l.letter)[m + 1] = "data"
        BY <2>2, <4>1 DEF Wanted
      <4> QED
        BY <1>2, <2>2, <2>3, <4>2, DataLast
    <3> QED
      BY <1>4, <2>1, <2>2, <2>3, <3>1, <3>2
  <2>4. CASE l.fields # Len(Fields(l.letter))
    <3>1. m = 0 => cell = bufs[b][2]
      BY <1>2, <2>1, <2>2 DEF CellsAt
    <3> QED
      BY <1>5, <1>8, <2>1, <2>2, <2>4, <3>1
  <2> QED
    BY <2>3, <2>4
<1> QED
  BY <1>6, <1>9, <1>10

\* The task follows the line it was given, and does what it asks for.
LEMMA TaskAsks ==
  ASSUME AllClear, LineInv, ReadInv, AskInv, TaskStep
  PROVE  AskInv'
<1>1. /\ Shape /\ Reading /\ cmd \in [buffer : 1..2, notified : BOOLEAN]
      /\ task.got \in Seq(Cells)
      /\ Incoming /\ Underway /\ Accounts
  BY DEF LineInv, LineTypeOK, AskInv
<1>2. UNCHANGED <<host, bufs, uart, asked>> /\ cmd'.buffer = cmd.buffer
  BY <1>1 DEF TaskStep, TaskTake, Dispatch, Arguments, ReadHead, ReadSep, ReadData, Perform, isrVars
<1>3. Current' = Current /\ Incoming'
  BY <1>1, <1>2 DEF Current, Incoming
<1>4. /\ ~Handled /\ Carries(cmd.buffer, Current) /\ Carries(cmd.buffer, Current)'
      /\ Current \in Numbers
      /\ done \in Seq(Meanings) /\ asked = Append(done, Meant(Lines[Current]))
  <2>1. ~Handled
    BY DEF TaskStep, TaskTake, Dispatch, Arguments, ReadHead, ReadSep, ReadData, Reads,
           Perform, Handled
  <2> QED
    BY <1>1, <1>2, <1>3, <2>1 DEF Underway, Accounts, Carries
<1>5. ASSUME ~Handled', UNCHANGED done
      PROVE  Accounts'
  BY <1>2, <1>3, <1>4, <1>5 DEF Accounts, Meanings
<1>6. CASE TaskTake
  <2>1. task'.pc = "dispatch" /\ UNCHANGED done
    BY <1>1, <1>6 DEF TaskTake, Shape
  <2>2. Underway' /\ ~Handled'
    BY <1>4, <2>1 DEF Underway, Handled
  <2> QED
    BY <1>3, <1>5, <2>1, <2>2 DEF AskInv
<1>7. CASE Dispatch
  <2>1. bufs[cmd.buffer][1].is = "letter"
    BY <1>4 DEF Carries, Cell
  <2>2. task'.pc = "args" /\ task'.letter = Lines[Current].letter /\ UNCHANGED done
    BY <1>1, <1>7, <2>1 DEF Dispatch, Shape, Current
  <2>3. Underway' /\ ~Handled'
    BY <1>3, <1>4, <2>2 DEF Underway, Handled
  <2> QED
    BY <1>3, <1>5, <2>2, <2>3 DEF AskInv
<1>8. CASE Arguments
  <2>1. /\ task.pc = "args" /\ task'.pc = "read" /\ task'.letter = task.letter
        /\ task'.pos = 2 /\ task'.got = <<>> /\ UNCHANGED done
    BY <1>1, <1>8 DEF Arguments, Shape
  <2>2. task.letter = Lines[Current].letter
    BY <1>1, <2>1 DEF Underway
  <2>3. ReadSoFar'
    <3>1. Len(<<>>) = 0 /\ \A i \in 1..0 : FALSE
      OBVIOUS
    <3>2. Len(task'.got) = 0 /\ task'.pos = 2 + 0
      BY <2>1, <3>1
    <3> QED
      BY <3>1, <3>2 DEF ReadSoFar
  <2>4. Underway' /\ ~Handled'
    BY <1>3, <1>4, <2>1, <2>2, <2>3 DEF Underway, Handled
  <2> QED
    BY <1>3, <1>5, <2>1, <2>4 DEF AskInv
<1>9. CASE ReadHead \/ ReadSep \/ ReadData
  <2>1. task.pc = "read" /\ task'.pc = "read" /\ task'.letter = task.letter /\ UNCHANGED done
    BY <1>1, <1>9 DEF ReadHead, ReadSep, ReadData, Reads, Shape
  <2>2. ReadSoFar'
    BY <1>1, <1>9, FieldAsks
  <2>3. Underway' /\ ~Handled'
    BY <1>1, <1>3, <1>4, <2>1, <2>2 DEF Underway, Handled
  <2> QED
    BY <1>3, <1>5, <2>1, <2>3 DEF AskInv
<1>10. CASE Perform
  <2>1. /\ task.pc = "read" /\ Len(task.got) = Len(Wanted) /\ task'.pc = "idle"
        /\ UNCHANGED cmd
        /\ done' = Append(done, Effect(task.letter, task.got))
    BY <1>1, <1>10 DEF Perform, Shape, isrVars
  <2>2. ~cmd.notified
    BY <2>1 DEF ReadInv
  <2>3. task.letter = Lines[Current].letter /\ ReadSoFar
    BY <1>1, <2>1 DEF Underway
  <2>4. AllRead(Current, task.got)
    <3> DEFINE l == Lines[Current]
    <3>1. Len(task.got) = Len(Fields(l.letter))
      BY <2>1, <2>3 DEF Wanted
    <3>2. CASE l.fields = Len(Fields(l.letter))
      BY <1>1, <2>3, <3>1, <3>2 DEF ReadSoFar, AllRead
    <3>3. CASE l.fields # Len(Fields(l.letter))
      <4>1. l.fields = 0
        BY <1>4, <3>3 DEF AllClear, ClearLine
      <4>2. Len(task.got) # 0 /\ Len(task.got) \in Nat
        BY <1>1, <3>1, <3>3, <4>1
      <4>3. task.got[1].is \in {"nul", "rest"}
        BY <2>3, <3>3, <4>2 DEF ReadSoFar
      <4>4. Len(task.got) > 0
        BY <4>2
      <4> QED
        BY <1>1, <3>1, <4>1, <4>3, <4>4 DEF AllRead
    <3> QED
      BY <3>2, <3>3
  <2>5. done' = Append(done, Meant(Lines[Current]))
    <3>1. Effect(Lines[Current].letter, task.got) = Meant(Lines[Current])
      BY <1>4, <2>4, EffectMeant DEF AllClear
    <3> QED
      BY <2>1, <2>3, <3>1
  <2>6. Handled'
    BY <2>1, <2>2 DEF Handled
  <2>7. Underway'
    BY <2>1, <2>6 DEF Underway
  <2>8. Accounts'
    <3>1. Meant(Lines[Current]) \in Meanings
      BY <1>4 DEF Meanings
    <3>2. done' \in Seq(Meanings)
      <4> DEFINE e == Meant(Lines[Current])
      <4> HIDE DEF e
      <4> QED
        BY <1>4, <2>5, <3>1, AppendTyped DEF e
    <3> QED
      BY <1>2, <1>4, <2>5, <2>6, <3>2 DEF Accounts, Meanings
  <2> QED
    BY <1>3, <2>7, <2>8 DEF AskInv
<1> QED
  BY <1>6, <1>7, <1>8, <1>9, <1>10 DEF TaskStep

-----------------------------------------------------------------------------
\* With a host that paces its lines, every line code and manual agree about is
\* carried out once, in order, and as the manual says, whatever the size of the
\* buffers, the text behind the arguments, and what broken lines leave behind.
\* AllClear leaves out the priority 6, and arguments wider than a buffer.
THEOREM DoesAsAsked ==
  ASSUME HostPaces, AllClear
  PROVE  Spec => []AsAsked
<1> DEFINE Inv == LineInv /\ ReadInv /\ AskInv
<1>1. Init => Inv
  BY LineInitially, ReadInitially, AskInitially
<1>2. Inv /\ [Next]_vars => Inv'
  <2> SUFFICES ASSUME LineInv, ReadInv, AskInv, [Next]_vars
               PROVE  Inv'
    OBVIOUS
  <2>1. LineInv'
    BY LineStep
  <2>2. CASE HostStarts \/ HostBreaksOff
    <3>1. UNCHANGED <<isrVars, task>>
      BY <2>2 DEF HostStarts, HostBreaksOff
    <3>2. ReadInv'
      BY <3>1 DEF isrVars, ReadInv
    <3> QED
      BY <2>1, <2>2, <3>2, HostAsks
  <2>3. CASE StoreLetter \/ Store
    BY <2>1, <2>3, IsrKeeps, StoreAsks
  <2>4. CASE PublishHelp \/ PublishLine
    BY <2>1, <2>4, IsrKeeps, PublishAsks
  <2>5. CASE TaskStep
    BY <2>1, <2>5, TaskKeeps, TaskAsks
  <2>6. CASE UNCHANGED vars
    <3>1. ReadInv'
      BY <2>6 DEF vars, isrVars, ReadInv
    <3>2. UNCHANGED <<cmd, task, done, asked, bufs, host, uart>>
      BY <2>6 DEF vars, isrVars
    <3>3. Underway' /\ Accounts'
      BY <3>2, UnderwayKept DEF AskInv
    <3>4. Incoming'
      BY <3>2 DEF AskInv, Incoming
    <3> QED
      BY <2>1, <3>1, <3>3, <3>4 DEF AskInv
  <2> QED
    BY <2>2, <2>3, <2>4, <2>5, <2>6 DEF Next
<1>3. Inv => AsAsked
  <2> SUFFICES ASSUME Accounts PROVE AsAsked
    BY DEF AskInv
  <2>1. done \in Seq(Meanings)
    BY DEF Accounts
  <2>2. CASE Handled
    <3>1. asked = done
      BY <2>2 DEF Accounts
    <3>2. Len(done) <= Len(done)
      BY <2>1
    <3> QED
      BY <3>1, <3>2 DEF AsAsked, IsPrefixOf
  <2>3. CASE ~Handled
    <3> DEFINE e == Meant(Lines[Current])
    <3>1. asked = Append(done, e)
      BY <2>3 DEF Accounts
    <3> HIDE DEF e
    <3>2. Len(asked) = Len(done) + 1 /\ Len(done) \in Nat
          /\ \A i \in 1..Len(done) : asked[i] = done[i]
      BY <2>1, <3>1
    <3>3. Len(done) <= Len(asked)
      BY <3>2
    <3> QED
      BY <3>2, <3>3 DEF AsAsked, IsPrefixOf
  <2> QED
    BY <2>2, <2>3
<1> QED
  BY <1>1, <1>2, <1>3, PTL DEF Spec
=============================================================================
