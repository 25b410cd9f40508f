----------------------------- MODULE SerialLine -----------------------------
(***************************************************************************)
(* The serial line of the adapter (serial.c): the host sends lines, the    *)
(* UART interrupt stores their characters in one of two buffers, and the   *)
(* serial task reads the arguments out of the other one and carries the    *)
(* command out.  Between the two there are a pointer and one notification  *)
(* bit.                                                                    *)
(*                                                                         *)
(* A buffer is a row of cells.  A cell holds a field of a line, not a      *)
(* character: the letter, the separator, the data, or text behind the      *)
(* arguments.  What comes before the separator, the head, takes as many    *)
(* cells as the host likes, because where it ends decides whether the      *)
(* handler stays inside the buffer.  Positions count from 1.               *)
(***************************************************************************)
EXTENDS Integers, Sequences

CONSTANTS
  Lines,      \* the lines the host may send: see IsLine
  Size,       \* cells of a buffer, SERIAL_BUFFER_SIZE
  MaxLines,   \* bound: number of lines the host sends
  HostPaces,  \* the host ends a line only when the one before was handled
  HostBreaks  \* the rest of a line may get lost

VARIABLES
  host,      \* line being sent (0: none), its next character, lines left
  bufs,      \* rx_buffer_1, rx_buffer_2
  uart,      \* active_buffer, and buffer_index as a position
  cmd,       \* serial.cmd_buffer, and the notification bit
  task,      \* the serial task: where it is, its letter, what it has read
  done,      \* history: what the task did, in order
  asked      \* history: what the lines that were sent complete ask for

isrVars == <<bufs, uart, cmd>>
vars == <<host, bufs, uart, cmd, task, done, asked>>

MAX_DATA_LENGTH == 32

\* What comes after the letter, in the order in which the handler reads it.
\* In a head the priority is followed by the length, and in R the number of
\* repetitions comes between them.
Fields(letter) ==
  CASE letter \in {"Q", "S"}      -> <<"head", "sep", "data">>
    [] letter = "R"               -> <<"head", "data">>
    [] letter \in {"Y", "W", "N"} -> <<"data">>
    [] letter \in {"X", "I", "?"} -> <<>>

Letters == {"Q", "S", "R", "Y", "W", "N", "X", "I", "?"}

\* A line may stop after the first few of its fields, and its head may be some
\* cells wider than one.  What follows the "?" is an end of line the manual does
\* not ask for.
IsLine(l) ==
  /\ l \in [letter : Letters, priority : Nat, repeat : Nat, length : Nat,
            plus : BOOLEAN, data : Nat, wide : Nat, rest : Nat, fields : Nat]
  /\ l.fields <= Len(Fields(l.letter))
  /\ l.wide > 0 => l.letter \in {"Q", "S", "R"} /\ l.fields > 0

ASSUME LineAssumption ==
  /\ \A n \in DOMAIN Lines : IsLine(Lines[n])
  /\ Size \in Nat /\ Size > 4 /\ MaxLines \in Nat
  /\ {HostPaces, HostBreaks} \subseteq BOOLEAN

Cell(is, n) == [is |-> is, line |-> n]
Nul == Cell("nul", 0)

Numbers == DOMAIN Lines
Cells   == {Nul} \cup [is : {"letter", "head", "sep", "data", "rest"}, line : Numbers]

\* The arguments of a line take Width(l) cells, the i-th of them of Kind(l, i).
Width(l) == l.fields + l.wide
Kind(l, i) == IF i <= l.wide THEN "head" ELSE Fields(l.letter)[i - l.wide]

\* The characters of line n.
Text(n) ==
  LET l == Lines[n]
      args == [i \in 1..Width(l) |-> Kind(l, i)] \o [i \in 1..l.rest |-> "rest"]
  IN IF l.letter = "?" THEN <<"help">> \o [i \in 1..l.rest |-> "end"]
     ELSE <<"letter">> \o args \o <<"end">>

\* The letter, all arguments it has and the terminator fit in a buffer.
Fits(l) == 1 + Len(Fields(l.letter)) + l.wide < Size
AllFit == \A n \in Numbers : Fits(Lines[n])

-----------------------------------------------------------------------------
(* What a command does.                                                    *)

Nothing == [do |-> "", type |-> "NONE", repeat |-> 0, length |-> 0, data |-> 0]
Act(what, data) == [Nothing EXCEPT !.do = what, !.data = data]
Error == Act("error", 0)
Frame(type, repeat, length, data) ==
  [do |-> "queue", type |-> type, repeat |-> repeat, length |-> length, data |-> data]

priority_or_length_illegal(priority, length) ==
  length > MAX_DATA_LENGTH \/ priority \notin 1..6

\* One more than what fits is taken as legal.
data_illegal(data, length) == data >= 2^length + 1

get_forward_type(priority) ==
  IF priority = 6 THEN "BACK_TO_BACK"
  ELSE <<"FORWARD_1", "FORWARD_2", "FORWARD_3", "FORWARD_4", "FORWARD_5">>[priority]
get_query_type(priority) ==
  IF priority = 6 THEN "NONE"
  ELSE <<"QUERY_1", "QUERY_2", "QUERY_3", "QUERY_4", "QUERY_5">>[priority]

\* The checks the handlers of Q, S and R have in common.
Checked(priority, length, data, frame) ==
  IF priority_or_length_illegal(priority, length) \/ data_illegal(data, length)
  THEN Error ELSE frame

\* What strtoul makes of a field: where there is no such field, no number.
NoNumber == [priority |-> 0, repeat |-> 0, length |-> 0, data |-> 0, plus |-> FALSE]
Read(is, cell) == IF cell.is = is THEN Lines[cell.line] ELSE NoNumber

\* Priority, length and number of repetitions are kept in a uint8_t.
Byte(n) == n % 256
HeadRead(number) ==
  [number EXCEPT !.priority = Byte(@), !.length = Byte(@), !.repeat = Byte(@)]

\* What the handler of a letter does with the cells it has read.
Effect(letter, got) ==
  LET first == HeadRead(Read("head", got[1]))
      data  == Read("data", got[Len(got)]).data
      twice == IF Read("sep", got[2]).plus THEN 1 ELSE 0
  IN CASE letter = "Q" -> Checked(first.priority, first.length, data,
            Frame(get_query_type(first.priority), twice, first.length, data))
       [] letter = "S" -> Checked(first.priority, first.length, data,
            Frame(get_forward_type(first.priority), twice, first.length, data))
       [] letter = "R" -> Checked(first.priority, first.length, data,
            Frame(get_forward_type(first.priority), first.repeat, first.length, data))
       [] letter = "Y" -> IF data > 255 THEN Error ELSE Frame("BACKWARD", 0, 8, data)
       [] letter = "W" -> IF data = 0 THEN Error ELSE Act("start", data)
       [] letter = "N" -> IF data = 0 THEN Error ELSE Act("next", data)
       [] letter = "X" -> Act("execute", 0)
       [] letter = "I" -> Frame("CORRUPT", 0, 0, 0)
       [] letter = "?" -> Act("head", 0)

-----------------------------------------------------------------------------
(* What the manual, doc/commands.md, says a line asks for: it tells the     *)
(* ranges of the arguments, and one that is missing or out of range is an  *)
(* error.  Priority 6, without settling time, is one of queries only.      *)

InRange(l) ==
  /\ l.fields = Len(Fields(l.letter))
  /\ CASE l.letter \in {"Q", "S", "R"} ->
            /\ l.priority \in 1..(IF l.letter = "Q" THEN 6 ELSE 5)
            /\ l.length \in 0..32 /\ l.data < 2^l.length
       [] l.letter = "Y"          -> l.data \in 0..255
       [] l.letter \in {"W", "N"} -> l.data > 0
       [] OTHER                   -> TRUE

TypeAsked(l) ==
  IF l.letter = "Q" /\ l.priority # 6 THEN get_query_type(l.priority)
  ELSE get_forward_type(l.priority)

Command(l) ==
  CASE l.letter \in {"Q", "S"} ->
         Frame(TypeAsked(l), IF l.plus THEN 1 ELSE 0, l.length, l.data)
    [] l.letter = "R"         -> Frame(TypeAsked(l), l.repeat, l.length, l.data)
    [] l.letter = "Y"         -> Frame("BACKWARD", 0, 8, l.data)
    [] l.letter = "W"         -> Act("start", l.data)
    [] l.letter = "N"         -> Act("next", l.data)
    [] l.letter = "X"         -> Act("execute", 0)
    [] l.letter = "I"         -> Frame("CORRUPT", 0, 0, 0)
    [] l.letter = "?"         -> Act("head", 0)

Meant(l) == IF InRange(l) THEN Command(l) ELSE Error

-----------------------------------------------------------------------------
Init ==
  /\ host = [line |-> 0, next |-> 1, left |-> MaxLines]
  /\ bufs = [b \in 1..2 |-> [i \in 1..Size |-> Nul]]
  /\ uart = [active |-> 1, index |-> 1]
  /\ cmd  = [buffer |-> 1, notified |-> FALSE]
  /\ task = [pc |-> "idle", letter |-> "", buffer |-> 1, pos |-> 1, got |-> <<>>]
  /\ done = <<>> /\ asked = <<>>

(* The host.                                                               *)

HostStarts ==
  /\ host.line = 0 /\ host.left > 0
  /\ \E n \in Numbers : host' = [line |-> n, next |-> 1, left |-> host.left - 1]
  /\ UNCHANGED <<isrVars, task, done, asked>>

\* The host, or the cable, drops the rest of a line.
HostBreaksOff ==
  /\ HostBreaks /\ host.line # 0 /\ host.next > 1
  /\ host' = [host EXCEPT !.line = 0]
  /\ UNCHANGED <<isrVars, task, done, asked>>

-----------------------------------------------------------------------------
(* UART_IRQHandler.  It handles the character c of line host.line.         *)

Receives(c) ==
  /\ host.line # 0
  /\ Text(host.line)[host.next] = c
  /\ host' = IF host.next = Len(Text(host.line)) THEN [host EXCEPT !.line = 0]
             ELSE [host EXCEPT !.next = @ + 1]

\* The increment at the end of the loop, which follows each character.
Further(index) == IF index < Size THEN index + 1 ELSE index

StoreLetter ==
  /\ Receives("letter")
  /\ bufs' = [bufs EXCEPT ![uart.active][1] = Cell("letter", host.line)]
  /\ uart' = [uart EXCEPT !.index = Further(1)]
  /\ UNCHANGED <<cmd, task, done, asked>>

\* Faulty variant: an increment without limit.
StoreUnlimited ==
  \E c \in {"head", "sep", "data", "rest"} :
    /\ Receives(c)
    /\ bufs' = [bufs EXCEPT ![uart.active][uart.index] = Cell(c, host.line)]
    /\ uart' = [uart EXCEPT !.index = @ + 1]
    /\ UNCHANGED <<cmd, task, done, asked>>

Store ==
  \E c \in {"head", "sep", "data", "rest"} :
    /\ Receives(c)
    /\ bufs' = [bufs EXCEPT ![uart.active][uart.index] = Cell(c, host.line)]
    /\ uart' = [uart EXCEPT !.index = Further(@)]
    /\ UNCHANGED <<cmd, task, done, asked>>

\* Faulty variant: there is only one buffer.
other_buffer_same(active) == active

other_buffer(active) == IF active = 1 THEN 2 ELSE 1

\* The active buffer is handed to the task, the other one becomes active.
Publish ==
  /\ cmd' = [buffer |-> uart.active, notified |-> TRUE]
  /\ uart' = [active |-> other_buffer(uart.active), index |-> Further(1)]
  /\ UNCHANGED <<task, done>>

Asks == asked' = Append(asked, Meant(Lines[host.line]))

Handled == ~cmd.notified /\ task.pc = "idle"

\* Faulty variant: the task is not notified.
PublishHelpSilent ==
  /\ Receives("help")
  /\ HostPaces => Handled
  /\ bufs' = [bufs EXCEPT ![uart.active][1] = Cell("letter", host.line),
                          ![uart.active][2] = Nul]
  /\ cmd' = [cmd EXCEPT !.buffer = uart.active]
  /\ uart' = [active |-> other_buffer(uart.active), index |-> Further(1)]
  /\ Asks /\ UNCHANGED <<task, done>>

PublishHelp ==
  /\ Receives("help")
  /\ HostPaces => Handled
  /\ bufs' = [bufs EXCEPT ![uart.active][1] = Cell("letter", host.line),
                          ![uart.active][2] = Nul]
  /\ Publish /\ Asks

PublishLine ==
  /\ Receives("end")
  /\ HostPaces => Handled
  /\ bufs' = [bufs EXCEPT ![uart.active][uart.index] = Nul]
  /\ Publish
  /\ IF Lines[host.line].letter = "?" THEN UNCHANGED asked ELSE Asks

-----------------------------------------------------------------------------
(* serial_task.                                                            *)

TaskTake ==
  /\ task.pc = "idle" /\ cmd.notified
  /\ cmd' = [cmd EXCEPT !.notified = FALSE]
  /\ task' = [task EXCEPT !.pc = "dispatch"]
  /\ UNCHANGED <<host, bufs, uart, done, asked>>

\* The switch over cmd_buffer[SERIAL_IDX_CMD]
Dispatch ==
  /\ task.pc = "dispatch"
  /\ LET cell == bufs[cmd.buffer][1]
     IN task' = IF cell.is = "letter"
                THEN [task EXCEPT !.pc = "args", !.letter = Lines[cell.line].letter]
                ELSE [task EXCEPT !.pc = "idle"]
  /\ UNCHANGED <<host, isrVars, done, asked>>

\* &cmd_buffer[SERIAL_IDX_ARG]: the pointer is read again
Arguments ==
  /\ task.pc = "args"
  /\ task' = [task EXCEPT !.pc = "read", !.buffer = cmd.buffer, !.pos = 2,
                          !.got = <<>>]
  /\ UNCHANGED <<host, isrVars, done, asked>>

Wanted == Fields(task.letter)

\* What is read next is a field of this kind.
Reads(field) ==
  /\ task.pc = "read" /\ Len(task.got) < Len(Wanted)
  /\ Wanted[Len(task.got) + 1] = field

\* What lies behind the buffer may be anything.
CellsAt(b, i) == IF i \in 1..Size THEN {bufs[b][i]} ELSE Cells

\* The head that begins at i ends before e.
HeadEnds(b, i, e) ==
  /\ \A k \in i..(e - 1) : bufs[b][k].is = "head"
  /\ e <= Size => bufs[b][e].is # "head"

\* The numbers of a head that is not whole may be any.
HeadsRead(b, i, e) ==
  LET first == bufs[b][i]
  IN IF first.is = "head" => e = i + 1 + Lines[first.line].wide THEN {first} ELSE Cells

\* strtoul, two or three times: it stops at what is no number.
ReadHead ==
  /\ Reads("head")
  /\ \E e \in task.pos..(Size + 1) :
       /\ HeadEnds(task.buffer, task.pos, e)
       /\ \E cell \in HeadsRead(task.buffer, task.pos, e) :
            task' = [task EXCEPT !.got = Append(@, cell), !.pos = e]
  /\ UNCHANGED <<host, isrVars, done, asked>>

\* *end_of_read++, which steps over the end of the line too.
ReadSep ==
  /\ Reads("sep")
  /\ \E cell \in CellsAt(task.buffer, task.pos) :
       task' = [task EXCEPT !.got = Append(@, cell), !.pos = @ + 1]
  /\ UNCHANGED <<host, isrVars, done, asked>>

\* Faulty variant: the data are read one character further on.
ReadDataLate ==
  /\ Reads("data")
  /\ \E cell \in CellsAt(task.buffer, task.pos + 1) :
       task' = [task EXCEPT !.got = Append(@, cell)]
  /\ UNCHANGED <<host, isrVars, done, asked>>

\* strtoull, which nothing is read after.
ReadData ==
  /\ Reads("data")
  /\ \E cell \in CellsAt(task.buffer, task.pos) :
       task' = [task EXCEPT !.got = Append(@, cell)]
  /\ UNCHANGED <<host, isrVars, done, asked>>

\* The checks, and the call of the queue or of the driver.
Perform ==
  /\ task.pc = "read" /\ Len(task.got) = Len(Wanted)
  /\ done' = Append(done, Effect(task.letter, task.got))
  /\ task' = [task EXCEPT !.pc = "idle"]
  /\ UNCHANGED <<host, isrVars, asked>>

TaskStep ==
  TaskTake \/ Dispatch \/ Arguments \/ ReadHead \/ ReadSep \/ ReadData \/ Perform

Next ==
  \/ HostStarts \/ HostBreaksOff
  \/ StoreLetter \/ Store \/ PublishHelp \/ PublishLine
  \/ TaskStep

Spec == Init /\ [][Next]_vars
FairSpec == Spec /\ WF_vars(TaskStep)

-----------------------------------------------------------------------------
(* Properties.                                                             *)

\* The types; the interrupt stays inside the active buffer, and if every line
\* fits, the task does not read behind the end of the one it was given.
LineTypeOK ==
  /\ host \in [line : {0} \cup Numbers, next : Nat \ {0}, left : 0..MaxLines]
  /\ bufs \in [1..2 -> [1..Size -> Cells]]
  /\ uart \in [active : 1..2, index : 1..Size]
  /\ cmd \in [buffer : 1..2, notified : BOOLEAN]
  /\ task.pc \in {"idle", "dispatch", "args", "read"}
  /\ task.letter \in Letters \cup {""} /\ task.buffer \in 1..2
  /\ task.pos \in 1..(Size + 2) /\ task.got \in Seq(Cells)
  /\ AllFit => task.pos <= Size

IsPrefixOf(s, t) == Len(s) <= Len(t) /\ \A i \in 1..Len(s) : s[i] = t[i]

\* The lines about which code and manual agree.  The arguments fit in a buffer.
\* A request for information has nothing behind it.  An argument is missing only
\* if all are, and then its absence is an error.  Numbers that are kept in a byte
\* fit, the data are not just one bit too long, and no frame has priority 6.
ClearLine(l) ==
  /\ Fits(l)
  /\ l.letter = "?" => l.rest = 0
  /\ l.fields = 0 => l.letter # "Y"
  /\ l.fields \in {0, Len(Fields(l.letter))}
  /\ l.letter \in {"Q", "S", "R"} =>
       /\ l.priority < 256 /\ l.length < 256 /\ l.priority # 6
       /\ l.length <= MAX_DATA_LENGTH => l.data # 2^l.length
  /\ l.letter = "R" => l.repeat < 256

\* Each complete line is carried out once, in order, and does what the manual
\* says, whatever is received meanwhile, whatever was left of broken lines and
\* of older lines in the two buffers; a line with an argument out of range is
\* answered with an error and does nothing.
AsAsked == IsPrefixOf(done, asked)

\* The line the task is reading does not change under its hands.
ReadStable ==
  [][task.pc = "read" => bufs'[task.buffer] = bufs[task.buffer]]_vars

\* Each complete line is carried out in the end.
AllHandled == []<>(done = asked)
=============================================================================
