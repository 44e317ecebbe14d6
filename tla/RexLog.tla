------------------------------- MODULE RexLog -------------------------------
(***************************************************************************)
(* Printing: rex_trace_printk and the message of the panic handler format  *)
(* into the log buffer of the CPU (LogBuf), one write_str per piece, and   *)
(* the kernel prints it up to the first NUL.  The value being formatted is *)
(* the program's own, so its Display may itself print: then both messages  *)
(* are in the same buffer.                                                 *)
(*                                                                         *)
(* The pieces of message n consist of bytes n.                             *)
(***************************************************************************)
EXTENDS Integers, Sequences

CONSTANTS BufLen,       \* bytes of rex_log_buf
          MaxPiece,     \* bound: length of a piece
          MaxPieces,    \* bound: pieces of a message
          MaxNesting,   \* bound: messages being formatted at a time
          MaxMessages   \* bound: messages

\* BufLen > 1: the text of panic_unknown, one byte here, always fits.
ASSUME LogAssumption ==
  /\ BufLen \in Nat /\ BufLen > 1 /\ MaxPiece \in Nat
  /\ {MaxPieces, MaxNesting, MaxMessages} \subseteq Nat

VARIABLES logbuf,    \* rex_log_buf of this CPU
          writers,   \* stack of LogBufs being written: the innermost is last
          messages,  \* messages begun
          panicking, \* "no", "formatting" or "done"
          left,      \* history: the text of the LogBuf that was written last
          printed    \* history: the last text printed, and the one due

lvars == <<logbuf, writers, messages, panicking, left, printed>>

Positions == 0 .. BufLen - 1
\* A text, and whether it may be mixed with another one.
Text(t, mixed) == [text |-> t, mixed |-> mixed]
Writer(n, off, text, pieces, nested) ==
  [msg |-> n, off |-> off, text |-> text, pieces |-> pieces, nested |-> nested]

LogInit == /\ logbuf = [i \in Positions |-> 0]
           /\ writers = << >> /\ messages = 0 /\ panicking = "no"
           /\ left = Text(<< >>, FALSE)
           /\ printed = [read |-> << >>, due |-> Text(<< >>, FALSE)]

Top == writers[Len(writers)]
ReplaceTop(w) == [writers EXCEPT ![Len(writers)] = w]
PopTop == SubSeq(writers, 1, Len(writers) - 1)

\* The same stack after its top message has printed inside the one below.
Popped == IF Len(writers) < 2 THEN PopTop
          ELSE LET w == writers[Len(writers) - 1] IN
               [PopTop EXCEPT ![Len(writers) - 1] =
                  Writer(w.msg, w.off, w.text, w.pieces, TRUE)]

(* The message at the top is one of rex_trace_printk, not of the handler. *)
IsPrintk == writers # << >> /\ (panicking = "no" \/ Len(writers) > 1)

(* rex_trace_printk: LogBuf::new starts at the front of the buffer, also   *)
(* when it is called from the Display of a message that is being written.  *)
rex_trace_printk ==
  /\ panicking # "done" /\ Len(writers) < MaxNesting
  /\ messages < MaxMessages /\ messages' = messages + 1
  /\ writers' = Append(writers, Writer(messages + 1, 0, << >>, 0, FALSE))
  /\ UNCHANGED <<logbuf, panicking, left, printed>>

(* write_str: the piece and a NUL behind it. *)
Available(off) == BufLen - off - 1
\* Faulty variant: the NUL is not written.
PutNoNul(off, n, byte) ==
  [i \in Positions |-> IF i \in off .. off + n - 1 THEN byte ELSE logbuf[i]]
PutPiece(off, n, byte) ==
  [i \in Positions |-> CASE i \in off .. off + n - 1 -> byte
                         [] i = off + n -> 0
                         [] OTHER -> logbuf[i]]
log_write_str(n) ==
  /\ writers # << >> /\ Top.pieces < MaxPieces
  /\ n <= Available(Top.off)
  /\ logbuf' = PutPiece(Top.off, n, Top.msg)
  /\ LET text == Top.text \o [i \in 1 .. n |-> Top.msg]
     IN /\ writers' = ReplaceTop(Writer(Top.msg, Top.off + n, text,
                                        Top.pieces + 1, Top.nested))
        /\ left' = Text(text, Top.nested)
  /\ UNCHANGED <<messages, panicking, printed>>

(* The piece does not fit: fmt::Error, and rex_trace_printk gives E2BIG    *)
(* without printing.                                                       *)
log_write_str_err(n) ==
  /\ IsPrintk /\ Top.pieces < MaxPieces
  /\ n > Available(Top.off)
  /\ writers' = Popped
  /\ UNCHANGED <<logbuf, messages, panicking, left, printed>>

CText == LET e == CHOOSE i \in Positions :
                    logbuf[i] = 0 /\ \A j \in 0 .. i - 1 : logbuf[j] # 0
         IN [i \in 1 .. e |-> logbuf[i - 1]]
\* A message that has written nothing prints what is in the buffer.
Due == IF Top.pieces > 0 THEN Text(Top.text, Top.nested) ELSE left
Printed == [read |-> CText, due |-> Due]

(* The message is formatted, be it to no piece at all: the kernel prints   *)
(* the buffer.                                                             *)
print ==
  /\ IsPrintk
  /\ printed' = Printed
  /\ writers' = Popped
  /\ UNCHANGED <<logbuf, messages, panicking, left>>

(* A panic anywhere, also while a message is formatted and in the Display  *)
(* of the handler's message: the handler takes the buffer over, and the    *)
(* interrupted messages are never printed.                                 *)
log_panic ==
  /\ panicking # "done" /\ messages < MaxMessages /\ messages' = messages + 1
  /\ panicking' = "formatting"
  /\ writers' = <<Writer(messages + 1, 0, << >>, 0, FALSE)>>
  /\ UNCHANGED <<logbuf, left, printed>>

(* The message does not fit: reset, and a text that does. *)
panic_unknown(n) ==
  /\ panicking = "formatting" /\ ~IsPrintk /\ Top.pieces < MaxPieces
  /\ n > Available(Top.off)
  /\ logbuf' = PutPiece(0, 1, Top.msg)
  /\ writers' = <<Writer(Top.msg, 1, <<Top.msg>>, MaxPieces, FALSE)>>
  /\ left' = Text(<<Top.msg>>, FALSE)
  /\ UNCHANGED <<messages, panicking, printed>>

(* rex_landingpad reports the buffer and leaves the program.  There is a   *)
(* piece: a PanicInfo is formatted beginning with "panicked at".           *)
rex_landingpad ==
  /\ panicking = "formatting" /\ ~IsPrintk /\ Top.pieces > 0
  /\ printed' = Printed
  /\ writers' = << >> /\ panicking' = "done"
  /\ UNCHANGED <<logbuf, messages, left>>

LogNext == \/ rex_trace_printk
           \/ \E n \in 0 .. MaxPiece : \/ log_write_str(n) \/ log_write_str_err(n)
                                       \/ panic_unknown(n)
           \/ print \/ log_panic \/ rex_landingpad
-----------------------------------------------------------------------------
(* What rex_trace_printk and the landing pad print is the text of the      *)
(* message, all of it and nothing that a longer, failed or interrupted     *)
(* message left in the buffer.  A message that is formatted to no piece    *)
(* (log.rs does not reset the buffer) prints the text of whichever LogBuf  *)
(* was written last, its own or not, printed before or never.  Excepted    *)
(* are texts of a LogBuf whose Display began another message: the two are  *)
(* mixed in the buffer.                                                    *)
PrintedAsWritten == printed.due.mixed \/ printed.read = printed.due.text
=============================================================================
