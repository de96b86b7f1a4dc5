------------------------------ MODULE RpnShell ------------------------------
(***************************************************************************)
(* A terminal line that runs the rpn application, from the line to the     *)
(* exit code "echo $?" prints: Terminal::ExecuteLine splits the command    *)
(* from its argument at the first space (terminal.cpp), ExecuteFile        *)
(* builds argv with MakeArgv, apps/rpn/rpn.cpp evaluates the words on a    *)
(* stack, and exit(result) comes back as the line's exit code.             *)
(*                                                                         *)
(* The command name is the model value Cmd of CmdLen characters; the rest  *)
(* of the line is a string over LineChars.  Loading the ELF file, the page *)
(* maps and the switch to user mode are left out: they do not touch the    *)
(* words or the result.                                                    *)
(***************************************************************************)
EXTENDS Integers, Sequences, SequencesExt, TLC

CONSTANTS
  Cmd,          \* the command word typed first ("rpn")
  CmdLen,       \* its length
  LineChars,    \* characters typed after the command
  MaxLine,      \* bound on the characters typed after the command
  MaxLines,     \* bound on the lines run in a behaviour
  ArgvLen,      \* argv_len in ExecuteFile
  ArgbufLen,    \* argbuf_len in ExecuteFile
  UBResults     \* exit codes a stack underflow can produce

VARIABLES
  linebuf,         \* _linebuf after the command: what has been typed
  lines_run,       \* number of lines executed (bound)
  last_line,       \* history: the last line executed, after the command
  last_exit_code   \* Terminal::_last_exit_code

shell_vars == <<linebuf, lines_run, last_line, last_exit_code>>

SP == " "
Digits == ("0" :> 0) @@ ("1" :> 1) @@ ("2" :> 2) @@ ("3" :> 3) @@ ("4" :> 4)
          @@ ("5" :> 5) @@ ("6" :> 6) @@ ("7" :> 7) @@ ("8" :> 8) @@ ("9" :> 9)

(* atol: an optional sign, then the longest run of digits.                 *)
RECURSIVE DigitsValue(_, _)
DigitsValue(s, acc) ==
  IF s # <<>> /\ Head(s) \in DOMAIN Digits
  THEN DigitsValue(Tail(s), 10 * acc + Digits[Head(s)])
  ELSE acc

Atol(w) ==
  CASE w # <<>> /\ Head(w) = "-" -> - DigitsValue(Tail(w), 0)
    [] w # <<>> /\ Head(w) = "+" -> DigitsValue(Tail(w), 0)
    [] OTHER                     -> DigitsValue(w, 0)

(* static_cast<int> keeps a value that fits in an int; the words of the    *)
(* lines checked are too short to leave that range.                        *)
IntMin == -(2^30) - 2^30
IntMax == (2^30 - 1) + 2^30
ToInt32(v) == IF v \in IntMin..IntMax THEN v ELSE Assert(FALSE, "past int")

(* MakeArgv's loop from p = arg: skip spaces, cut the next word, push it.  *)
(* Result: [argc, err] with the words pushed in argv.                      *)
RECURSIVE ArgvLoop(_, _, _, _)
ArgvLoop(p, argv, argc, argbuf_index) ==
  LET q == SelectInSeq(p, LAMBDA c : c # SP)    \* first non-space, or 0
  IN IF q = 0 THEN [argv |-> argv, err |-> "kSuccess"]
     ELSE LET rest == SubSeq(p, q, Len(p))
              e    == SelectInSeq(rest, LAMBDA c : c = SP)
              word == IF e = 0 THEN rest ELSE SubSeq(rest, 1, e - 1)
          IN IF argc >= ArgvLen \/ argbuf_index >= ArgbufLen
             THEN [argv |-> argv, err |-> "kFull"]
             ELSE IF e = 0
             THEN [argv |-> Append(argv, word), err |-> "kSuccess"]
             ELSE ArgvLoop(SubSeq(rest, e + 1, Len(rest)), Append(argv, word),
                           argc + 1, argbuf_index + Len(word) + 1)

(* MakeArgv(command, arg, argv, argv_len, argbuf, argbuf_len); arg is      *)
(* <<>> for a null arg.  The command word is pushed first.                 *)
MakeArgv(arg, hasArg) ==
  IF 0 >= ArgvLen \/ 0 >= ArgbufLen THEN [argv |-> <<>>, err |-> "kFull"]
  ELSE IF ~hasArg THEN [argv |-> <<Cmd>>, err |-> "kSuccess"]
  ELSE ArgvLoop(arg, <<Cmd>>, 1, CmdLen + 1)

(* rpn's main loop over argv[1..argc-1], with stack_ptr and stack[] as a   *)
(* sequence whose last element is stack[stack_ptr].  Pop on an empty      *)
(* stack reads stack[-1], out of the array: the run is then undefined.     *)
RECURSIVE RpnLoopSwapped(_, _)
(* Mutant of RpnLoop: the operands taken in the order they are popped.     *)
RpnLoopSwapped(words, stack) ==
  IF words = <<>> THEN [stack |-> stack, ub |-> FALSE]
  ELSE LET w == Head(words) IN
       IF w \in {<<"+">>, <<"-">>}
       THEN IF Len(stack) < 2 THEN [stack |-> stack, ub |-> TRUE]
            ELSE LET a == stack[Len(stack)]
                     b == stack[Len(stack) - 1]
                 IN RpnLoopSwapped(Tail(words),
                            Append(SubSeq(stack, 1, Len(stack) - 2),
                                   IF w = <<"+">> THEN a + b ELSE a - b))
       ELSE RpnLoopSwapped(Tail(words), Append(stack, Atol(w)))

RECURSIVE RpnLoop(_, _)
RpnLoop(words, stack) ==
  IF words = <<>> THEN [stack |-> stack, ub |-> FALSE]
  ELSE LET w == Head(words) IN
       IF w \in {<<"+">>, <<"-">>}
       THEN IF Len(stack) < 2 THEN [stack |-> stack, ub |-> TRUE]
            ELSE LET b == stack[Len(stack)]
                     a == stack[Len(stack) - 1]
                 IN RpnLoop(Tail(words),
                            Append(SubSeq(stack, 1, Len(stack) - 2),
                                   IF w = <<"+">> THEN a + b ELSE a - b))
       ELSE RpnLoop(Tail(words), Append(stack, Atol(w)))

(* The exit codes rpn's main can return for argv: the top of the stack,    *)
(* or 0 for an empty stack; any of UBResults after an underflow.           *)
RpnMain(argv) ==
  LET r == RpnLoop(Tail(argv), <<>>)
  IN IF r.ub THEN UBResults
     ELSE {ToInt32(IF r.stack = <<>> THEN 0 ELSE r.stack[Len(r.stack)])}

(* Terminal::InputKey for a printable character: it is appended to        *)
(* _linebuf while the line has room.                                       *)
TypeChar(c) ==
  /\ lines_run < MaxLines
  /\ Len(linebuf) < MaxLine
  /\ linebuf' = Append(linebuf, c)
  /\ UNCHANGED <<lines_run, last_line, last_exit_code>>

(* ExecuteLine's split of the line Cmd \o tail, lines 462-474: the command *)
(* ends at the first space; arg is what follows it, past further spaces,   *)
(* and is absent when the line has no space.                               *)
LineArg(tail) ==
  LET sp     == SelectInSeq(tail, LAMBDA c : c = SP)
      after  == IF sp = 0 THEN <<>> ELSE SubSeq(tail, sp + 1, Len(tail))
      first  == SelectInSeq(after, LAMBDA c : c # SP)
  IN [cmdEnd |-> IF sp = 0 THEN Len(tail) ELSE sp - 1,
      hasArg |-> sp # 0,
      arg    |-> IF first = 0 THEN <<>> ELSE SubSeq(after, first, Len(after))]

(* ExecuteFile for the rpn file: argv from MakeArgv in the argument frame, *)
(* {0, err} when MakeArgv fails, else what CallApp returns.                *)
ExecuteFile(arg, hasArg) ==
  LET args == MakeArgv(arg, hasArg)
  IN IF args.err # "kSuccess" THEN {0} ELSE RpnMain(args.argv)

(* The exit codes of the line: a command word longer than Cmd is not found *)
(* (1); otherwise the ec ExecuteFile returns, negated on an error (-0).    *)
ExitCodes(tail) ==
  LET la == LineArg(tail)
  IN IF la.cmdEnd > 0 THEN {1} ELSE ExecuteFile(la.arg, la.hasArg)

(* InputKey for '\n': ExecuteLine on the line, then _linebuf_index = 0.   *)
ExecuteLine ==
  /\ lines_run < MaxLines
  /\ lines_run' = lines_run + 1
  /\ linebuf' = <<>>
  /\ last_line' = linebuf
  /\ \E ec \in ExitCodes(linebuf) : last_exit_code' = ec

ShellTypeOK ==
  /\ linebuf \in Seq(LineChars)
  /\ lines_run \in 0..MaxLines
  /\ last_line \in Seq(LineChars)
  /\ last_exit_code \in Int

ShellInit ==
  /\ linebuf = <<>>
  /\ lines_run = 0
  /\ last_line = <<>>
  /\ last_exit_code = 0

ShellNext == (\E c \in LineChars : TypeChar(c)) \/ ExecuteLine

(* The words of a string, a reference for MakeArgv: the non-empty runs     *)
(* between spaces.                                                         *)
WordsOf(s) ==
  SelectSeq(FoldLeft(LAMBDA ws, ch : IF ch = SP THEN Append(ws, <<>>)
                                     ELSE [ws EXCEPT ![Len(ws)] = Append(@, ch)],
                     <<<<>>>>, s),
            LAMBDA w : w # <<>>)

IsOperator(w) == w \in {<<"+">>, <<"-">>}

(* Reverse Polish expressions, by their grammar: a number word, or two     *)
(* expressions followed by an operator; and the value each denotes.        *)
RECURSIVE IsExpr(_)
IsExpr(ws) ==
  \/ Len(ws) = 1 /\ ~IsOperator(ws[1])
  \/ /\ Len(ws) >= 3
     /\ IsOperator(ws[Len(ws)])
     /\ \E k \in 1..(Len(ws) - 2) :
          IsExpr(SubSeq(ws, 1, k)) /\ IsExpr(SubSeq(ws, k + 1, Len(ws) - 1))

RECURSIVE ExprValue(_)
ExprValue(ws) ==
  IF Len(ws) = 1 THEN Atol(ws[1])
  ELSE LET k == CHOOSE k \in 1..(Len(ws) - 2) :
                  IsExpr(SubSeq(ws, 1, k)) /\ IsExpr(SubSeq(ws, k + 1, Len(ws) - 1))
           a == ExprValue(SubSeq(ws, 1, k))
           b == ExprValue(SubSeq(ws, k + 1, Len(ws) - 1))
       IN IF ws[Len(ws)] = <<"+">> THEN a + b ELSE a - b

(* A line "rpn" followed by a space and the words of a well-formed         *)
(* expression leaves, as the exit code "echo $?" prints, the value of the  *)
(* expression as an int: the split at the first space, MakeArgv, the       *)
(* order of rpn's two Pops and the int cast all have to agree.             *)
RpnMatchesReference ==
  LET ws == WordsOf(last_line) IN
  (last_line # <<>> /\ Head(last_line) = SP /\ IsExpr(ws) /\ Len(ws) < ArgvLen)
    => last_exit_code = ToInt32(ExprValue(ws))

=============================================================================
