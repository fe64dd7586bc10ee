---------------------------- MODULE Interpreter ----------------------------
(* The reader of Frigate programs, Interpreter::getNextGate(), and the      *)
(* circuit that takes gates from it one ahead of its caller,                *)
(* Circuit::next_gate_binary().  A program is a file for main and one for   *)
(* each function; an operation "call" goes on in a function's file.  The    *)
(* end of a file is noticed only by reading one operation beyond it.        *)
EXTENDS Integers, Sequences

CONSTANTS
    numfunctions,
    Wires,      \* wire numbers
    Programs,   \* what the files hold
    Defaults,   \* the programs init_environ() may load
    NoWire      \* what an uninitialised zeroplace holds

File == 0 .. numfunctions     \* the functions; the last is the main file
Main == numfunctions

\* An operation, as far as reading goes: "zero" is a gate with table 0, and
\* "plain" any other gate or input.
Op == [options : {"plain", "zero", "copy", "output"}, dest : Wires] \cup
      [options : {"call"}, dest : 0 .. numfunctions - 1]

\* What lies behind a file: the zeroes its last page is filled up with, which
\* read as a gate with table 0 on wire 0.
Padding == [options |-> "zero", dest |-> 0]

\* Functions do not call themselves: each calls those numbered below it.
ASSUME ProgramAssumption ==
    /\ numfunctions \in Nat
    /\ 0 \in Wires
    /\ NoWire \notin Wires
    /\ Defaults \subseteq Programs
    /\ \A p \in Programs :
          /\ p \in [File -> Seq(Op)]
          /\ \A f \in File : \A k \in 1 .. Len(p[f]) :
                p[f][k].options = "call" => p[f][k].dest < f

\* Main's k-th operation is a gate with table 0 on wire w, with nothing but
\* gates and inputs before it; and no gate or copy of any file writes w.
SetsZero(p, k, w) ==
    /\ p[Main][k] = [options |-> "zero", dest |-> w]
    /\ \A i \in 1 .. k - 1 : p[Main][i].options = "plain"
    /\ \A f \in File : \A i \in 1 .. Len(p[f]) :
          p[f][i].options \in {"plain", "copy"} => p[f][i].dest # w

\* Programs that copy or put out have such a wire, as each one of TestPrograms
\* does: main takes its inputs, sets the wire, and only then calls.
ASSUME ZeroAssumption ==
    \A p \in Programs :
        (\E f \in File : \E i \in 1 .. Len(p[f]) : p[f][i].options \in {"copy", "output"})
            => \E k \in 1 .. Len(p[Main]) : \E w \in Wires : SetsZero(p, k, w)

VARIABLES
    loaded,       \* whether runSGXProgram() has loaded its own program yet
    filename,     \* the program runSGXProgram() is given
    prog,         \* the program being read
    activefile,
    cfileplace,   \* operations of the active file read
    stacksize, fileStack, filePlaceStack,
    ended,        \* currentFilemm = 0
    theGate,      \* what t_gate points to
    pc,           \* "get": in getNextGate(); "have": back; "done"; "crashed"
    inCall,       \* getNextGate() was called from case 4 of next_gate_binary()
    foundzero, zeroplace,
    gates         \* the gates given to the caller, with the zeroplace used

reader == <<activefile, cfileplace, stacksize, fileStack, filePlaceStack, ended, theGate>>
interpreterVars == <<loaded, filename, prog, reader, pc, inCall, foundzero, zeroplace, gates>>

StackIndex == 0 .. numfunctions + 1

Gate == [op : Op, zero : Wires \cup {NoWire}]

InterpreterTypeOK ==
    /\ loaded \in BOOLEAN
    /\ filename \in [File -> Seq(Op)] /\ prog \in [File -> Seq(Op)]
    /\ activefile \in File
    /\ cfileplace \in Nat
    /\ stacksize \in StackIndex
    /\ fileStack \in [StackIndex -> File]
    /\ filePlaceStack \in [StackIndex -> Nat]
    /\ ended \in BOOLEAN
    /\ theGate \in Op
    /\ pc \in {"get", "have", "done", "crashed"}
    /\ inCall \in BOOLEAN
    /\ foundzero \in BOOLEAN
    /\ zeroplace \in Wires \cup {NoWire}
    /\ gates \in Seq(Gate)

\* init_environ() loads the circuit file of the parameters.
InterpreterInit ==
    /\ loaded = FALSE
    /\ filename \in Programs
    /\ prog \in Defaults
    /\ activefile = Main /\ cfileplace = 0
    /\ stacksize = 0
    /\ fileStack = [k \in StackIndex |-> 0]
    /\ filePlaceStack = [k \in StackIndex |-> 0]
    /\ ended = FALSE
    /\ theGate = Padding
    /\ pc = "get" /\ inCall = FALSE
    /\ foundzero = FALSE /\ zeroplace = NoWire
    /\ gates = <<>>

\* Variant: a call is made from the place of the call, not from behind it.
ReturnToCall == cfileplace

ReturnPlace == cfileplace + 1

\* A function whose file is empty is not entered.
Entered(f) == prog[f] # <<>>

\* An operation that is in the file; a call goes on at the start of another.
ReadOp ==
    /\ pc = "get" /\ cfileplace < Len(prog[activefile])
    /\ LET op == prog[activefile][cfileplace + 1]
       IN  /\ theGate' = op
          /\ IF op.options = "call" /\ Entered(op.dest)
             THEN /\ fileStack' = [fileStack EXCEPT ![stacksize] = activefile]
                   /\ filePlaceStack' = [filePlaceStack EXCEPT ![stacksize] = ReturnPlace]
                   /\ stacksize' = stacksize + 1
                   /\ activefile' = op.dest
                   /\ cfileplace' = 0
              ELSE /\ cfileplace' = cfileplace + 1
                   /\ UNCHANGED <<fileStack, filePlaceStack, stacksize, activefile>>
    /\ pc' = "have"
    /\ UNCHANGED <<loaded, filename, prog, ended, inCall, foundzero, zeroplace, gates>>

\* Variant: the frame stays on the stack.
KeepFrame == stacksize

PopFrame == stacksize - 1

\* One operation too many has been read: back to the caller's file, and on.
Return ==
    /\ pc = "get" /\ cfileplace >= Len(prog[activefile]) /\ stacksize > 0
    /\ theGate' = Padding
    /\ stacksize' = PopFrame
    /\ cfileplace' = filePlaceStack[stacksize - 1]
    /\ activefile' = fileStack[stacksize - 1]
    /\ UNCHANGED <<loaded, filename, prog, fileStack, filePlaceStack, ended, pc, inCall,
                   foundzero, zeroplace, gates>>

\* The same in the main file: the program is over.
End ==
    /\ pc = "get" /\ cfileplace >= Len(prog[activefile]) /\ stacksize = 0
    /\ ~ended
    /\ theGate' = Padding
    /\ cfileplace' = cfileplace + 1
    /\ ended' = TRUE
    /\ pc' = "have"
    /\ UNCHANGED <<loaded, filename, prog, activefile, stacksize, fileStack, filePlaceStack, inCall,
                   foundzero, zeroplace, gates>>

\* getNextGate() once more after the end reads from address 0.
ReadNull ==
    /\ pc = "get" /\ ended
    /\ pc' = "crashed"
    /\ UNCHANGED <<loaded, filename, prog, reader, inCall, foundzero, zeroplace, gates>>

\* Variant: the new interpreter goes on where the old one was.
PlaceKept == cfileplace

StartPlace == 0

\* runSGXProgram() loads its own program and reads the first gate; the
\* Circuit, with its foundzero, is still the same.
LoadBinary ==
    /\ pc = "have" /\ ~loaded
    /\ loaded' = TRUE
    /\ prog' = filename
    /\ activefile' = Main /\ cfileplace' = StartPlace
    /\ stacksize' = 0
    /\ fileStack' = [k \in StackIndex |-> 0]
    /\ filePlaceStack' = [k \in StackIndex |-> 0]
    /\ ended' = FALSE
    /\ pc' = "get" /\ inCall' = FALSE
    /\ UNCHANGED <<filename, theGate, foundzero, zeroplace, gates>>

\* Variant: every gate with table 0 sets zeroplace.
LastZero(op) == op.options = "zero"

NewZero(op) == op.options = "zero" /\ ~foundzero

\* Variant: the call is looked at again.
SameAgain == "have"

\* After a call the next gate is fetched.
AfterCall == "get"

\* next_gate_binary(), its caller having seen more_gate_binary(); a call is
\* skipped, the gate behind it taken without another look at the end.
NextGate ==
    /\ pc = "have" /\ loaded
    /\ ended => inCall
    /\ theGate.options # "call"
    /\ foundzero' = (foundzero \/ NewZero(theGate))
    /\ zeroplace' = IF NewZero(theGate) THEN theGate.dest ELSE zeroplace
    /\ gates' = Append(gates, [op |-> theGate, zero |-> zeroplace])
    /\ pc' = "get" /\ inCall' = FALSE
    /\ UNCHANGED <<loaded, filename, prog, reader>>

SkipCall ==
    /\ pc = "have" /\ loaded /\ ~ended
    /\ theGate.options = "call"
    /\ pc' = AfterCall /\ inCall' = TRUE
    /\ UNCHANGED <<loaded, filename, prog, reader, foundzero, zeroplace, gates>>

\* more_gate_binary() is false.
Done ==
    /\ pc = "have" /\ loaded /\ ended /\ ~inCall
    /\ pc' = "done"
    /\ UNCHANGED <<loaded, filename, prog, reader, inCall, foundzero, zeroplace, gates>>

InterpreterNext ==
    \/ ReadOp \/ Return \/ End \/ ReadNull
    \/ LoadBinary \/ NextGate \/ SkipCall \/ Done

InterpreterSpec == InterpreterInit /\ [][InterpreterNext]_interpreterVars /\ WF_interpreterVars(InterpreterNext)
-----------------------------------------------------------------------------
\* What the program means: the operations with every call replaced by those of
\* the function, file by file.
Flat[f \in File] ==
    LET Upto[k \in 0 .. Len(prog[f])] ==
            IF k = 0 THEN <<>>
            ELSE LET op == prog[f][k]
                 IN  Upto[k - 1] \o (IF op.options = "call" THEN Flat[op.dest] ELSE <<op>>)
    IN  Upto[Len(prog[f])]

\* The last operation of file f is a gate, or leads to one.
EndsInGate[f \in File] ==
    \/ prog[f] = <<>> /\ f = Main
    \/ /\ prog[f] # <<>>
       /\ LET op == prog[f][Len(prog[f])]
          IN  op.options = "call" => EndsInGate[op.dest]

GivenSoFar ==
    LET flat == Flat[Main]
    IN  /\ Len(gates) <= Len(flat)
        /\ \A n \in 1 .. Len(gates) : gates[n].op = flat[n]

\* The stack has room for the deepest calls: as many frames as functions.
StackFits == stacksize <= numfunctions

\* A copy or an output is built with a wire that a gate with table 0 has
\* written and nothing else since; in programs that write such a wire before
\* they need it and leave the first one alone.
ZeroIsZero ==
    \A n \in 1 .. Len(gates) :
        gates[n].op.options \in {"copy", "output"} =>
            \E k \in 1 .. n - 1 :
                /\ gates[k].op = [options |-> "zero", dest |-> gates[n].zero]
                /\ \A m \in k + 1 .. n - 1 :
                      gates[m].op.dest = gates[n].zero => gates[m].op.options \in {"zero", "output"}

\* The caller is given the gates of the program with its calls carried out,
\* each once and in order, and all of them; when the last operation is not a
\* call of a function that is empty.  And each copy comes with a wire that is
\* zero.
GivesProgram ==
    /\ loaded /\ EndsInGate[Main] =>
          GivenSoFar /\ (pc = "done" => Len(gates) = Len(Flat[Main]))
    /\ ZeroIsZero

\* The program has been read to its end; one whose end is a call of an empty
\* function need not be.
ReadThrough == loaded /\ (pc = "done" \/ ~EndsInGate[Main])
=============================================================================
