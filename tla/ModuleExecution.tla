-------------------------- MODULE ModuleExecution --------------------------
(***************************************************************************)
(* The program that ModuleTranslation puts out, run side by side with the  *)
(* module it came from: the call of a function is the application of its   *)
(* circuit. A qubit of the module is known by when it was allocated, a     *)
(* qubit of the program by its number; an outcome by when it was measured. *)
(* Neither machine is part of the repository: this is QIR and Quil as far  *)
(* as the translator relies on them. Each side has a position of its own   *)
(* in its own code; they go on together when both can.                     *)
(***************************************************************************)
EXTENDS ModuleTranslation

VARIABLES
    frames,      \* the calls under way, on both sides
    allocated,   \* how many qubits the module allocated
    allocators,  \* how many calls allocated any (for the properties only)
    outcomes,    \* how many measurements were made
    memory,      \* Quil: the outcome in each memory region written
    pairs,       \* the qubits of the module and of the program used for another
    answer,      \* what the entry point of the module returned
    phase        \* "waiting", "running", "finished"

xvars == <<frames, allocated, allocators, outcomes, memory, pairs, answer, phase>>
all   == <<vars, xvars>>

TheQubit(n)   == [qubit |-> n]
TheOutcome(k) == [outcome |-> k]
Nothing       == [nothing |-> TRUE]

(* A call: the position and the registers of the function, the position in  *)
(* its code, and what the formal qubits of its circuit stand for.           *)
Activation(f, values, actual) ==
    [fn |-> f, next |-> 1, at |-> 1, values |-> values, actual |-> actual]

XInit ==
    /\ Init
    /\ frames = <<>> /\ allocated = 0 /\ allocators = 0 /\ outcomes = 0
    /\ memory = <<>> /\ pairs = {} /\ answer = Nothing
    /\ phase = "waiting"

Translate == Next /\ UNCHANGED xvars

(* The arguments of the entry point are no qubits. *)
Start ==
    /\ status = "done" /\ phase = "waiting"
    /\ phase' = "running"
    /\ frames' = <<Activation(Entry, [i \in DOMAIN Fun(Entry).params |-> Nothing], <<>>)>>
    /\ UNCHANGED <<vars, allocated, allocators, outcomes, memory, pairs, answer>>

Now     == frames[Len(frames)]
Callers == SubSeq(frames, 1, Len(frames) - 1)

(* The two next instructions. *)
NextQir == Fun(Now.fn).body[Now.next]
Code    == IF Len(frames) = 1 THEN program.code ELSE program.circuits[Now.fn].code
Ahead   == Now.at <= Len(Code)
NextOp  == Code[Now.at]

Running(do) == /\ phase = "running"
               /\ Now.next <= Len(Fun(Now.fn).body)
               /\ NextQir.do = do

(* Both sides are past their next instruction, which gave the module v. *)
Past(frame, steps, v) ==
    [fn |-> frame.fn, next |-> frame.next + 1, at |-> frame.at + steps,
     values |-> Append(frame.values, v), actual |-> frame.actual]

Goes(steps, v) == frames' = Append(Callers, Past(Now, steps, v))

Actual(q) == IF "fixed" \in DOMAIN q THEN q.fixed ELSE Now.actual[q.variable]

DoAllocate ==
    /\ Running("alloc")
    /\ Goes(0, TheQubit(allocated))
    /\ allocated' = allocated + 1
    /\ allocators' = IF \E k \in 1 .. Now.next - 1 : Fun(Now.fn).body[k].do = "alloc"
                     THEN allocators ELSE allocators + 1
    /\ UNCHANGED <<vars, outcomes, memory, pairs, answer, phase>>

DoGate ==
    /\ Running("gate")
    /\ Ahead /\ NextOp.op = "gate" /\ NextOp.name \notin Functions
    /\ Goes(1, Nothing)
    /\ pairs' = pairs \union {<<Now.values[NextQir.on].qubit, Actual(NextOp.qubits[1])>>}
    /\ UNCHANGED <<vars, allocated, allocators, outcomes, memory, answer, phase>>

DoMeasure ==
    /\ Running("measure")
    /\ Ahead /\ NextOp.op = "measure"
    /\ Goes(1, TheOutcome(outcomes))
    /\ outcomes' = outcomes + 1
    /\ memory' = Insert(memory, NextOp.target, TheOutcome(outcomes))
    /\ pairs' = pairs \union {<<Now.values[NextQir.on].qubit, Actual(NextOp.qubit)>>}
    /\ UNCHANGED <<vars, allocated, allocators, answer, phase>>

(* The callee's parameters that are no qubits were passed constants. *)
DoCall ==
    /\ Running("call")
    /\ Ahead /\ NextOp.op = "gate" /\ NextOp.name = NextQir.fn
    /\ LET g  == NextQir.fn
           qs == QubitParams(Fun(g))
           formals == program.circuits[g].qubits
       IN  /\ Len(NextOp.qubits) = Len(formals)
           /\ frames' = Append(frames, Activation(g,
                 [i \in DOMAIN Fun(g).params |->
                     IF \E k \in DOMAIN qs : qs[k] = i
                     THEN Now.values[NextQir.args[CHOOSE k \in DOMAIN qs : qs[k] = i]]
                     ELSE Nothing],
                 [x \in {formals[k] : k \in DOMAIN formals} |->
                     Actual(NextOp.qubits[CHOOSE k \in DOMAIN formals : formals[k] = x])]))
    /\ UNCHANGED <<vars, allocated, allocators, outcomes, memory, pairs, answer, phase>>

(* The end of a body: the module's function returns a value, the circuit    *)
(* ends with the move that belongs to it.                                   *)
AtReturn == phase = "running" /\ Now.next > Len(Fun(Now.fn).body)

Value == IF Fun(Now.fn).ret.returns = "register" THEN Now.values[Fun(Now.fn).ret.register]
                                                 ELSE Nothing

MemoryMoved ==
    IF Fun(Now.fn).ret.returns # "register" THEN memory
    ELSE IF NextOp.from \in DOMAIN memory THEN Insert(memory, NextOp.to, memory[NextOp.from])
    ELSE memory

Moves == IF Fun(Now.fn).ret.returns = "register"
         THEN Now.at = Len(Code) /\ NextOp.op = "move"
         ELSE Now.at = Len(Code) + 1

DoReturn ==
    /\ AtReturn /\ Moves
    /\ Len(frames) > 1
    /\ memory' = MemoryMoved
    /\ LET caller == Callers[Len(Callers)]
       IN  frames' = Append(SubSeq(Callers, 1, Len(Callers) - 1), Past(caller, 1, Value))
    /\ UNCHANGED <<vars, allocated, allocators, outcomes, pairs, answer, phase>>

DoExit ==
    /\ AtReturn /\ Moves
    /\ Len(frames) = 1
    /\ memory' = MemoryMoved
    /\ answer' = Value
    /\ phase' = "finished"
    /\ UNCHANGED <<vars, frames, allocated, allocators, outcomes, pairs>>

XNext == Translate \/ Start \/ DoAllocate \/ DoGate \/ DoMeasure \/ DoCall \/ DoReturn \/ DoExit

(* Neither the translator nor the two machines ever wait. *)
XSpec == XInit /\ [][XNext]_all /\ WF_all(XNext)

-----------------------------------------------------------------------------
(* Properties *)

InProgram == DOMAIN circuits \union {Entry}

(* The names of the registers that hold qubits: sanitised, they may         *)
(* coincide.                                                                *)
RegistersApart ==
    \A f \in InProgram : \A r, s \in DOMAIN RegisterNames[f] :
        IsQubit(Fun(f), r) /\ IsQubit(Fun(f), s) /\ NameOf(f, r) = NameOf(f, s) => r = s

(* Each translation of a body numbers its physical qubits from 0, whatever  *)
(* its callers do. As long as only one call allocates, be it that of the    *)
(* entry point or of another function, different qubits of the module are   *)
(* different qubits of the program, through every level of calls, and one   *)
(* qubit remains one; unless two registers of a function have one name.     *)
QubitsApart ==
    (RegistersApart /\ allocators <= 1) =>
        \A p, q \in pairs : p[1] = q[1] <=> p[2] = q[2]

(* The registers that measurements define, and what they and the returns    *)
(* write.                                                                   *)
Measured(f) == {Len(Fun(f).params) + i : i \in {j \in DOMAIN Fun(f).body :
                                                   Fun(f).body[j].do = "measure"}}
Returning   == {f \in InProgram : Fun(f).ret.returns = "register"}
Results(f)  == Measured(f) \union (IF f \in Returning THEN {Fun(f).ret.register} ELSE {})

NamesApart ==
    /\ \A f, g \in InProgram : \A r \in Results(f), s \in Results(g) :
          Region(f, r) = Region(g, s) => f = g /\ r = s
    /\ \A f, g \in InProgram : \A r \in Results(f) :
          g \in Returning => Region(f, r) # ReturnLabel(FunctionNames[g])

(* Memory regions are global and their names are made of names: as long as  *)
(* no two of them collide, a register that holds an outcome finds it in its *)
(* region as long as its function runs, whatever the circuits applied in    *)
(* between have measured and moved.                                         *)
OutcomesKept ==
    NamesApart =>
        \A i \in DOMAIN frames : \A r \in Measured(frames[i].fn) :
            r <= Len(frames[i].values) =>
               /\ Region(frames[i].fn, r) \in DOMAIN memory
               /\ memory[Region(frames[i].fn, r)] = frames[i].values[r]

(* The move of a return value: a program whose module returns the outcome   *)
(* of a measurement of the entry point has it in the region of the return   *)
(* value. Of what a call or an argument gave, nothing was ever written.     *)
ReturnFaithful ==
    (phase = "finished" /\ NamesApart /\ Entry \in Returning) =>
        LET label == ReturnLabel(FunctionNames[Entry])
        IN  IF Fun(Entry).ret.register \in Measured(Entry)
            THEN label \in DOMAIN memory /\ memory[label] = answer
            ELSE label \notin DOMAIN memory

(* A module that is translated can be run: every circuit it applies is      *)
(* there, takes as many qubits as it is given, and every body ends where    *)
(* its code ends.                                                           *)
Completes == status = "done" ~> phase = "finished"
=============================================================================
