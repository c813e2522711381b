------------------------- MODULE ModuleTranslation -------------------------
(***************************************************************************)
(* A whole run of the translator: the bitcode is read, the entry point is  *)
(* found, the global environment is primed, the bodies are translated      *)
(* along the call graph, and the program is assembled. Bodies are short    *)
(* and straight: Environment has the rest of what they may hold, and       *)
(* ControlFlow their blocks.                                               *)
(*                                                                         *)
(* The registers of a function are numbered, its parameters first, then    *)
(* one for each instruction whether it defines a register or not.          *)
(***************************************************************************)
EXTENDS Quil, Naming, Enumeration, FiniteSets

CONSTANTS
    Functions,       \* the functions that bodies call, other than the intrinsics
    Entry,           \* the one with the attribute InteropFriendly
    FunctionNames,   \* how each is spelled
    RegisterNames,   \* how LLVM spells the registers of each
    Modules,         \* the inputs
    MaxBody,         \* bound: instructions of a body
    StackLimit       \* how many nested translations the thread's stack can hold

Instructions == [do : {"alloc"}] \union [do : {"gate", "measure"}, on : Nat]
                   \union [do : {"call"}, fn : Functions, args : Seq(Nat)]
Types        == {"Qubit*", "i64", "double", "i8*"}
ConstantKinds == {"int", "double", "half", "array"}

(* A qubit is a parameter of that type or what was allocated before.        *)
IsQubit(fun, r) ==
    LET p == Len(fun.params)
    IN  r \in 1 .. p + Len(fun.body)
           /\ IF r <= p THEN fun.params[r] = "Qubit*" ELSE fun.body[r - p].do = "alloc"

(* unpack_function_parameters: the registers of the qubit parameters. *)
QubitParams(fun) == InOrder({i \in DOMAIN fun.params : fun.params[i] = "Qubit*"})

(* What a body ends with: ret void, ret of a constant, ret of a register. *)
RetVoid     == [returns |-> "nothing"]
RetConstant == [returns |-> "constant"]
Ret(r)      == [returns |-> "register", register |-> r]

(* The registers with something to return: arguments, outcomes, and what    *)
(* functions returned.                                                      *)
Values(m, f) ==
    LET fun == m.functions[f]
        p   == Len(fun.params)
    IN  {r \in 1 .. p + Len(fun.body) :
            IF r <= p THEN fun.params[r] # "Qubit*"
            ELSE \/ fun.body[r - p].do = "measure"
                 \/ /\ fun.body[r - p].do = "call"
                    /\ m.functions[fun.body[r - p].fn].ret # RetVoid}

(* What LLVM makes sure of: the operands of an instruction are qubits that  *)
(* are defined before it; here every call passes qubits only.               *)
WellFormed(m) ==
    /\ m.defined \subseteq Functions
    /\ \A f \in Functions :
        LET fun  == m.functions[f]
            Qubits(k) == {r \in 1 .. Len(fun.params) + k - 1 : IsQubit(fun, r)}
        IN  /\ fun.params \in Seq(Types)
            /\ fun.body \in Seq(Instructions)
            /\ Len(fun.body) <= MaxBody
            /\ Len(fun.params) + Len(fun.body) <= Len(RegisterNames[f])
            /\ \/ fun.ret \in {RetVoid, RetConstant}
               \/ \E r \in Values(m, f) : fun.ret = Ret(r)
            /\ \A k \in DOMAIN fun.body :
                 LET i == fun.body[k]
                 IN  /\ i.do \in {"gate", "measure"} => i.on \in Qubits(k)
                     /\ i.do = "call" =>
                           i.args \in [DOMAIN QubitParams(m.functions[i.fn]) -> Qubits(k)]

ASSUME EntryAssumption   == Entry \in Functions
ASSUME FiniteAssumption  == IsFiniteSet(Functions)
ASSUME NamesAssumption   == /\ FunctionNames \in [Functions -> Names]
                            /\ \A f, g \in Functions : FunctionNames[f] = FunctionNames[g] => f = g
                            /\ RegisterNames \in [Functions -> Seq(Names)]
ASSUME ModulesAssumption == \A m \in Modules : WellFormed(m)
ASSUME LimitsAssumption  == MaxBody \in Nat /\ StackLimit \in Nat \ {0}

VARIABLES
    module,      \* the input
    stack,       \* the translations under way, the innermost last
    variables,   \* GlobalEnvironment.variables
    circuits,    \* GlobalEnvironment.circuit_definitions
    declares,    \* the DECLAREs of the parameters of the entry point
    program,     \* the output
    status       \* how far the run is, "done", or an error

vars == <<module, stack, variables, circuits, declares, program, status>>

Fun(f)        == module.functions[f]
NameOf(f, r)  == Sanitised(RegisterNames[f][r])
Region(f, r)  == Prefixed(FunctionNames[f], NameOf(f, r))

Insert(env, n, v) == [m \in DOMAIN env \union {n} |-> IF m = n THEN v ELSE env[m]]

(* The values of the global environment: a constant's number, a parameter,  *)
(* a measurement (an alias of that name), or another variable of Quil.      *)
Kinds == {"Data", "Qubit", "Integer", "measurement"}

Move(to, from) == [op |-> "move", to |-> to, from |-> from]

(* A translation of the body of f: its next instruction, the qubits of the  *)
(* local environment by the names of their registers, and the code so far.  *)
Frame(f) ==
    [fn |-> f, next |-> 1, nextQubit |-> 0, code |-> <<>>,
     locals |-> [n \in {NameOf(f, i) : i \in {j \in DOMAIN Fun(f).params :
                                              Fun(f).params[j] = "Qubit*"}} |-> Variable(n)]]

(* What the local environment has for a register. *)
Local(frame, r) == frame.locals[NameOf(frame.fn, r)]

Init ==
    /\ module \in Modules
    /\ stack = <<>>
    /\ variables = <<>>
    /\ circuits = <<>>
    /\ declares = <<>>
    /\ program = <<>>
    /\ status = "started"

-----------------------------------------------------------------------------
(* Before the bodies. *)

Goto(s, after) == status = s /\ status' = after

Read ==
    /\ Goto("started", IF module.readable THEN "read" ELSE "InvalidLLVMByteCode")
    /\ UNCHANGED <<module, stack, variables, circuits, declares, program>>

(* Among the functions that the module defines. That translate_module finds *)
(* the function again by its name always succeeds.                          *)
FindEntry ==
    /\ Goto("read", IF Entry \in module.defined THEN "found" ELSE "NoEntryPoint")
    /\ UNCHANGED <<module, stack, variables, circuits, declares, program>>

(* Constants that are no numbers are passed over; a number of an unusual    *)
(* width is an error.                                                       *)
Kind(i) == module.constants[i].kind
Primed  == {i \in DOMAIN module.constants :
               Kind(i) \in {"int", "double"} /\ \A j \in 1 .. i : Kind(j) # "half"}

PrimeConstants ==
    /\ Goto("found", IF \E i \in DOMAIN module.constants : Kind(i) = "half"
                     THEN "UnsupportedFloatType" ELSE "constants")
    /\ variables' = [n \in {Sanitised(module.constants[i].name) : i \in Primed} |-> "Data"]
    /\ UNCHANGED <<module, stack, circuits, declares, program>>

(* The parameters of the entry point are entered under their prefixed       *)
(* names, and declared under their own.                                     *)
ParamRegion(i) == Region(Entry, i)

PrimeParams(env) ==
    LET params == Fun(Entry).params
        names  == {ParamRegion(i) : i \in DOMAIN params}
    IN  [n \in DOMAIN env \union names |->
            IF n \in names
            THEN LET last == CHOOSE i \in DOMAIN params :
                        /\ ParamRegion(i) = n
                        /\ \A j \in DOMAIN params : ParamRegion(j) = n => j <= i
                 IN  IF params[last] = "Qubit*" THEN "Qubit" ELSE "Integer"
            ELSE env[n]]

DeclarationOf(i) ==
    [name |-> NameOf(Entry, i),
     type |-> IF Fun(Entry).params[i] = "i64" THEN "INTEGER" ELSE "REAL"]

PrimeParameters ==
    LET params == Fun(Entry).params
        ok     == \A i \in DOMAIN params : params[i] \in {"i64", "double"}
    IN  /\ Goto("constants", IF ok THEN "running" ELSE "UnsupportedParameterType")
        /\ variables' = PrimeParams(variables)
        /\ declares' = IF ok THEN [i \in DOMAIN params |-> DeclarationOf(i)] ELSE <<>>
        /\ stack' = IF ok THEN <<Frame(Entry)>> ELSE <<>>
        /\ UNCHANGED <<module, circuits, program>>

-----------------------------------------------------------------------------
(* The bodies. *)

Top     == stack[Len(stack)]
Below   == SubSeq(stack, 1, Len(stack) - 1)
AtEnd   == Top.next > Len(Fun(Top.fn).body)
Instr   == Fun(Top.fn).body[Top.next]
At(do)  == status = "running" /\ ~AtEnd /\ Instr.do = do

(* The register that the instruction defines. *)
Defined == Len(Fun(Top.fn).params) + Top.next

(* The frame after the instruction, which binds locals and emits code. *)
Stepped(frame, locals, nextQubit, code) ==
    [fn |-> frame.fn, next |-> frame.next + 1, nextQubit |-> nextQubit,
     code |-> frame.code \o code, locals |-> locals]

Emitting(frame, code) == Stepped(frame, frame.locals, frame.nextQubit, code)

(* Mutant: the counter stays. *)
AllocateSame ==
    /\ At("alloc")
    /\ stack' = Append(Below, Stepped(Top, Insert(Top.locals, NameOf(Top.fn, Defined),
                                                  Fixed(Top.nextQubit)),
                                      Top.nextQubit, <<>>))
    /\ UNCHANGED <<module, variables, circuits, declares, program, status>>

Allocate ==
    /\ At("alloc")
    /\ stack' = Append(Below, Stepped(Top, Insert(Top.locals, NameOf(Top.fn, Defined),
                                                  Fixed(Top.nextQubit)),
                                      Top.nextQubit + 1, <<>>))
    /\ UNCHANGED <<module, variables, circuits, declares, program, status>>

(* Any gate of one qubit. *)
Gate ==
    /\ At("gate")
    /\ stack' = Append(Below,
          Emitting(Top, <<GateOn("X", FALSE, <<>>, 0, <<Local(Top, Instr.on)>>)>>))
    /\ UNCHANGED <<module, variables, circuits, declares, program, status>>

(* Mutant: the region is not entered in the global environment. *)
MeasureUndeclared ==
    /\ At("measure")
    /\ stack' = Append(Below,
          Emitting(Top, <<Measurement(Local(Top, Instr.on), Region(Top.fn, Defined))>>))
    /\ UNCHANGED <<module, variables, circuits, declares, program, status>>

(* Mutant: the outcome goes to a region of the register's own name. *)
MeasureUnprefixed ==
    /\ At("measure")
    /\ stack' = Append(Below,
          Emitting(Top, <<Measurement(Local(Top, Instr.on), NameOf(Top.fn, Defined))>>))
    /\ variables' = Insert(variables, Region(Top.fn, Defined), "measurement")
    /\ UNCHANGED <<module, circuits, declares, program, status>>

Measure ==
    /\ At("measure")
    /\ stack' = Append(Below,
          Emitting(Top, <<Measurement(Local(Top, Instr.on), Region(Top.fn, Defined))>>))
    /\ variables' = Insert(variables, Region(Top.fn, Defined), "measurement")
    /\ UNCHANGED <<module, circuits, declares, program, status>>

(* Mutant: the frame passes the call without a gate. *)
CallSkipped(frame, f) == Emitting(frame, <<>>)

(* The gate that a call becomes. *)
Called(frame, f) ==
    LET args == Fun(frame.fn).body[frame.next].args
    IN  Emitting(frame, <<GateOn(f, FALSE, <<>>, 0,
                                 [i \in DOMAIN args |-> Local(frame, args[i])])>>)

Call ==
    /\ At("call")
    /\ Instr.fn \in DOMAIN circuits
    /\ stack' = Append(Below, Called(Top, Instr.fn))
    /\ UNCHANGED <<module, variables, circuits, declares, program, status>>

(* Mutant: a body that the module only declares is translated. *)
DescendUnchecked ==
    /\ At("call")
    /\ Instr.fn \notin DOMAIN circuits
    /\ Len(stack) < StackLimit
    /\ stack' = Append(stack, Frame(Instr.fn))
    /\ UNCHANGED <<module, variables, circuits, declares, program, status>>

Descend ==
    /\ At("call")
    /\ Instr.fn \notin DOMAIN circuits
    /\ Instr.fn \in module.defined
    /\ Len(stack) < StackLimit
    /\ stack' = Append(stack, Frame(Instr.fn))
    /\ UNCHANGED <<module, variables, circuits, declares, program, status>>

Overflow ==
    /\ At("call")
    /\ Instr.fn \notin DOMAIN circuits
    /\ Instr.fn \in module.defined
    /\ Len(stack) = StackLimit
    /\ status' = "overflow"
    /\ UNCHANGED <<module, stack, variables, circuits, declares, program>>

Missing ==
    /\ At("call")
    /\ Instr.fn \notin DOMAIN circuits
    /\ Instr.fn \notin module.defined
    /\ status' = "MissingFunctionDefinition"
    /\ UNCHANGED <<module, stack, variables, circuits, declares, program>>

(* The terminator: a register returned is moved from its region to that of  *)
(* the return value, and both are entered in the global environment, over   *)
(* what they held.                                                          *)
Returned(f) == Fun(f).ret

(* Mutant: the source of the move is not prefixed. *)
FinishedUnprefixed(frame) ==
    IF Returned(frame.fn).returns # "register" THEN frame.code
    ELSE Append(frame.code, Move(ReturnLabel(FunctionNames[frame.fn]),
                                 NameOf(frame.fn, Returned(frame.fn).register)))

FinishedCode(frame) ==
    IF Returned(frame.fn).returns # "register" THEN frame.code
    ELSE Append(frame.code, Move(ReturnLabel(FunctionNames[frame.fn]),
                                 Region(frame.fn, Returned(frame.fn).register)))

FinishedVariables(f) ==
    IF Returned(f).returns # "register" THEN variables
    ELSE Insert(Insert(variables, Region(f, Returned(f).register), "Integer"),
                ReturnLabel(FunctionNames[f]), "Integer")

ReturnConstant ==
    /\ status = "running" /\ AtEnd
    /\ Returned(Top.fn) = RetConstant
    /\ status' = "MissingOperandName"
    /\ UNCHANGED <<module, stack, variables, circuits, declares, program>>

(* Mutant: every parameter is a formal qubit. *)
CircuitOfAll(frame) ==
    [qubits |-> [i \in DOMAIN Fun(frame.fn).params |-> NameOf(frame.fn, i)],
     code   |-> FinishedCode(frame)]

CircuitOf(frame) ==
    LET qs == QubitParams(Fun(frame.fn))
    IN  [qubits |-> [i \in DOMAIN qs |-> NameOf(frame.fn, qs[i])],
         code   |-> FinishedCode(frame)]

(* The circuit is inserted, and the call that asked for it becomes a gate.  *)
Return ==
    /\ status = "running" /\ AtEnd
    /\ Len(stack) > 1
    /\ Returned(Top.fn) # RetConstant
    /\ variables' = FinishedVariables(Top.fn)
    /\ circuits' = Insert(circuits, Top.fn, CircuitOf(Top))
    /\ LET caller == Below[Len(Below)]
       IN  stack' = Append(SubSeq(Below, 1, Len(Below) - 1), Called(caller, Top.fn))
    /\ UNCHANGED <<module, declares, program, status>>

(* Mutant: only the circuits that the entry point applies are written.      *)
FinishApplied ==
    /\ status = "running" /\ AtEnd
    /\ Len(stack) = 1
    /\ Returned(Top.fn) # RetConstant
    /\ variables' = FinishedVariables(Top.fn)
    /\ LET gates   == {i \in DOMAIN Top.code : Top.code[i].op = "gate"}
           applied == {Top.code[i].name : i \in gates}
       IN  program' = [parameters |-> declares,
                       variables  |-> {[name |-> n, type |-> "INTEGER"] :
                                          n \in DOMAIN variables'},
                       circuits   |-> [f \in DOMAIN circuits \intersect applied |->
                                          circuits[f]],
                       code       |-> FinishedCode(Top)]
    /\ status' = "done"
    /\ UNCHANGED <<module, stack, circuits, declares>>

(* The program: the DECLAREs of the parameters, one INTEGER for every name  *)
(* of the global environment, the circuits, and the code of the entry       *)
(* point. The middle two leave HashMaps in any order.                       *)
Finish ==
    /\ status = "running" /\ AtEnd
    /\ Len(stack) = 1
    /\ Returned(Top.fn) # RetConstant
    /\ variables' = FinishedVariables(Top.fn)
    /\ program' = [parameters |-> declares,
                   variables  |-> {[name |-> n, type |-> "INTEGER"] : n \in DOMAIN variables'},
                   circuits   |-> circuits,
                   code       |-> FinishedCode(Top)]
    /\ status' = "done"
    /\ UNCHANGED <<module, stack, circuits, declares>>

Next == Read \/ FindEntry \/ PrimeConstants \/ PrimeParameters
           \/ Allocate \/ Gate \/ Measure \/ Call \/ Descend \/ Overflow \/ Missing
           \/ ReturnConstant \/ Return \/ Finish

Spec == Init /\ [][Next]_vars

-----------------------------------------------------------------------------
(* Properties *)

(* The shape of the state. *)
TypeOK ==
    /\ \A i \in DOMAIN stack :
          /\ stack[i].fn \in Functions
          /\ stack[i].next \in 1 .. Len(Fun(stack[i].fn).body) + 1
          /\ stack[i].nextQubit \in Nat
          /\ \A n \in DOMAIN stack[i].locals :
                \E r \in DOMAIN RegisterNames[stack[i].fn] :
                   IsQubit(Fun(stack[i].fn), r) /\ n = NameOf(stack[i].fn, r)
    /\ \A n \in DOMAIN variables : variables[n] \in Kinds
    /\ DOMAIN circuits \subseteq module.defined
    /\ status \in {"started", "read", "found", "constants", "running", "done", "overflow",
                   "InvalidLLVMByteCode", "NoEntryPoint", "UnsupportedFloatType",
                   "UnsupportedParameterType", "MissingFunctionDefinition",
                   "MissingOperandName"}

(* The regions that a piece of code writes or reads. *)
With(code, op)  == {i \in DOMAIN code : code[i].op = op}
RegionsOf(code) == {code[i].target : i \in With(code, "measure")}
                      \union {code[i].to : i \in With(code, "move")}
                      \union {code[i].from : i \in With(code, "move")}

(* While bodies are translated, their regions are in the global environment *)
(* at once, and stay; in the output every region that is used is declared   *)
(* exactly once, unless a parameter of the entry point has its very name.   *)
RegionsUsed == (UNION {RegionsOf(stack[i].code) : i \in DOMAIN stack})
                  \union UNION {RegionsOf(circuits[f].code) : f \in DOMAIN circuits}

DeclarationsOf(n) == {i \in DOMAIN program.parameters : program.parameters[i].name = n}
                        \union {d \in program.variables : d.name = n}

RegionsDeclared ==
    /\ RegionsUsed \subseteq DOMAIN variables
    /\ status = "done" =>
          \A n \in RegionsOf(program.code)
                      \union UNION {RegionsOf(program.circuits[f].code) :
                                       f \in DOMAIN program.circuits} :
             \/ Cardinality(DeclarationsOf(n)) = 1
             \/ \E i \in DOMAIN program.parameters : program.parameters[i].name = n

(* GlobalEnvironment.variables: "only a single datatype is written to a     *)
(* variable of a given name": no name is declared with two types.           *)
SingleDatatype ==
    status = "done" =>
        \A i \in DOMAIN program.parameters : \A d \in program.variables :
            program.parameters[i].name = d.name => program.parameters[i].type = d.type

(* The run of the whole translator is a search through the call graph, as   *)
(* Circuits describes it: a body is known by the calls it has passed.       *)
CalleesIn(body) ==
    LET cs == Picked(body, {i \in DOMAIN body : body[i].do = "call"})
    IN  [i \in DOMAIN cs |-> cs[i].fn]
CircuitsIn(code) ==
    LET gs == Picked(code, {i \in With(code, "gate") : code[i].name \in Functions})
    IN  [i \in DOMAIN gs |-> gs[i].name]

SearchFrame(frame) ==
    [fn |-> frame.fn,
     next |-> 1 + Len(CalleesIn(SubSeq(Fun(frame.fn).body, 1, frame.next - 1))),
     gates |-> CircuitsIn(frame.code)]

SearchOrder == CHOOSE s \in [1 .. Cardinality(DOMAIN circuits) -> DOMAIN circuits] :
                  \A i, j \in DOMAIN s : s[i] = s[j] => i = j

SearchCalls ==
    [f \in Functions |-> IF f \in module.defined THEN CalleesIn(Fun(f).body) ELSE <<>>]
SearchStack ==
    IF Entry \notin module.defined THEN <<>>
    ELSE IF stack = <<>> THEN <<[fn |-> Entry, next |-> 1, gates |-> <<>>]>>
    ELSE [i \in DOMAIN stack |-> SearchFrame(stack[i])]
SearchCircuits == [f \in DOMAIN circuits |-> CircuitsIn(circuits[f].code)]
SearchProgram ==
    IF status # "done" THEN <<>>
    ELSE [i \in DOMAIN SearchOrder |->
             <<SearchOrder[i], CircuitsIn(program.circuits[SearchOrder[i]].code)>>]
         \o <<<<"entry", CircuitsIn(program.code)>>>>
SearchStatus ==
    IF Entry \notin module.defined THEN "UndefinedEntryPoint"
    ELSE IF status \in {"started", "read", "found", "constants"} THEN "running"
    ELSE IF status \in {"running", "done", "overflow", "MissingFunctionDefinition"}
    THEN status ELSE "error"

Search == INSTANCE Circuits WITH
    MaxCalls <- MaxBody,        calls    <- SearchCalls,
    defined  <- module.defined, stack    <- SearchStack,
    circuits <- SearchCircuits, program  <- SearchProgram,
    status   <- SearchStatus

ImplementsSearch == Search!Spec

(* What the translator answers fits the module. A program holds the         *)
(* circuits of exactly the functions that the entry point leads to, which   *)
(* is without recursion; a stack that could hold all functions overflows    *)
(* only on recursion; and a body is missed only where one is needed.        *)
AnswerJustified ==
    /\ status = "done" =>
          DOMAIN program.circuits = Search!Reach(Entry) /\ ~Search!Recursive
    /\ status = "overflow" /\ StackLimit >= Cardinality(Functions) => Search!Recursive
    /\ status = "MissingFunctionDefinition" => ~(Search!Reach(Entry) \subseteq module.defined)
=============================================================================
