---------------------------- MODULE Environment ----------------------------
(***************************************************************************)
(* The translation of the straight-line body of ONE QIR function: what     *)
(* translate_block and translate_function_call do to the LocalEnvironment, *)
(* one LLVM instruction per action, and the Quil gates they emit.          *)
(*                                                                         *)
(* The input is chosen while it is translated: at every step the next      *)
(* instruction is any instruction of the vocabulary whose operands are     *)
(* registers already defined (LLVM is in SSA form) and of the right type.  *)
(* Registers are numbered in the order of their definition; RegisterNames  *)
(* gives the string that name_to_string makes of each.                     *)
(***************************************************************************)
EXTENDS Quil, Enumeration, Integers, Sequences, FiniteSets, FiniteSetsExt

CONSTANTS
    RegisterNames,    \* the sanitised name of the i-th register (a sequence)
    GlobalConstants,  \* names of the module's numeric constants (@PauliZ, ...)
    Params,           \* LLVM types of the function's parameters (a sequence)
    Numbers,          \* numeric constants that occur as operands
    AsFloat,          \* the double that each becomes as an angle (value as f64)
    MaxLength,        \* bound: elements of an array
    MaxArity,         \* bound: arguments of the call of a circuit
    Budgets           \* bounds: how many instructions of each kind, a set of choices

(* The tables of translate_function_call: intrinsics (less the prefix        *)
(* __quantum__qis__ or Microsoft__Quantum__Intrinsic__) and Quil gates.     *)
PlainGate == [x |-> "X", y |-> "Y", z |-> "Z", t |-> "T", tadj |-> "T", s |-> "S",
              sadj |-> "S", x__body |-> "X", h__body |-> "H", h |-> "H",
              cnot |-> "CNOT", swap |-> "SWAP"]
RotationGate == [rx |-> "RX", ry |-> "RY", rz |-> "RZ"]
ControlledName == [I__ctl |-> "RX", X__ctl |-> "X", Y__ctl |-> "Y", Z__ctl |-> "Z",
                   H__ctl |-> "H", T__ctl |-> "T", S__ctl |-> "H"]
ControlledRotationName == [Rx__ctl |-> "RX", Ry__ctl |-> "RY", Rz__ctl |-> "RZ"]

Daggered == {"tadj", "sadj"}

Intrinsics == DOMAIN PlainGate \union DOMAIN RotationGate
                 \union DOMAIN ControlledName \union DOMAIN ControlledRotationName

(* The qubits that a plain gate acts on: LLVM checks the type of a call.    *)
Arity(g) == IF g \in {"cnot", "swap"} THEN 2 ELSE 1

Operations == {"qubit_allocate", "qubit_allocate_array", "array_create",
               "element_ptr", "tuple_create", "qubit_release", "bitcast",
               "getelementptr", "alloca", "load", "store", "ignored", "call",
               "x_ctl", "m_body", "measure_body", "refused"}
                  \union Intrinsics

Types == {"Qubit*", "Qubit**", "Num", "Num*", "i8*", "Array*", "Tuple*",
          "Struct*", "Result*"}

ASSUME NamesAssumption   == RegisterNames \in Seq(STRING)
ASSUME GlobalsAssumption == GlobalConstants \subseteq STRING
ASSUME ParamsAssumption  == /\ Params \in Seq(Types)
                            /\ Len(Params) <= Len(RegisterNames)
ASSUME NumbersAssumption == Numbers \subseteq STRING
ASSUME AsFloatAssumption == AsFloat \in [Numbers -> STRING]
ASSUME BoundsAssumption  == /\ MaxLength \in Nat \ {0}
                            /\ MaxArity \in Nat
                            /\ Budgets \subseteq [Operations -> Nat]

VARIABLES
    regs,       \* LLVM types of the registers defined so far
    locals,     \* LocalEnvironment.variables
    nextQubit,  \* LocalEnvironment.next_qubit_to_allocate
    declared,   \* registers whose measurement was put in the global environment
    output,     \* the Quil gates and measurements emitted
    status,     \* "running", "done", a TranslationError, "panic" or "hang"
    left        \* what is left of one of the Budgets

vars == <<regs, locals, nextQubit, declared, output, status, left>>

-----------------------------------------------------------------------------
(* Values of the environment: enums VariableValue and TupleData. *)

Name(n)      == [is |-> "Name", name |-> n]
QubitItem(q) == [is |-> "Qubit", qubit |-> q]
Number(a)    == [is |-> "Number", number |-> a]

Data        == [kind |-> "Data"]     \* its payload is never read
Qubit(q)    == [kind |-> "Qubit", qubit |-> q]
Qubits(qs)  == [kind |-> "Qubits", qubits |-> qs]
Array(s)    == [kind |-> "Array", items |-> s]
Tuple(s)    == [kind |-> "Tuple", items |-> s]
Alias(n)    == [kind |-> "Alias", target |-> n]
Index(n, i) == [kind |-> "Index", base |-> n, index |-> i]

Item      == [is : {"Name"}, name : STRING]
               \union [is : {"Qubit"}, qubit : QuilQubit]
               \union [is : {"Number"}, number : Numbers]
Value     == {Data}
               \union [kind : {"Qubit"}, qubit : QuilQubit]
               \union [kind : {"Qubits"}, qubits : Seq(QuilQubit)]
               \union [kind : {"Array", "Tuple"}, items : Seq(Item)]
               \union [kind : {"Alias"}, target : STRING]
               \union [kind : {"Index"}, base : STRING, index : Nat]

(* Result<T, TranslationError>; an unwrap, an index out of bounds or a      *)
(* todo!() is the error "panic", a loop that never ends the error "hang".   *)
Ok(v)  == [tag |-> "ok", val |-> v]
Err(e) == [tag |-> e]

(* What an operation goes on to do with the value of a Result (the ? of     *)
(* Rust), and the Results of a sequence, or the first error among them      *)
(* (collect::<Result<Vec<_>, _>>).                                          *)
Then(res, F(_)) == IF res.tag = "ok" THEN F(res.val) ELSE res
Collect(results) ==
    LET failed == {i \in DOMAIN results : results[i].tag # "ok"}
    IN  IF failed = {} THEN Ok([i \in DOMAIN results |-> results[i].val])
                       ELSE results[Min(failed)]

Insert(env, n, v) == [m \in DOMAIN env \union {n} |-> IF m = n THEN v ELSE env[m]]

-----------------------------------------------------------------------------
(* Names and their resolution. *)

IsAlias(env, n) == n \in DOMAIN env /\ env[n].kind = "Alias"

(* The name at the end of the chain of aliases that starts at the alias n.  *)
(* A chain longer than the environment has come round to where it was: the  *)
(* loop of resolve_alias never leaves it, and this yields an alias still.   *)
Chase(env, n) ==
    LET longest == Cardinality(DOMAIN env)
        at[k \in 0 .. longest] ==
            IF k = 0 THEN n
            ELSE IF IsAlias(env, at[k - 1]) THEN env[at[k - 1]].target
            ELSE at[k - 1]
    IN  at[longest]

(* Option<String>, with what every caller but four makes of None. The       *)
(* aliases of the global environment ("measurement") are bound to prefixed  *)
(* names, which no local alias targets.                                     *)
ResolveIn(env, n) ==
    LET end == IF IsAlias(env, n) THEN Chase(env, n) ELSE n
    IN  IF IsAlias(env, end) THEN Err("hang")
        ELSE IF end \in DOMAIN env \union GlobalConstants THEN Ok(end)
        ELSE Err("CannotResolveLocalVariableName")

ResolveAlias(n) == ResolveIn(locals, n)

Unresolved(res) == res.tag = "CannotResolveLocalVariableName"

(* The value in the local environment of the name that n resolves to. *)
LookUp(n) ==
    Then(ResolveAlias(n), LAMBDA m :
         IF m \in DOMAIN locals THEN Ok(locals[m])
         ELSE Err("CannotResolveLocalVariableValue"))

Expect(kinds, v) == IF v.kind \in kinds THEN Ok(v)
                    ELSE Err("UnexpectedVariableType")

-----------------------------------------------------------------------------
(* The operands of the quantum instructions. *)

(* One argument of get_qubits_from_call. The arm for a name that resolves   *)
(* to a whole register (Qubits) can only report an error: a name bound to   *)
(* an Index resolves to itself.                                             *)
ElementOf(base, index) ==
    IF base \notin DOMAIN locals THEN Err("CannotResolveLocalVariableName")
    ELSE IF locals[base].kind # "Qubits" THEN Err("UnexpectedVariableType")
    ELSE IF index >= Len(locals[base].qubits) THEN Err("panic")
    ELSE Ok(locals[base].qubits[index + 1])

QubitArgument(n) ==
    Then(LookUp(n), LAMBDA v :
        CASE v.kind = "Qubit" -> Ok(v.qubit)
          [] v.kind = "Index" -> ElementOf(v.base, v.index)
          [] v.kind = "Tuple" -> Err("panic")
          [] OTHER -> Err("UnexpectedVariableType"))

(* Mutant: an argument that no local binding defines is taken for a formal. *)
QubitsOrFormals(args) ==
    Collect([i \in DOMAIN args |-> IF args[i] \in DOMAIN locals THEN QubitArgument(args[i])
                                   ELSE Ok(Variable(args[i]))])

(* Arguments that no local binding defines are skipped. *)
QubitsFromCall(args) ==
    LET bound == Picked(args, {i \in DOMAIN args : args[i] \in DOMAIN locals})
    IN  Collect([i \in DOMAIN bound |-> QubitArgument(bound[i])])

QubitOf(n) == Then(LookUp(n), LAMBDA v :
                  Then(Expect({"Qubit"}, v), LAMBDA w : Ok(w.qubit)))

NameOf(item) == IF item.is = "Name" THEN Ok(item.name)
                ELSE Err("UnexpectedVariableType")

(* get_control_qubits_from_operand and resolve_controls_to_qubits: the      *)
(* names in an array of controls, and their qubits.                         *)
ControlNames(array) ==
    Then(LookUp(array), LAMBDA v :
    Then(Expect({"Array"}, v), LAMBDA a :
    Collect([i \in DOMAIN a.items |-> NameOf(a.items[i])])))

ControlQubits(names) == Collect([i \in DOMAIN names |-> QubitOf(names[i])])

(* Mutant: the target before its controls. *)
TargetFirst(gate, array, target) ==
    Then(ControlNames(array), LAMBDA names :
    Then(ControlQubits(names), LAMBDA cs :
    Then(QubitOf(target), LAMBDA t :
    Ok(GateOn(gate, FALSE, <<>>, Len(cs), <<t>> \o cs)))))

ControlledGate(gate, array, target) ==
    Then(ControlNames(array), LAMBDA names :
    Then(ControlQubits(names), LAMBDA cs :
    Then(QubitOf(target), LAMBDA t :
    Ok(GateOn(gate, FALSE, <<>>, Len(cs), Append(cs, t))))))

(* The tuple operand holds <<angle, target>> in the order of its stores. An *)
(* angle is put out as a double: an integer, kept as 64 bits without a      *)
(* sign, is converted, a float is a double already.                         *)
AngleAndTarget(items) ==
    IF items = <<>> THEN Err("panic")
    ELSE IF items[1].is # "Number" THEN Err("UnsupportedParameterType")
    ELSE IF Len(items) = 1 THEN Err("panic")
    ELSE IF items[2].is # "Qubit" THEN Err("UnexpectedVariableType")
    ELSE Ok([angle |-> AsFloat[items[1].number], target |-> items[2].qubit])

ControlledRotation(gate, array, tuple) ==
    Then(ControlNames(array), LAMBDA names :
    Then(LookUp(tuple), LAMBDA v :
    Then(Expect({"Tuple"}, v), LAMBDA t :
    Then(ControlQubits(names), LAMBDA cs :
    Then(AngleAndTarget(t.items), LAMBDA p :
    Ok(GateOn(gate, FALSE, <<p.angle>>, Len(cs), Append(cs, p.target))))))))

(* A name that resolves to nothing is passed on as a formal of the circuit; *)
(* the callers disagree on how a name that resolves to something else fails. *)
QubitOrVariable(n, absent, mistyped) ==
    LET found == ResolveAlias(n)
    IN  IF Unresolved(found) THEN Ok(Variable(n))
        ELSE Then(found, LAMBDA m :
             IF m \notin DOMAIN locals THEN Err(absent)
             ELSE IF locals[m].kind # "Qubit" THEN Err(mistyped)
             ELSE Ok(locals[m].qubit))

FirstName(items) == IF items = <<>> THEN Err("panic") ELSE NameOf(items[1])

(* Mutant: control and target change places. *)
XCtlSwapped(array, target) ==
    Then(IF array \in DOMAIN locals THEN Expect({"Array"}, locals[array])
                                    ELSE Err("panic"), LAMBDA a :
    Then(FirstName(a.items), LAMBDA c :
    Then(QubitOrVariable(c, "panic", "UnexpectedVariableType"), LAMBDA q :
    Then(QubitOrVariable(target, "CannotResolveLocalVariableValue", "panic"),
         LAMBDA t : Ok(GateOn("X", FALSE, <<>>, 1, <<t, q>>))))))

(* __quantum__qis__x__ctl looks the array up by its own name, aliases       *)
(* unresolved, and reads its first control only.                            *)
XCtl(array, target) ==
    Then(IF array \in DOMAIN locals THEN Expect({"Array"}, locals[array])
                                    ELSE Err("panic"), LAMBDA a :
    Then(FirstName(a.items), LAMBDA c :
    Then(QubitOrVariable(c, "panic", "UnexpectedVariableType"), LAMBDA q :
    Then(QubitOrVariable(target, "CannotResolveLocalVariableValue", "panic"),
         LAMBDA t : Ok(GateOn("X", FALSE, <<>>, 1, <<q, t>>))))))

(* __quantum__qis__m__body and __quantum__qis__measure__body *)
MBody(args) == Then(QubitsFromCall(args), LAMBDA qs :
                   IF qs = <<>> THEN Err("panic") ELSE Ok(qs[1]))

MeasureBody(array) ==
    IF Unresolved(ResolveAlias(array)) THEN Err("panic")
    ELSE Then(LookUp(array), LAMBDA v :
         Then(Expect({"Array"}, v), LAMBDA a :
         Then(FirstName(a.items), LAMBDA n :
         QubitOrVariable(n, "panic", "panic"))))

-----------------------------------------------------------------------------
(* Stores: the environment they leave. *)

(* Mutant: the item is pushed in front of the others. *)
PushFront(base, item) ==
    IF base \notin DOMAIN locals THEN Err("panic")
    ELSE Then(Expect({"Array", "Tuple"}, locals[base]), LAMBDA v :
         Ok(Insert(locals, base, [kind |-> v.kind, items |-> <<item>> \o v.items])))

(* An item is pushed behind the ones already stored; the index of the       *)
(* pointer is not used.                                                     *)
PushInto(base, item) ==
    IF base \notin DOMAIN locals THEN Err("panic")
    ELSE Then(Expect({"Array", "Tuple"}, locals[base]), LAMBDA v :
         Ok(Insert(locals, base, [kind |-> v.kind, items |-> Append(v.items, item)])))

(* What a register stored through a pointer into base becomes: an array     *)
(* keeps its name, a tuple the qubit it denotes.                            *)
StoredItem(base, name) ==
    IF base \in DOMAIN locals /\ locals[base].kind = "Tuple"
    THEN LET v == LookUp(name)
         IN  IF v.tag = "CannotResolveLocalVariableValue" THEN Err("panic")
             ELSE Then(v, LAMBDA w : Then(Expect({"Qubit"}, w),
                                          LAMBDA x : Ok(QubitItem(x.qubit))))
    ELSE Ok(Name(name))

(* Mutant: the pointer becomes an alias of what is stored. *)
StoreAsAlias(pointer, name) ==
    Then(LookUp(pointer), LAMBDA p :
    IF Unresolved(ResolveAlias(name)) THEN Err("panic")
    ELSE Then(ResolveAlias(name), LAMBDA end :
         IF p.kind # "Index" THEN Ok(Insert(locals, pointer, Alias(name)))
         ELSE Then(StoredItem(p.base, name), LAMBDA item : PushInto(p.base, item))))

(* A register stored anywhere but through an Index is forgotten. *)
StoreRegister(pointer, name) ==
    Then(LookUp(pointer), LAMBDA p :
    IF Unresolved(ResolveAlias(name)) THEN Err("panic")
    ELSE Then(ResolveAlias(name), LAMBDA end :
         IF p.kind # "Index" THEN Ok(locals)
         ELSE Then(StoredItem(p.base, name), LAMBDA item : PushInto(p.base, item))))

(* A constant stored to an alloca binds the name of the pointer itself,     *)
(* which may be an alias of the one that was allocated.                     *)
StoreConstant(pointer, c) ==
    Then(LookUp(pointer), LAMBDA p :
    IF p.kind \notin {"Index", "Data"} THEN Err("panic")
    ELSE IF c \notin Numbers THEN Err("UnexpectedConstantType")
    ELSE IF p.kind = "Index" THEN PushInto(p.base, Number(c))
    ELSE Ok(Insert(locals, pointer, Data)))

-----------------------------------------------------------------------------
(* What every instruction does: it is next in the body, it defines at most  *)
(* one register, and an error ends the translation with nothing changed.    *)

N(r)         == RegisterNames[r]
Fresh        == RegisterNames[Len(regs) + 1]
OfType(type) == {r \in DOMAIN regs : regs[r] = type}

Advance(op, defined, res) ==
    /\ status = "running"
    /\ left[op] > 0
    /\ Len(regs) + Len(defined) <= Len(RegisterNames)
    /\ left' = [left EXCEPT ![op] = @ - 1]
    /\ status' = IF res.tag = "ok" THEN status ELSE res.tag
    /\ regs' = IF res.tag = "ok" THEN regs \o defined ELSE regs

Bind(op, type, res) ==
    /\ Advance(op, <<type>>, res)
    /\ locals' = IF res.tag = "ok" THEN Insert(locals, Fresh, res.val) ELSE locals
    /\ UNCHANGED <<declared, output>>

Update(op, res) ==
    /\ Advance(op, <<>>, res)
    /\ locals' = IF res.tag = "ok" THEN res.val ELSE locals
    /\ UNCHANGED <<nextQubit, declared, output>>

Emit(op, defined, res) ==
    /\ Advance(op, defined, res)
    /\ output' = IF res.tag = "ok" THEN Append(output, res.val) ELSE output
    /\ UNCHANGED <<locals, nextQubit>>

-----------------------------------------------------------------------------
(* Instructions that define registers. *)

QubitAllocate ==
    /\ Bind("qubit_allocate", "Qubit*", Ok(Qubit(Fixed(nextQubit))))
    /\ nextQubit' = nextQubit + 1

(* Mutant: a register of qubits counts as one qubit. *)
AllocateArrayAsOne(n) ==
    /\ Bind("qubit_allocate_array", "Array*",
            Ok(Qubits([i \in 1 .. n |-> Fixed(nextQubit + i - 1)])))
    /\ nextQubit' = nextQubit + 1

QubitAllocateArray(n) ==
    /\ Bind("qubit_allocate_array", "Array*",
            Ok(Qubits([i \in 1 .. n |-> Fixed(nextQubit + i - 1)])))
    /\ nextQubit' = nextQubit + n

ArrayCreate == Bind("array_create", "Array*", Ok(Array(<<>>))) /\ UNCHANGED nextQubit

TupleCreate == Bind("tuple_create", "Tuple*", Ok(Tuple(<<>>))) /\ UNCHANGED nextQubit

Alloca == Bind("alloca", "Num*", Ok(Data)) /\ UNCHANGED nextQubit

(* The array is named by the operand, whatever that is bound to. *)
ArrayElement(array, i) ==
    /\ Bind("element_ptr", "i8*", Ok(Index(N(array), i)))
    /\ UNCHANGED nextQubit

(* A load copies nothing: the register becomes an alias of the address. *)
Load(pointer) ==
    /\ Bind("load", IF regs[pointer] = "Num*" THEN "Num" ELSE "Qubit*",
            Ok(Alias(N(pointer))))
    /\ UNCHANGED nextQubit

LoadGlobal(g) == Bind("load", "Num", Ok(Alias(g))) /\ UNCHANGED nextQubit

(* The cast of a constant is bound, and not resolved. *)
BitCastGlobal(g) == Bind("bitcast", "Num*", Ok(Alias(g))) /\ UNCHANGED nextQubit

(* The alias is bound before the operand is resolved. A tuple cast to a     *)
(* pointer that is not to a struct stands for its first item.               *)
CastValue(n, type) ==
    LET env == Insert(locals, Fresh, Alias(n))
    IN  Then(ResolveIn(env, n), LAMBDA m :
        IF m \notin DOMAIN env THEN Err("CannotResolveLocalVariableValue")
        ELSE IF env[m].kind = "Tuple" /\ type # "Struct*" THEN Ok(Index(m, 0))
        ELSE Ok(Alias(n)))

BitCast(pointer, type) ==
    /\ Bind("bitcast", type, CastValue(N(pointer), type))
    /\ UNCHANGED nextQubit

(* Fields 0 and 1 of a { double, %Qubit* }. *)
FieldType(i) == IF i = 0 THEN "Num*" ELSE "Qubit**"

FieldValue(n, i) ==
    Then(ResolveAlias(n), LAMBDA m :
    Then(LookUp(n), LAMBDA v :
    Then(Expect({"Tuple"}, v), LAMBDA t : Ok(Index(m, i)))))

GetElementPtr(struct, i) ==
    /\ Bind("getelementptr", FieldType(i), FieldValue(N(struct), i))
    /\ UNCHANGED nextQubit

(* phi, select, arithmetic, result_get_one, array_get_size_1d, ...: the     *)
(* register they define is left without a binding.                          *)
Ignored(type) ==
    /\ Advance("ignored", <<type>>, Ok("ignored"))
    /\ UNCHANGED <<locals, nextQubit, declared, output>>

(* Mutant: the qubit released is handed out again. *)
ReleaseForReuse(q) ==
    /\ Advance("qubit_release", <<>>, Ok("released"))
    /\ locals' = [m \in DOMAIN locals \ {N(q)} |-> locals[m]]
    /\ nextQubit' = nextQubit - 1
    /\ UNCHANGED <<declared, output>>

(* Only the operand's own name goes; aliases and pointers to it stay. *)
QubitRelease(q) ==
    Update("qubit_release",
           Ok([m \in DOMAIN locals \ {N(q)} |-> locals[m]]))

StoreReg(pointer, r) == Update("store", StoreRegister(N(pointer), N(r)))

StoreConst(pointer, c) == Update("store", StoreConstant(N(pointer), c))

-----------------------------------------------------------------------------
(* Instructions that emit. *)

Names(args) == [i \in DOMAIN args |-> N(args[i])]

Gate(g, args) ==
    /\ Emit(g, <<>>, Then(QubitsFromCall(Names(args)), LAMBDA qs :
                          Ok(GateOn(PlainGate[g], g \in Daggered, <<>>, 0, qs))))
    /\ UNCHANGED declared

(* Only constants become parameters; an angle held in a register counts as  *)
(* an argument that might be a qubit.                                       *)
RotationOn(gate, args, angles) ==
    Then(QubitsFromCall(Names(args)), LAMBDA qs :
    IF \A i \in DOMAIN angles : angles[i] \in Numbers
    THEN Ok(GateOn(gate, FALSE, [i \in DOMAIN angles |-> AsFloat[angles[i]]], 0, qs))
    ELSE Err("UnexpectedConstantType"))

Rotation(g, args, angles) ==
    /\ Emit(g, <<>>, RotationOn(RotationGate[g], args, angles))
    /\ UNCHANGED declared

(* The call of a function that becomes a circuit; in this module, any. The  *)
(* arguments that are constants go the way of the other classical ones: no  *)
(* name is taken from them.                                                 *)
Circuit == "circuit"

UserCall(args, consts, defined) ==
    /\ Emit("call", defined, Then(QubitsFromCall(Names(args)), LAMBDA qs :
                                  Ok(GateOn(Circuit, FALSE, <<>>, 0, qs))))
    /\ UNCHANGED declared

XCtlCall(array, target) ==
    Emit("x_ctl", <<>>, XCtl(N(array), N(target))) /\ UNCHANGED declared

GateCtl(g, array, target) ==
    /\ Emit(g, <<>>, ControlledGate(ControlledName[g], N(array), N(target)))
    /\ UNCHANGED declared

RotationCtl(g, array, tuple) ==
    /\ Emit(g, <<>>, ControlledRotation(ControlledRotationName[g], N(array), N(tuple)))
    /\ UNCHANGED declared

(* The memory region of the outcome is declared through the global          *)
(* environment; the register itself is left without a binding.              *)
Measure(op, qubit) ==
    /\ Emit(op, <<"Result*">>, Then(qubit, LAMBDA q :
                 Ok(Measurement(q, Fresh))))
    /\ declared' = IF qubit.tag = "ok" THEN declared \union {Fresh} ELSE declared

MBodyCall(q) == Measure("m_body", MBody(<<N(q)>>))

(* The call names the bases and the qubits; the bases are never looked at.  *)
MeasureBodyCall(bases, array) ==
    LET args == Names(<<bases, array>>) IN Measure("measure_body", MeasureBody(args[2]))

(* An instruction refused whatever the environment holds: an operand of     *)
(* the wrong form, an unsupported intrinsic, a callee whose own translation *)
(* fails.                                                                   *)
Refusals == {"UnsupportedAllocationType", "UnexpectedOperandType",
             "ExpectedConstantOperand", "ExpectedLocalOperandForCall",
             "UnsupportedLLVMInstruction", "UnsupportedFunctionCall",
             "MissingFunctionDefinition", "MissingDestinationForCall",
             "UnsupportedFloatType", "NonIntegerIndex", "panic"}

Refuse(e) == Update("refused", Err(e))

Finish ==
    /\ status = "running"
    /\ status' = "done"
    /\ UNCHANGED <<regs, locals, nextQubit, declared, output, left>>

-----------------------------------------------------------------------------
(* The body: qubit parameters are primed, then any well-typed sequence of   *)
(* instructions within one of the Budgets.                                  *)

PrimedNames == {RegisterNames[i] : i \in {j \in DOMAIN Params : Params[j] = "Qubit*"}}

Init ==
    /\ regs = Params
    /\ locals = [n \in PrimedNames |-> Qubit(Variable(n))]
    /\ nextQubit = 0
    /\ declared = {}
    /\ output = <<>>
    /\ status = "running"
    /\ left \in Budgets

Args(registers) == UNION {[1 .. n -> registers] : n \in 0 .. MaxArity}
Consts          == {<<>>} \union {<<c>> : c \in Numbers}

(* The types a pointer can be cast to, and the types of ignored registers.  *)
CastsOf(type) == CASE type = "i8*"    -> {"Qubit**", "Num*"}
                   [] type = "Tuple*" -> {"Struct*", "Num*"}
                   [] type = "Num*"   -> {"Num*"}
                   [] OTHER           -> {}
IgnoredTypes == {"Qubit*", "Array*", "Num", "Result*"}

Define ==
    \/ QubitAllocate
    \/ \E n \in 0 .. MaxLength : QubitAllocateArray(n)
    \/ ArrayCreate
    \/ TupleCreate
    \/ Alloca
    \/ \E a \in OfType("Array*"), i \in 0 .. MaxLength - 1 : ArrayElement(a, i)
    \/ \E p \in OfType("Qubit**") \union OfType("Num*") : Load(p)
    \/ \E g \in GlobalConstants : LoadGlobal(g) \/ BitCastGlobal(g)
    \/ \E p \in DOMAIN regs : \E type \in CastsOf(regs[p]) : BitCast(p, type)
    \/ \E p \in OfType("Struct*"), i \in 0 .. 1 : GetElementPtr(p, i)
    \/ \E type \in IgnoredTypes : Ignored(type)

Modify ==
    \/ \E q \in OfType("Qubit*") : QubitRelease(q)
    \/ \E p \in OfType("Qubit**"), q \in OfType("Qubit*") : StoreReg(p, q)
    \/ \E p \in OfType("Num*"), x \in OfType("Num") : StoreReg(p, x)
    \/ \E p \in OfType("Num*"), c \in Numbers \union {"null"} : StoreConst(p, c)
    \/ \E e \in Refusals : Refuse(e)

Apply ==
    \/ \E g \in DOMAIN PlainGate : \E args \in [1 .. Arity(g) -> OfType("Qubit*")] :
          Gate(g, args)
    \/ \E g \in DOMAIN RotationGate, q \in OfType("Qubit*") :
          \/ \E a \in Numbers \union {"null"} : Rotation(g, <<q>>, <<a>>)
          \/ \E x \in OfType("Num") : Rotation(g, <<x, q>>, <<>>)
    \/ \E args \in Args(DOMAIN regs), cs \in Consts, d \in {<<>>, <<"Num">>, <<"Qubit*">>} :
          UserCall(args, cs, d)
    \/ \E a \in OfType("Array*"), q \in OfType("Qubit*") :
          XCtlCall(a, q) \/ \E g \in DOMAIN ControlledName : GateCtl(g, a, q)
    \/ \E a \in OfType("Array*"), t \in OfType("Struct*") \union OfType("Tuple*"),
          g \in DOMAIN ControlledRotationName : RotationCtl(g, a, t)
    \/ \E q \in OfType("Qubit*") : MBodyCall(q)
    \/ \E b, a \in OfType("Array*") : MeasureBodyCall(b, a)

Next == Define \/ Modify \/ Apply \/ Finish

Spec == Init /\ [][Next]_vars

-----------------------------------------------------------------------------
(* Properties *)

(* Two registers whose sanitised names agree share one entry of the local   *)
(* environment, and one named like a constant hides it.                     *)
NamesDistinct ==
    /\ \A i, j \in DOMAIN RegisterNames : RegisterNames[i] = RegisterNames[j] => i = j
    /\ \A i \in DOMAIN RegisterNames : RegisterNames[i] \notin GlobalConstants

(* The shape of the local environment and of what it is about; that of the  *)
(* output is part of OnlyAllocatedQubits.                                   *)
TypeOK ==
    /\ regs \in Seq(Types) /\ Len(regs) <= Len(RegisterNames)
    /\ DOMAIN locals \subseteq {RegisterNames[i] : i \in DOMAIN regs}
    /\ \A n \in DOMAIN locals : locals[n] \in Value
    /\ nextQubit \in Nat
    /\ declared \subseteq {RegisterNames[i] : i \in DOMAIN regs}
    /\ left \in [Operations -> Nat]

OwnedBy(v) == IF v.kind = "Qubit" THEN {v.qubit}
              ELSE IF v.kind = "Qubits" THEN {v.qubits[i] : i \in DOMAIN v.qubits}
              ELSE {}

(* qubit_allocate and qubit_allocate_array: every physical qubit handed out *)
(* is new. No two bindings of a body own the same one, a register of qubits *)
(* owns as many as its length, and the counter is above them all.           *)
AllocationsDisjoint ==
    /\ \A n \in DOMAIN locals : \A q \in OwnedBy(locals[n]) :
          "fixed" \in DOMAIN q => q.fixed < nextQubit
    /\ \A m, n \in DOMAIN locals :
          m # n => OwnedBy(locals[m]) \intersect OwnedBy(locals[n]) = {}
    /\ \A n \in DOMAIN locals : locals[n].kind = "Qubits" =>
          \A i, j \in DOMAIN locals[n].qubits :
             locals[n].qubits[i] = locals[n].qubits[j] => i = j

(* Whatever way an operand was found, through names, pointers, arrays or    *)
(* tuples, gates are emitted on physical qubits that were allocated before  *)
(* and on formals of the circuit, and on nothing else, but for one case:    *)
(* the X of x__ctl and the measurement of measure__body may be on the name  *)
(* of a register that resolves to nothing (its instruction was ignored, or  *)
(* its binding released), which the translator takes for a formal.          *)
QubitsIn(g) == IF g.op = "gate" THEN {g.qubits[i] : i \in DOMAIN g.qubits}
                                ELSE {g.qubit}

AllocatedQubits == {Fixed(k) : k \in 0 .. nextQubit - 1}
FormalQubits    == {Variable(n) : n \in PrimedNames}
UnknownQubits   == {Variable(N(r)) :
                       r \in {s \in DOMAIN regs : Unresolved(ResolveAlias(N(s)))}}
TakesUnknown(g) == g.op = "measure" \/ (g.name = "X" /\ g.controls = 1)

OnlyAllocatedQubits ==
    \A i \in DOMAIN output :
        QubitsIn(output[i]) \subseteq AllocatedQubits \union FormalQubits
            \union IF TakesUnknown(output[i]) THEN UnknownQubits ELSE {}

(* resolve_alias comes to an end from every name, whatever was loaded, cast *)
(* and stored before: in any set of aliases one leads out of the set.       *)
AliasNames  == {n \in DOMAIN locals : locals[n].kind = "Alias"}
NoAliasCycle ==
    \A S \in SUBSET AliasNames : S # {} => \E n \in S : locals[n].target \notin S

(* No later instruction changes what a register denotes: arrays and tuples  *)
(* only grow behind the items already pushed, an entry goes away only by    *)
(* the release of a qubit, and the one entry that is rebound is an alias of *)
(* number memory, to number memory.                                         *)
IsPrefixOf(s, t) == Len(s) <= Len(t) /\ \A i \in DOMAIN s : s[i] = t[i]

KeepsMeaning(n) ==
    IF n \notin DOMAIN locals' THEN locals[n].kind \in {"Qubit", "Alias"}
    ELSE \/ locals'[n] = locals[n]
         \/ /\ locals[n].kind \in {"Array", "Tuple"}
            /\ locals'[n].kind = locals[n].kind
            /\ IsPrefixOf(locals[n].items, locals'[n].items)
         \/ LookUp(n) = Ok(Data) /\ locals'[n] = Data

BindingsGrow == [][\A n \in DOMAIN locals : KeepsMeaning(n)]_vars

(* get_qubits_from_call: "Non-qubit arguments are ignored." *)
NonQubitArgumentsIgnored ==
    \A r \in OfType("Num") : QubitsFromCall(<<N(r)>>) = Ok(<<>>)

(* get_qubits_from_call: "The call argument *must* resolve to a known       *)
(* variable": a call that is translated keeps every qubit argument.         *)
QubitArgumentsKept ==
    \A r \in OfType("Qubit*") :
        LET qs == QubitsFromCall(<<N(r)>>) IN qs.tag = "ok" => Len(qs.val) = 1

(* resolve_alias resolves a name "to its original definition": it returns. *)
AliasesResolve == status # "hang"
=============================================================================
