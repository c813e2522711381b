---------------------------- MODULE Translation ----------------------------
(***************************************************************************)
(* The translator of Environment and the QirMachine run the same body side *)
(* by side: every instruction is translated and, while the translation     *)
(* goes on, executed. The gates emitted are compared with those performed. *)
(*                                                                         *)
(* The translator is not faithful to every body. The history variable      *)
(* departures collects, from the instructions and the machine alone, what  *)
(* the body does that the translator is known to lose; Tolerated bounds    *)
(* what a run lets the body do.                                            *)
(***************************************************************************)
EXTENDS Environment

CONSTANTS
    PauliZ,     \* the numbers that stand for the basis of Pauli Z
    Tolerated   \* bound: the departures that a run lets the body take

VARIABLES meaning, memory, allocated, released, instruction, trace,
          departures

Formals == [i \in DOMAIN Params |->
               IF Params[i] = "Qubit*" THEN [qubit |-> Variable(RegisterNames[i])]
                                       ELSE [opaque |-> TRUE]]
Targets  == {RegisterNames[i] : i \in DOMAIN RegisterNames}
Values0  == Numbers \union GlobalConstants \union {"computed"}

Qir == INSTANCE QirMachine WITH Numbers <- Values0

machine == <<meaning, memory, allocated, released, instruction, trace>>
both    == <<vars, machine, departures>>

Departures == {
    "several controls",    \* x__ctl of an array that is not of one qubit
    "joint measurement",   \* measure__body of several qubits
    "other basis",         \* measure__body in a basis that is not Pauli Z
    "store out of order",  \* a cell not written at its turn
    "misnamed gate",       \* a controlled I or S
    "computed angle",      \* a rotation by a register
    "integer angle",       \* a rotation by a constant that f64 does not hold
    "computed qubit",      \* a qubit that a phi, a select or a call yields
    "classical argument"}  \* a call with an argument that is not a qubit

ASSUME PauliZAssumption    == PauliZ \subseteq (Numbers \union GlobalConstants) \ {"computed"}
ASSUME ToleratedAssumption == Tolerated \subseteq Departures

(* An instruction translated by env, executed by qir, that departs by why.  *)
(* When its translation fails, nothing is executed.                         *)
Both(env, qir, why) ==
    /\ env
    /\ why \subseteq Tolerated
    /\ \/ /\ status' = "running"
          /\ qir
          /\ departures' = departures \union why
       \/ /\ status' # "running"
          /\ UNCHANGED <<machine, departures>>

When(condition, why) == IF condition THEN {why} ELSE {}

OneCell(p) == Qir!Denotes(p, "block") /\ Len(Qir!Block(p)) = 1

InZ(p) == Qir!Denotes(p, "block") /\ \A i \in DOMAIN Qir!Block(p) :
              Qir!Block(p)[i] \in {Qir!ANumber(c) : c \in PauliZ}

(* Constants whose value the conversion to a double changes, and tuples     *)
(* that start with one.                                                     *)
Inexact         == {c \in Numbers : AsFloat[c] # c}
InexactAngle(p) == Qir!Denotes(p, "block") /\ Qir!Block(p) # <<>>
                      /\ Qir!Block(p)[1] \in {Qir!ANumber(c) : c \in Inexact}

(* The cells before the one that p points to are written, the others not.   *)
InTurn(p) == Qir!InBounds(p) =>
    \A i \in DOMAIN Qir!Block(p) :
       (Qir!Block(p)[i] = Qir!Opaque) <=> (i > meaning[p].offset)

(* What a register of this type may denote when it is computed in a way     *)
(* the translator does not follow.                                          *)
Computed(type) ==
    CASE type = "Num" -> {Qir!ANumber("computed")}
      [] type \in {"Qubit*", "Array*"} ->
            {meaning[r] : r \in {s \in OfType(type) : meaning[s] # Qir!Opaque}}
      [] OTHER -> {Qir!Opaque}

Angle(r) == IF Qir!Denotes(r, "number") THEN meaning[r].number ELSE "computed"

-----------------------------------------------------------------------------
BothInit == Init /\ Qir!Init /\ departures = {}

BothDefine ==
    \/ Both(QubitAllocate, Qir!Allocate, {})
    \/ \E n \in 0 .. MaxLength : Both(QubitAllocateArray(n), Qir!AllocateArray(n), {})
    \/ \E n \in 0 .. MaxLength : Both(ArrayCreate, Qir!Create(n), {})
    \/ Both(TupleCreate, Qir!Create(2), {})
    \/ Both(Alloca, Qir!Create(1), {})
    \/ \E a \in OfType("Array*"), i \in 0 .. MaxLength - 1 :
          Both(ArrayElement(a, i), Qir!Element(a, i), {})
    \/ \E p \in OfType("Qubit**") \union OfType("Num*") : Both(Load(p), Qir!Read(p), {})
    \/ \E g \in GlobalConstants :
          \/ Both(LoadGlobal(g), Qir!Denote(Qir!ANumber(g)), {})
          \/ Both(BitCastGlobal(g), Qir!Address(g), {})
    \/ \E p \in DOMAIN regs : \E type \in CastsOf(regs[p]) :
          Both(BitCast(p, type), Qir!Cast(p), {})
    \/ \E p \in OfType("Struct*"), i \in 0 .. 1 :
          Both(GetElementPtr(p, i), Qir!Element(p, i), {})
    \/ \E type \in IgnoredTypes : \E v \in Computed(type) :
          Both(Ignored(type), Qir!Denote(v), When(type = "Qubit*", "computed qubit"))

BothModify ==
    \/ \E q \in OfType("Qubit*") : Both(QubitRelease(q), Qir!Release(q), {})
    \/ \E p \in OfType("Qubit**"), q \in OfType("Qubit*") :
          Both(StoreReg(p, q), Qir!Write(p, meaning[q]),
               When(~InTurn(p), "store out of order"))
    \/ \E p \in OfType("Num*"), x \in OfType("Num") :
          Both(StoreReg(p, x), Qir!Write(p, meaning[x]),
               When(~InTurn(p), "store out of order"))
    \/ \E p \in OfType("Num*"), c \in Numbers \union {"null"} :
          Both(StoreConst(p, c), Qir!Write(p, Qir!ANumber(c)),
               When(~InTurn(p), "store out of order"))
    \/ \E e \in Refusals : Both(Refuse(e), FALSE, {})

IsQubit(r) == regs[r] = "Qubit*"

BothApply ==
    \/ \E g \in DOMAIN PlainGate : \E args \in [1 .. Arity(g) -> OfType("Qubit*")] :
          Both(Gate(g, args), Qir!Gate(g, args), {})
    \/ \E g \in DOMAIN RotationGate, q \in OfType("Qubit*") :
          \/ \E a \in Numbers \union {"null"} :
                Both(Rotation(g, <<q>>, <<a>>), Qir!Rotate(g, q, a),
                     When(a \in Inexact, "integer angle"))
          \/ \E x \in OfType("Num") :
                Both(Rotation(g, <<x, q>>, <<>>), Qir!Rotate(g, q, Angle(x)), {"computed angle"})
    \/ \E args \in Args(DOMAIN regs), cs \in Consts, d \in {<<>>, <<"Num">>, <<"Qubit*">>} :
       \E v \in IF d = <<>> THEN {Qir!Opaque} ELSE Computed(d[1]) :
          Both(UserCall(args, cs, d),
               Qir!Call(Circuit, Picked(args, {i \in DOMAIN args : IsQubit(args[i])}),
                        Picked([i \in DOMAIN args |-> "argument"],
                               {i \in DOMAIN args : ~IsQubit(args[i])}) \o cs,
                        [i \in DOMAIN d |-> v]),
               When(d = <<"Qubit*">>, "computed qubit")
                 \union When(cs # <<>> \/ \E i \in DOMAIN args : ~IsQubit(args[i]),
                             "classical argument"))
    \/ \E a \in OfType("Array*"), q \in OfType("Qubit*") :
          \/ Both(XCtlCall(a, q), Qir!Controlled("X__ctl", a, q),
                  When(~OneCell(a), "several controls"))
          \/ \E g \in DOMAIN ControlledName :
                Both(GateCtl(g, a, q), Qir!Controlled(g, a, q),
                     When(g \in {"I__ctl", "S__ctl"}, "misnamed gate"))
    \/ \E a \in OfType("Array*"), t \in OfType("Struct*") \union OfType("Tuple*"),
          g \in DOMAIN ControlledRotationName :
             Both(RotationCtl(g, a, t), Qir!ControlledRotation(g, a, t),
                  When(InexactAngle(t), "integer angle"))
    \/ \E q \in OfType("Qubit*") : Both(MBodyCall(q), Qir!MeasureQubit(q, Fresh), {})
    \/ \E b, a \in OfType("Array*") :
          Both(MeasureBodyCall(b, a), Qir!MeasureArray(b, a, Fresh),
               When(~OneCell(a), "joint measurement")
                 \union When(~InZ(b), "other basis"))

BothNext == BothDefine \/ BothModify \/ BothApply \/ Both(Finish, FALSE, {})

BothSpec == BothInit /\ [][BothNext]_both

-----------------------------------------------------------------------------
(* Properties *)

(* The translation of a body in which nothing departs emits gates that do   *)
(* what the body does, on the same qubits and in the same order; so does    *)
(* what was emitted before the translation of a body fails.                 *)
Acts == [i \in DOMAIN output |-> ActOf(output[i])]

FaithfulOutput == departures = {} => Acts = trace

(* With no departure tolerated, the translator implements the QirMachine:   *)
(* the acts of its output are a trace of the machine, each that of the      *)
(* instruction of the body that was translated, and not of any other.       *)
Promise == INSTANCE QirMachine WITH Numbers <- Values0, trace <- Acts
ImplementsQir == Promise!Spec

(* translate_function_call: the controlled intrinsics "can translate much   *)
(* more directly into Quil": each becomes the gate it is named for.         *)
GatesAsNamed == Len(output) = Len(trace) =>
    \A i \in DOMAIN output : Acts[i].op = "turn" => Acts[i].turn = trace[i].turn
=============================================================================
