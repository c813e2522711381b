----------------------- MODULE ModuleTranslationProofs -----------------------
(***************************************************************************)
(* Proofs about ModuleTranslation, for every module, every spelling of the *)
(* names and every stack limit: what the code of a body is, instruction by *)
(* instruction, and that the regions it uses are declared.                 *)
(***************************************************************************)
EXTENDS ModuleTranslation, EnumerationProofs

-----------------------------------------------------------------------------
(* A body and its code. Every instruction but an allocation becomes one     *)
(* instruction of Quil, so how far a translation is in the one tells how    *)
(* far it is in the other.                                                  *)

Emitters(fun)     == {k \in 1 .. Len(fun.body) : fun.body[k].do # "alloc"}
Allocations(fun)  == {k \in 1 .. Len(fun.body) : fun.body[k].do = "alloc"}
Emitted(fun, k)   == Cardinality(Under(Emitters(fun), k))
Allotted(fun, k)  == Cardinality(Under(Allocations(fun), k))

QubitsBefore(fun, k) == {r \in 1 .. Len(fun.params) + k - 1 : IsQubit(fun, r)}

(* The qubit of Quil that a register stands for, where no two registers of  *)
(* the function have one name.                                              *)
Stands(f, fun, r) ==
    IF r <= Len(fun.params) THEN Variable(NameOf(f, r))
                            ELSE Fixed(Allotted(fun, r - Len(fun.params)))

Apart(f, fun) ==
    \A r, s \in DOMAIN RegisterNames[f] :
        IsQubit(fun, r) /\ IsQubit(fun, s) /\ NameOf(f, r) = NameOf(f, s) => r = s

(* The instruction of Quil that the k-th instruction of the body becomes.   *)
GateOf(f, fun, i, op) ==
    /\ op.op = "gate" /\ op.name = "X"
    /\ Apart(f, fun) => op.qubits[1] = Stands(f, fun, i.on)

MeasurementOf(f, fun, k, i, op) ==
    /\ op.op = "measure" /\ op.target = Region(f, Len(fun.params) + k)
    /\ Apart(f, fun) => op.qubit = Stands(f, fun, i.on)

CallOf(f, fun, i, op) ==
    /\ op.op = "gate" /\ op.name = i.fn
    /\ DOMAIN op.qubits = DOMAIN i.args
    /\ Apart(f, fun) => \A a \in DOMAIN i.args : op.qubits[a] = Stands(f, fun, i.args[a])

Becomes(f, fun, k, op) ==
    LET i == fun.body[k]
    IN  /\ i.do = "gate"    => GateOf(f, fun, i, op)
        /\ i.do = "measure" => MeasurementOf(f, fun, k, i, op)
        /\ i.do = "call"    => CallOf(f, fun, i, op)

CodeUpTo(f, fun, k, code) ==
    \A j \in Emitters(fun) : j < k => Becomes(f, fun, j, code[Emitted(fun, j) + 1])

(* The functions that were called have their circuits. *)
Answered(fun, D, k) ==
    \A j \in 1 .. Len(fun.body) : j < k /\ fun.body[j].do = "call" => fun.body[j].fn \in D

(* The local environment binds the qubits defined so far. *)
Binds(f, fun, k, locals) ==
    /\ DOMAIN locals = {NameOf(f, r) : r \in QubitsBefore(fun, k)}
    /\ Apart(f, fun) =>
          \A r \in QubitsBefore(fun, k) : locals[NameOf(f, r)] = Stands(f, fun, r)

FrameOK(m, D, frame) ==
    LET fun == m.functions[frame.fn]
    IN  /\ frame.fn \in Functions /\ frame.fn \in m.defined
        /\ frame.next \in 1 .. Len(fun.body) + 1
        /\ frame.nextQubit = Allotted(fun, frame.next)
        /\ Binds(frame.fn, fun, frame.next, frame.locals)
        /\ Listed(frame.code, Emitted(fun, frame.next))
        /\ CodeUpTo(frame.fn, fun, frame.next, frame.code)
        /\ Answered(fun, D, frame.next)

(* The code of a whole body ends with the move of the return value.         *)
Moving(fun) == fun.ret.returns = "register"

BodyOK(m, D, f, code) ==
    LET fun == m.functions[f]
        n   == Emitted(fun, Len(fun.body) + 1)
    IN  /\ Listed(code, IF Moving(fun) THEN n + 1 ELSE n)
        /\ CodeUpTo(f, fun, Len(fun.body) + 1, code)
        /\ Answered(fun, D, Len(fun.body) + 1)
        /\ Moving(fun) =>
              code[n + 1] = Move(ReturnLabel(FunctionNames[f]), Region(f, fun.ret.register))

CircuitOK(m, D, f, circuit) ==
    LET qs == QubitParams(m.functions[f])
    IN  /\ f \in Functions /\ f \in m.defined
        /\ circuit.qubits = [i \in DOMAIN qs |-> NameOf(f, qs[i])]
        /\ BodyOK(m, D, f, circuit.code)

-----------------------------------------------------------------------------
(* What LLVM makes sure of. *)

LEMMA BodyTypes ==
    ASSUME NEW m \in Modules, NEW f \in Functions, NEW fun, fun = m.functions[f]
    PROVE  /\ Len(fun.params) \in Nat /\ DOMAIN fun.params = 1 .. Len(fun.params)
           /\ Len(fun.body) \in Nat /\ DOMAIN fun.body = 1 .. Len(fun.body)
           /\ RegisterNames[f] \in Seq(Names)
           /\ DOMAIN RegisterNames[f] = 1 .. Len(RegisterNames[f])
           /\ Len(RegisterNames[f]) \in Nat
           /\ Len(fun.params) + Len(fun.body) <= Len(RegisterNames[f])
<1>1. WellFormed(m)
  BY ModulesAssumption
<1>2. /\ fun.params \in Seq(Types) /\ fun.body \in Seq(Instructions)
      /\ Len(fun.params) + Len(fun.body) <= Len(RegisterNames[f])
  BY <1>1 DEF WellFormed
<1>3. RegisterNames[f] \in Seq(Names)
  BY NamesAssumption
<1> QED
  BY <1>2, <1>3, LenProperties

LEMMA InstructionTypes ==
    ASSUME NEW m \in Modules, NEW f \in Functions, NEW fun, fun = m.functions[f],
           NEW k \in 1 .. Len(fun.body), NEW i, i = fun.body[k]
    PROVE  /\ i.do \in {"alloc", "gate", "measure", "call"}
           /\ i.do \in {"gate", "measure"} => i.on \in QubitsBefore(fun, k)
           /\ i.do = "call" =>
                 /\ i.fn \in Functions
                 /\ DOMAIN i.args = DOMAIN QubitParams(m.functions[i.fn])
                 /\ \A a \in DOMAIN i.args : i.args[a] \in QubitsBefore(fun, k)
<1>1. WellFormed(m)
  BY ModulesAssumption
<1>2. fun.body \in Seq(Instructions) /\ k \in DOMAIN fun.body
  BY <1>1, LenProperties DEF WellFormed
<1>3. i \in Instructions
  BY <1>2, LenProperties
<1>4. i.do \in {"alloc", "gate", "measure", "call"} /\ (i.do = "call" => i.fn \in Functions)
  BY <1>3 DEF Instructions
<1>5. /\ i.do \in {"gate", "measure"} => i.on \in QubitsBefore(fun, k)
      /\ i.do = "call" => i.args \in [DOMAIN QubitParams(m.functions[i.fn]) -> QubitsBefore(fun, k)]
  BY ZenonT(30), <1>1, <1>2 DEF WellFormed, QubitsBefore
<1> QED
  BY <1>4, <1>5

LEMMA Counts ==
    ASSUME NEW fun, NEW n \in Nat, n = Len(fun.body), NEW k \in 1 .. n
    PROVE  /\ Emitted(fun, k) \in Nat /\ Allotted(fun, k) \in Nat
           /\ Emitted(fun, k + 1) \in Nat /\ Allotted(fun, k + 1) \in Nat
           /\ Emitted(fun, 1) = 0 /\ Allotted(fun, 1) = 0
           /\ fun.body[k].do = "alloc" => /\ Emitted(fun, k + 1) = Emitted(fun, k)
                                          /\ Allotted(fun, k + 1) = Allotted(fun, k) + 1
           /\ fun.body[k].do # "alloc" => /\ Emitted(fun, k + 1) = Emitted(fun, k) + 1
                                          /\ Allotted(fun, k + 1) = Allotted(fun, k)
<1>1. Emitters(fun) \in SUBSET (Nat \ {0}) /\ Allocations(fun) \in SUBSET (Nat \ {0})
  BY DEF Emitters, Allocations
<1>2. k \in Nat /\ k + 1 \in Nat
  OBVIOUS
<1>3. /\ k \in Emitters(fun) <=> fun.body[k].do # "alloc"
      /\ k \in Allocations(fun) <=> fun.body[k].do = "alloc"
  BY DEF Emitters, Allocations
<1>4. /\ Emitted(fun, k) \in Nat /\ Emitted(fun, k + 1) \in Nat
      /\ Allotted(fun, k) \in Nat /\ Allotted(fun, k + 1) \in Nat
  BY <1>1, <1>2, UnderFinite DEF Emitted, Allotted
<1>5. Emitted(fun, 1) = 0 /\ Allotted(fun, 1) = 0
  BY <1>1, UnderNone DEF Emitted, Allotted
<1>6. /\ Emitted(fun, k + 1) = IF k \in Emitters(fun) THEN Emitted(fun, k) + 1 ELSE Emitted(fun, k)
      /\ Allotted(fun, k + 1) =
            IF k \in Allocations(fun) THEN Allotted(fun, k) + 1 ELSE Allotted(fun, k)
  BY <1>1, <1>2, UnderNext DEF Emitted, Allotted
<1> QED
  BY <1>3, <1>4, <1>5, <1>6

LEMMA CountsGrow ==
    ASSUME NEW fun, NEW j \in Nat, NEW k \in Nat
    PROVE  /\ Emitted(fun, j) \in Nat /\ Emitted(fun, k) \in Nat
           /\ Allotted(fun, j) \in Nat /\ Allotted(fun, k) \in Nat
           /\ j <= k => Emitted(fun, j) <= Emitted(fun, k) /\ Allotted(fun, j) <= Allotted(fun, k)
           /\ j < k /\ j \in Emitters(fun) => Emitted(fun, j) + 1 <= Emitted(fun, k)
           /\ j < k /\ j \in Allocations(fun) => Allotted(fun, j) + 1 <= Allotted(fun, k)
<1>1. Emitters(fun) \in SUBSET (Nat \ {0}) /\ Allocations(fun) \in SUBSET (Nat \ {0})
  <2>1. \A i \in 1 .. Len(fun.body) : i \in Nat /\ i # 0
    OBVIOUS
  <2> QED
    BY <2>1 DEF Emitters, Allocations
<1>2. /\ Emitted(fun, j) \in Nat /\ Emitted(fun, k) \in Nat
      /\ Allotted(fun, j) \in Nat /\ Allotted(fun, k) \in Nat
  BY <1>1, UnderFinite DEF Emitted, Allotted
<1>3. /\ j <= k => Emitted(fun, j) <= Emitted(fun, k)
      /\ j < k /\ j \in Emitters(fun) => Emitted(fun, j) + 1 <= Emitted(fun, k)
  BY <1>1, UnderGrows DEF Emitted
<1>4. /\ j <= k => Allotted(fun, j) <= Allotted(fun, k)
      /\ j < k /\ j \in Allocations(fun) => Allotted(fun, j) + 1 <= Allotted(fun, k)
  BY <1>1, UnderGrows DEF Allotted
<1> QED
  BY <1>2, <1>3, <1>4

LEMMA QubitsGrow ==
    ASSUME NEW fun, Len(fun.params) \in Nat, Len(fun.body) \in Nat,
           NEW k \in 1 .. Len(fun.body)
    PROVE  /\ fun.body[k].do = "alloc" =>
                 QubitsBefore(fun, k + 1) = QubitsBefore(fun, k) \union {Len(fun.params) + k}
           /\ fun.body[k].do # "alloc" => QubitsBefore(fun, k + 1) = QubitsBefore(fun, k)
           /\ IsQubit(fun, Len(fun.params) + k) <=> fun.body[k].do = "alloc"
           /\ Len(fun.params) + k \notin QubitsBefore(fun, k)
<1>1. PICK p \in Nat : p = Len(fun.params)
  OBVIOUS
<1>2. PICK n \in Nat : n = Len(fun.body)
  OBVIOUS
<1>3. PICK r \in Nat : r = p + k
  BY <1>2
<1>4. k \in 1 .. n
  BY <1>2
<1>5. ~(r <= p) /\ r - p = k /\ 1 <= r /\ r <= p + n
  BY <1>3, <1>4
<1>6. r \in 1 .. p + n
  BY <1>5
<1>7. IsQubit(fun, r) <=> fun.body[k].do = "alloc"
  BY <1>1, <1>2, <1>5, <1>6 DEF IsQubit
<1>8. /\ 1 .. p + (k + 1) - 1 = (1 .. p + k - 1) \union {r}
      /\ r \notin 1 .. p + k - 1
  BY <1>3, <1>4
<1>9. /\ QubitsBefore(fun, k + 1) = {s \in 1 .. p + (k + 1) - 1 : IsQubit(fun, s)}
      /\ QubitsBefore(fun, k) = {s \in 1 .. p + k - 1 : IsQubit(fun, s)}
  BY <1>1 DEF QubitsBefore
<1>10. /\ fun.body[k].do = "alloc" =>
             QubitsBefore(fun, k + 1) = QubitsBefore(fun, k) \union {r}
       /\ fun.body[k].do # "alloc" => QubitsBefore(fun, k + 1) = QubitsBefore(fun, k)
       /\ r \notin QubitsBefore(fun, k)
  BY <1>7, <1>8, <1>9
<1>11. r = Len(fun.params) + k
  BY <1>1, <1>3
<1> QED
  BY <1>7, <1>10, <1>11

LEMMA QubitParameters ==
    ASSUME NEW fun, NEW p \in Nat, p = Len(fun.params), DOMAIN fun.params = 1 .. p,
           NEW n \in Nat, n = Len(fun.body)
    PROVE  QubitsBefore(fun, 1) = {j \in DOMAIN fun.params : fun.params[j] = "Qubit*"}
<1>1. p + 1 - 1 = p
  OBVIOUS
<1>2. \A r \in 1 .. p : r <= p /\ r \in 1 .. p + n
  <2>1. \A q, l \in Nat : \A r \in 1 .. q : r <= q /\ r \in 1 .. q + l
    OBVIOUS
  <2> QED
    BY <2>1
<1>3. \A r \in 1 .. p : IsQubit(fun, r) <=> fun.params[r] = "Qubit*"
  BY <1>2 DEF IsQubit
<1> QED
  BY <1>1, <1>3 DEF QubitsBefore

LEMMA QubitsNamed ==
    ASSUME NEW m \in Modules, NEW f \in Functions, NEW fun, fun = m.functions[f],
           NEW k \in Nat, NEW r \in QubitsBefore(fun, k)
    PROVE  IsQubit(fun, r) /\ r \in DOMAIN RegisterNames[f]
<1> DEFINE p == Len(fun.params)
           n == Len(fun.body)
           l == Len(RegisterNames[f])
<1>1. p \in Nat /\ n \in Nat /\ l \in Nat /\ p + n <= l /\ DOMAIN RegisterNames[f] = 1 .. l
  BY BodyTypes
<1>2. IsQubit(fun, r) /\ r \in 1 .. p + n
  BY DEF QubitsBefore, IsQubit
<1> HIDE DEF p, n, l
<1>3. r \in 1 .. l
  BY <1>1, <1>2
<1> QED
  BY <1>1, <1>2, <1>3

-----------------------------------------------------------------------------
(* What a step does to the frame whose instruction it translates. *)

LEMMA FreshFrame ==
    ASSUME NEW m \in Modules, NEW D, NEW f \in Functions, f \in m.defined,
           NEW fun, fun = m.functions[f], NEW fr,
           fr = [fn |-> f, next |-> 1, nextQubit |-> 0, code |-> <<>>,
                 locals |-> [n \in {NameOf(f, i) : i \in {j \in DOMAIN fun.params :
                                              fun.params[j] = "Qubit*"}} |-> Variable(n)]]
    PROVE  FrameOK(m, D, fr) /\ fr.fn = f
<1>1. /\ Len(fun.params) \in Nat /\ DOMAIN fun.params = 1 .. Len(fun.params)
      /\ Len(fun.body) \in Nat
  BY BodyTypes
<1>2. QubitsBefore(fun, 1) = {j \in DOMAIN fun.params : fun.params[j] = "Qubit*"}
  BY <1>1, QubitParameters
<1>3. Emitted(fun, 1) = 0 /\ Allotted(fun, 1) = 0
  <2>1. \A i \in 1 .. Len(fun.body) : i \in Nat /\ i # 0
    BY <1>1
  <2>2. Emitters(fun) \in SUBSET (Nat \ {0}) /\ Allocations(fun) \in SUBSET (Nat \ {0})
    BY <2>1 DEF Emitters, Allocations
  <2> QED
    BY <2>2, UnderNone DEF Emitted, Allotted
<1>4. Binds(f, fun, 1, fr.locals)
  <2>1. fr.locals = [n \in {NameOf(f, i) : i \in QubitsBefore(fun, 1)} |-> Variable(n)]
    BY <1>2
  <2>2. \A r \in QubitsBefore(fun, 1) : Stands(f, fun, r) = Variable(NameOf(f, r))
    BY <1>1, <1>2 DEF Stands
  <2> QED
    BY ZenonT(30), <2>1, <2>2 DEF Binds
<1>5. Listed(fr.code, Emitted(fun, 1))
  <2>1. <<>> \in Seq({}) /\ Len(<<>>) = 0
    BY EmptySeq
  <2>2. Listed(<<>>, 0)
    BY <2>1, ListedSeq
  <2> QED
    BY <2>2, <1>3
<1>6. CodeUpTo(f, fun, 1, fr.code) /\ Answered(fun, D, 1)
  <2>1. \A j \in 1 .. Len(fun.body) : ~(j < 1)
    BY <1>1
  <2> QED
    BY <2>1 DEF CodeUpTo, Answered, Emitters
<1> QED
  BY <1>1, <1>3, <1>4, <1>5, <1>6 DEF FrameOK

(* An allocation binds the register it defines to the next number. *)
LEMMA AllocatingFrame ==
    ASSUME NEW m \in Modules, NEW D, NEW frame, FrameOK(m, D, frame),
           NEW fun, fun = m.functions[frame.fn],
           frame.next <= Len(fun.body), fun.body[frame.next].do = "alloc",
           NEW r, r = Len(fun.params) + frame.next,
           NEW fr, fr.fn = frame.fn, fr.next = frame.next + 1,
           fr.nextQubit = frame.nextQubit + 1, fr.code = frame.code,
           fr.locals = Insert(frame.locals, NameOf(frame.fn, r), Fixed(frame.nextQubit))
    PROVE  FrameOK(m, D, fr)
<1>0. PICK f, k : f = frame.fn /\ k = frame.next
  OBVIOUS
<1> DEFINE n == NameOf(f, r)
           Before == QubitsBefore(fun, k)
<1>1. /\ f \in Functions /\ f \in m.defined /\ k \in 1 .. Len(fun.body) + 1
      /\ frame.nextQubit = Allotted(fun, k)
      /\ Binds(f, fun, k, frame.locals)
      /\ Listed(frame.code, Emitted(fun, k))
      /\ CodeUpTo(f, fun, k, frame.code)
      /\ Answered(fun, D, k)
  BY <1>0 DEF FrameOK
<1>2. /\ Len(fun.params) \in Nat /\ Len(fun.body) \in Nat
      /\ DOMAIN fun.params = 1 .. Len(fun.params)
  BY SMTT(20), <1>0, <1>1, BodyTypes
<1>3. k \in 1 .. Len(fun.body)
  BY <1>0, <1>1, <1>2
<1>4. Emitted(fun, k + 1) = Emitted(fun, k) /\ Allotted(fun, k + 1) = Allotted(fun, k) + 1
  BY <1>0, <1>2, <1>3, Counts
<1>5. /\ QubitsBefore(fun, k + 1) = Before \union {r}
      /\ \A s \in Before : s # r
      /\ IsQubit(fun, r) /\ r \in DOMAIN RegisterNames[f]
      /\ \A s \in Before : IsQubit(fun, s) /\ s \in DOMAIN RegisterNames[f]
  <2>1. /\ QubitsBefore(fun, k + 1) = Before \union {r}
        /\ IsQubit(fun, r) /\ r \notin Before
    <3>1. fun.body[k].do = "alloc" /\ r = Len(fun.params) + k
      BY <1>0
    <3>2. /\ QubitsBefore(fun, k + 1) = QubitsBefore(fun, k) \union {Len(fun.params) + k}
          /\ IsQubit(fun, Len(fun.params) + k)
          /\ Len(fun.params) + k \notin QubitsBefore(fun, k)
      BY <1>2, <1>3, <3>1, QubitsGrow
    <3> QED
      BY <3>1, <3>2
  <2>2. k + 1 \in Nat /\ k \in Nat
    BY <1>3
  <2>3. r \in DOMAIN RegisterNames[f]
    BY <1>0, <1>1, <2>1, <2>2, QubitsNamed
  <2>4. \A s \in Before : IsQubit(fun, s) /\ s \in DOMAIN RegisterNames[f]
    BY <1>0, <1>1, <2>2, QubitsNamed
  <2> QED
    BY <2>1, <2>3, <2>4
<1>6. Stands(f, fun, r) = Fixed(frame.nextQubit)
  <2>1. PICK p \in Nat : p = Len(fun.params)
    BY <1>2
  <2>2. k \in Nat /\ k >= 1 /\ r = p + k
    BY <1>0, <1>2, <1>3, <2>1
  <2>3. r - p = k /\ ~(r <= p)
    <3>1. PICK j \in Nat : j = k /\ j >= 1 /\ r = p + j
      BY <2>2
    <3>2. (p + j) - p = j /\ ~(p + j <= p)
      BY <3>1
    <3> QED
      BY <3>1, <3>2
  <2>4. Stands(f, fun, r) = Fixed(Allotted(fun, r - Len(fun.params)))
    BY <2>1, <2>3 DEF Stands
  <2>5. r - Len(fun.params) = k
    BY <2>1, <2>3
  <2> QED
    BY <2>4, <2>5, <1>1
<1> HIDE DEF n
<1>7. Binds(f, fun, k + 1, fr.locals)
  <2>1. fr.locals = Insert(frame.locals, n, Fixed(frame.nextQubit))
    BY <1>0 DEF n
  <2>2. /\ DOMAIN fr.locals = DOMAIN frame.locals \union {n}
        /\ fr.locals[n] = Fixed(frame.nextQubit)
        /\ \A x \in DOMAIN frame.locals : x # n => fr.locals[x] = frame.locals[x]
    BY <2>1 DEF Insert
  <2>3. DOMAIN frame.locals = {NameOf(f, s) : s \in Before}
    BY <1>1 DEF Binds
  <2>4. DOMAIN fr.locals = {NameOf(f, s) : s \in QubitsBefore(fun, k + 1)}
    BY ZenonT(30), <2>2, <2>3, <1>5 DEF n
  <2>5. ASSUME Apart(f, fun), NEW s \in QubitsBefore(fun, k + 1)
        PROVE  fr.locals[NameOf(f, s)] = Stands(f, fun, s)
    <3>1. CASE s = r
      BY <3>1, <2>2, <1>6 DEF n
    <3>2. CASE s \in Before
      <4>1. NameOf(f, s) # n
        BY <3>2, <2>5, <1>5 DEF Apart, n
      <4>2. NameOf(f, s) \in DOMAIN frame.locals
        BY <3>2, <2>3
      <4>3. frame.locals[NameOf(f, s)] = Stands(f, fun, s)
        BY <3>2, <2>5, <1>1 DEF Binds
      <4> QED
        BY <4>1, <4>2, <4>3, <2>2
    <3> QED
      BY <3>1, <3>2, <1>5, <2>5
  <2> QED
    BY <2>4, <2>5 DEF Binds
<1>8. CodeUpTo(f, fun, k + 1, fr.code) /\ Answered(fun, D, k + 1)
  <2>1. \A j \in 1 .. Len(fun.body) : j < k + 1 => j < k \/ j = k
    BY <1>3, <1>2
  <2>2. fun.body[k].do = "alloc"
    BY <1>0
  <2>3. CodeUpTo(f, fun, k + 1, fr.code)
    BY <1>1, <2>1, <2>2 DEF CodeUpTo, Emitters
  <2>4. Answered(fun, D, k + 1)
    BY <1>1, <2>1, <2>2 DEF Answered
  <2> QED
    BY <2>3, <2>4
<1>9. fr.fn = f /\ fr.next = k + 1 /\ k + 1 \in 1 .. Len(fun.body) + 1
  BY <1>0, <1>2, <1>3
<1>10. Listed(fr.code, Emitted(fun, k + 1)) /\ fr.nextQubit = Allotted(fun, k + 1)
  BY <1>1, <1>4
<1>11. fun = m.functions[f]
  BY <1>0
<1> QED
  BY <1>1, <1>7, <1>8, <1>9, <1>10, <1>11 DEF FrameOK

(* More circuits are no harm. *)
LEMMA FrameGrows ==
    ASSUME NEW m, NEW D, NEW E, D \subseteq E, NEW frame, FrameOK(m, D, frame)
    PROVE  FrameOK(m, E, frame)
BY DEF FrameOK, Answered

LEMMA CircuitGrows ==
    ASSUME NEW m, NEW D, NEW E, D \subseteq E, NEW f, NEW circuit, CircuitOK(m, D, f, circuit)
    PROVE  CircuitOK(m, E, f, circuit)
BY DEF CircuitOK, BodyOK, Answered

(* Every other instruction adds one of Quil.                                *)
LEMMA EmittingFrame ==
    ASSUME NEW m \in Modules, NEW D, NEW E, D \subseteq E, NEW frame, FrameOK(m, D, frame),
           NEW fun, fun = m.functions[frame.fn],
           frame.next <= Len(fun.body), fun.body[frame.next].do # "alloc",
           fun.body[frame.next].do = "call" => fun.body[frame.next].fn \in E,
           NEW op, Becomes(frame.fn, fun, frame.next, op),
           NEW fr, fr.fn = frame.fn, fr.next = frame.next + 1,
           fr.nextQubit = frame.nextQubit, fr.locals = frame.locals,
           fr.code = frame.code \o <<op>>
    PROVE  FrameOK(m, E, fr)
<1>0. PICK f, k : f = frame.fn /\ k = frame.next
  OBVIOUS
<1>1. /\ f \in Functions /\ f \in m.defined /\ k \in 1 .. Len(fun.body) + 1
      /\ frame.nextQubit = Allotted(fun, k)
      /\ Binds(f, fun, k, frame.locals)
      /\ Listed(frame.code, Emitted(fun, k))
      /\ CodeUpTo(f, fun, k, frame.code)
      /\ Answered(fun, D, k)
  BY <1>0 DEF FrameOK
<1>2. Len(fun.params) \in Nat /\ Len(fun.body) \in Nat
  BY <1>0, <1>1, BodyTypes
<1>3. k \in 1 .. Len(fun.body)
  BY SMTT(20), <1>0, <1>1, <1>2
<1>4. fun.body[k].do # "alloc"
  BY <1>0
<1>5. Emitted(fun, k + 1) = Emitted(fun, k) + 1 /\ Allotted(fun, k + 1) = Allotted(fun, k)
  BY <1>2, <1>3, <1>4, Counts
<1>6. Binds(f, fun, k + 1, fr.locals)
  <2>1. QubitsBefore(fun, k + 1) = QubitsBefore(fun, k)
    BY <1>2, <1>3, <1>4, QubitsGrow
  <2> QED
    BY <1>1, <2>1 DEF Binds
<1>7. PICK n : n = Emitted(fun, k)
  OBVIOUS
<1>8. Listed(fr.code, n + 1) /\ Agree(fr.code, frame.code, n) /\ fr.code[n + 1] = op
  <2>1. Listed(frame.code, n)
    BY <1>1, <1>7
  <2>2. fr.code = Append(frame.code, op)
    BY <2>1, ListedConcat
  <2>3. /\ Listed(Append(frame.code, op), n + 1)
        /\ Agree(Append(frame.code, op), frame.code, n)
        /\ EndsWith(Append(frame.code, op), n + 1, op)
    BY <2>1, ListedAppend
  <2> QED
    BY <2>2, <2>3 DEF EndsWith
<1>9. CodeUpTo(f, fun, k + 1, fr.code)
  <2> SUFFICES ASSUME NEW j \in Emitters(fun), j < k + 1
               PROVE  Becomes(f, fun, j, fr.code[Emitted(fun, j) + 1])
    BY DEF CodeUpTo
  <2>1. j \in Nat /\ k \in Nat
    BY SMTT(20), <1>2, <1>3 DEF Emitters
  <2>2. CASE j = k
    BY <2>2, <1>0, <1>7, <1>8
  <2>3. CASE j < k
    <3>1. Becomes(f, fun, j, frame.code[Emitted(fun, j) + 1])
      BY <2>3, <1>1 DEF CodeUpTo
    <3>2. Emitted(fun, j) + 1 \in 1 .. n
      <4>1. Emitted(fun, j) \in Nat /\ n \in Nat /\ Emitted(fun, j) + 1 <= n
        BY <2>1, <2>3, <1>7, CountsGrow
      <4> QED
        BY <4>1
    <3>3. fr.code[Emitted(fun, j) + 1] = frame.code[Emitted(fun, j) + 1]
      BY <3>2, <1>8 DEF Agree
    <3> QED
      BY <3>1, <3>3
  <2>4. j < k \/ j = k
    BY <2>1
  <2> QED
    BY <2>2, <2>3, <2>4
<1>10. Answered(fun, E, k + 1)
  <2>1. \A j \in 1 .. Len(fun.body) : j < k + 1 => j < k \/ j = k
    BY <1>2, <1>3
  <2> QED
    BY <2>1, <1>0, <1>1 DEF Answered
<1>11. fr.fn = f /\ fr.next = k + 1 /\ k + 1 \in 1 .. Len(fun.body) + 1
  BY <1>0, <1>2, <1>3
<1>12. Listed(fr.code, Emitted(fun, k + 1)) /\ fr.nextQubit = Allotted(fun, k + 1)
  BY <1>0, <1>1, <1>5, <1>7, <1>8
<1>13. fun = m.functions[f]
  BY <1>0
<1> QED
  BY <1>1, <1>6, <1>9, <1>10, <1>11, <1>12, <1>13 DEF FrameOK

(* What the local environment has for an operand. *)
LEMMA LocalStands ==
    ASSUME NEW m, NEW D, NEW frame, FrameOK(m, D, frame),
           NEW fun, fun = m.functions[frame.fn], Apart(frame.fn, fun),
           NEW r \in QubitsBefore(fun, frame.next)
    PROVE  Local(frame, r) = Stands(frame.fn, fun, r)
BY DEF FrameOK, Binds, Local

(* A body that is translated to its end gives a circuit. *)
LEMMA FinishedFrame ==
    ASSUME NEW m \in Modules, NEW D, NEW frame, FrameOK(m, D, frame),
           NEW fun, fun = m.functions[frame.fn], frame.next > Len(fun.body),
           NEW code,
           code = IF fun.ret.returns # "register" THEN frame.code
                  ELSE Append(frame.code, Move(ReturnLabel(FunctionNames[frame.fn]),
                                               Region(frame.fn, fun.ret.register)))
    PROVE  BodyOK(m, D, frame.fn, code)
<1>0. PICK f, k : f = frame.fn /\ k = Len(fun.body) + 1
  OBVIOUS
<1>1. f \in Functions /\ frame.next \in 1 .. Len(fun.body) + 1
  BY <1>0 DEF FrameOK
<1>2. Len(fun.body) \in Nat
  BY <1>0, <1>1, BodyTypes
<1>3. frame.next = k
  BY <1>0, <1>1, <1>2
<1>4. /\ Listed(frame.code, Emitted(fun, k))
      /\ CodeUpTo(f, fun, k, frame.code)
      /\ Answered(fun, D, k)
  BY <1>0, <1>3 DEF FrameOK
<1>5. CASE ~Moving(fun)
  <2>1. code = frame.code
    BY <1>5 DEF Moving
  <2> QED
    BY <2>1, <1>0, <1>4, <1>5 DEF BodyOK
<1>6. CASE Moving(fun)
  <2>1. PICK op : op = Move(ReturnLabel(FunctionNames[f]), Region(f, fun.ret.register))
    OBVIOUS
  <2>2. PICK n : n = Emitted(fun, k)
    OBVIOUS
  <2>3. code = Append(frame.code, op)
    BY <1>0, <1>6, <2>1 DEF Moving
  <2>4. Listed(code, n + 1) /\ Agree(code, frame.code, n) /\ code[n + 1] = op
    <3>1. Listed(frame.code, n)
      BY <1>4, <2>2
    <3>2. /\ Listed(Append(frame.code, op), n + 1)
          /\ Agree(Append(frame.code, op), frame.code, n)
          /\ EndsWith(Append(frame.code, op), n + 1, op)
      BY <3>1, ListedAppend
    <3> QED
      BY <2>3, <3>2 DEF EndsWith
  <2>5. CodeUpTo(f, fun, k, code)
    <3> SUFFICES ASSUME NEW j \in Emitters(fun), j < k
                 PROVE  Becomes(f, fun, j, code[Emitted(fun, j) + 1])
      BY DEF CodeUpTo
    <3>1. j \in Nat /\ k \in Nat
      BY <1>0, <1>2 DEF Emitters
    <3>2. Emitted(fun, j) \in Nat /\ n \in Nat /\ Emitted(fun, j) + 1 <= n
      BY <3>1, <2>2, CountsGrow
    <3>3. Emitted(fun, j) + 1 \in 1 .. n
      BY <3>2
    <3>4. code[Emitted(fun, j) + 1] = frame.code[Emitted(fun, j) + 1]
      BY <3>3, <2>4 DEF Agree
    <3> QED
      BY <3>4, <1>4 DEF CodeUpTo
  <2> QED
    BY <2>1, <2>2, <2>4, <2>5, <1>0, <1>4, <1>6 DEF BodyOK
<1> QED
  BY <1>5, <1>6

-----------------------------------------------------------------------------
(* The invariant: D are the functions that have circuits, V the names of    *)
(* the global environment.                                                  *)

CalleesOf(fun) == {fun.body[k].fn : k \in {j \in 1 .. Len(fun.body) : fun.body[j].do = "call"}}

(* The circuits can be put in an order in which each applies earlier ones:  *)
(* of any of them there is one that applies none of them.                   *)
Grounded(m, D) ==
    \A S \in SUBSET D : S # {} => \E f \in S : \A g \in CalleesOf(m.functions[f]) : g \notin S

Underway(m, D, V, frame) ==
    FrameOK(m, D, frame) /\ frame.fn \notin D /\ RegionsOf(frame.code) \subseteq V

Built(m, D, V, f, circuit) ==
    CircuitOK(m, D, f, circuit) /\ RegionsOf(circuit.code) \subseteq V

(* A translation that is not the innermost waits for the circuit of the     *)
(* function whose translation is the next.                                  *)
Waits(m, frame, g) ==
    LET fun == m.functions[frame.fn]
    IN  /\ frame.next <= Len(fun.body)
        /\ fun.body[frame.next].do = "call"
        /\ fun.body[frame.next].fn = g

StackOK(m, D, V, stk) ==
    /\ Listed(stk, Len(stk))
    /\ stk # <<>> => stk[1].fn = Entry
    /\ \A i \in 1 .. Len(stk) : Underway(m, D, V, stk[i])
    /\ \A i, j \in 1 .. Len(stk) : j = i + 1 => Waits(m, stk[i], stk[j].fn)

CircuitsOK(m, V, circs) ==
    /\ \A f \in DOMAIN circs : Built(m, DOMAIN circs, V, f, circs[f])
    /\ Grounded(m, DOMAIN circs)

Numbers(fun) == \A i \in DOMAIN fun.params : fun.params[i] \in {"i64", "double"}

(* Before the bodies there is no translation and no circuit; then there is *)
(* one, of which an overflow or a missing body leaves the trace.           *)
Prepared ==
    /\ status \in {"started", "read", "found", "constants"} => stack = <<>> /\ circuits = <<>>
    /\ status \in {"found", "constants"} => Entry \in module.defined
    /\ status \in {"running", "done", "overflow", "MissingFunctionDefinition"} => stack # <<>>
    /\ stack # <<>> => Numbers(module.functions[Entry])

Statuses == {"started", "read", "found", "constants", "running", "done", "overflow",
             "InvalidLLVMByteCode", "NoEntryPoint", "UnsupportedFloatType",
             "UnsupportedParameterType", "MissingFunctionDefinition", "MissingOperandName"}

(* The output holds what the global environment does. *)
OutputOK(m, circs, V, out) ==
    /\ out.circuits = circs
    /\ out.variables = {[name |-> n, type |-> "INTEGER"] : n \in V}
    /\ BodyOK(m, DOMAIN circs, Entry, out.code)
    /\ RegionsOf(out.code) \subseteq V

TInv ==
    /\ module \in Modules /\ status \in Statuses
    /\ StackOK(module, DOMAIN circuits, DOMAIN variables, stack)
    /\ CircuitsOK(module, DOMAIN variables, circuits)
    /\ \A n \in DOMAIN variables : variables[n] \in Kinds
    /\ Prepared
    /\ status = "done" => OutputOK(module, circuits, DOMAIN variables, program)

-----------------------------------------------------------------------------
(* What steps do to the stack and to the circuits. *)

LEMMA StackTop ==
    ASSUME NEW m, NEW D, NEW V, NEW stk, StackOK(m, D, V, stk), stk # <<>>
    PROVE  /\ Len(stk) \in Nat /\ Len(stk) >= 1 /\ DOMAIN stk = 1 .. Len(stk)
           /\ Underway(m, D, V, stk[Len(stk)])
           /\ \E S : stk \in Seq(S)
<1>1. Listed(stk, Len(stk))
  BY DEF StackOK
<1>2. PICK S : stk \in Seq(S)
  BY <1>1, ListedWith
<1>3. Len(stk) \in Nat /\ Len(stk) # 0 /\ DOMAIN stk = 1 .. Len(stk)
  BY <1>2, LenProperties, EmptySeq
<1> QED
  BY <1>2, <1>3 DEF StackOK

LEMMA Widened ==
    ASSUME NEW m, NEW D, NEW E, D \subseteq E, NEW V, NEW W, V \subseteq W,
           NEW frame, Underway(m, D, V, frame), frame.fn \notin E
    PROVE  Underway(m, E, W, frame)
BY FrameGrows DEF Underway

(* The innermost translation goes on. *)
LEMMA StackReplaced ==
    ASSUME NEW m, NEW D, NEW V, NEW W, V \subseteq W,
           NEW stk, StackOK(m, D, V, stk), stk # <<>>,
           NEW fr, Underway(m, D, W, fr), fr.fn = stk[Len(stk)].fn
    PROVE  /\ StackOK(m, D, W, Append(SubSeq(stk, 1, Len(stk) - 1), fr))
           /\ Append(SubSeq(stk, 1, Len(stk) - 1), fr) # <<>>
<1>0. PICK t : t = Append(SubSeq(stk, 1, Len(stk) - 1), fr)
  OBVIOUS
<1>1. Listed(stk, Len(stk))
  BY DEF StackOK
<1>2. PICK S : stk \in Seq(S) /\ fr \in S
  BY <1>1, ListedWith
<1>3. PICK n \in Nat : n = Len(stk) /\ n >= 1
  BY StackTop
<1>4. /\ t \in Seq(S) /\ t # <<>> /\ Len(t) = n
      /\ \A i \in 1 .. n - 1 : t[i] = stk[i]
      /\ t[n] = fr
  BY <1>0, <1>2, <1>3, TopReplaced
<1>5. Listed(t, Len(t))
  BY <1>4, ListedSeq
<1>6. \A i \in 1 .. n : i \in 1 .. n - 1 \/ i = n
  BY <1>3
<1>7. \A i \in 1 .. n : t[i].fn = stk[i].fn
  BY <1>3, <1>4, <1>6
<1>8. t[1].fn = Entry
  BY <1>3, <1>7 DEF StackOK
<1>9. ASSUME NEW i \in 1 .. n
      PROVE  Underway(m, D, W, t[i])
  <2>1. CASE i = n
    BY <2>1, <1>4
  <2>2. CASE i \in 1 .. n - 1
    <3>1. Underway(m, D, V, stk[i])
      BY <1>3 DEF StackOK
    <3>2. Underway(m, D, W, stk[i])
      BY <3>1, Widened DEF Underway
    <3> QED
      BY <3>2, <2>2, <1>4
  <2> QED
    BY <2>1, <2>2, <1>6
<1>10. ASSUME NEW i \in 1 .. n, NEW j \in 1 .. n, j = i + 1
       PROVE  Waits(m, t[i], t[j].fn)
  <2>1. i \in 1 .. n - 1
    BY <1>3, <1>10
  <2>2. Waits(m, stk[i], stk[j].fn)
    BY <1>3, <1>10 DEF StackOK
  <2> QED
    BY <2>1, <2>2, <1>4, <1>7
<1> QED
  BY <1>0, <1>4, <1>5, <1>8, <1>9, <1>10 DEF StackOK

(* A translation starts for a call of the innermost. *)
LEMMA StackPushed ==
    ASSUME NEW m, NEW D, NEW V, NEW stk, StackOK(m, D, V, stk), stk # <<>>,
           NEW fr, Underway(m, D, V, fr), Waits(m, stk[Len(stk)], fr.fn)
    PROVE  StackOK(m, D, V, Append(stk, fr)) /\ Append(stk, fr) # <<>>
<1>0. PICK t : t = Append(stk, fr)
  OBVIOUS
<1>1. Listed(stk, Len(stk))
  BY DEF StackOK
<1>2. PICK S : stk \in Seq(S) /\ fr \in S
  BY <1>1, ListedWith
<1>3. PICK n \in Nat : n = Len(stk) /\ n >= 1
  BY StackTop
<1>4. /\ t \in Seq(S) /\ t # <<>> /\ Len(t) = n + 1
      /\ \A i \in 1 .. n : t[i] = stk[i]
      /\ t[n + 1] = fr
  BY <1>0, <1>2, <1>3, OnePushed
<1>5. Listed(t, Len(t))
  BY <1>4, ListedSeq
<1>6. \A i \in 1 .. n + 1 : i \in 1 .. n \/ i = n + 1
  BY <1>3
<1>7. t[1].fn = Entry
  BY <1>3, <1>4 DEF StackOK
<1>8. ASSUME NEW i \in 1 .. n + 1
      PROVE  Underway(m, D, V, t[i])
  BY <1>3, <1>4, <1>6 DEF StackOK
<1>9. ASSUME NEW i \in 1 .. n + 1, NEW j \in 1 .. n + 1, j = i + 1
      PROVE  Waits(m, t[i], t[j].fn)
  <2>1. CASE j = n + 1
    <3>1. i = n
      BY <2>1, <1>3, <1>9
    <3> QED
      BY <2>1, <3>1, <1>3, <1>4
  <2>2. CASE j \in 1 .. n
    <3>1. i \in 1 .. n
      BY <2>2, <1>3, <1>9
    <3> QED
      BY <2>2, <3>1, <1>3, <1>4, <1>9 DEF StackOK
  <2> QED
    BY <2>1, <2>2, <1>6
<1> QED
  BY <1>0, <1>4, <1>5, <1>7, <1>8, <1>9 DEF StackOK

(* The innermost translation is the only one of its function: another would *)
(* wait for a circuit that is there.                                        *)
LEMMA TopAlone ==
    ASSUME NEW m, NEW D, NEW V, NEW stk, StackOK(m, D, V, stk), stk # <<>>,
           CalleesOf(m.functions[stk[Len(stk)].fn]) \subseteq D,
           NEW i \in 1 .. Len(stk), i # Len(stk)
    PROVE  stk[i].fn # stk[Len(stk)].fn
<1>1. PICK n \in Nat : n = Len(stk) /\ n >= 1
  BY StackTop
<1>2. PICK j \in 1 .. n : j = i + 1
  BY <1>1
<1>3. Waits(m, stk[i], stk[j].fn) /\ Underway(m, D, V, stk[j]) /\ Underway(m, D, V, stk[i])
  BY <1>1, <1>2 DEF StackOK
<1>4. PICK fun, k : fun = m.functions[stk[i].fn] /\ k = stk[i].next
  OBVIOUS
<1>5. k \in 1 .. Len(fun.body) + 1 /\ k <= Len(fun.body)
  BY <1>3, <1>4 DEF Waits, Underway, FrameOK
<1>6. k \in 1 .. Len(fun.body)
  BY <1>5
<1>7. stk[j].fn \in CalleesOf(fun)
  BY <1>3, <1>4, <1>6 DEF Waits, CalleesOf
<1>8. stk[j].fn \notin D
  BY <1>3 DEF Underway
<1> QED
  BY <1>4, <1>7, <1>8

(* The innermost translation has become a circuit, and the one that waited  *)
(* goes on.                                                                 *)
LEMMA StackPopped ==
    ASSUME NEW m, NEW D, NEW E, NEW V, NEW W, V \subseteq W,
           NEW stk, StackOK(m, D, V, stk), Len(stk) > 1,
           CalleesOf(m.functions[stk[Len(stk)].fn]) \subseteq D,
           E = D \union {stk[Len(stk)].fn},
           NEW b, b = SubSeq(stk, 1, Len(stk) - 1),
           NEW fr, fr.fn = b[Len(b)].fn, FrameOK(m, E, fr), RegionsOf(fr.code) \subseteq W
    PROVE  /\ StackOK(m, E, W, Append(SubSeq(b, 1, Len(b) - 1), fr))
           /\ Append(SubSeq(b, 1, Len(b) - 1), fr) # <<>>
<1>0. PICK t : t = Append(SubSeq(b, 1, Len(b) - 1), fr)
  OBVIOUS
<1>1. Listed(stk, Len(stk))
  BY DEF StackOK
<1>2. PICK S : stk \in Seq(S) /\ fr \in S
  BY <1>1, ListedWith
<1>3. PICK n \in Nat : n = Len(stk) /\ n > 1 /\ stk # <<>>
  BY <1>2, LenProperties, EmptySeq
<1>4. /\ t \in Seq(S) /\ t # <<>> /\ Len(t) = n - 1
      /\ \A i \in 1 .. n - 2 : t[i] = stk[i]
      /\ t[n - 1] = fr
      /\ b[Len(b)] = stk[n - 1]
  <2>1. /\ b \in Seq(S) /\ Len(b) = Len(stk) - 1
        /\ \A i \in 1 .. Len(stk) - 1 : b[i] = stk[i]
    BY <1>2, <1>3, BelowTop
  <2>2. /\ b \in Seq(S) /\ Len(b) = n - 1
        /\ \A i \in 1 .. n - 1 : b[i] = stk[i]
    BY <1>3, <2>1
  <2>3. b # <<>>
    <3>1. Len(b) # 0
      BY <1>3, <2>2
    <3> QED
      BY <3>1, EmptySeq
  <2>4. /\ t \in Seq(S) /\ t # <<>> /\ Len(t) = Len(b)
        /\ \A i \in 1 .. Len(b) - 1 : t[i] = b[i]
        /\ t[Len(b)] = fr
    BY <1>0, <1>2, <2>2, <2>3, TopReplaced
  <2>5. \A i \in 1 .. n - 2 : i \in 1 .. Len(b) - 1 /\ i \in 1 .. n - 1
    BY <1>3, <2>2
  <2>6. \A i \in 1 .. n - 2 : t[i] = stk[i]
    BY <2>2, <2>4, <2>5
  <2> QED
    BY <1>3, <2>2, <2>4, <2>6
<1>5. Listed(t, Len(t))
  BY <1>4, ListedSeq
<1>6. \A i \in 1 .. n - 1 : (i \in 1 .. n - 2 \/ i = n - 1) /\ i \in 1 .. n /\ i # n
  BY <1>3
<1>7. \A i \in 1 .. n - 1 : t[i].fn = stk[i].fn
  BY <1>4, <1>6
<1>8. t[1].fn = Entry
  BY <1>3, <1>7 DEF StackOK
<1>9. ASSUME NEW i \in 1 .. n - 1
      PROVE  Underway(m, E, W, t[i])
  <2>1. i \in 1 .. n /\ i # n
    BY <1>6
  <2>2. Underway(m, D, V, stk[i])
    BY <2>1, <1>3 DEF StackOK
  <2>3. stk[i].fn # stk[n].fn
    BY <2>1, <1>3, TopAlone
  <2>4. stk[i].fn \notin E
    BY <2>2, <2>3, <1>3 DEF Underway
  <2>5. CASE i = n - 1
    BY <2>4, <2>5, <1>4 DEF Underway
  <2>6. CASE i \in 1 .. n - 2
    <3>1. Underway(m, E, W, stk[i])
      BY <2>2, <2>4, Widened
    <3> QED
      BY <3>1, <2>6, <1>4
  <2> QED
    BY <2>5, <2>6, <1>6
<1>10. ASSUME NEW i \in 1 .. n - 1, NEW j \in 1 .. n - 1, j = i + 1
       PROVE  Waits(m, t[i], t[j].fn)
  <2>1. i \in 1 .. n - 2
    BY <1>3, <1>10
  <2>2. i \in 1 .. n /\ j \in 1 .. n
    BY <1>6
  <2>3. Waits(m, stk[i], stk[j].fn)
    BY <2>2, <1>3, <1>10 DEF StackOK
  <2> QED
    BY <2>1, <2>3, <1>4, <1>7
<1> QED
  BY ZenonT(30), <1>0, <1>4, <1>5, <1>8, <1>9, <1>10 DEF StackOK

(* The new circuit applies earlier ones, and they do not apply it. *)
LEMMA GroundedGrows ==
    ASSUME NEW m, NEW D, Grounded(m, D), NEW f, f \notin D,
           CalleesOf(m.functions[f]) \subseteq D,
           \A g \in D : CalleesOf(m.functions[g]) \subseteq D
    PROVE  Grounded(m, D \union {f})
<1> SUFFICES ASSUME NEW S \in SUBSET (D \union {f}), S # {}
             PROVE  \E h \in S : \A g \in CalleesOf(m.functions[h]) : g \notin S
  BY DEF Grounded
<1>1. CASE S \subseteq {f}
  <2>1. f \in S /\ \A g \in CalleesOf(m.functions[f]) : g \notin S
    BY <1>1
  <2> QED
    BY <2>1
<1>2. CASE ~(S \subseteq {f})
  <2>1. PICK T : T = S \ {f}
    OBVIOUS
  <2>2. T \in SUBSET D /\ T # {}
    BY <1>2, <2>1
  <2>3. PICK h \in T : \A g \in CalleesOf(m.functions[h]) : g \notin T
    BY <2>2 DEF Grounded
  <2>4. \A g \in CalleesOf(m.functions[h]) : g \in D /\ g # f
    BY <2>2, <2>3
  <2>5. h \in S /\ \A g \in CalleesOf(m.functions[h]) : g \notin S
    BY <2>1, <2>3, <2>4
  <2> QED
    BY <2>5
<1> QED
  BY <1>1, <1>2

LEMMA CircuitInserted ==
    ASSUME NEW m, NEW V, NEW W, V \subseteq W, NEW circs, CircuitsOK(m, V, circs),
           NEW f, f \notin DOMAIN circs, NEW c,
           Built(m, DOMAIN circs, W, f, c), CalleesOf(m.functions[f]) \subseteq DOMAIN circs
    PROVE  CircuitsOK(m, W, Insert(circs, f, c))
<1>0. PICK new : new = Insert(circs, f, c)
  OBVIOUS
<1>1. PICK D : D = DOMAIN circs
  OBVIOUS
<1>2. /\ DOMAIN new = D \union {f} /\ new[f] = c
      /\ \A g \in D : g # f /\ new[g] = circs[g]
  BY <1>0, <1>1 DEF Insert
<1>3. ASSUME NEW g \in D \union {f}
      PROVE  Built(m, D \union {f}, W, g, new[g])
  <2>1. Built(m, D, W, g, new[g])
    BY <1>1, <1>2, <1>3 DEF CircuitsOK, Built
  <2>2. CircuitOK(m, D \union {f}, g, new[g])
    BY <2>1, CircuitGrows DEF Built
  <2> QED
    BY <2>1, <2>2 DEF Built
<1>4. \A g \in D : CalleesOf(m.functions[g]) \subseteq D
  <2> SUFFICES ASSUME NEW g \in D, NEW h \in CalleesOf(m.functions[g]) PROVE h \in D
    OBVIOUS
  <2>1. BodyOK(m, D, g, circs[g].code)
    BY <1>1 DEF CircuitsOK, Built, CircuitOK
  <2>2. PICK fun : fun = m.functions[g]
    OBVIOUS
  <2>3. PICK k \in 1 .. Len(fun.body) : fun.body[k].do = "call" /\ h = fun.body[k].fn
    BY <2>2 DEF CalleesOf
  <2>4. k < Len(fun.body) + 1
    OBVIOUS
  <2> QED
    BY <2>1, <2>2, <2>3, <2>4 DEF BodyOK, Answered
<1>5. Grounded(m, D \union {f})
  BY <1>1, <1>4, GroundedGrows DEF CircuitsOK
<1> QED
  BY <1>0, <1>1, <1>2, <1>3, <1>5 DEF CircuitsOK

-----------------------------------------------------------------------------
(* The steps. *)

(* The regions of one more instruction. *)
LEMMA RegionsAppended ==
    ASSUME NEW code, NEW n, Listed(code, n), NEW op, NEW V, RegionsOf(code) \subseteq V,
           op.op = "measure" => op.target \in V,
           op.op = "move" => op.to \in V /\ op.from \in V
    PROVE  RegionsOf(Append(code, op)) \subseteq V
<1>0. PICK t : t = Append(code, op)
  OBVIOUS
<1>1. Listed(t, n + 1) /\ Agree(t, code, n) /\ t[n + 1] = op
  <2>1. /\ Listed(Append(code, op), n + 1)
        /\ Agree(Append(code, op), code, n)
        /\ EndsWith(Append(code, op), n + 1, op)
    BY ListedAppend
  <2> QED
    BY <1>0, <2>1 DEF EndsWith
<1>2. n \in Nat /\ DOMAIN code = 1 .. n
  BY ListedIs
<1>3. DOMAIN t = 1 .. n + 1
  BY <1>1, ListedIs
<1>4. \A i \in 1 .. n + 1 : i \in 1 .. n \/ i = n + 1
  BY <1>2
<1>5. ASSUME NEW i \in 1 .. n + 1
      PROVE  /\ t[i].op = "measure" => t[i].target \in V
             /\ t[i].op = "move" => t[i].to \in V /\ t[i].from \in V
  <2>1. CASE i = n + 1
    BY <2>1, <1>1
  <2>2. CASE i \in 1 .. n
    <3>1. t[i] = code[i] /\ i \in DOMAIN code
      BY <2>2, <1>1, <1>2 DEF Agree
    <3> QED
      BY <3>1 DEF RegionsOf, With
  <2> QED
    BY <2>1, <2>2, <1>4
<1> QED
  BY <1>0, <1>3, <1>5 DEF RegionsOf, With

LEMMA TopFacts ==
    ASSUME TInv, status = "running", NEW fun, fun = module.functions[Top.fn]
    PROVE  /\ stack # <<>> /\ Top.fn = stack[Len(stack)].fn
           /\ Underway(module, DOMAIN circuits, DOMAIN variables, Top)
           /\ FrameOK(module, DOMAIN circuits, Top)
           /\ Listed(Top.code, Emitted(fun, Top.next))
           /\ RegionsOf(Top.code) \subseteq DOMAIN variables
           /\ Top.fn \in Functions /\ Top.fn \in module.defined
           /\ Len(fun.body) \in Nat
           /\ Top.next \in 1 .. Len(fun.body) + 1
           /\ fun = Fun(Top.fn)
           /\ AtEnd => Top.next > Len(fun.body)
           /\ ~AtEnd => /\ Top.next <= Len(fun.body)
                        /\ Top.next \in 1 .. Len(fun.body)
                        /\ Instr = fun.body[Top.next]
<1>1. module \in Modules /\ stack # <<>>
  BY DEF TInv, Prepared
<1>2. Underway(module, DOMAIN circuits, DOMAIN variables, Top)
  BY <1>1, StackTop DEF TInv, Top
<1>3. /\ FrameOK(module, DOMAIN circuits, Top)
      /\ RegionsOf(Top.code) \subseteq DOMAIN variables
  BY <1>2 DEF Underway
<1>4. /\ Top.fn \in Functions /\ Top.fn \in module.defined
      /\ Listed(Top.code, Emitted(fun, Top.next))
      /\ Top.next \in 1 .. Len(fun.body) + 1
  BY <1>3 DEF FrameOK
<1>5. Len(fun.body) \in Nat
  BY <1>1, <1>4, BodyTypes
<1>6. fun = Fun(Top.fn) /\ Top.fn = stack[Len(stack)].fn
  BY DEF Fun, Top
<1>7. AtEnd <=> Top.next > Len(fun.body)
  BY <1>6 DEF AtEnd
<1>8. ~AtEnd => Top.next <= Len(fun.body) /\ Top.next \in 1 .. Len(fun.body)
  BY <1>4, <1>5, <1>7
<1>9. Instr = fun.body[Top.next]
  BY <1>6 DEF Instr
<1> QED
  BY <1>1, <1>2, <1>3, <1>4, <1>5, <1>6, <1>7, <1>8, <1>9

(* A step of the innermost translation. *)
LEMMA TopSteps ==
    ASSUME TInv, status = "running", NEW fr, stack' = Append(Below, fr),
           Underway(module, DOMAIN circuits, DOMAIN variables', fr), fr.fn = Top.fn,
           DOMAIN variables \subseteq DOMAIN variables',
           \A n \in DOMAIN variables' : variables'[n] \in Kinds,
           UNCHANGED <<module, circuits, status>>
    PROVE  TInv'
<1>1. stack # <<>> /\ Top.fn = stack[Len(stack)].fn
  BY TopFacts
<1>2. StackOK(module, DOMAIN circuits, DOMAIN variables', stack') /\ stack' # <<>>
  <2>1. StackOK(module, DOMAIN circuits, DOMAIN variables, stack)
    BY DEF TInv
  <2> QED
    BY <1>1, <2>1, StackReplaced DEF Below
<1>3. CircuitsOK(module, DOMAIN variables', circuits)
  <2>1. CircuitsOK(module, DOMAIN variables, circuits)
    BY DEF TInv
  <2> QED
    BY <2>1 DEF CircuitsOK, Built
<1> QED
  BY <1>1, <1>2, <1>3 DEF TInv, Prepared

LEMMA AllocateKeeps == TInv /\ Allocate => TInv'
<1> SUFFICES ASSUME TInv, Allocate PROVE TInv'
  OBVIOUS
<1>1. status = "running" /\ ~AtEnd /\ Instr.do = "alloc"
  BY DEF Allocate, At
<1>2. PICK fun : fun = module.functions[Top.fn]
  OBVIOUS
<1>3. /\ FrameOK(module, DOMAIN circuits, Top)
      /\ Underway(module, DOMAIN circuits, DOMAIN variables, Top)
      /\ Listed(Top.code, Emitted(fun, Top.next))
      /\ Top.next <= Len(fun.body) /\ fun.body[Top.next].do = "alloc"
      /\ fun = Fun(Top.fn)
  BY <1>1, <1>2, TopFacts
<1>4. PICK frame : frame = Top
  OBVIOUS
<1>5. PICK fr : fr = Stepped(frame, Insert(frame.locals, NameOf(frame.fn, Defined),
                                           Fixed(frame.nextQubit)),
                             frame.nextQubit + 1, <<>>)
  OBVIOUS
<1>6. stack' = Append(Below, fr) /\ UNCHANGED <<module, variables, circuits, status>>
  BY <1>4, <1>5 DEF Allocate
<1>7. PICK r : r = Len(fun.params) + frame.next /\ r = Defined
  BY <1>3, <1>4 DEF Defined
<1>8. /\ fr.fn = frame.fn /\ fr.next = frame.next + 1
      /\ fr.nextQubit = frame.nextQubit + 1
      /\ fr.locals = Insert(frame.locals, NameOf(frame.fn, r), Fixed(frame.nextQubit))
      /\ fr.code = frame.code
  <2>1. frame.code \o <<>> = frame.code
    BY <1>3, <1>4, ListedConcat
  <2> QED
    BY <1>5, <1>7, <2>1 DEF Stepped
<1>9. FrameOK(module, DOMAIN circuits, fr)
  BY <1>2, <1>3, <1>4, <1>7, <1>8, AllocatingFrame DEF TInv
<1>10. Underway(module, DOMAIN circuits, DOMAIN variables', fr) /\ fr.fn = Top.fn
  BY <1>3, <1>4, <1>6, <1>8, <1>9 DEF Underway
<1> QED
  BY <1>1, <1>6, <1>10, TopSteps DEF TInv

(* The instruction of Quil that an instruction becomes. *)
LEMMA GateBecomes ==
    ASSUME NEW m \in Modules, NEW D, NEW frame, FrameOK(m, D, frame),
           NEW fun, fun = m.functions[frame.fn],
           frame.next \in 1 .. Len(fun.body), NEW i, i = fun.body[frame.next], i.do = "gate",
           NEW op, op = GateOn("X", FALSE, <<>>, 0, <<Local(frame, i.on)>>)
    PROVE  Becomes(frame.fn, fun, frame.next, op) /\ op.op = "gate"
<1>1. frame.fn \in Functions
  BY DEF FrameOK
<1>2. i.on \in QubitsBefore(fun, frame.next)
  BY <1>1, InstructionTypes
<1>3. op.op = "gate" /\ op.name = "X" /\ op.qubits[1] = Local(frame, i.on)
  BY DEF GateOn
<1>4. Apart(frame.fn, fun) => Local(frame, i.on) = Stands(frame.fn, fun, i.on)
  BY SMTT(20), <1>2, LocalStands
<1> QED
  BY <1>3, <1>4 DEF Becomes, GateOf

LEMMA MeasureBecomes ==
    ASSUME NEW m \in Modules, NEW D, NEW frame, FrameOK(m, D, frame),
           NEW fun, fun = m.functions[frame.fn],
           frame.next \in 1 .. Len(fun.body), NEW i, i = fun.body[frame.next], i.do = "measure",
           NEW op, op.op = "measure", op.qubit = Local(frame, i.on),
           op.target = Region(frame.fn, Len(fun.params) + frame.next)
    PROVE  Becomes(frame.fn, fun, frame.next, op)
<1>1. frame.fn \in Functions
  BY DEF FrameOK
<1>2. i.on \in QubitsBefore(fun, frame.next)
  BY <1>1, InstructionTypes
<1>3. Apart(frame.fn, fun) => Local(frame, i.on) = Stands(frame.fn, fun, i.on)
  BY <1>2, LocalStands
<1> QED
  BY <1>3 DEF Becomes, MeasurementOf

(* The qubits are those of the operands. *)
Passes(frame, args, qubits) ==
    DOMAIN qubits = DOMAIN args /\ \A a \in DOMAIN args : qubits[a] = Local(frame, args[a])

LEMMA CallBecomes ==
    ASSUME NEW m \in Modules, NEW D, NEW frame, FrameOK(m, D, frame),
           NEW fun, fun = m.functions[frame.fn],
           frame.next \in 1 .. Len(fun.body), NEW i, i = fun.body[frame.next], i.do = "call",
           NEW op, op.op = "gate", op.name = i.fn, Passes(frame, i.args, op.qubits)
    PROVE  Becomes(frame.fn, fun, frame.next, op)
<1>1. frame.fn \in Functions
  BY DEF FrameOK
<1>2. \A a \in DOMAIN i.args : i.args[a] \in QubitsBefore(fun, frame.next)
  BY <1>1, InstructionTypes
<1>3. ASSUME Apart(frame.fn, fun), NEW a \in DOMAIN i.args
      PROVE  op.qubits[a] = Stands(frame.fn, fun, i.args[a])
  <2>1. PICK r : r = i.args[a]
    OBVIOUS
  <2>2. r \in QubitsBefore(fun, frame.next)
    BY <1>2, <1>3, <2>1
  <2>3. Local(frame, r) = Stands(frame.fn, fun, r)
    BY SMTT(20), <1>3, <2>2, LocalStands
  <2> QED
    BY <1>3, <2>1, <2>3 DEF Passes
<1> QED
  BY <1>3 DEF Becomes, CallOf, Passes

LEMMA EmitKeeps ==
    ASSUME TInv, status = "running", ~AtEnd, Instr.do # "alloc",
           Instr.do = "call" => Instr.fn \in DOMAIN circuits,
           NEW op, Becomes(Top.fn, Fun(Top.fn), Top.next, op),
           op.op = "measure" => op.target \in DOMAIN variables',
           op.op # "move",
           stack' = Append(Below, Emitting(Top, <<op>>)),
           DOMAIN variables \subseteq DOMAIN variables',
           \A n \in DOMAIN variables' : variables'[n] \in Kinds,
           UNCHANGED <<module, circuits, status>>
    PROVE  TInv'
<1>1. PICK fun, frame : fun = module.functions[Top.fn] /\ frame = Top
  OBVIOUS
<1>2. /\ FrameOK(module, DOMAIN circuits, frame)
      /\ Underway(module, DOMAIN circuits, DOMAIN variables, frame)
      /\ Listed(frame.code, Emitted(fun, frame.next))
      /\ frame.next <= Len(fun.body) /\ Instr = fun.body[frame.next]
      /\ fun = Fun(Top.fn)
      /\ RegionsOf(frame.code) \subseteq DOMAIN variables
  BY <1>1, TopFacts
<1>3. PICK fr : fr = Emitting(frame, <<op>>)
  OBVIOUS
<1>4. /\ fr.fn = frame.fn /\ fr.next = frame.next + 1
      /\ fr.nextQubit = frame.nextQubit /\ fr.locals = frame.locals
      /\ fr.code = frame.code \o <<op>>
  BY <1>3 DEF Emitting, Stepped
<1>5. FrameOK(module, DOMAIN circuits, fr)
  <2>1. Becomes(frame.fn, fun, frame.next, op)
    BY <1>1, <1>2
  <2>2. /\ fun.body[frame.next].do # "alloc"
        /\ fun.body[frame.next].do = "call" => fun.body[frame.next].fn \in DOMAIN circuits
    BY <1>2
  <2>3. PICK D : D = DOMAIN circuits
    OBVIOUS
  <2>4. FrameOK(module, D, fr)
    <3>1. D \subseteq D /\ FrameOK(module, D, frame)
      BY <2>3, <1>2
    <3>2. fun = module.functions[frame.fn]
      BY <1>1
    <3> QED
      BY <3>1, <3>2, <2>1, <2>2, <2>3, <1>2, <1>4, EmittingFrame DEF TInv
  <2> QED
    BY <2>3, <2>4
<1>6. RegionsOf(fr.code) \subseteq DOMAIN variables'
  <2>1. fr.code = Append(frame.code, op)
    BY <1>2, <1>4, ListedConcat
  <2>2. RegionsOf(frame.code) \subseteq DOMAIN variables'
    BY <1>2
  <2>3. RegionsOf(Append(frame.code, op)) \subseteq DOMAIN variables'
    BY <1>2, <2>2, RegionsAppended
  <2> QED
    BY <2>1, <2>3
<1>7. Underway(module, DOMAIN circuits, DOMAIN variables', fr) /\ fr.fn = Top.fn
  BY <1>1, <1>2, <1>4, <1>5, <1>6 DEF Underway
<1> QED
  BY <1>1, <1>3, <1>7, TopSteps

LEMMA GateKeeps == TInv /\ Gate => TInv'
<1> SUFFICES ASSUME TInv, Gate PROVE TInv'
  OBVIOUS
<1>1. status = "running" /\ ~AtEnd /\ Instr.do = "gate"
  BY DEF Gate, At
<1>2. PICK fun, frame : fun = module.functions[Top.fn] /\ frame = Top
  OBVIOUS
<1>3. /\ FrameOK(module, DOMAIN circuits, frame)
      /\ frame.next \in 1 .. Len(fun.body) /\ Instr = fun.body[frame.next]
      /\ fun = Fun(Top.fn)
  BY <1>1, <1>2, TopFacts
<1>4. PICK op : op = GateOn("X", FALSE, <<>>, 0, <<Local(frame, Instr.on)>>)
  OBVIOUS
<1>5. Becomes(frame.fn, fun, frame.next, op) /\ op.op = "gate"
  BY ZenonT(30), <1>1, <1>2, <1>3, <1>4, GateBecomes DEF TInv
<1>6. stack' = Append(Below, Emitting(Top, <<op>>)) /\ UNCHANGED <<module, variables, circuits, status>>
  BY <1>2, <1>4 DEF Gate
<1> QED
  BY <1>1, <1>2, <1>3, <1>5, <1>6, EmitKeeps DEF TInv

LEMMA MeasureKeeps == TInv /\ Measure => TInv'
<1> SUFFICES ASSUME TInv, Measure PROVE TInv'
  OBVIOUS
<1>1. status = "running" /\ ~AtEnd /\ Instr.do = "measure"
  BY DEF Measure, At
<1>2. PICK fun, frame : fun = module.functions[Top.fn] /\ frame = Top
  OBVIOUS
<1>3. /\ FrameOK(module, DOMAIN circuits, frame)
      /\ frame.next \in 1 .. Len(fun.body) /\ Instr = fun.body[frame.next]
      /\ fun = Fun(Top.fn)
  BY <1>1, <1>2, TopFacts
<1>4. PICK r : r = Len(fun.params) + frame.next /\ r = Defined
  BY <1>2, <1>3 DEF Defined
<1>5. PICK op : op = Measurement(Local(frame, Instr.on), Region(frame.fn, r))
  OBVIOUS
<1>6. /\ Becomes(frame.fn, fun, frame.next, op) /\ op.op = "measure"
      /\ op.target = Region(frame.fn, r)
  <2>1. /\ op.op = "measure" /\ op.qubit = Local(frame, Instr.on)
        /\ op.target = Region(frame.fn, r)
    BY <1>5 DEF Measurement
  <2>2. op.target = Region(frame.fn, Len(fun.params) + frame.next)
    BY <1>4, <2>1
  <2> QED
    BY <1>1, <1>2, <1>3, <2>1, <2>2, MeasureBecomes DEF TInv
<1>7. /\ stack' = Append(Below, Emitting(Top, <<op>>))
      /\ UNCHANGED <<module, circuits, status>>
      /\ variables' = Insert(variables, Region(frame.fn, r), "measurement")
  BY <1>2, <1>4, <1>5 DEF Measure
<1>8. /\ DOMAIN variables' = DOMAIN variables \union {Region(frame.fn, r)}
      /\ \A n \in DOMAIN variables' : variables'[n] \in Kinds
  BY <1>7 DEF Insert, TInv, Kinds
<1> QED
  BY <1>1, <1>2, <1>3, <1>6, <1>7, <1>8, EmitKeeps

LEMMA CallKeeps == TInv /\ Call => TInv'
<1> SUFFICES ASSUME TInv, Call PROVE TInv'
  OBVIOUS
<1>1. status = "running" /\ ~AtEnd /\ Instr.do = "call" /\ Instr.fn \in DOMAIN circuits
  BY DEF Call, At
<1>2. PICK fun, frame : fun = module.functions[Top.fn] /\ frame = Top
  OBVIOUS
<1>3. /\ FrameOK(module, DOMAIN circuits, frame)
      /\ frame.next \in 1 .. Len(fun.body) /\ Instr = fun.body[frame.next]
      /\ fun = Fun(Top.fn)
  BY <1>1, <1>2, TopFacts
<1>4. PICK op : op = GateOn(Instr.fn, FALSE, <<>>, 0,
                            [a \in DOMAIN Instr.args |-> Local(frame, Instr.args[a])])
  OBVIOUS
<1>5. Becomes(frame.fn, fun, frame.next, op) /\ op.op = "gate"
  <2>1. /\ op.op = "gate" /\ op.name = Instr.fn
        /\ op.qubits = [a \in DOMAIN Instr.args |-> Local(frame, Instr.args[a])]
    BY <1>4 DEF GateOn
  <2>2. Passes(frame, Instr.args, op.qubits)
    BY <2>1 DEF Passes
  <2> QED
    BY <1>1, <1>2, <1>3, <2>1, <2>2, CallBecomes DEF TInv
<1>6. /\ stack' = Append(Below, Emitting(Top, <<op>>))
      /\ UNCHANGED <<module, variables, circuits, status>>
  <2>1. Fun(frame.fn).body[frame.next] = Instr
    BY <1>2, <1>3
  <2>2. Called(Top, Instr.fn) = Emitting(Top, <<op>>)
    BY <1>2, <1>4, <2>1 DEF Called
  <2> QED
    BY <2>2 DEF Call
<1> QED
  BY <1>1, <1>2, <1>3, <1>5, <1>6, EmitKeeps DEF TInv

LEMMA NothingYet ==
    ASSUME NEW m, NEW D, NEW V
    PROVE  /\ StackOK(m, D, V, <<>>) /\ CircuitsOK(m, V, <<>>)
           /\ RegionsOf(<<>>) = {} /\ DOMAIN <<>> = {}
<1>1. <<>> \in Seq({}) /\ Len(<<>>) = 0 /\ DOMAIN <<>> = {}
  BY EmptySeq
<1>2. Listed(<<>>, Len(<<>>))
  BY <1>1, ListedSeq
<1>3. \A i \in 1 .. Len(<<>>) : FALSE
  BY <1>1
<1>4. Grounded(m, DOMAIN <<>>)
  BY <1>1 DEF Grounded
<1> QED
  BY <1>1, <1>2, <1>3, <1>4 DEF StackOK, CircuitsOK, RegionsOf, With

LEMMA StartTranslating == Init => TInv
<1> SUFFICES ASSUME Init PROVE TInv
  OBVIOUS
<1>1. /\ module \in Modules /\ stack = <<>> /\ variables = <<>> /\ circuits = <<>>
      /\ status = "started"
  BY DEF Init
<1>2. \A n \in DOMAIN variables : variables[n] \in Kinds
  BY <1>1, NothingYet
<1>3. /\ StackOK(module, DOMAIN circuits, DOMAIN variables, stack)
      /\ CircuitsOK(module, DOMAIN variables, circuits)
  BY <1>1, NothingYet
<1> QED
  BY <1>1, <1>2, <1>3 DEF TInv, Prepared, Statuses

(* Only the status changes. *)
LEMMA StatusSteps ==
    ASSUME TInv, UNCHANGED <<module, stack, variables, circuits>>,
           status' \in Statuses, status' # "done", Prepared'
    PROVE  TInv'
BY DEF TInv

LEMMA ReadingKeeps == TInv /\ (Read \/ FindEntry) => TInv'
<1> SUFFICES ASSUME TInv, Read \/ FindEntry PROVE TInv'
  OBVIOUS
<1>1. UNCHANGED <<module, stack, variables, circuits>>
  BY DEF Read, FindEntry
<1>2. CASE Read
  <2>1. status = "started" /\ status' \in {"read", "InvalidLLVMByteCode"}
    BY <1>2 DEF Read, Goto
  <2> QED
    BY <1>1, <2>1, StatusSteps DEF TInv, Prepared, Statuses
<1>3. CASE FindEntry
  <2>1. /\ status = "read" /\ status' \in {"found", "NoEntryPoint"}
        /\ status' = "found" => Entry \in module.defined
    BY <1>3 DEF FindEntry, Goto
  <2> QED
    BY <1>1, <2>1, StatusSteps DEF TInv, Prepared, Statuses
<1> QED
  BY <1>2, <1>3

LEMMA PrimeConstantsKeeps == TInv /\ PrimeConstants => TInv'
<1> SUFFICES ASSUME TInv, PrimeConstants PROVE TInv'
  OBVIOUS
<1>1. /\ status = "found" /\ status' \in {"constants", "UnsupportedFloatType"}
      /\ UNCHANGED <<module, stack, circuits>>
  BY DEF PrimeConstants, Goto
<1>2. stack = <<>> /\ circuits = <<>> /\ Entry \in module.defined
  BY <1>1 DEF TInv, Prepared
<1>3. \A n \in DOMAIN variables' : variables'[n] \in Kinds
  BY DEF PrimeConstants, Kinds
<1>4. /\ StackOK(module, DOMAIN circuits, DOMAIN variables', stack)
      /\ CircuitsOK(module, DOMAIN variables', circuits)
  BY <1>2, NothingYet
<1> QED
  BY <1>1, <1>2, <1>3, <1>4 DEF TInv, Prepared, Statuses

LEMMA StackStarted ==
    ASSUME NEW m, NEW V, NEW fr, Underway(m, {}, V, fr), fr.fn = Entry
    PROVE  StackOK(m, {}, V, <<fr>>) /\ <<fr>> # <<>>
<1>1. PICK t : t = <<fr>>
  OBVIOUS
<1>2. t \in Seq({fr}) /\ Len(t) = 1 /\ t[1] = fr
  BY <1>1
<1>3. Listed(t, Len(t))
  BY <1>2, ListedSeq
<1>4. t # <<>>
  BY <1>2, EmptySeq
<1>5. \A i \in 1 .. 1 : i = 1 /\ i + 1 # 1
  OBVIOUS
<1> QED
  BY <1>1, <1>2, <1>3, <1>4, <1>5 DEF StackOK

LEMMA PrimeParametersKeeps == TInv /\ PrimeParameters => TInv'
<1> SUFFICES ASSUME TInv, PrimeParameters PROVE TInv'
  OBVIOUS
<1>1. PICK fun : fun = module.functions[Entry]
  OBVIOUS
<1>2. /\ status = "constants" /\ UNCHANGED <<module, circuits>>
      /\ status' = IF Numbers(fun) THEN "running" ELSE "UnsupportedParameterType"
      /\ stack' = IF Numbers(fun) THEN <<Frame(Entry)>> ELSE <<>>
      /\ variables' = PrimeParams(variables)
  BY <1>1 DEF PrimeParameters, Goto, Numbers, Fun
<1>3. /\ module \in Modules /\ stack = <<>> /\ circuits = <<>> /\ Entry \in module.defined
      /\ \A n \in DOMAIN variables : variables[n] \in Kinds
  BY <1>2 DEF TInv, Prepared
<1>4. \A n \in DOMAIN variables' : variables'[n] \in Kinds
  BY <1>2, <1>3 DEF PrimeParams, Kinds
<1>5. CircuitsOK(module, DOMAIN variables', circuits)
  BY <1>3, NothingYet
<1>6. CASE Numbers(fun)
  <2>1. PICK fr : fr = Frame(Entry)
    OBVIOUS
  <2>2. fr = [fn |-> Entry, next |-> 1, nextQubit |-> 0, code |-> <<>>,
              locals |-> [n \in {NameOf(Entry, i) : i \in {j \in DOMAIN fun.params :
                                              fun.params[j] = "Qubit*"}} |-> Variable(n)]]
    BY <1>1, <2>1 DEF Frame, Fun
  <2>3. FrameOK(module, {}, fr) /\ fr.fn = Entry
    BY <1>1, <1>3, <2>2, FreshFrame, EntryAssumption
  <2>4. fr.code = <<>>
    BY <2>2
  <2>5. Underway(module, {}, DOMAIN variables', fr)
    BY <2>3, <2>4, NothingYet DEF Underway
  <2>6. StackOK(module, {}, DOMAIN variables', stack') /\ stack' # <<>>
    BY <1>2, <1>6, <2>1, <2>3, <2>5, StackStarted
  <2>7. DOMAIN circuits = {}
    BY <1>3, NothingYet
  <2>8. StackOK(module, DOMAIN circuits, DOMAIN variables', stack')
    BY <2>6, <2>7
  <2>9. Prepared' /\ status' \in Statuses /\ status' # "done"
    BY <1>1, <1>2, <1>6, <2>6 DEF Prepared, Statuses
  <2> QED
    BY <1>2, <1>3, <1>4, <1>5, <2>8, <2>9 DEF TInv
<1>7. CASE ~Numbers(fun)
  <2>1. stack' = <<>> /\ status' = "UnsupportedParameterType"
    BY <1>2, <1>7
  <2>2. StackOK(module, DOMAIN circuits, DOMAIN variables', stack')
    BY <2>1, NothingYet
  <2> QED
    BY <1>2, <1>3, <1>4, <1>5, <2>1, <2>2 DEF TInv, Prepared, Statuses
<1> QED
  BY <1>6, <1>7

LEMMA DescendKeeps == TInv /\ Descend => TInv'
<1> SUFFICES ASSUME TInv, Descend PROVE TInv'
  OBVIOUS
<1>1. /\ status = "running" /\ ~AtEnd /\ Instr.do = "call" /\ Instr.fn \notin DOMAIN circuits
      /\ Instr.fn \in module.defined
      /\ stack' = Append(stack, Frame(Instr.fn))
      /\ UNCHANGED <<module, variables, circuits, status>>
  BY DEF Descend, At
<1>2. PICK fun, frame : fun = module.functions[Top.fn] /\ frame = Top
  OBVIOUS
<1>3. /\ stack # <<>> /\ frame.fn \in Functions
      /\ frame.next \in 1 .. Len(fun.body) /\ frame.next <= Len(fun.body)
      /\ Instr = fun.body[frame.next]
  BY <1>1, <1>2, TopFacts
<1>4. PICK g : g = Instr.fn
  OBVIOUS
<1>5. g \in Functions
  BY <1>1, <1>2, <1>3, <1>4, InstructionTypes DEF TInv
<1>6. PICK callee : callee = module.functions[g]
  OBVIOUS
<1>7. PICK fr : fr = Frame(g)
  OBVIOUS
<1>8. fr = [fn |-> g, next |-> 1, nextQubit |-> 0, code |-> <<>>,
            locals |-> [n \in {NameOf(g, i) : i \in {j \in DOMAIN callee.params :
                                              callee.params[j] = "Qubit*"}} |-> Variable(n)]]
  BY <1>6, <1>7 DEF Frame, Fun
<1>9. FrameOK(module, DOMAIN circuits, fr) /\ fr.fn = g
  BY <1>1, <1>4, <1>5, <1>6, <1>8, FreshFrame DEF TInv
<1>10. fr.code = <<>>
  BY <1>8
<1>11. Underway(module, DOMAIN circuits, DOMAIN variables, fr)
  BY <1>1, <1>4, <1>9, <1>10, NothingYet DEF Underway
<1>12. Waits(module, stack[Len(stack)], fr.fn)
  BY <1>1, <1>2, <1>3, <1>4, <1>9 DEF Waits, Top
<1>13. StackOK(module, DOMAIN circuits, DOMAIN variables, stack') /\ stack' # <<>>
  BY <1>1, <1>3, <1>4, <1>7, <1>11, <1>12, StackPushed DEF TInv
<1> QED
  BY <1>1, <1>3, <1>13 DEF TInv, Prepared

LEMMA FailureKeeps == TInv /\ (Overflow \/ Missing \/ ReturnConstant) => TInv'
<1> SUFFICES ASSUME TInv, Overflow \/ Missing \/ ReturnConstant PROVE TInv'
  OBVIOUS
<1>1. /\ UNCHANGED <<module, stack, variables, circuits>> /\ status = "running"
      /\ status' \in {"overflow", "MissingFunctionDefinition", "MissingOperandName"}
  BY DEF Overflow, Missing, ReturnConstant, At
<1>2. Prepared' /\ status' \in Statuses /\ status' # "done"
  BY <1>1 DEF TInv, Prepared, Statuses
<1> QED
  BY <1>1, <1>2, StatusSteps

(* The innermost translation is at its end. *)
LEMMA EndFacts ==
    ASSUME TInv, status = "running", AtEnd, variables' = FinishedVariables(Top.fn)
    PROVE  /\ BodyOK(module, DOMAIN circuits, Top.fn, FinishedCode(Top))
           /\ RegionsOf(FinishedCode(Top)) \subseteq DOMAIN variables'
           /\ DOMAIN variables \subseteq DOMAIN variables'
           /\ \A n \in DOMAIN variables' : variables'[n] \in Kinds
           /\ CalleesOf(module.functions[Top.fn]) \subseteq DOMAIN circuits
<1>1. PICK fun, frame : fun = module.functions[Top.fn] /\ frame = Top
  OBVIOUS
<1>2. /\ FrameOK(module, DOMAIN circuits, frame)
      /\ Listed(frame.code, Emitted(fun, frame.next))
      /\ frame.next > Len(fun.body) /\ fun = Fun(Top.fn)
      /\ RegionsOf(frame.code) \subseteq DOMAIN variables
      /\ Len(fun.body) \in Nat
      /\ frame.next \in 1 .. Len(fun.body) + 1
  BY <1>1, TopFacts
<1>3. PICK code : code = FinishedCode(frame)
  OBVIOUS
<1>4. PICK f : f = frame.fn
  OBVIOUS
<1>5. code = IF fun.ret.returns # "register" THEN frame.code
             ELSE Append(frame.code, Move(ReturnLabel(FunctionNames[f]), Region(f, fun.ret.register)))
  BY <1>1, <1>2, <1>3, <1>4 DEF FinishedCode, Returned
<1>6. BodyOK(module, DOMAIN circuits, f, code)
  <2>1. fun = module.functions[frame.fn]
    BY <1>1
  <2> QED
    BY <1>2, <1>4, <1>5, <2>1, FinishedFrame DEF TInv
<1>7. /\ DOMAIN variables \subseteq DOMAIN variables'
      /\ \A n \in DOMAIN variables' : variables'[n] \in Kinds
      /\ fun.ret.returns = "register" => /\ Region(f, fun.ret.register) \in DOMAIN variables'
                                         /\ ReturnLabel(FunctionNames[f]) \in DOMAIN variables'
  <2>1. CASE fun.ret.returns # "register"
    <3>1. variables' = variables
      BY <2>1, <1>1, <1>2 DEF FinishedVariables, Returned
    <3> QED
      BY <2>1, <3>1 DEF TInv
  <2>2. CASE fun.ret.returns = "register"
    <3>1. PICK a, b : a = Region(f, fun.ret.register) /\ b = ReturnLabel(FunctionNames[f])
      OBVIOUS
    <3>2. variables' = Insert(Insert(variables, a, "Integer"), b, "Integer")
      BY <2>2, <3>1, <1>1, <1>2, <1>4 DEF FinishedVariables, Returned
    <3>3. PICK env : env = Insert(variables, a, "Integer")
      OBVIOUS
    <3>4. /\ DOMAIN env = DOMAIN variables \union {a}
          /\ \A n \in DOMAIN env : env[n] \in Kinds
      BY <3>3 DEF Insert, TInv, Kinds
    <3>5. /\ DOMAIN variables' = DOMAIN env \union {b}
          /\ \A n \in DOMAIN variables' : variables'[n] \in Kinds
      BY <3>2, <3>3, <3>4 DEF Insert, Kinds
    <3> QED
      BY <3>1, <3>4, <3>5
  <2> QED
    BY <2>1, <2>2
<1>8. RegionsOf(code) \subseteq DOMAIN variables'
  <2>1. CASE fun.ret.returns # "register"
    BY <2>1, <1>2, <1>5, <1>7
  <2>2. CASE fun.ret.returns = "register"
    <3>1. PICK op : op = Move(ReturnLabel(FunctionNames[f]), Region(f, fun.ret.register))
      OBVIOUS
    <3>2. code = Append(frame.code, op)
      BY <2>2, <3>1, <1>5
    <3>3. op.op = "move" /\ op.to \in DOMAIN variables' /\ op.from \in DOMAIN variables'
      BY <2>2, <3>1, <1>7 DEF Move
    <3>4. RegionsOf(frame.code) \subseteq DOMAIN variables'
      BY <1>2, <1>7
    <3>5. op.op # "measure"
      BY <3>3
    <3> QED
      BY <3>2, <3>3, <3>4, <3>5, <1>2, RegionsAppended
  <2> QED
    BY <2>1, <2>2
<1>9. CalleesOf(fun) \subseteq DOMAIN circuits
  <2>1. Answered(fun, DOMAIN circuits, Len(fun.body) + 1)
    BY <1>1, <1>4, <1>6 DEF BodyOK
  <2>2. \A j \in 1 .. Len(fun.body) : j < Len(fun.body) + 1
    BY <1>2
  <2> QED
    BY <2>1, <2>2 DEF Answered, CalleesOf
<1> QED
  BY <1>1, <1>3, <1>4, <1>6, <1>7, <1>8, <1>9

(* The translation that waits for the innermost. *)
LEMMA CallerFacts ==
    ASSUME TInv, status = "running", Len(stack) > 1,
           NEW b, b = Below, NEW caller, caller = b[Len(b)],
           NEW body, body = module.functions[caller.fn],
           NEW i, i = body.body[caller.next]
    PROVE  /\ FrameOK(module, DOMAIN circuits, caller)
           /\ caller.fn \in Functions
           /\ caller.next \in 1 .. Len(body.body) /\ caller.next <= Len(body.body)
           /\ i.do = "call" /\ i.fn = Top.fn
           /\ Listed(caller.code, Emitted(body, caller.next))
           /\ RegionsOf(caller.code) \subseteq DOMAIN variables
<1>1. stack # <<>> /\ Top.fn = stack[Len(stack)].fn
  BY TopFacts
<1>2. PICK n \in Nat : n = Len(stack) /\ n > 1
  BY <1>1, StackTop DEF TInv
<1>3. caller = stack[n - 1]
  <2>1. PICK S : stack \in Seq(S)
    BY <1>1, StackTop DEF TInv
  <2>2. /\ b \in Seq(S) /\ Len(b) = Len(stack) - 1
        /\ \A j \in 1 .. Len(stack) - 1 : b[j] = stack[j]
    BY <2>1, <1>1, BelowTop DEF Below
  <2>3. Len(b) = n - 1 /\ n - 1 \in 1 .. Len(stack) - 1
    BY <2>2, <1>2
  <2> QED
    BY <2>2, <2>3
<1>4. /\ Waits(module, caller, Top.fn)
      /\ Underway(module, DOMAIN circuits, DOMAIN variables, caller)
  <2>0. n - 1 \in 1 .. n /\ n = (n - 1) + 1
    BY <1>2
  <2>1. PICK j \in 1 .. n : j = n - 1 /\ n = j + 1
    BY <2>0
  <2>2. n \in 1 .. n
    BY <1>2
  <2>3. /\ Waits(module, stack[j], stack[n].fn)
        /\ Underway(module, DOMAIN circuits, DOMAIN variables, stack[j])
    BY <2>1, <2>2, <1>2 DEF TInv, StackOK
  <2> QED
    BY <2>1, <2>3, <1>1, <1>2, <1>3
<1>5. /\ FrameOK(module, DOMAIN circuits, caller)
      /\ RegionsOf(caller.code) \subseteq DOMAIN variables
  BY <1>4 DEF Underway
<1>6. /\ caller.next <= Len(body.body) /\ i.do = "call" /\ i.fn = Top.fn
  BY <1>4 DEF Waits
<1>7. /\ caller.fn \in Functions
      /\ caller.next \in 1 .. Len(body.body) + 1
      /\ Listed(caller.code, Emitted(body, caller.next))
  BY <1>5 DEF FrameOK
<1>8. Len(body.body) \in Nat
  BY <1>7, BodyTypes DEF TInv
<1>9. caller.next \in 1 .. Len(body.body)
  BY <1>6, <1>7, <1>8
<1> QED
  BY <1>5, <1>6, <1>7, <1>9

LEMMA ReturnKeeps == TInv /\ Return => TInv'
<1> SUFFICES ASSUME TInv, Return PROVE TInv'
  OBVIOUS
<1>1. /\ status = "running" /\ AtEnd /\ Len(stack) > 1
      /\ variables' = FinishedVariables(Top.fn)
      /\ circuits' = Insert(circuits, Top.fn, CircuitOf(Top))
      /\ UNCHANGED <<module, status>>
  BY DEF Return
<1>2. PICK f, fun : f = Top.fn /\ fun = module.functions[f]
  OBVIOUS
<1>3. /\ stack # <<>> /\ f = stack[Len(stack)].fn
      /\ f \in Functions /\ f \in module.defined /\ fun = Fun(Top.fn)
      /\ Underway(module, DOMAIN circuits, DOMAIN variables, Top)
  BY <1>1, <1>2, TopFacts
<1>4. f \notin DOMAIN circuits
  BY <1>2, <1>3 DEF Underway
<1>5. /\ BodyOK(module, DOMAIN circuits, f, FinishedCode(Top))
      /\ RegionsOf(FinishedCode(Top)) \subseteq DOMAIN variables'
      /\ DOMAIN variables \subseteq DOMAIN variables'
      /\ \A n \in DOMAIN variables' : variables'[n] \in Kinds
      /\ CalleesOf(fun) \subseteq DOMAIN circuits
  BY <1>1, <1>2, EndFacts
<1>6. PICK circuit : circuit = CircuitOf(Top)
  OBVIOUS
<1>7. Built(module, DOMAIN circuits, DOMAIN variables', f, circuit)
  <2>1. PICK qs : qs = QubitParams(fun)
    OBVIOUS
  <2>2. /\ circuit.code = FinishedCode(Top)
        /\ circuit.qubits = [i \in DOMAIN qs |-> NameOf(f, qs[i])]
    BY <1>2, <1>3, <1>6, <2>1 DEF CircuitOf
  <2>3. CircuitOK(module, DOMAIN circuits, f, circuit)
    BY <1>2, <1>3, <1>5, <2>1, <2>2 DEF CircuitOK
  <2> QED
    BY <1>5, <2>2, <2>3 DEF Built
<1>8. /\ CircuitsOK(module, DOMAIN variables', circuits')
      /\ DOMAIN circuits' = DOMAIN circuits \union {f}
  <2>1. CalleesOf(module.functions[f]) \subseteq DOMAIN circuits
    BY <1>2, <1>5
  <2>2. circuits' = Insert(circuits, f, circuit)
    BY <1>1, <1>2, <1>6
  <2>3. CircuitsOK(module, DOMAIN variables, circuits)
    BY DEF TInv
  <2> QED
    <3>1. PICK V, W : V = DOMAIN variables /\ W = DOMAIN variables'
      OBVIOUS
    <3>2. /\ V \subseteq W /\ CircuitsOK(module, V, circuits)
          /\ Built(module, DOMAIN circuits, W, f, circuit)
      BY <1>5, <1>7, <2>3, <3>1
    <3>3. CircuitsOK(module, W, Insert(circuits, f, circuit))
      BY <2>1, <3>2, <1>4, CircuitInserted
    <3>4. DOMAIN Insert(circuits, f, circuit) = DOMAIN circuits \union {f}
      BY DEF Insert
    <3> QED
      BY <2>2, <3>1, <3>3, <3>4
<1>9. PICK b, caller : b = Below /\ caller = b[Len(b)]
  OBVIOUS
<1>13. PICK body, i : body = module.functions[caller.fn] /\ i = body.body[caller.next]
  OBVIOUS
<1>14. /\ FrameOK(module, DOMAIN circuits, caller)
       /\ caller.fn \in Functions
       /\ caller.next \in 1 .. Len(body.body) /\ caller.next <= Len(body.body)
       /\ i.do = "call" /\ i.fn = f
       /\ Listed(caller.code, Emitted(body, caller.next))
       /\ RegionsOf(caller.code) \subseteq DOMAIN variables
  BY <1>1, <1>2, <1>9, <1>13, CallerFacts
<1>15. PICK op : op = GateOn(i.fn, FALSE, <<>>, 0,
                             [a \in DOMAIN i.args |-> Local(caller, i.args[a])])
  OBVIOUS
<1>16. op.op = "gate" /\ Becomes(caller.fn, body, caller.next, op)
  <2>1. /\ op.op = "gate" /\ op.name = i.fn
        /\ op.qubits = [a \in DOMAIN i.args |-> Local(caller, i.args[a])]
    BY <1>15 DEF GateOn
  <2>2. Passes(caller, i.args, op.qubits)
    BY <2>1 DEF Passes
  <2> QED
    BY <1>13, <1>14, <2>1, <2>2, CallBecomes DEF TInv
<1>17. PICK fr : fr = Emitting(caller, <<op>>)
  OBVIOUS
<1>18. stack' = Append(SubSeq(b, 1, Len(b) - 1), fr)
  <2>1. Fun(caller.fn).body[caller.next] = i
    BY <1>13 DEF Fun
  <2>2. Called(caller, f) = fr
    BY <2>1, <1>14, <1>15, <1>17 DEF Called
  <2> QED
    BY <2>2, <1>2, <1>9 DEF Return
<1>19. /\ fr.fn = caller.fn /\ fr.next = caller.next + 1
       /\ fr.nextQubit = caller.nextQubit /\ fr.locals = caller.locals
       /\ fr.code = caller.code \o <<op>>
  BY <1>17 DEF Emitting, Stepped
<1>20. PICK E : E = DOMAIN circuits \union {f}
  OBVIOUS
<1>21. FrameOK(module, E, fr)
  <2>1. DOMAIN circuits \subseteq E /\ f \in E
    BY <1>20
  <2>2. /\ body.body[caller.next].do # "alloc"
        /\ body.body[caller.next].do = "call" => body.body[caller.next].fn \in E
    BY <2>1, <1>13, <1>14
  <2> QED
    BY <2>1, <2>2, <1>13, <1>14, <1>16, <1>19, EmittingFrame DEF TInv
<1>22. RegionsOf(fr.code) \subseteq DOMAIN variables'
  <2>1. fr.code = Append(caller.code, op)
    BY <1>14, <1>19, ListedConcat
  <2>2. RegionsOf(caller.code) \subseteq DOMAIN variables' /\ op.op # "measure" /\ op.op # "move"
    BY <1>5, <1>14, <1>16
  <2>3. RegionsOf(Append(caller.code, op)) \subseteq DOMAIN variables'
    BY <2>2, <1>14, RegionsAppended
  <2> QED
    BY <2>1, <2>3
<1>23. StackOK(module, E, DOMAIN variables', stack') /\ stack' # <<>>
  <2>1. StackOK(module, DOMAIN circuits, DOMAIN variables, stack)
    BY DEF TInv
  <2>2. fr.fn = b[Len(b)].fn
    BY <1>9, <1>19
  <2>3. /\ CalleesOf(module.functions[stack[Len(stack)].fn]) \subseteq DOMAIN circuits
        /\ E = DOMAIN circuits \union {stack[Len(stack)].fn}
        /\ b = SubSeq(stack, 1, Len(stack) - 1)
    BY <1>2, <1>3, <1>5, <1>9, <1>20 DEF Below
  <2>4. /\ StackOK(module, E, DOMAIN variables', Append(SubSeq(b, 1, Len(b) - 1), fr))
        /\ Append(SubSeq(b, 1, Len(b) - 1), fr) # <<>>
    BY <2>1, <2>2, <2>3, <1>1, <1>5, <1>21, <1>22, StackPopped
  <2> QED
    BY <2>4, <1>18
<1>24. StackOK(module, DOMAIN circuits', DOMAIN variables', stack')
  BY <1>8, <1>20, <1>23
<1>25. Prepared'
  BY <1>1, <1>3, <1>23 DEF TInv, Prepared
<1> QED
  BY <1>1, <1>5, <1>8, <1>24, <1>25 DEF TInv

LEMMA FinishKeeps == TInv /\ Finish => TInv'
<1> SUFFICES ASSUME TInv, Finish PROVE TInv'
  OBVIOUS
<1>1. /\ status = "running" /\ AtEnd /\ Len(stack) = 1
      /\ variables' = FinishedVariables(Top.fn)
      /\ status' = "done"
      /\ UNCHANGED <<module, stack, circuits>>
  BY DEF Finish
<1>2. stack # <<>> /\ Top.fn = Entry
  <2>1. stack # <<>>
    BY <1>1 DEF TInv, Prepared
  <2> QED
    BY <2>1, <1>1 DEF TInv, StackOK, Top
<1>3. /\ BodyOK(module, DOMAIN circuits, Entry, FinishedCode(Top))
      /\ RegionsOf(FinishedCode(Top)) \subseteq DOMAIN variables'
      /\ DOMAIN variables \subseteq DOMAIN variables'
      /\ \A n \in DOMAIN variables' : variables'[n] \in Kinds
  BY <1>1, <1>2, EndFacts
<1>4. /\ program'.circuits = circuits /\ program'.code = FinishedCode(Top)
      /\ program'.variables = {[name |-> n, type |-> "INTEGER"] : n \in DOMAIN variables'}
  BY DEF Finish
<1>5. OutputOK(module, circuits, DOMAIN variables', program')
  BY <1>3, <1>4 DEF OutputOK
<1>6. StackOK(module, DOMAIN circuits, DOMAIN variables', stack)
  <2> SUFFICES ASSUME NEW i \in 1 .. Len(stack)
               PROVE  Underway(module, DOMAIN circuits, DOMAIN variables', stack[i])
    BY DEF TInv, StackOK
  <2>1. Underway(module, DOMAIN circuits, DOMAIN variables, stack[i])
    BY DEF TInv, StackOK
  <2> QED
    BY <2>1, <1>3 DEF Underway
<1>7. CircuitsOK(module, DOMAIN variables', circuits)
  BY <1>3 DEF TInv, CircuitsOK, Built
<1> QED
  BY <1>1, <1>2, <1>3, <1>5, <1>6, <1>7 DEF TInv, Prepared, Statuses

(* Whatever step is taken. *)
LEMMA StepTranslates == TInv /\ [Next]_vars => TInv'
<1> SUFFICES ASSUME TInv, [Next]_vars PROVE TInv'
  OBVIOUS
<1>1. CASE Read \/ FindEntry
  BY <1>1, ReadingKeeps
<1>2. CASE PrimeConstants
  BY <1>2, PrimeConstantsKeeps
<1>3. CASE PrimeParameters
  BY <1>3, PrimeParametersKeeps
<1>4. CASE Allocate
  BY <1>4, AllocateKeeps
<1>5. CASE Gate
  BY <1>5, GateKeeps
<1>6. CASE Measure
  BY <1>6, MeasureKeeps
<1>7. CASE Call
  BY <1>7, CallKeeps
<1>8. CASE Descend
  BY <1>8, DescendKeeps
<1>9. CASE Overflow \/ Missing \/ ReturnConstant
  BY <1>9, FailureKeeps
<1>10. CASE Return
  BY <1>10, ReturnKeeps
<1>11. CASE Finish
  BY <1>11, FinishKeeps
<1>12. CASE UNCHANGED vars
  BY <1>12 DEF TInv, Prepared, vars
<1> QED
  BY <1>1, <1>2, <1>3, <1>4, <1>5, <1>6, <1>7, <1>8, <1>9, <1>10, <1>11, <1>12 DEF Next

(* At every moment of a run (translate_module, translate_function_body and  *)
(* what they call) the code of each translation under way, and of each      *)
(* circuit, is the body's, instruction by instruction, on the qubits of its *)
(* operands.                                                                *)
THEOREM Translates == Spec => []TInv
<1>1. Init => TInv
  BY StartTranslating
<1>2. TInv /\ [Next]_vars => TInv'
  BY StepTranslates
<1> QED
  BY <1>1, <1>2, PTL DEF Spec

-----------------------------------------------------------------------------
(* What the checks check. *)

LEMMA TypesFollow == TInv => TypeOK
<1> SUFFICES ASSUME TInv PROVE TypeOK
  OBVIOUS
<1>1. module \in Modules
  BY DEF TInv
<1>2. ASSUME NEW i \in DOMAIN stack
      PROVE  /\ stack[i].fn \in Functions
             /\ stack[i].next \in 1 .. Len(Fun(stack[i].fn).body) + 1
             /\ stack[i].nextQubit \in Nat
             /\ \A n \in DOMAIN stack[i].locals :
                   \E r \in DOMAIN RegisterNames[stack[i].fn] :
                      IsQubit(Fun(stack[i].fn), r) /\ n = NameOf(stack[i].fn, r)
  <2>1. Listed(stack, Len(stack))
    BY DEF TInv, StackOK
  <2>2. i \in 1 .. Len(stack)
    BY <2>1, ListedIs
  <2>3. PICK frame, f, k, fun : /\ frame = stack[i] /\ f = frame.fn /\ k = frame.next
                                /\ fun = module.functions[f]
    OBVIOUS
  <2>4. Underway(module, DOMAIN circuits, DOMAIN variables, frame)
    BY <2>2, <2>3 DEF TInv, StackOK
  <2>5. /\ f \in Functions /\ k \in 1 .. Len(fun.body) + 1
        /\ frame.nextQubit = Allotted(fun, k)
        /\ Binds(f, fun, k, frame.locals)
    BY <2>3, <2>4 DEF Underway, FrameOK
  <2>6. k \in Nat
    BY <2>3, <2>5, <1>1, BodyTypes
  <2>7. Allotted(fun, k) \in Nat
    BY <2>6, CountsGrow
  <2>8. ASSUME NEW n \in DOMAIN frame.locals
        PROVE  \E r \in DOMAIN RegisterNames[f] : IsQubit(fun, r) /\ n = NameOf(f, r)
    <3>1. PICK r \in QubitsBefore(fun, k) : n = NameOf(f, r)
      BY <2>5 DEF Binds
    <3>2. IsQubit(fun, r) /\ r \in DOMAIN RegisterNames[f]
      BY <2>3, <2>5, <2>6, <1>1, QubitsNamed
    <3> QED
      BY <3>1, <3>2
  <2>9. fun = Fun(f)
    BY <2>3 DEF Fun
  <2> QED
    BY <2>3, <2>5, <2>7, <2>8, <2>9
<1>3. DOMAIN circuits \subseteq module.defined
  BY DEF TInv, CircuitsOK, Built, CircuitOK
<1>4. /\ \A n \in DOMAIN variables : variables[n] \in Kinds
      /\ status \in Statuses
  BY DEF TInv
<1> QED
  BY <1>2, <1>3, <1>4 DEF TypeOK, Statuses

(* Every translation under way is at an instruction of its body and has its *)
(* qubits under the names of registers that hold some (function.rs); only   *)
(* functions that the module defines become circuits.                       *)
THEOREM TypeCorrect == Spec => []TypeOK
<1>1. TInv => TypeOK
  BY TypesFollow
<1> QED
  BY <1>1, Translates, PTL

LEMMA DeclaredOnce ==
    ASSUME NEW n, NEW V, n \in V, NEW declared,
           declared = {[name |-> x, type |-> "INTEGER"] : x \in V}
    PROVE  Cardinality({d \in declared : d.name = n}) = 1
<1>1. PICK e : e = [name |-> n, type |-> "INTEGER"]
  OBVIOUS
<1>2. \A d \in declared : d.name = n <=> d = e
  BY <1>1
<1>3. {d \in declared : d.name = n} = {e}
  BY <1>1, <1>2
<1> QED
  BY <1>3, FS_Singleton

LEMMA RegionsFollow == TInv => RegionsDeclared
<1> SUFFICES ASSUME TInv PROVE RegionsDeclared
  OBVIOUS
<1>1. ASSUME NEW f \in DOMAIN circuits PROVE RegionsOf(circuits[f].code) \subseteq DOMAIN variables
  BY DEF TInv, CircuitsOK, Built
<1>2. ASSUME NEW i \in DOMAIN stack PROVE RegionsOf(stack[i].code) \subseteq DOMAIN variables
  <2>1. Listed(stack, Len(stack))
    BY DEF TInv, StackOK
  <2>2. i \in 1 .. Len(stack)
    BY <2>1, ListedIs
  <2> QED
    BY <2>2 DEF TInv, StackOK, Underway
<1>3. RegionsUsed \subseteq DOMAIN variables
  <2> SUFFICES ASSUME NEW x \in RegionsUsed PROVE x \in DOMAIN variables
    OBVIOUS
  <2>1. \/ x \in UNION {RegionsOf(stack[i].code) : i \in DOMAIN stack}
        \/ x \in UNION {RegionsOf(circuits[f].code) : f \in DOMAIN circuits}
    BY DEF RegionsUsed
  <2>2. CASE x \in UNION {RegionsOf(stack[i].code) : i \in DOMAIN stack}
    <3>1. PICK i \in DOMAIN stack : x \in RegionsOf(stack[i].code)
      BY <2>2
    <3> QED
      BY <3>1, <1>2
  <2>3. CASE x \in UNION {RegionsOf(circuits[f].code) : f \in DOMAIN circuits}
    <3>1. PICK f \in DOMAIN circuits : x \in RegionsOf(circuits[f].code)
      BY <2>3
    <3> QED
      BY <3>1, <1>1
  <2> QED
    BY <2>1, <2>2, <2>3
<1>4. ASSUME status = "done",
             NEW n \in RegionsOf(program.code)
                         \union UNION {RegionsOf(program.circuits[f].code) :
                                          f \in DOMAIN program.circuits},
             ~ \E i \in DOMAIN program.parameters : program.parameters[i].name = n
      PROVE  Cardinality(DeclarationsOf(n)) = 1
  <2>1. /\ program.circuits = circuits
        /\ program.variables = {[name |-> x, type |-> "INTEGER"] : x \in DOMAIN variables}
        /\ RegionsOf(program.code) \subseteq DOMAIN variables
    BY <1>4 DEF TInv, OutputOK
  <2>2. n \in DOMAIN variables
    BY <1>1, <1>4, <2>1
  <2>3. PICK V, declared : V = DOMAIN variables /\ declared = program.variables
    OBVIOUS
  <2>4. Cardinality({d \in declared : d.name = n}) = 1
    BY <2>1, <2>2, <2>3, DeclaredOnce
  <2>5. DeclarationsOf(n) = {d \in declared : d.name = n}
    BY <1>4, <2>3 DEF DeclarationsOf
  <2> QED
    BY <2>4, <2>5
<1> QED
  BY <1>3, <1>4 DEF RegionsDeclared

(* The regions of measurements and moves are in GlobalEnvironment.variables *)
(* as soon as they are used, and the DECLAREs that translate_module makes   *)
(* of them declare each once.                                               *)
THEOREM Declared == Spec => []RegionsDeclared
<1>1. TInv => RegionsDeclared
  BY RegionsFollow
<1> QED
  BY <1>1, Translates, PTL

-----------------------------------------------------------------------------
(* prefix_name_for_label keeps the names of different functions apart, if   *)
(* the names of the registers are unambiguous.                              *)

(* A prefixed name, character by character. *)
LEMMA Characterwise ==
    ASSUME NEW f \in Names, NEW n \in Names
    PROVE  /\ Prefixed(f, n) \in Seq(Characters)
           /\ Len(Prefixed(f, n)) = Len(f) + 2 + Len(n)
           /\ \A i \in 1 .. Len(f) : Prefixed(f, n)[i] = f[i]
           /\ Prefixed(f, n)[Len(f) + 1] = Underscore
           /\ Prefixed(f, n)[Len(f) + 2] = Underscore
           /\ \A i \in 1 .. Len(n) : Prefixed(f, n)[Len(f) + 2 + i] = n[i]
<1> DEFINE sep == <<Underscore, Underscore>>
<1>1. sep \in Seq(Characters) /\ Len(sep) = 2 /\ sep[1] = Underscore /\ sep[2] = Underscore
  <2>1. Underscore \in Characters
    BY CharactersAssumption
  <2> QED
    BY <2>1
<1> DEFINE head == f \o sep
<1>2. Prefixed(f, n) = head \o n
  BY DEF Prefixed
<1> HIDE DEF sep
<1>3. /\ head \in Seq(Characters) /\ Len(head) = Len(f) + 2 /\ Len(f) \in Nat
      /\ \A i \in 1 .. Len(f) : head[i] = f[i]
      /\ head[Len(f) + 1] = Underscore /\ head[Len(f) + 2] = Underscore
  <2>1. f \in Seq(Characters) /\ sep \in Seq(Characters)
    BY <1>1 DEF Names
  <2>2. head \in Seq(Characters) /\ Len(f) \in Nat
    BY <2>1
  <2>3. Len(head) = Len(f) + Len(sep)
    BY <2>1
  <2>4. \A i \in 1 .. Len(f) + Len(sep) :
           head[i] = IF i <= Len(f) THEN f[i] ELSE sep[i - Len(f)]
    BY <2>1
  <2> HIDE DEF head
  <2>5. ASSUME NEW i \in 1 .. Len(f) PROVE head[i] = f[i]
    BY <1>1, <2>2, <2>4
  <2>6. head[Len(f) + 1] = sep[1] /\ head[Len(f) + 2] = sep[2]
    BY <1>1, <2>2, <2>4
  <2> QED
    BY <1>1, <2>2, <2>3, <2>5, <2>6
<1> HIDE DEF head
<1>4. n \in Seq(Characters)
  BY DEF Names
<1>5. /\ head \o n \in Seq(Characters) /\ Len(head \o n) = Len(head) + Len(n)
      /\ \A i \in 1 .. Len(head) + Len(n) :
            (head \o n)[i] = IF i <= Len(head) THEN head[i] ELSE n[i - Len(head)]
  BY <1>3, <1>4, ConcatProperties
<1>6. ASSUME NEW i \in 1 .. Len(n) PROVE Prefixed(f, n)[Len(f) + 2 + i] = n[i]
  <2>1. Len(n) \in Nat
    BY <1>4
  <2> QED
    BY <1>2, <1>3, <1>5, <2>1
<1>7. Len(n) \in Nat
  BY <1>4
<1>8. \A i \in 1 .. Len(f) + 2 : Prefixed(f, n)[i] = head[i]
  BY <1>2, <1>3, <1>5, <1>7
<1> QED
  BY <1>2, <1>3, <1>5, <1>6, <1>7, <1>8

(* Of two functions whose prefixed names agree neither name is the longer. *)
LEMMA NoLongerPrefix ==
    ASSUME NEW f \in Names, NEW g \in Names, NEW m \in Names, NEW n \in Names,
           Unambiguous(m), Prefixed(f, m) = Prefixed(g, n)
    PROVE  ~(Len(f) < Len(g))
<1> SUFFICES ASSUME Len(f) < Len(g) PROVE FALSE
  OBVIOUS
<1>1. /\ Len(f) \in Nat /\ Len(g) \in Nat /\ Len(m) \in Nat /\ Len(n) \in Nat
      /\ Len(f) + 2 + Len(m) = Len(g) + 2 + Len(n)
      /\ \A i \in 1 .. Len(m) : Prefixed(f, m)[Len(f) + 2 + i] = m[i]
      /\ Prefixed(f, m)[Len(g) + 1] = Underscore
      /\ Prefixed(f, m)[Len(g) + 2] = Underscore
  <2>1. /\ Len(Prefixed(f, m)) = Len(f) + 2 + Len(m)
        /\ \A i \in 1 .. Len(m) : Prefixed(f, m)[Len(f) + 2 + i] = m[i]
    BY Characterwise
  <2>2. /\ Len(Prefixed(g, n)) = Len(g) + 2 + Len(n)
        /\ Prefixed(g, n)[Len(g) + 1] = Underscore
        /\ Prefixed(g, n)[Len(g) + 2] = Underscore
    BY Characterwise
  <2>3. Len(f) \in Nat /\ Len(g) \in Nat /\ Len(m) \in Nat /\ Len(n) \in Nat
    BY DEF Names
  <2> QED
    BY <2>1, <2>2, <2>3
<1>2. DOMAIN m = 1 .. Len(m) /\ m # <<>>
  BY <1>1 DEF Names
<1>3. CASE Len(g) = Len(f) + 1
  <2>1. m[1] = Prefixed(f, m)[Len(g) + 2]
    BY <1>1, <1>3
  <2> QED
    BY <1>1, <1>2, <2>1 DEF Unambiguous
<1>4. CASE Len(g) > Len(f) + 1
  <2> DEFINE d == Len(g) - Len(f)
  <2>1. d \in 2 .. Len(m) /\ d - 1 \in 1 .. Len(m)
    BY <1>1, <1>4
  <2>2. m[d - 1] = Underscore /\ m[d] = Underscore
    <3>1. Len(f) + 2 + (d - 1) = Len(g) + 1 /\ Len(f) + 2 + d = Len(g) + 2
      BY <1>1
    <3>2. m[d - 1] = Prefixed(f, m)[Len(f) + 2 + (d - 1)]
      BY <1>1, <2>1
    <3>3. m[d] = Prefixed(f, m)[Len(f) + 2 + d]
      BY <1>1, <2>1
    <3> QED
      BY <1>1, <3>1, <3>2, <3>3
  <2>3. d \in DOMAIN m /\ d > 1
    BY <1>2, <2>1
  <2> HIDE DEF d
  <2> QED
    BY <2>2, <2>3 DEF Unambiguous
<1> QED
  BY <1>1, <1>3, <1>4

(* prefix_name_for_label: two registers with unambiguous names that have    *)
(* one memory region are one register of one function.                      *)
THEOREM PrefixInjective ==
    ASSUME NEW f \in Names, NEW g \in Names, NEW m \in Names, NEW n \in Names,
           Unambiguous(m), Unambiguous(n), Prefixed(f, m) = Prefixed(g, n)
    PROVE  f = g /\ m = n
<1>1. Len(f) \in Nat /\ Len(g) \in Nat /\ Len(m) \in Nat /\ Len(n) \in Nat
  BY DEF Names
<1>2. ~(Len(f) < Len(g)) /\ ~(Len(g) < Len(f))
  BY NoLongerPrefix
<1>3. Len(f) + 2 + Len(m) = Len(g) + 2 + Len(n)
  <2>1. Len(Prefixed(f, m)) = Len(f) + 2 + Len(m)
    BY Characterwise
  <2>2. Len(Prefixed(g, n)) = Len(g) + 2 + Len(n)
    BY Characterwise
  <2> QED
    BY <2>1, <2>2
<1>5. ASSUME NEW i \in 1 .. Len(f) PROVE f[i] = g[i]
  <2>1. Prefixed(f, m)[i] = f[i]
    BY Characterwise
  <2>2. i \in 1 .. Len(g)
    BY <1>1, <1>2
  <2>3. Prefixed(g, n)[i] = g[i]
    BY <2>2, Characterwise
  <2> QED
    BY <2>1, <2>3
<1>6. ASSUME NEW i \in 1 .. Len(m) PROVE m[i] = n[i]
  <2>1. Prefixed(f, m)[Len(f) + 2 + i] = m[i]
    BY Characterwise
  <2>2. i \in 1 .. Len(n)
    BY <1>1, <1>2, <1>3
  <2>3. Prefixed(g, n)[Len(g) + 2 + i] = n[i]
    BY <2>2, Characterwise
  <2>4. Len(f) + 2 + i = Len(g) + 2 + i
    BY <1>1, <1>2
  <2> QED
    BY <2>1, <2>3, <2>4
<1>7. Len(f) = Len(g) /\ Len(m) = Len(n)
  BY <1>1, <1>2, <1>3
<1> QED
  BY <1>5, <1>6, <1>7, SeqEqual DEF Names

(* Sanitising keeps names apart that hold no underscore, or no period. *)
THEOREM SanitisedInjective ==
    ASSUME NEW m \in Names, NEW n \in Names, Sanitised(m) = Sanitised(n),
           NEW c \in {Underscore, Period},
           \A i \in DOMAIN m : m[i] # c,
           \A i \in DOMAIN n : n[i] # c
    PROVE  m = n
<1>1. DOMAIN m = DOMAIN n
  BY DEF Sanitised
<1>2. ASSUME NEW i \in DOMAIN m PROVE m[i] = n[i]
  <2>1. Sanitised(m)[i] = IF m[i] = Period THEN Underscore ELSE m[i]
    BY DEF Sanitised
  <2>2. Sanitised(n)[i] = IF n[i] = Period THEN Underscore ELSE n[i]
    BY <1>1 DEF Sanitised
  <2> QED
    BY <1>1, <2>1, <2>2
<1> QED
  BY <1>1, <1>2 DEF Names

(* What is put behind two sequences tells nothing about them. *)
LEMMA TailCancels ==
    ASSUME NEW T, NEW f \in Seq(T), NEW g \in Seq(T), NEW s \in Seq(T), f \o s = g \o s
    PROVE  f = g
<1>1. PICK a \in Nat, b \in Nat, c \in Nat : a = Len(f) /\ b = Len(g) /\ c = Len(s)
  OBVIOUS
<1>2. /\ Len(f \o s) = a + c /\ \A i \in 1 .. a + c : (f \o s)[i] = IF i <= a THEN f[i] ELSE s[i - a]
      /\ Len(g \o s) = b + c /\ \A i \in 1 .. b + c : (g \o s)[i] = IF i <= b THEN g[i] ELSE s[i - b]
  BY <1>1
<1>3. a = b
  <2>1. a + c = b + c
    BY <1>2
  <2> QED
    BY <1>1, <2>1
<1>4. ASSUME NEW i \in 1 .. a PROVE f[i] = g[i]
  <2>1. i \in 1 .. a + c /\ i <= a
    BY <1>1
  <2> QED
    BY <1>2, <1>3, <2>1
<1> QED
  BY <1>1, <1>3, <1>4, SeqEqual

(* The label of a return value is that of one function name only. *)
LEMMA ReturnLabelInjective ==
    ASSUME NEW f \in Names, NEW g \in Names, ReturnLabel(f) = ReturnLabel(g)
    PROVE  f = g
<1>1. PICK T : T = Characters \union {"r", "e", "t", "u", "n", "v", "a", "l"}
  OBVIOUS
<1>2. f \in Seq(T) /\ g \in Seq(T)
  BY <1>1 DEF Names
<1>3. Underscore \in T
  BY <1>1, CharactersAssumption
<1>4. PICK sep : sep = <<Underscore, Underscore>>
  OBVIOUS
<1>5. sep \in Seq(T)
  BY <1>3, <1>4
<1>6. ReturnValue \in Seq(T)
  <2>1. /\ "r" \in T /\ "e" \in T /\ "t" \in T /\ "u" \in T /\ "n" \in T
        /\ "v" \in T /\ "a" \in T /\ "l" \in T
    BY <1>1
  <2> QED
    BY <2>1, <1>3 DEF ReturnValue
<1>7. ReturnLabel(f) = (f \o sep) \o ReturnValue /\ ReturnLabel(g) = (g \o sep) \o ReturnValue
  BY <1>4 DEF ReturnLabel
<1>8. f \o sep \in Seq(T) /\ g \o sep \in Seq(T)
  BY <1>2, <1>5
<1>9. f \o sep = g \o sep
  BY <1>6, <1>7, <1>8, TailCancels
<1> QED
  BY <1>2, <1>5, <1>9, TailCancels
=============================================================================
