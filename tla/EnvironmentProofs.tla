------------------------- MODULE EnvironmentProofs -------------------------
(***************************************************************************)
(* Proofs about Environment, for every choice of its constants.            *)
(***************************************************************************)
EXTENDS Environment, EnumerationProofs, WellFoundedInduction

-----------------------------------------------------------------------------
(* Registers have names, and those of a body's registers are strings. *)
LEMMA SeqNames ==
    /\ Len(RegisterNames) \in Nat
    /\ DOMAIN RegisterNames = 1 .. Len(RegisterNames)
    /\ \A i \in DOMAIN RegisterNames : RegisterNames[i] \in STRING
    /\ TypeOK => /\ Len(regs) \in Nat
                 /\ DOMAIN regs = 1 .. Len(regs)
                 /\ DOMAIN regs \subseteq DOMAIN RegisterNames
                 /\ \A i \in DOMAIN regs : regs[i] \in Types
                 /\ DOMAIN locals \subseteq STRING
<1>1. /\ Len(RegisterNames) \in Nat
      /\ DOMAIN RegisterNames = 1 .. Len(RegisterNames)
      /\ \A i \in DOMAIN RegisterNames : RegisterNames[i] \in STRING
  BY NamesAssumption, LenProperties
<1>2. ASSUME TypeOK
      PROVE  /\ Len(regs) \in Nat
             /\ DOMAIN regs = 1 .. Len(regs)
             /\ DOMAIN regs \subseteq DOMAIN RegisterNames
             /\ \A i \in DOMAIN regs : regs[i] \in Types
             /\ DOMAIN locals \subseteq STRING
  <2>1. regs \in Seq(Types) /\ Len(regs) <= Len(RegisterNames)
    BY <1>2 DEF TypeOK
  <2>2. /\ Len(regs) \in Nat
        /\ DOMAIN regs = 1 .. Len(regs)
        /\ \A i \in DOMAIN regs : regs[i] \in Types
    BY <2>1, LenProperties
  <2>3. DOMAIN regs \subseteq DOMAIN RegisterNames
    BY <1>1, <2>1, <2>2
  <2> QED
    BY <1>1, <1>2, <2>2, <2>3 DEF TypeOK
<1> QED
  BY <1>1, <1>2

-----------------------------------------------------------------------------
(* What the operators return when they return a value. *)

(* The parts of the values that TypeOK admits. *)
LEMMA ValueParts ==
    ASSUME NEW v \in Value
    PROVE  /\ v.kind = "Qubit" => v.qubit \in QuilQubit
           /\ v.kind = "Qubits" => v.qubits \in Seq(QuilQubit)
           /\ v.kind \in {"Array", "Tuple"} =>
                 v.items \in Seq(Item) /\ v = [kind |-> v.kind, items |-> v.items]
           /\ v.kind = "Alias" => v.target \in STRING
           /\ v.kind = "Index" => v.base \in STRING /\ v.index \in Nat
           /\ v.kind = "Data" => v = Data
BY DEF Value, Data

(* A name that resolves is bound, locally or by the module, to no alias. *)
LEMMA Resolved ==
    ASSUME NEW env, NEW n, ResolveIn(env, n).tag = "ok"
    PROVE  /\ ResolveIn(env, n).val \in DOMAIN env \union GlobalConstants
           /\ ~IsAlias(env, ResolveIn(env, n).val)
           /\ ~IsAlias(env, n) => ResolveIn(env, n).val = n
BY DEF ResolveIn, Ok, Err

LEMMA LookedUp ==
    ASSUME TypeOK, NEW n, LookUp(n).tag = "ok"
    PROVE  /\ LookUp(n).val \in Value
           /\ ResolveAlias(n).tag = "ok"
           /\ ResolveAlias(n).val \in DOMAIN locals
           /\ LookUp(n).val = locals[ResolveAlias(n).val]
BY DEF LookUp, Then, Ok, Err, TypeOK

LEMMA QubitOfReturns ==
    ASSUME TypeOK, NEW n, QubitOf(n).tag = "ok"
    PROVE  QubitOf(n).val \in QuilQubit
BY LookedUp, ValueParts DEF QubitOf, Then, Ok, Err, Expect

-----------------------------------------------------------------------------
(* The environment that a store leaves. *)

NamesOf(k) == {RegisterNames[i] : i \in 1 .. k}

LEMMA NamesOfRegisters ==
    ASSUME TypeOK
    PROVE  /\ \A r \in DOMAIN regs : N(r) \in NamesOf(Len(regs))
           /\ \A n \in NamesOf(Len(regs)) : n \in STRING /\ \E r \in DOMAIN regs : n = N(r)
BY SeqNames DEF NamesOf, N

(* An item that is a qubit is one that a name is bound to, a name is that   *)
(* of a register.                                                           *)
Storable(item) ==
    /\ item.is = "Qubit" =>
          \E m \in DOMAIN locals : locals[m].kind = "Qubit" /\ locals[m].qubit = item.qubit
    /\ item.is = "Name" => item.name \in NamesOf(Len(regs))

(* Some items were pushed behind those of the array or tuple n. *)
Pushed(n, v) == /\ locals[n].kind \in {"Array", "Tuple"}
                /\ v.kind = locals[n].kind
                /\ IsPrefixOf(locals[n].items, v.items)
                /\ \A i \in DOMAIN v.items :
                      i \in DOMAIN locals[n].items \/ Storable(v.items[i])

LEMMA PushReturns ==
    ASSUME TypeOK, NEW base, NEW item \in Item, Storable(item),
           PushInto(base, item).tag = "ok"
    PROVE  LET env == PushInto(base, item).val
           IN  /\ DOMAIN env = DOMAIN locals
               /\ \A n \in DOMAIN locals :
                     /\ env[n] \in Value
                     /\ env[n] = locals[n] \/ Pushed(n, env[n])
<1> DEFINE v == locals[base]
           w == [kind |-> v.kind, items |-> Append(v.items, item)]
<1>1. /\ base \in DOMAIN locals
      /\ v.kind \in {"Array", "Tuple"}
      /\ PushInto(base, item).val = Insert(locals, base, w)
  BY DEF PushInto, Then, Expect, Ok, Err
<1>2. v \in Value
  BY <1>1 DEF TypeOK
<1>3. v.items \in Seq(Item) /\ v = [kind |-> v.kind, items |-> v.items]
  BY <1>1, <1>2, ValueParts
<1>4. /\ Append(v.items, item) \in Seq(Item)
      /\ IsPrefixOf(v.items, Append(v.items, item))
  BY <1>3, AppendProperties DEF IsPrefixOf
<1>5. w \in Value
  BY <1>1, <1>4 DEF Value
<1>6. Pushed(base, w)
  <2>1. /\ DOMAIN w.items = 1 .. Len(v.items) + 1
        /\ DOMAIN v.items = 1 .. Len(v.items) /\ Len(v.items) \in Nat
        /\ w.items[Len(v.items) + 1] = item
    BY <1>3, AppendProperties, LenProperties
  <2>2. \A i \in DOMAIN w.items : i \in DOMAIN v.items \/ i = Len(v.items) + 1
    BY <2>1
  <2>3. \A i \in DOMAIN w.items : i \in DOMAIN v.items \/ Storable(w.items[i])
    BY <2>1, <2>2
  <2> QED
    BY <1>1, <1>4, <2>3 DEF Pushed
<1> HIDE DEF w
<1>7. /\ DOMAIN Insert(locals, base, w) = DOMAIN locals
      /\ \A n \in DOMAIN locals :
            Insert(locals, base, w)[n] = IF n = base THEN w ELSE locals[n]
  BY <1>1 DEF Insert
<1> QED
  BY <1>1, <1>5, <1>6, <1>7 DEF TypeOK

(* What any store does: no name appears or goes, and of the entries that    *)
(* change, arrays and tuples grow, and aliases of number memory in rebound  *)
(* become number memory.                                                    *)
Stored(env, rebound) ==
    /\ DOMAIN env = DOMAIN locals
    /\ \A n \in DOMAIN locals :
          /\ env[n] \in Value
          /\ \/ env[n] = locals[n]
             \/ Pushed(n, env[n])
             \/ /\ n \in rebound /\ locals[n].kind = "Alias"
                /\ LookUp(n) = Ok(Data) /\ env[n] = Data

LEMMA StoreRegisterReturns ==
    ASSUME TypeOK, NEW pointer, NEW name \in NamesOf(Len(regs)),
           StoreRegister(pointer, name).tag = "ok"
    PROVE  Stored(StoreRegister(pointer, name).val, {})
<1> DEFINE p == LookUp(pointer).val
           item == StoredItem(p.base, name)
<1>1. LookUp(pointer).tag = "ok"
  BY DEF StoreRegister, Then
<1>2. CASE p.kind # "Index"
  <2>1. StoreRegister(pointer, name).val = locals
    BY <1>1, <1>2 DEF StoreRegister, Then, Ok, Err
  <2> QED
    BY <2>1 DEF Stored, TypeOK
<1>3. CASE p.kind = "Index"
  <2>1. /\ item.tag = "ok"
        /\ StoreRegister(pointer, name) = PushInto(p.base, item.val)
    BY <1>1, <1>3 DEF StoreRegister, Then, Ok, Err
  <2>2. item.val \in Item /\ Storable(item.val)
    <3>1. CASE p.base \in DOMAIN locals /\ locals[p.base].kind = "Tuple"
      <4>1. /\ LookUp(name).tag = "ok"
            /\ LookUp(name).val.kind = "Qubit"
            /\ item.val = QubitItem(LookUp(name).val.qubit)
        BY <2>1, <3>1 DEF StoredItem, Then, Expect, Ok, Err
      <4>2. item.val \in Item
        BY <4>1, LookedUp, ValueParts DEF QubitItem, Item
      <4>3. Storable(item.val)
        BY <4>1, LookedUp DEF QubitItem, Storable
      <4> QED
        BY <4>2, <4>3
    <3>2. CASE ~(p.base \in DOMAIN locals /\ locals[p.base].kind = "Tuple")
      <4>1. item.val = Name(name)
        BY <3>2 DEF StoredItem, Ok
      <4>2. name \in STRING
        BY NamesOfRegisters
      <4> QED
        BY <4>1, <4>2 DEF Name, Item, Storable
    <3> QED
      BY <3>1, <3>2
  <2> QED
    BY <2>1, <2>2, PushReturns DEF Stored
<1> QED
  BY <1>2, <1>3

LEMMA StoreConstantReturns ==
    ASSUME TypeOK, NEW pointer, NEW c, StoreConstant(pointer, c).tag = "ok"
    PROVE  Stored(StoreConstant(pointer, c).val, {pointer})
<1> DEFINE p == LookUp(pointer).val
<1>1. /\ LookUp(pointer).tag = "ok"
      /\ p.kind \in {"Index", "Data"}
      /\ c \in Numbers
  BY DEF StoreConstant, Then, Ok, Err
<1>2. CASE p.kind = "Index"
  <2>1. StoreConstant(pointer, c) = PushInto(p.base, Number(c))
    BY <1>1, <1>2 DEF StoreConstant, Then
  <2>2. Number(c) \in Item /\ Storable(Number(c))
    BY <1>1 DEF Number, Item, Storable
  <2> QED
    BY <2>1, <2>2, PushReturns DEF Stored
<1>3. CASE p.kind = "Data"
  <2>1. StoreConstant(pointer, c).val = Insert(locals, pointer, Data)
    BY <1>1, <1>3 DEF StoreConstant, Then, Ok
  <2>2. p = Data
    BY <1>1, <1>3, LookedUp, ValueParts
  <2>3. /\ pointer \in DOMAIN locals
        /\ locals[pointer].kind = "Alias" \/ locals[pointer] = Data
    BY <1>1, <2>2, LookedUp, Resolved DEF ResolveAlias, IsAlias
  <2>4. Data \in Value
    BY DEF Value
  <2>5. LookUp(pointer) = Ok(Data)
    BY <1>1, <2>2, LookedUp DEF LookUp, Then, Ok, Err
  <2> QED
    BY <2>1, <2>3, <2>4, <2>5 DEF Insert, Stored, TypeOK
<1> QED
  BY <1>1, <1>2, <1>3

-----------------------------------------------------------------------------
(* What an instruction binds its register to. *)

LEMMA CastReturns ==
    ASSUME TypeOK, NEW n \in STRING, NEW type, Fresh \in STRING,
           CastValue(n, type).tag = "ok"
    PROVE  \/ CastValue(n, type).val = Alias(n)
           \/ \E m \in STRING : CastValue(n, type).val = Index(m, 0)
<1> DEFINE env == Insert(locals, Fresh, Alias(n))
           m == ResolveIn(env, n).val
<1>1. DOMAIN env \subseteq STRING
  BY SeqNames DEF Insert, TypeOK
<1>2. m \in DOMAIN env
  BY DEF CastValue, Then, Ok, Err
<1>3. CastValue(n, type).val \in {Alias(n), Index(m, 0)}
  BY DEF CastValue, Then, Ok, Err
<1> QED
  BY <1>1, <1>2, <1>3

LEMMA FieldReturns ==
    ASSUME TypeOK, NEW n, NEW i, FieldValue(n, i).tag = "ok"
    PROVE  \E m \in STRING : FieldValue(n, i).val = Index(m, i)
<1> DEFINE m == ResolveAlias(n).val
<1>1. ResolveAlias(n).tag = "ok" /\ FieldValue(n, i).val = Index(m, i)
  BY DEF FieldValue, Then, Expect, Ok, Err
<1>2. m \in STRING
  BY <1>1, Resolved, SeqNames, GlobalsAssumption DEF ResolveAlias, TypeOK
<1> QED
  BY <1>1, <1>2

-----------------------------------------------------------------------------
(* Every step has one of four effects on the local environment. Whatever    *)
(* the effect, Kept holds of the registers and the rest.                    *)

Kept ==
    /\ regs' \in Seq(Types) /\ Len(regs') <= Len(RegisterNames)
    /\ DOMAIN regs \subseteq DOMAIN regs'
    /\ \A i \in DOMAIN regs : regs'[i] = regs[i]
    /\ declared' \subseteq {RegisterNames[i] : i \in DOMAIN regs'}
    /\ left' \in [Operations -> Nat]

(* The environment stays as it is, ... *)
Untouched == Kept /\ UNCHANGED <<locals, nextQubit>>

(* ... the next register is bound, an alias to an earlier register or a     *)
(* constant, a qubit or a register of qubits to new ones, ...               *)
NewBinding(v, type) ==
    /\ v \in Value
    /\ v.kind = "Alias" => v.target \in NamesOf(Len(regs)) \union GlobalConstants
    /\ type = "Qubit*" => v.kind \in {"Qubit", "Alias"}
    /\ \A q \in OwnedBy(v) : \E k \in nextQubit .. nextQubit' - 1 : q = Fixed(k)
    /\ v.kind = "Qubits" => \A i, j \in DOMAIN v.qubits :
                               v.qubits[i] = v.qubits[j] => i = j
    /\ v.kind \in {"Array", "Tuple"} => v.items = <<>>

Bound ==
    /\ Kept
    /\ nextQubit' \in Nat /\ nextQubit <= nextQubit'
    /\ Len(regs) < Len(RegisterNames) /\ Len(regs') = Len(regs) + 1
    /\ \E v : locals' = Insert(locals, Fresh, v)
              /\ NewBinding(v, regs'[Len(regs) + 1])

(* ... items are pushed or number memory is bound afresh, ...               *)
Changed ==
    /\ Kept /\ regs' = regs /\ UNCHANGED nextQubit
    /\ Stored(locals', {N(p) : p \in OfType("Num*")})

(* ... or the binding of a qubit goes.                                      *)
Dropped ==
    /\ Kept /\ regs' = regs /\ UNCHANGED nextQubit
    /\ \E q \in OfType("Qubit*") : locals' = [m \in DOMAIN locals \ {N(q)} |-> locals[m]]

LEMMA AdvanceKeeps ==
    ASSUME TypeOK, NEW op \in Operations, NEW defined \in Seq(Types), NEW res,
           Advance(op, defined, res)
    PROVE  /\ regs' \in Seq(Types) /\ Len(regs') <= Len(RegisterNames)
           /\ DOMAIN regs \subseteq DOMAIN regs'
           /\ \A i \in DOMAIN regs : regs'[i] = regs[i]
           /\ left' \in [Operations -> Nat]
           /\ {RegisterNames[i] : i \in DOMAIN regs} \subseteq
                 {RegisterNames[i] : i \in DOMAIN regs'}
<1>1. regs \in Seq(Types) /\ Len(regs) <= Len(RegisterNames)
  BY DEF TypeOK
<1>2. left' \in [Operations -> Nat]
  BY DEF Advance, TypeOK
<1>3. CASE regs' = regs
  BY <1>1, <1>2, <1>3
<1>4. CASE regs' = regs \o defined
  <2>1. /\ regs' \in Seq(Types)
        /\ Len(regs') = Len(regs) + Len(defined)
        /\ \A i \in 1 .. Len(regs) + Len(defined) :
              regs'[i] = IF i <= Len(regs) THEN regs[i] ELSE defined[i - Len(regs)]
    BY <1>1, <1>4, ConcatProperties
  <2>2. /\ Len(regs) \in Nat /\ DOMAIN regs = 1 .. Len(regs)
        /\ Len(defined) \in Nat /\ DOMAIN regs' = 1 .. Len(regs')
    BY <1>1, <2>1, LenProperties
  <2>3. Len(regs') <= Len(RegisterNames)
    BY <2>1 DEF Advance
  <2> QED
    BY <1>2, <2>1, <2>2, <2>3
<1> QED
  BY <1>3, <1>4 DEF Advance

(* A register bound to v, or an error. *)
LEMMA BindEffect ==
    ASSUME TypeOK, NEW op \in Operations, NEW type \in Types, NEW res,
           Bind(op, type, res),
           nextQubit' \in Nat, nextQubit <= nextQubit',
           res.tag = "ok" => NewBinding(res.val, type),
           res.tag # "ok" => nextQubit' = nextQubit
    PROVE  Untouched \/ Bound
<1>1. Advance(op, <<type>>, res) /\ declared' = declared
  BY DEF Bind
<1>2. <<type>> \in Seq(Types) /\ Len(<<type>>) = 1 /\ <<type>>[1] = type
  OBVIOUS
<1>3. Kept
  BY <1>1, <1>2, AdvanceKeeps DEF Kept, TypeOK
<1>4. CASE res.tag # "ok"
  BY <1>3, <1>4 DEF Untouched, Bind
<1>5. CASE res.tag = "ok"
  <2>1. /\ regs' = regs \o <<type>>
        /\ Len(regs) + 1 <= Len(RegisterNames)
        /\ locals' = Insert(locals, Fresh, res.val)
    BY <1>1, <1>2, <1>5 DEF Bind, Advance
  <2>2. Len(regs) \in Nat /\ regs \in Seq(Types)
    BY SeqNames DEF TypeOK
  <2>3. Len(regs') = Len(regs) + 1 /\ regs'[Len(regs) + 1] = type
    BY <1>2, <2>1, <2>2, ConcatProperties
  <2>4. Len(regs) < Len(RegisterNames)
    BY <2>1, <2>2, SeqNames
  <2> QED
    BY <1>3, <1>5, <2>1, <2>3, <2>4 DEF Bound
<1> QED
  BY <1>4, <1>5

LEMMA EmitEffect ==
    ASSUME TypeOK, NEW op \in Operations, NEW defined \in Seq(Types), NEW res,
           Emit(op, defined, res), declared' = declared
    PROVE  Untouched
BY AdvanceKeeps DEF Emit, Untouched, Kept, TypeOK

LEMMA StoreEffect ==
    ASSUME TypeOK, NEW res, Update("store", res),
           res.tag = "ok" => \/ Stored(res.val, {})
                             \/ \E p \in OfType("Num*") : Stored(res.val, {N(p)})
    PROVE  Untouched \/ Changed
<1>1. "store" \in Operations /\ <<>> \in Seq(Types)
  BY DEF Operations
<1>2. Kept /\ UNCHANGED nextQubit
  BY <1>1, AdvanceKeeps DEF Update, Kept, TypeOK
<1>3. regs' = regs
  BY ConcatEmptySeq DEF Update, Advance, TypeOK
<1>4. CASE res.tag = "ok"
  <2>1. Stored(locals', {N(p) : p \in OfType("Num*")})
    BY <1>4 DEF Update, Stored
  <2> QED
    BY <1>2, <1>3, <2>1 DEF Changed
<1> QED
  BY <1>2, <1>3, <1>4 DEF Update, Untouched

LEMMA MeasureEffect ==
    ASSUME TypeOK, NEW op \in Operations, NEW res, Measure(op, res)
    PROVE  Untouched
<1> DEFINE gate == Then(res, LAMBDA q : Ok(Measurement(q, Fresh)))
<1>1. Emit(op, <<"Result*">>, gate)
  BY DEF Measure
<1>2. <<"Result*">> \in Seq(Types) /\ Len(<<"Result*">>) = 1
  BY DEF Types
<1>3. CASE res.tag # "ok"
  <2>1. declared' = declared
    BY <1>3 DEF Measure
  <2> QED
    BY <1>1, <1>2, <2>1, EmitEffect
<1>4. CASE res.tag = "ok"
  <2>1. gate.tag = "ok" /\ declared' = declared \union {Fresh}
    BY <1>4 DEF Measure, Then, Ok
  <2>2. Advance(op, <<"Result*">>, gate) /\ UNCHANGED <<locals, nextQubit>>
    BY <1>1 DEF Emit
  <2>3. regs' = regs \o <<"Result*">>
    BY <2>1, <2>2 DEF Advance
  <2>4. regs \in Seq(Types) /\ Len(regs) \in Nat
    BY SeqNames DEF TypeOK
  <2>5. regs' \in Seq(Types) /\ Len(regs') = Len(regs) + 1
    BY <1>2, <2>3, <2>4, ConcatProperties
  <2>6. Len(regs) + 1 \in DOMAIN regs'
    BY <2>4, <2>5, LenProperties
  <2>7. Fresh \in {RegisterNames[i] : i \in DOMAIN regs'}
    BY <2>6 DEF Fresh
  <2> QED
    BY <1>2, <2>1, <2>2, <2>7, AdvanceKeeps DEF Untouched, Kept, TypeOK
<1> QED
  BY <1>3, <1>4

-----------------------------------------------------------------------------
(* One step per instruction. *)

LEMMA CastTypes ==
    ASSUME NEW from, NEW type \in CastsOf(from)
    PROVE  type \in {"Qubit**", "Num*", "Struct*"}
BY DEF CastsOf

Effect == Untouched \/ Bound \/ Changed \/ Dropped

LEMMA DefineEffect ==
    ASSUME TypeOK, Define
    PROVE  Effect
<1> USE DEF Effect
<1>1. /\ nextQubit \in Nat /\ nextQubit <= nextQubit
      /\ MaxLength \in Nat
      /\ \A i \in DOMAIN regs : N(i) \in NamesOf(Len(regs)) /\ N(i) \in STRING
  BY SeqNames, BoundsAssumption DEF TypeOK, N, NamesOf
<1>2. CASE QubitAllocate
  <2> DEFINE v == Qubit(Fixed(nextQubit))
  <2>1. nextQubit' = nextQubit + 1 /\ Bind("qubit_allocate", "Qubit*", Ok(v))
    BY <1>2 DEF QubitAllocate
  <2>2. v \in Value
    BY <1>1 DEF Value, Qubit, Fixed, QuilQubit
  <2>3. OwnedBy(v) = {Fixed(nextQubit)} /\ v.kind = "Qubit"
    BY DEF OwnedBy, Qubit
  <2>4. NewBinding(v, "Qubit*")
    BY <1>1, <2>1, <2>2, <2>3 DEF NewBinding
  <2>5. "qubit_allocate" \in Operations /\ "Qubit*" \in Types
    BY DEF Operations, Types
  <2> HIDE DEF v
  <2> QED
    BY <1>1, <2>1, <2>4, <2>5, BindEffect DEF Ok
<1>3. CASE \E n \in 0 .. MaxLength : QubitAllocateArray(n)
  <2>1. PICK n \in 0 .. MaxLength : QubitAllocateArray(n)
    BY <1>3
  <2> DEFINE qs == [i \in 1 .. n |-> Fixed(nextQubit + i - 1)]
             v == Qubits(qs)
  <2>2. n \in Nat /\ nextQubit' = nextQubit + n
    BY <1>1, <2>1 DEF QubitAllocateArray
  <2>3. Bind("qubit_allocate_array", "Array*", Ok(v))
    BY <2>1 DEF QubitAllocateArray
  <2>4. \A i \in 1 .. n : qs[i] \in QuilQubit /\ nextQubit + i - 1 \in nextQubit .. nextQubit' - 1
    BY <1>1, <2>2 DEF Fixed, QuilQubit
  <2>5. qs \in Seq(QuilQubit)
    BY <2>2, <2>4, SeqDef
  <2>6. v \in Value /\ v.kind = "Qubits" /\ v.qubits = qs
    BY <2>5 DEF Value, Qubits
  <2>7. \A i, j \in DOMAIN qs : qs[i] = qs[j] => i = j
    BY <1>1, <2>2 DEF Fixed
  <2>8. OwnedBy(v) = {qs[i] : i \in 1 .. n}
    BY <2>6 DEF OwnedBy
  <2> HIDE DEF qs, v
  <2>9. \A q \in OwnedBy(v) : \E k \in nextQubit .. nextQubit' - 1 : q = Fixed(k)
    BY <2>4, <2>8 DEF qs
  <2>10. NewBinding(v, "Array*")
    BY <2>6, <2>7, <2>9 DEF NewBinding
  <2> QED
    BY <1>1, <2>2, <2>3, <2>10, BindEffect DEF Ok, Operations, Types
<1>4. CASE ArrayCreate \/ TupleCreate \/ Alloca
  <2>1. <<>> \in Seq(Item)
    OBVIOUS
  <2>2. \A type \in {"Array*", "Tuple*", "Num*"} :
           NewBinding(Array(<<>>), type) /\ NewBinding(Tuple(<<>>), type) /\ NewBinding(Data, type)
    BY <2>1 DEF NewBinding, Array, Tuple, Data, Value, OwnedBy
  <2> QED
    BY <1>1, <1>4, <2>2, BindEffect
       DEF ArrayCreate, TupleCreate, Alloca, Ok, Operations, Types
<1>5. CASE \E a \in OfType("Array*"), i \in 0 .. MaxLength - 1 : ArrayElement(a, i)
  <2>1. PICK a \in DOMAIN regs, i \in Nat : ArrayElement(a, i)
    BY <1>1, <1>5 DEF OfType
  <2>2. NewBinding(Index(N(a), i), "i8*")
    BY <1>1 DEF NewBinding, Index, Value, OwnedBy
  <2> QED
    BY <1>1, <2>1, <2>2, BindEffect DEF ArrayElement, Ok, Operations, Types
<1>6. CASE \E p \in OfType("Qubit**") \union OfType("Num*") : Load(p)
  <2>1. PICK p \in DOMAIN regs : Load(p)
    BY <1>6 DEF OfType
  <2>2. \A type : NewBinding(Alias(N(p)), type)
    BY <1>1 DEF NewBinding, Alias, Value, OwnedBy
  <2> QED
    BY <1>1, <2>1, <2>2, BindEffect DEF Load, Ok, Operations, Types
<1>7. CASE \E g \in GlobalConstants : LoadGlobal(g) \/ BitCastGlobal(g)
  <2>1. PICK g \in GlobalConstants : LoadGlobal(g) \/ BitCastGlobal(g)
    BY <1>7
  <2>2. NewBinding(Alias(g), "Num") /\ NewBinding(Alias(g), "Num*")
    BY GlobalsAssumption DEF NewBinding, Alias, Value, OwnedBy
  <2>3. CASE LoadGlobal(g)
    BY <1>1, <2>3, <2>2, BindEffect DEF LoadGlobal, Ok, Operations, Types
  <2>4. CASE BitCastGlobal(g)
    BY <1>1, <2>4, <2>2, BindEffect DEF BitCastGlobal, Ok, Operations, Types
  <2> QED
    BY <2>1, <2>3, <2>4
<1>8. CASE \E p \in DOMAIN regs : \E type \in CastsOf(regs[p]) : BitCast(p, type)
  <2>1. PICK p \in DOMAIN regs : \E type \in CastsOf(regs[p]) : BitCast(p, type)
    BY <1>8
  <2>2. PICK type \in {"Qubit**", "Num*", "Struct*"} : BitCast(p, type)
    BY <2>1, CastTypes
  <2> DEFINE res == CastValue(N(p), type)
  <2>3. Bind("bitcast", type, res) /\ nextQubit' = nextQubit
    BY <2>2 DEF BitCast
  <2>4. ASSUME res.tag = "ok"
        PROVE  NewBinding(res.val, type)
    <3>1. Len(regs) + 1 \in DOMAIN RegisterNames
      BY <2>3, SeqNames DEF Bind, Advance
    <3>2. Fresh \in STRING
      BY <3>1, SeqNames DEF Fresh
    <3>3. \/ res.val = Alias(N(p))
          \/ \E m \in STRING : res.val = Index(m, 0)
      BY <1>1, <2>4, <3>2, CastReturns
    <3>4. NewBinding(Alias(N(p)), type)
      BY <1>1, <2>2 DEF NewBinding, Alias, Value, OwnedBy
    <3>5. \A m \in STRING : type # "Qubit*" => NewBinding(Index(m, 0), type)
      BY DEF NewBinding, Index, Value, OwnedBy
    <3> QED
      BY <2>2, <3>3, <3>4, <3>5
  <2> QED
    BY <1>1, <2>2, <2>3, <2>4, BindEffect DEF Operations, Types
<1>9. CASE \E p \in OfType("Struct*"), i \in 0 .. 1 : GetElementPtr(p, i)
  <2>1. PICK p \in DOMAIN regs, i \in 0 .. 1 : GetElementPtr(p, i)
    BY <1>9 DEF OfType
  <2> DEFINE res == FieldValue(N(p), i)
  <2>2. FieldType(i) \in {"Num*", "Qubit**"}
    BY DEF FieldType
  <2>3. ASSUME res.tag = "ok"
        PROVE  NewBinding(res.val, FieldType(i))
    <3>1. PICK m \in STRING : res.val = Index(m, i)
      BY <2>3, FieldReturns
    <3> QED
      BY <2>2, <3>1 DEF NewBinding, Index, Value, OwnedBy
  <2> QED
    BY <1>1, <2>1, <2>2, <2>3, BindEffect DEF GetElementPtr, Operations, Types
<1>10. CASE \E type \in IgnoredTypes : Ignored(type)
  <2>1. PICK type \in Types : Ignored(type)
    BY <1>10 DEF IgnoredTypes, Types
  <2>2. <<type>> \in Seq(Types) /\ "ignored" \in Operations
    BY DEF Operations
  <2> QED
    BY <2>1, <2>2, AdvanceKeeps DEF Ignored, Untouched, Kept, TypeOK
<1> QED
  BY <1>2, <1>3, <1>4, <1>5, <1>6, <1>7, <1>8, <1>9, <1>10 DEF Define

LEMMA ModifyEffect ==
    ASSUME TypeOK, Modify
    PROVE  Effect
<1> USE DEF Effect
<1>1. \A i \in DOMAIN regs : N(i) \in STRING
  BY SeqNames DEF N
<1>2. CASE \E q \in OfType("Qubit*") : QubitRelease(q)
  <2>1. PICK q \in OfType("Qubit*") : QubitRelease(q)
    BY <1>2
  <2> DEFINE env == [m \in DOMAIN locals \ {N(q)} |-> locals[m]]
  <2>2. Update("qubit_release", Ok(env))
    BY <2>1 DEF QubitRelease
  <2>3. locals' = env /\ UNCHANGED <<nextQubit, declared>>
    BY <2>2 DEF Update, Ok
  <2>4. Advance("qubit_release", <<>>, Ok(env))
    BY <2>2 DEF Update
  <2>5. regs' = regs
    BY <2>4, ConcatEmptySeq DEF Advance, TypeOK
  <2>6. "qubit_release" \in Operations /\ <<>> \in Seq(Types)
    BY DEF Operations
  <2>7. Kept
    BY <2>3, <2>4, <2>6, AdvanceKeeps DEF Kept, TypeOK
  <2> QED
    BY <2>3, <2>5, <2>7 DEF Dropped
<1>3. CASE \/ \E p \in OfType("Qubit**"), q \in OfType("Qubit*") : StoreReg(p, q)
           \/ \E p \in OfType("Num*"), x \in OfType("Num") : StoreReg(p, x)
  <2>1. PICK p \in DOMAIN regs, r \in DOMAIN regs : StoreReg(p, r)
    BY <1>3 DEF OfType
  <2>2. N(r) \in NamesOf(Len(regs))
    BY NamesOfRegisters
  <2> QED
    BY <2>1, <2>2, StoreRegisterReturns, StoreEffect DEF StoreReg
<1>4. CASE \E p \in OfType("Num*"), c \in Numbers \union {"null"} : StoreConst(p, c)
  BY <1>4, StoreConstantReturns, StoreEffect DEF StoreConst
<1>5. CASE \E e \in Refusals : Refuse(e)
  <2>1. PICK e \in Refusals : Update("refused", Err(e))
    BY <1>5 DEF Refuse
  <2>2. "refused" \in Operations /\ <<>> \in Seq(Types) /\ Err(e).tag # "ok"
    BY DEF Operations, Err, Refusals
  <2> QED
    BY <2>1, <2>2, AdvanceKeeps DEF Update, Untouched, Kept, TypeOK
<1> QED
  BY <1>2, <1>3, <1>4, <1>5 DEF Modify

LEMMA ApplyEffect ==
    ASSUME TypeOK, Apply
    PROVE  Untouched
<1>1. /\ {"call", "x_ctl", "m_body", "measure_body"} \subseteq Operations
      /\ {<<>>, <<"Num">>, <<"Qubit*">>} \subseteq Seq(Types)
      /\ <<>> \in Seq(Types)
      /\ DOMAIN PlainGate \subseteq Operations
      /\ DOMAIN RotationGate \subseteq Operations
      /\ DOMAIN ControlledName \subseteq Operations
      /\ DOMAIN ControlledRotationName \subseteq Operations
  <2>1. Intrinsics \subseteq Operations
    BY DEF Operations
  <2> QED
    BY <2>1 DEF Intrinsics, Operations, Types
<1>2. ASSUME NEW g \in DOMAIN PlainGate, NEW args, Gate(g, args) PROVE Untouched
  BY <1>1, <1>2, EmitEffect DEF Gate
<1>3. ASSUME NEW g \in DOMAIN RotationGate, NEW args, NEW angles, Rotation(g, args, angles)
      PROVE  Untouched
  BY <1>1, <1>3, EmitEffect DEF Rotation
<1>4. ASSUME NEW args, NEW cs, NEW d \in {<<>>, <<"Num">>, <<"Qubit*">>}, UserCall(args, cs, d)
      PROVE  Untouched
  BY <1>1, <1>4, EmitEffect DEF UserCall
<1>5. ASSUME NEW a, NEW t, XCtlCall(a, t) PROVE Untouched
  BY <1>1, <1>5, EmitEffect DEF XCtlCall
<1>7. ASSUME NEW a, NEW t, NEW g \in DOMAIN ControlledName, GateCtl(g, a, t)
      PROVE  Untouched
  BY <1>1, <1>7, EmitEffect DEF GateCtl
<1>8. ASSUME NEW a, NEW t, NEW g \in DOMAIN ControlledRotationName, RotationCtl(g, a, t)
      PROVE  Untouched
  BY <1>1, <1>8, EmitEffect DEF RotationCtl
<1>6. ASSUME NEW b, NEW q, MBodyCall(q) \/ MeasureBodyCall(b, q) PROVE Untouched
  BY <1>1, <1>6, MeasureEffect DEF MBodyCall, MeasureBodyCall
<1> QED
  BY <1>2, <1>3, <1>4, <1>5, <1>6, <1>7, <1>8 DEF Apply

LEMMA StepEffect ==
    ASSUME TypeOK, [Next]_vars
    PROVE  Effect
<1>1. CASE Finish \/ UNCHANGED vars
  BY <1>1 DEF Finish, vars, TypeOK, Effect, Untouched, Kept
<1> QED
  BY <1>1, DefineEffect, ModifyEffect, ApplyEffect DEF Next, Effect

-----------------------------------------------------------------------------
(* Type correctness. *)

LEMMA InitialType == Init => TypeOK
<1> SUFFICES ASSUME Init PROVE TypeOK
  OBVIOUS
<1>1. /\ regs \in Seq(Types) /\ Len(regs) <= Len(RegisterNames)
      /\ left \in [Operations -> Nat]
  BY ParamsAssumption, BoundsAssumption DEF Init
<1>2. PrimedNames \subseteq STRING /\ PrimedNames \subseteq {RegisterNames[i] : i \in DOMAIN regs}
  <2>1. Len(regs) \in Nat /\ DOMAIN regs = 1 .. Len(regs)
    BY <1>1, LenProperties
  <2> QED
    BY <1>1, <2>1, SeqNames DEF PrimedNames, Init
<1>3. \A n \in PrimedNames : Qubit(Variable(n)) \in Value
  BY <1>2 DEF Qubit, Variable, Value, QuilQubit
<1> QED
  BY <1>1, <1>2, <1>3 DEF Init, TypeOK

LEMMA TypeKept ==
    ASSUME TypeOK, Effect
    PROVE  TypeOK'
<1>1. DOMAIN locals \subseteq {RegisterNames[i] : i \in DOMAIN regs} /\ nextQubit \in Nat
  BY DEF TypeOK
<1>2. Kept
  BY DEF Effect, Untouched, Bound, Changed, Dropped
<1>3. {RegisterNames[i] : i \in DOMAIN regs} \subseteq {RegisterNames[i] : i \in DOMAIN regs'}
  BY <1>2 DEF Kept
<1>4. nextQubit' \in Nat
  BY <1>1 DEF Effect, Untouched, Bound, Changed, Dropped
<1>5. /\ DOMAIN locals' \subseteq {RegisterNames[i] : i \in DOMAIN regs'}
      /\ \A n \in DOMAIN locals' : locals'[n] \in Value
  <2>1. CASE Untouched
    BY <1>1, <1>3, <2>1 DEF Untouched, TypeOK
  <2>2. CASE Bound
    <3>1. PICK v : locals' = Insert(locals, Fresh, v) /\ v \in Value
      BY <2>2 DEF Bound, NewBinding
    <3>2. Len(regs) + 1 \in DOMAIN regs'
      BY <1>2, <2>2, SeqNames, LenProperties DEF Bound, Kept
    <3>3. Fresh \in {RegisterNames[i] : i \in DOMAIN regs'}
      BY <3>2 DEF Fresh
    <3> QED
      BY <1>1, <1>3, <3>1, <3>3 DEF Insert, TypeOK
  <2>3. CASE Changed
    BY <1>1, <1>3, <2>3 DEF Changed, Stored
  <2>4. CASE Dropped
    BY <1>1, <1>3, <2>4 DEF Dropped, TypeOK
  <2> QED
    BY <2>1, <2>2, <2>3, <2>4 DEF Effect
<1> QED
  BY <1>2, <1>4, <1>5 DEF Kept, TypeOK

(* At every step of the translation of any body the environment maps names  *)
(* of registers defined so far to values, and memory is declared for        *)
(* registers of the body only, whatever the names of the registers.         *)
THEOREM TypeCorrect == Spec => []TypeOK
<1>1. TypeOK /\ [Next]_vars => TypeOK'
  BY StepEffect, TypeKept
<1> QED
  BY InitialType, <1>1, PTL DEF Spec

-----------------------------------------------------------------------------
(* The inductive invariant behind the other properties. They need the names *)
(* of registers to be distinct; EnvCollision shows what happens otherwise.  *)

(* Aliases point backwards: to an earlier register or to a constant. *)
AliasesDescend ==
    \A i \in DOMAIN regs :
        IsAlias(locals, N(i)) => locals[N(i)].target \in NamesOf(i - 1) \union GlobalConstants

(* A register that holds a qubit is bound to one or to the pointer it was   *)
(* loaded from, if it is bound at all.                                      *)
QubitBindings ==
    \A q \in OfType("Qubit*") :
        N(q) \in DOMAIN locals => locals[N(q)].kind \in {"Qubit", "Alias"}

IInv == TypeOK /\ AliasesDescend /\ QubitBindings /\ AllocationsDisjoint

LEMMA InitialInvariant == NamesDistinct /\ Init => IInv
<1> SUFFICES ASSUME NamesDistinct, Init PROVE IInv
  OBVIOUS
<1>1. TypeOK
  BY InitialType
<1>2. DOMAIN locals = PrimedNames /\ \A n \in PrimedNames : locals[n] = Qubit(Variable(n))
  BY DEF Init
<1>3. AliasesDescend /\ QubitBindings
  BY <1>2 DEF AliasesDescend, QubitBindings, IsAlias, Qubit
<1>4. AllocationsDisjoint
  <2>1. \A n \in DOMAIN locals : locals[n].kind = "Qubit" /\ OwnedBy(locals[n]) = {[variable |-> n]}
    BY <1>2 DEF OwnedBy, Qubit, Variable
  <2>2. \A n : "fixed" \notin DOMAIN [variable |-> n] /\ [variable |-> n].variable = n
    OBVIOUS
  <2>3. \A m, n : m # n => {[variable |-> m]} \intersect {[variable |-> n]} = {}
    BY <2>2
  <2> QED
    BY <2>1, <2>2, <2>3 DEF AllocationsDisjoint
<1> QED
  BY <1>1, <1>3, <1>4 DEF IInv

(* The next register is not bound yet. *)
LEMMA FreshIsNew ==
    ASSUME NamesDistinct, TypeOK, Len(regs) < Len(RegisterNames)
    PROVE  Fresh \notin DOMAIN locals /\ \A i \in DOMAIN regs : N(i) # Fresh
<1>1. /\ Len(regs) + 1 \in DOMAIN RegisterNames
      /\ \A i \in DOMAIN regs : i \in DOMAIN RegisterNames /\ i # Len(regs) + 1
  BY SeqNames
<1>2. \A i \in DOMAIN regs : N(i) # Fresh
  BY <1>1 DEF NamesDistinct, N, Fresh
<1> QED
  BY <1>2 DEF TypeOK, N

(* What is bound is bound for a register that was defined before the step.  *)
LEMMA BoundBefore ==
    ASSUME NamesDistinct, TypeOK, Kept, NEW i \in DOMAIN regs', N(i) \in DOMAIN locals
    PROVE  i \in DOMAIN regs
<1>1. PICK j \in DOMAIN regs : N(i) = N(j)
  BY DEF TypeOK, N
<1>2. regs' \in Seq(Types) /\ Len(regs') <= Len(RegisterNames)
  BY DEF Kept
<1>3. Len(regs') \in Nat /\ DOMAIN regs' = 1 .. Len(regs')
  BY <1>2, LenProperties
<1>4. i \in DOMAIN RegisterNames /\ j \in DOMAIN RegisterNames
  BY <1>1, <1>2, <1>3, SeqNames
<1> QED
  BY <1>1, <1>4 DEF NamesDistinct, N

LEMMA AliasesKeepDescending ==
    ASSUME NamesDistinct, IInv, Effect
    PROVE  AliasesDescend'
<1>1. TypeOK /\ AliasesDescend /\ Len(regs) \in Nat /\ DOMAIN regs = 1 .. Len(regs)
  BY SeqNames DEF IInv
<1> SUFFICES ASSUME NEW i \in DOMAIN regs', IsAlias(locals', N(i))
             PROVE  locals'[N(i)].target \in NamesOf(i - 1) \union GlobalConstants
  BY DEF AliasesDescend
<1>2. CASE Untouched \/ Changed \/ Dropped
  <2>1. N(i) \in DOMAIN locals /\ locals'[N(i)] = locals[N(i)]
    <3>1. CASE Untouched
      BY <3>1 DEF Untouched, IsAlias
    <3>2. CASE Changed
      <4>1. Stored(locals', {N(p) : p \in OfType("Num*")})
        BY <3>2 DEF Changed
      <4> QED
        BY <4>1 DEF Stored, Pushed, IsAlias, Data
    <3>3. CASE Dropped
      BY <3>3 DEF Dropped, IsAlias
    <3> QED
      BY <1>2, <3>1, <3>2, <3>3
  <2>2. Kept
    BY <1>2 DEF Untouched, Changed, Dropped
  <2>3. i \in DOMAIN regs
    BY <1>1, <2>1, <2>2, BoundBefore
  <2> QED
    BY <1>1, <2>1, <2>3 DEF AliasesDescend, IsAlias
<1>3. CASE Bound
  <2>1. PICK v : /\ locals' = Insert(locals, Fresh, v)
                 /\ v.kind = "Alias" => v.target \in NamesOf(Len(regs)) \union GlobalConstants
    BY <1>3 DEF Bound, NewBinding
  <2>2. DOMAIN regs' = 1 .. Len(regs) + 1
    BY <1>1, <1>3, LenProperties DEF Bound, Kept
  <2>3. CASE i = Len(regs) + 1
    <3>1. N(i) = Fresh /\ i - 1 = Len(regs)
      BY <1>1, <2>3 DEF N, Fresh
    <3>2. locals'[N(i)] = v
      BY <2>1, <3>1 DEF Insert
    <3> QED
      BY <2>1, <3>1, <3>2 DEF IsAlias
  <2>4. CASE i # Len(regs) + 1
    <3>1. i \in DOMAIN regs
      BY <1>1, <2>2, <2>4
    <3>2. N(i) # Fresh
      BY <1>1, <1>3, <3>1, FreshIsNew DEF Bound
    <3>3. N(i) \in DOMAIN locals /\ locals'[N(i)] = locals[N(i)]
      BY <2>1, <3>2 DEF Insert, IsAlias
    <3> QED
      BY <1>1, <3>1, <3>3 DEF AliasesDescend, IsAlias
  <2> QED
    BY <2>3, <2>4
<1> QED
  BY <1>2, <1>3 DEF Effect

LEMMA QubitBindingsKept ==
    ASSUME NamesDistinct, IInv, Effect
    PROVE  QubitBindings'
<1>1. TypeOK /\ QubitBindings /\ Len(regs) \in Nat /\ DOMAIN regs = 1 .. Len(regs)
  BY SeqNames DEF IInv
<1> SUFFICES ASSUME NEW q \in DOMAIN regs', regs'[q] = "Qubit*", N(q) \in DOMAIN locals'
             PROVE  locals'[N(q)].kind \in {"Qubit", "Alias"}
  BY DEF QubitBindings, OfType
<1>2. CASE Untouched
  <2>1. N(q) \in DOMAIN locals /\ locals' = locals
    BY <1>2 DEF Untouched
  <2>2. Kept
    BY <1>2 DEF Untouched
  <2>3. q \in DOMAIN regs /\ regs[q] = "Qubit*"
    BY <1>1, <2>1, <2>2, BoundBefore DEF Kept
  <2> QED
    BY <1>1, <2>1, <2>3 DEF QubitBindings, OfType
<1>3. CASE Changed
  <2>1. q \in OfType("Qubit*") /\ N(q) \in DOMAIN locals
    BY <1>3 DEF Changed, Stored, OfType
  <2>2. N(q) \notin {N(p) : p \in OfType("Num*")}
    BY <1>1, <2>1, SeqNames DEF OfType, NamesDistinct, N
  <2> QED
    BY <1>1, <1>3, <2>1, <2>2 DEF Changed, Stored, Pushed, QubitBindings
<1>4. CASE Dropped
  BY <1>1, <1>4 DEF Dropped, QubitBindings, OfType
<1>5. CASE Bound
  <2>1. PICK v : /\ locals' = Insert(locals, Fresh, v)
                 /\ regs'[Len(regs) + 1] = "Qubit*" => v.kind \in {"Qubit", "Alias"}
    BY <1>5 DEF Bound, NewBinding
  <2>2. DOMAIN regs' = 1 .. Len(regs) + 1
    BY <1>1, <1>5, LenProperties DEF Bound, Kept
  <2>3. CASE q = Len(regs) + 1
    <3>1. locals'[N(q)] = v
      BY <2>1, <2>3 DEF Insert, N, Fresh
    <3> QED
      BY <2>1, <2>3, <3>1
  <2>4. CASE q # Len(regs) + 1
    <3>1. q \in DOMAIN regs /\ regs[q] = "Qubit*"
      BY <1>1, <1>5, <2>2, <2>4 DEF Bound, Kept
    <3>2. N(q) # Fresh
      BY <1>1, <1>5, <3>1, FreshIsNew DEF Bound
    <3>3. N(q) \in DOMAIN locals /\ locals'[N(q)] = locals[N(q)]
      BY <2>1, <3>2 DEF Insert
    <3> QED
      BY <1>1, <3>1, <3>3 DEF QubitBindings, OfType
  <2> QED
    BY <2>3, <2>4
<1> QED
  BY <1>2, <1>3, <1>4, <1>5 DEF Effect

(* A store gives no qubit to an entry and takes none from it. *)
LEMMA StoresKeepOwners ==
    ASSUME NEW rebound, Stored(locals', rebound), NEW n \in DOMAIN locals
    PROVE  /\ OwnedBy(locals'[n]) = OwnedBy(locals[n])
           /\ locals'[n].kind = "Qubits" => locals'[n] = locals[n]
<1>1. CASE locals'[n] = locals[n]
  BY <1>1
<1>2. CASE Pushed(n, locals'[n])
  BY <1>2 DEF Pushed, OwnedBy
<1>3. CASE locals[n].kind = "Alias" /\ locals'[n] = Data
  BY <1>3 DEF OwnedBy, Data
<1> QED
  BY <1>1, <1>2, <1>3 DEF Stored

LEMMA OwnedQubits ==
    ASSUME TypeOK, NEW n \in DOMAIN locals, NEW q \in OwnedBy(locals[n])
    PROVE  q \in QuilQubit
<1>1. locals[n] \in Value
  BY DEF TypeOK
<1>2. CASE locals[n].kind = "Qubit"
  BY <1>1, <1>2, ValueParts DEF OwnedBy
<1>3. CASE locals[n].kind = "Qubits"
  <2>1. locals[n].qubits \in Seq(QuilQubit)
    BY <1>1, <1>3, ValueParts
  <2>2. \A i \in DOMAIN locals[n].qubits : locals[n].qubits[i] \in QuilQubit
    BY <2>1, LenProperties
  <2> QED
    BY <1>3, <2>2 DEF OwnedBy
<1> QED
  BY <1>2, <1>3 DEF OwnedBy

LEMMA AllocationsKeptDisjoint ==
    ASSUME NamesDistinct, IInv, Effect
    PROVE  AllocationsDisjoint'
<1>1. TypeOK /\ AllocationsDisjoint /\ nextQubit \in Nat
  BY DEF IInv, TypeOK
<1>2. CASE Untouched
  BY <1>1, <1>2 DEF Untouched, AllocationsDisjoint
<1>3. CASE Changed
  <2>1. /\ Stored(locals', {N(p) : p \in OfType("Num*")})
        /\ nextQubit' = nextQubit
    BY <1>3 DEF Changed
  <2>2. DOMAIN locals' = DOMAIN locals
    BY <2>1 DEF Stored
  <2>3. \A n \in DOMAIN locals :
            /\ OwnedBy(locals'[n]) = OwnedBy(locals[n])
            /\ locals'[n].kind = "Qubits" => locals'[n] = locals[n]
    BY <2>1, StoresKeepOwners
  <2> QED
    BY <1>1, <2>1, <2>2, <2>3 DEF AllocationsDisjoint
<1>4. CASE Dropped
  <2>1. /\ DOMAIN locals' \subseteq DOMAIN locals
        /\ \A n \in DOMAIN locals' : locals'[n] = locals[n]
        /\ nextQubit' = nextQubit
    BY <1>4 DEF Dropped
  <2> QED
    BY <1>1, <2>1 DEF AllocationsDisjoint
<1>5. CASE Bound
  <2>1. /\ Fresh \notin DOMAIN locals
        /\ nextQubit' \in Nat /\ nextQubit <= nextQubit'
    BY <1>1, <1>5, FreshIsNew DEF Bound
  <2>2. PICK v :
          /\ locals' = Insert(locals, Fresh, v)
          /\ \A q \in OwnedBy(v) : \E k \in nextQubit .. nextQubit' - 1 : q = Fixed(k)
          /\ v.kind = "Qubits" => \A i, j \in DOMAIN v.qubits :
                                     v.qubits[i] = v.qubits[j] => i = j
    BY <1>5 DEF Bound, NewBinding
  <2>3. /\ DOMAIN locals' = DOMAIN locals \union {Fresh}
        /\ locals'[Fresh] = v
        /\ \A n \in DOMAIN locals : locals'[n] = locals[n]
    BY <2>1, <2>2 DEF Insert
  <2>4. \A q \in OwnedBy(v) : /\ "fixed" \in DOMAIN q
                             /\ q.fixed \in nextQubit .. nextQubit' - 1
    BY <2>2 DEF Fixed
  <2>5. \A n \in DOMAIN locals' : \A q \in OwnedBy(locals'[n]) :
           "fixed" \in DOMAIN q => q.fixed < nextQubit'
    <3>1. \A q \in OwnedBy(v) : q.fixed < nextQubit'
      BY <1>1, <2>1, <2>4
    <3>2. \A n \in DOMAIN locals : \A q \in OwnedBy(locals[n]) :
             "fixed" \in DOMAIN q => q.fixed < nextQubit'
      <4>1. SUFFICES ASSUME NEW n \in DOMAIN locals, NEW q \in OwnedBy(locals[n]),
                            "fixed" \in DOMAIN q
                     PROVE  q.fixed < nextQubit'
        OBVIOUS
      <4>2. q.fixed < nextQubit
        BY <1>1, <4>1 DEF AllocationsDisjoint
      <4>3. q.fixed \in Nat
        BY <1>1, <4>1, OwnedQubits DEF QuilQubit
      <4> QED
        BY <1>1, <2>1, <4>2, <4>3
    <3> QED
      BY <2>3, <3>1, <3>2
  <2>6. \A n \in DOMAIN locals : OwnedBy(v) \intersect OwnedBy(locals[n]) = {}
    <3>1. SUFFICES ASSUME NEW n \in DOMAIN locals, NEW q \in OwnedBy(locals[n]), q \in OwnedBy(v)
                   PROVE  FALSE
      OBVIOUS
    <3>2. "fixed" \in DOMAIN q /\ q.fixed \in nextQubit .. nextQubit' - 1
      BY <2>4, <3>1
    <3>3. q.fixed < nextQubit
      BY <1>1, <3>1, <3>2 DEF AllocationsDisjoint
    <3> QED
      BY <1>1, <2>1, <3>2, <3>3
  <2>7. \A m, n \in DOMAIN locals' :
           m # n => OwnedBy(locals'[m]) \intersect OwnedBy(locals'[n]) = {}
    <3>1. \A m, n \in DOMAIN locals :
             m # n => OwnedBy(locals[m]) \intersect OwnedBy(locals[n]) = {}
      BY <1>1 DEF AllocationsDisjoint
    <3> QED
      BY <2>3, <2>6, <3>1
  <2>8. \A n \in DOMAIN locals' : locals'[n].kind = "Qubits" =>
           \A i, j \in DOMAIN locals'[n].qubits :
              locals'[n].qubits[i] = locals'[n].qubits[j] => i = j
    BY <1>1, <2>2, <2>3 DEF AllocationsDisjoint
  <2> QED
    BY <2>5, <2>7, <2>8 DEF AllocationsDisjoint
<1> QED
  BY <1>2, <1>3, <1>4, <1>5 DEF Effect

LEMMA InvariantKept ==
    ASSUME NamesDistinct, IInv, [Next]_vars
    PROVE  IInv'
<1>1. TypeOK /\ Effect
  BY StepEffect DEF IInv
<1> QED
  BY <1>1, TypeKept, AliasesKeepDescending, QubitBindingsKept, AllocationsKeptDisjoint
     DEF IInv

(* IInv is an invariant of the translation of any body whose registers have *)
(* distinct names: the invariant behind the theorems below.                 *)
THEOREM Invariance ==
    ASSUME NamesDistinct
    PROVE  Spec => []IInv
<1>1. Init => IInv
  BY InitialInvariant
<1>2. IInv /\ [Next]_vars => IInv'
  BY InvariantKept
<1> QED
  BY <1>1, <1>2, PTL DEF Spec

-----------------------------------------------------------------------------
(* The properties. *)

(* qubit_allocate and qubit_allocate_array never hand out a qubit twice in  *)
(* one body, and a register of qubits owns as many as its length.           *)
THEOREM QubitsAllocatedOnce ==
    ASSUME NamesDistinct
    PROVE  Spec => []AllocationsDisjoint
<1>1. IInv => AllocationsDisjoint
  BY DEF IInv
<1> QED
  BY <1>1, Invariance, PTL

LEMMA SmallestMember ==
    ASSUME NEW I \in SUBSET Nat, I # {}
    PROVE  \E i \in I : \A j \in I : ~(j < i)
<1> DEFINE Before == {ss \in Nat \X Nat : ss[1] < ss[2]}
<1>1. IsWellFoundedOn(Before, Nat)
  BY NatLessThanWellFounded DEF OpToRel
<1>2. \E i \in I : \A j \in I : <<j, i>> \notin Before
  <2> HIDE DEF Before
  <2> QED
    BY <1>1, WFMin
<1> QED
  BY <1>2

(* The loop of resolve_alias meets no cycle: of a set of aliases, the one   *)
(* for the earliest register leads out of the set.                          *)
LEMMA DescentEnds ==
    ASSUME NamesDistinct, IInv
    PROVE  NoAliasCycle
<1> SUFFICES ASSUME NEW S \in SUBSET AliasNames, S # {}
             PROVE  \E n \in S : locals[n].target \notin S
  BY DEF NoAliasCycle
<1>1. TypeOK /\ AliasesDescend /\ DOMAIN regs = 1 .. Len(regs) /\ Len(regs) \in Nat
  BY SeqNames DEF IInv
<1> DEFINE I == {i \in DOMAIN regs : N(i) \in S}
<1>2. I \subseteq Nat /\ I # {}
  BY <1>1 DEF TypeOK, AliasNames, N
<1>3. PICK i \in I : \A j \in I : ~(j < i)
  BY <1>2, SmallestMember
<1>5. locals[N(i)].target \in NamesOf(i - 1) \union GlobalConstants
  BY <1>1 DEF AliasesDescend, AliasNames, IsAlias
<1>6. CASE locals[N(i)].target \in NamesOf(i - 1)
  <2>1. PICK j \in 1 .. i - 1 : locals[N(i)].target = RegisterNames[j]
    BY <1>6 DEF NamesOf
  <2>2. j \in DOMAIN regs /\ j < i
    BY <1>1, <2>1
  <2> QED
    BY <1>3, <2>1, <2>2 DEF N
<1>7. CASE locals[N(i)].target \in GlobalConstants
  <2>1. \A n \in S : \E j \in DOMAIN RegisterNames : n = RegisterNames[j]
    BY <1>1, SeqNames DEF AliasNames, TypeOK
  <2> QED
    BY <1>7, <2>1 DEF NamesDistinct
<1> QED
  BY <1>5, <1>6, <1>7

(* resolve_alias comes to an end from every name of the environment. *)
THEOREM AliasesAcyclic ==
    ASSUME NamesDistinct
    PROVE  Spec => []NoAliasCycle
<1>1. IInv => NoAliasCycle
  BY DescentEnds
<1> QED
  BY <1>1, Invariance, PTL

LEMMA EffectKeepsMeanings ==
    ASSUME NamesDistinct, IInv, Effect, NEW n \in DOMAIN locals
    PROVE  KeepsMeaning(n)
<1>1. TypeOK /\ QubitBindings
  BY DEF IInv
<1>2. CASE Untouched
  BY <1>2 DEF Untouched, KeepsMeaning
<1>3. CASE Bound
  BY <1>1, <1>3, FreshIsNew DEF Bound, KeepsMeaning, Insert
<1>4. CASE Changed
  BY <1>4 DEF Changed, Stored, Pushed, KeepsMeaning
<1>5. CASE Dropped
  BY <1>1, <1>5 DEF Dropped, QubitBindings, KeepsMeaning, OfType
<1> QED
  BY <1>2, <1>3, <1>4, <1>5 DEF Effect

(* No later instruction changes what a register denotes. *)
THEOREM MeaningsKept ==
    ASSUME NamesDistinct
    PROVE  Spec => BindingsGrow
<1>1. IInv /\ [Next]_vars => [\A n \in DOMAIN locals : KeepsMeaning(n)]_vars
  <2>1. SUFFICES ASSUME IInv, [Next]_vars
                 PROVE  \A n \in DOMAIN locals : KeepsMeaning(n)
    OBVIOUS
  <2>2. Effect
    BY <2>1, StepEffect DEF IInv
  <2> QED
    BY <2>1, <2>2, EffectKeepsMeanings
<1> QED
  BY <1>1, Invariance, PTL DEF Spec, BindingsGrow
-----------------------------------------------------------------------------
(* The qubits of what is emitted: those that entries hold are known ones,   *)
(* and the names in arrays are names of registers.                          *)

KnownQubits == AllocatedQubits \union FormalQubits

(* The qubits an entry holds, in its own right or among its items, and the  *)
(* names among them.                                                        *)
HeldBy(v) ==
    IF v.kind \in {"Array", "Tuple"}
    THEN {v.items[i].qubit : i \in {j \in DOMAIN v.items : v.items[j].is = "Qubit"}}
    ELSE OwnedBy(v)
NamedBy(v) ==
    IF v.kind \in {"Array", "Tuple"}
    THEN {v.items[i].name : i \in {j \in DOMAIN v.items : v.items[j].is = "Name"}}
    ELSE {}

QubitsHeld == \A n \in DOMAIN locals : /\ HeldBy(locals[n]) \subseteq KnownQubits
                                       /\ NamedBy(locals[n]) \subseteq NamesOf(Len(regs))

OutputListed == \E S : output \in Seq(S)

OutputInv == TypeOK /\ QubitsHeld /\ OutputListed /\ OnlyAllocatedQubits

(* What an operator returns when it returns one qubit, several, or one that *)
(* may be unknown.                                                          *)
OneQubit(res)    == res.tag = "ok" => res.val \in KnownQubits
SomeQubits(res)  == res.tag = "ok" => res.val \in Seq(KnownQubits)
OneOrUnknown(res) == res.tag = "ok" => res.val \in KnownQubits \union UnknownQubits

LEMMA Collected ==
    ASSUME NEW results, DOMAIN results \subseteq Nat, Collect(results).tag = "ok"
    PROVE  /\ \A i \in DOMAIN results : results[i].tag = "ok"
           /\ Collect(results).val = [i \in DOMAIN results |-> results[i].val]
<1> DEFINE failed == {i \in DOMAIN results : results[i].tag # "ok"}
<1>1. ASSUME failed # {}
      PROVE  FALSE
  <2>1. PICK i \in failed : \A j \in failed : ~(j < i)
    BY <1>1, SmallestMember
  <2>2. \A j \in failed : i <= j
    BY <2>1
  <2>3. Min(failed) \in failed
    BY <2>1, <2>2 DEF Min
  <2>4. Collect(results) = results[Min(failed)]
    BY <1>1 DEF Collect
  <2> QED
    BY <2>3, <2>4
<1>2. Collect(results) = Ok([i \in DOMAIN results |-> results[i].val])
  BY <1>1 DEF Collect
<1> QED
  BY <1>1, <1>2 DEF Ok

LEMMA LookedUpHeld ==
    ASSUME TypeOK, QubitsHeld, NEW n, LookUp(n).tag = "ok"
    PROVE  /\ LookUp(n).val \in Value
           /\ HeldBy(LookUp(n).val) \subseteq KnownQubits
           /\ NamedBy(LookUp(n).val) \subseteq NamesOf(Len(regs))
BY LookedUp DEF QubitsHeld

LEMMA QubitFound ==
    ASSUME TypeOK, QubitsHeld, NEW n \in DOMAIN locals, locals[n].kind = "Qubit"
    PROVE  locals[n].qubit \in KnownQubits
BY DEF QubitsHeld, HeldBy, OwnedBy

LEMMA QubitOfAllocated ==
    ASSUME TypeOK, QubitsHeld, NEW n
    PROVE  OneQubit(QubitOf(n))
<1>1. SUFFICES ASSUME QubitOf(n).tag = "ok"
               PROVE  QubitOf(n).val \in KnownQubits
  BY DEF OneQubit
<1>2. /\ LookUp(n).tag = "ok" /\ LookUp(n).val.kind = "Qubit"
      /\ QubitOf(n).val = LookUp(n).val.qubit
  BY <1>1 DEF QubitOf, Then, Expect, Ok, Err
<1> QED
  BY <1>2, LookedUp, QubitFound

LEMMA ElementAllocated ==
    ASSUME TypeOK, QubitsHeld, NEW base, NEW index \in Nat
    PROVE  OneQubit(ElementOf(base, index))
<1>1. SUFFICES ASSUME ElementOf(base, index).tag = "ok"
               PROVE  ElementOf(base, index).val \in KnownQubits
  BY DEF OneQubit
<1> DEFINE qs == locals[base].qubits
<1>2. /\ base \in DOMAIN locals /\ locals[base].kind = "Qubits"
      /\ ~(index >= Len(qs)) /\ ElementOf(base, index).val = qs[index + 1]
  BY <1>1 DEF ElementOf, Ok, Err
<1>3. locals[base] \in Value
  BY <1>2 DEF TypeOK
<1>4. qs \in Seq(QuilQubit)
  BY <1>2, <1>3, ValueParts
<1>5. Len(qs) \in Nat /\ DOMAIN qs = 1 .. Len(qs)
  BY <1>4, LenProperties
<1>6. index + 1 \in DOMAIN qs
  BY <1>2, <1>5
<1>7. qs[index + 1] \in HeldBy(locals[base])
  BY <1>2, <1>6 DEF HeldBy, OwnedBy
<1> QED
  BY <1>2, <1>7 DEF QubitsHeld

LEMMA ArgumentAllocated ==
    ASSUME TypeOK, QubitsHeld, NEW n
    PROVE  OneQubit(QubitArgument(n))
<1> DEFINE v == LookUp(n).val
<1>1. SUFFICES ASSUME QubitArgument(n).tag = "ok"
               PROVE  QubitArgument(n).val \in KnownQubits
  BY DEF OneQubit
<1>2. LookUp(n).tag = "ok"
  BY <1>1 DEF QubitArgument, Then
<1>3. \/ v.kind = "Qubit" /\ QubitArgument(n).val = v.qubit
      \/ v.kind = "Index" /\ QubitArgument(n) = ElementOf(v.base, v.index)
  BY <1>1, <1>2 DEF QubitArgument, Then, Ok, Err
<1>4. CASE v.kind = "Qubit" /\ QubitArgument(n).val = v.qubit
  BY <1>2, <1>4, LookedUp, QubitFound
<1>5. CASE v.kind = "Index" /\ QubitArgument(n) = ElementOf(v.base, v.index)
  <2>1. v.index \in Nat
    BY <1>2, <1>5, LookedUp, ValueParts
  <2> QED
    BY <1>1, <1>5, <2>1, ElementAllocated DEF OneQubit
<1> QED
  BY <1>3, <1>4, <1>5

(* The Results of qubits, collected. *)
LEMMA QubitsCollected ==
    ASSUME NEW found, NEW k \in Nat, DOMAIN found = 1 .. k,
           \A i \in DOMAIN found : OneQubit(found[i])
    PROVE  SomeQubits(Collect(found))
<1>1. SUFFICES ASSUME Collect(found).tag = "ok"
               PROVE  Collect(found).val \in Seq(KnownQubits)
  BY DEF SomeQubits
<1>2. /\ \A i \in DOMAIN found : found[i].tag = "ok"
      /\ Collect(found).val = [i \in DOMAIN found |-> found[i].val]
  BY <1>1, Collected
<1>3. \A i \in 1 .. k : found[i].val \in KnownQubits
  BY <1>2 DEF OneQubit
<1> QED
  BY <1>2, <1>3, SeqDef

LEMMA CallQubitsAllocated ==
    ASSUME TypeOK, QubitsHeld, NEW args, NEW k \in Nat, DOMAIN args = 1 .. k
    PROVE  SomeQubits(QubitsFromCall(args))
<1> DEFINE P     == {i \in DOMAIN args : args[i] \in DOMAIN locals}
           bound == Picked(args, P)
           found == [i \in DOMAIN bound |-> QubitArgument(bound[i])]
<1>1. Cardinality(P) \in Nat
  <2>1. IsFiniteSet(1 .. k)
    BY FS_Interval
  <2>2. P \subseteq 1 .. k
    OBVIOUS
  <2> QED
    BY <2>1, <2>2, FS_Subset, FS_CardinalityType
<1>2. DOMAIN found = 1 .. Cardinality(P)
  BY DEF Picked, InOrder
<1>3. QubitsFromCall(args) = Collect(found)
  BY DEF QubitsFromCall
<1> HIDE DEF bound, P
<1>4. \A i \in DOMAIN found : OneQubit(found[i])
  BY ArgumentAllocated
<1> HIDE DEF found
<1> QED
  BY <1>1, <1>2, <1>3, <1>4, QubitsCollected

(* The names in an array of controls, as many as it has items. *)
LEMMA ControlNamesReturn ==
    ASSUME TypeOK, NEW array, ControlNames(array).tag = "ok"
    PROVE  \E k \in Nat : DOMAIN ControlNames(array).val = 1 .. k
<1> DEFINE a     == LookUp(array).val
           found == [i \in DOMAIN a.items |-> NameOf(a.items[i])]
<1>1. /\ LookUp(array).tag = "ok" /\ a.kind = "Array"
      /\ ControlNames(array) = Collect(found)
  BY DEF ControlNames, Then, Expect, Ok, Err
<1>2. a.items \in Seq(Item)
  BY <1>1, LookedUp, ValueParts
<1>3. DOMAIN found = 1 .. Len(a.items) /\ Len(a.items) \in Nat
  BY <1>2, LenProperties
<1> HIDE DEF found, a
<1>4. Collect(found).val = [i \in DOMAIN found |-> found[i].val]
  BY <1>1, <1>3, Collected
<1> QED
  BY <1>1, <1>3, <1>4

LEMMA ControlQubitsAllocated ==
    ASSUME TypeOK, QubitsHeld, NEW names, NEW k \in Nat, DOMAIN names = 1 .. k
    PROVE  SomeQubits(ControlQubits(names))
<1> DEFINE found == [i \in DOMAIN names |-> QubitOf(names[i])]
<1>1. ControlQubits(names) = Collect(found) /\ DOMAIN found = 1 .. k
  BY DEF ControlQubits
<1>2. \A i \in DOMAIN found : OneQubit(found[i])
  BY QubitOfAllocated
<1> HIDE DEF found
<1> QED
  BY <1>1, <1>2, QubitsCollected

(* What is emitted acts on known qubits, or on those that it may besides. *)
Admitted(g)   == KnownQubits \union IF TakesUnknown(g) THEN UnknownQubits ELSE {}
Grounded(res) == res.tag = "ok" => QubitsIn(res.val) \subseteq Admitted(res.val)

LEMMA GateGrounded ==
    ASSUME NEW name, NEW dagger, NEW angles, NEW controls, NEW qs \in Seq(KnownQubits)
    PROVE  Grounded(Ok(GateOn(name, dagger, angles, controls, qs)))
<1>1. \A i \in DOMAIN qs : qs[i] \in KnownQubits
  BY LenProperties
<1> QED
  BY <1>1 DEF Grounded, Admitted, Ok, GateOn, QubitsIn

LEMMA CallGrounded ==
    ASSUME TypeOK, QubitsHeld, NEW args, NEW k \in Nat, DOMAIN args = 1 .. k,
           NEW name, NEW dagger, NEW angles
    PROVE  /\ Grounded(Then(QubitsFromCall(args), LAMBDA qs :
                            Ok(GateOn(name, dagger, angles, 0, qs))))
           /\ OneQubit(Then(QubitsFromCall(args), LAMBDA qs :
                            IF qs = <<>> THEN Err("panic") ELSE Ok(qs[1])))
<1> DEFINE found == QubitsFromCall(args)
<1>1. SomeQubits(found)
  BY CallQubitsAllocated
<1>2. CASE found.tag # "ok"
  BY <1>2 DEF Then, Grounded, OneQubit
<1>3. CASE found.tag = "ok"
  <2>1. found.val \in Seq(KnownQubits)
    BY <1>1, <1>3 DEF SomeQubits
  <2>2. Grounded(Ok(GateOn(name, dagger, angles, 0, found.val)))
    <3> HIDE DEF found
    <3> QED
      BY <2>1, GateGrounded
  <2>3. found.val # <<>> => found.val[1] \in KnownQubits
    BY <2>1, LenProperties, EmptySeq
  <2> QED
    BY <1>3, <2>2, <2>3 DEF Then, OneQubit, Ok, Err
<1> QED
  BY <1>2, <1>3

LEMMA RotationGrounded ==
    ASSUME TypeOK, QubitsHeld, NEW gate, NEW args, NEW angles,
           NEW k \in Nat, DOMAIN Names(args) = 1 .. k
    PROVE  Grounded(RotationOn(gate, args, angles))
<1>1. SUFFICES ASSUME RotationOn(gate, args, angles).tag = "ok"
               PROVE  Grounded(RotationOn(gate, args, angles))
  BY DEF Grounded
<1> DEFINE found   == QubitsFromCall(Names(args))
           doubles == [i \in DOMAIN angles |-> AsFloat[angles[i]]]
<1>2. SomeQubits(found)
  BY CallQubitsAllocated
<1>3. /\ found.tag = "ok"
      /\ RotationOn(gate, args, angles) = Ok(GateOn(gate, FALSE, doubles, 0, found.val))
  BY <1>1 DEF RotationOn, Then, Ok, Err
<1> HIDE DEF found, doubles
<1>4. found.val \in Seq(KnownQubits)
  BY <1>2, <1>3 DEF SomeQubits
<1> QED
  BY <1>3, <1>4, GateGrounded

LEMMA ControlledGateGrounded ==
    ASSUME TypeOK, QubitsHeld, NEW gate, NEW array, NEW target
    PROVE  Grounded(ControlledGate(gate, array, target))
<1> DEFINE res   == ControlledGate(gate, array, target)
           names == ControlNames(array)
           cs    == ControlQubits(names.val)
           t     == QubitOf(target)
<1>1. SUFFICES ASSUME res.tag = "ok"
               PROVE  Grounded(res)
  BY DEF Grounded
<1>2. /\ names.tag = "ok" /\ cs.tag = "ok" /\ t.tag = "ok"
      /\ res = Ok(GateOn(gate, FALSE, <<>>, Len(cs.val), Append(cs.val, t.val)))
  BY <1>1 DEF ControlledGate, Then, Ok
<1>3. PICK k \in Nat : DOMAIN names.val = 1 .. k
  BY <1>2, ControlNamesReturn
<1>4. SomeQubits(cs) /\ OneQubit(t)
  BY <1>3, ControlQubitsAllocated, QubitOfAllocated
<1> HIDE DEF cs, t, names, res
<1>5. cs.val \in Seq(KnownQubits) /\ t.val \in KnownQubits
  BY <1>2, <1>4 DEF SomeQubits, OneQubit
<1>6. Append(cs.val, t.val) \in Seq(KnownQubits)
  BY <1>5, AppendProperties
<1> QED
  BY <1>2, <1>6, GateGrounded

LEMMA AngleAndTargetAllocated ==
    ASSUME NEW t, t.kind = "Tuple", t.items \in Seq(Item), HeldBy(t) \subseteq KnownQubits,
           AngleAndTarget(t.items).tag = "ok"
    PROVE  AngleAndTarget(t.items).val.target \in KnownQubits
<1>1. /\ t.items # <<>> /\ Len(t.items) # 1 /\ t.items[2].is = "Qubit"
      /\ AngleAndTarget(t.items).val.target = t.items[2].qubit
  BY DEF AngleAndTarget, Ok, Err
<1>2. 2 \in DOMAIN t.items
  <2>1. PICK n \in Nat : n = Len(t.items) /\ DOMAIN t.items = 1 .. n
    BY LenProperties
  <2>2. n # 0 /\ n # 1
    BY <1>1, <2>1, EmptySeq
  <2>3. 2 \in 1 .. n
    BY <2>2
  <2> QED
    BY <2>1, <2>3
<1>3. t.items[2].qubit \in HeldBy(t)
  BY <1>1, <1>2 DEF HeldBy
<1> QED
  BY <1>1, <1>3

LEMMA ControlledRotationGrounded ==
    ASSUME TypeOK, QubitsHeld, NEW gate, NEW array, NEW tuple
    PROVE  Grounded(ControlledRotation(gate, array, tuple))
<1> DEFINE res   == ControlledRotation(gate, array, tuple)
           names == ControlNames(array)
           t     == LookUp(tuple)
           cs    == ControlQubits(names.val)
           p     == AngleAndTarget(t.val.items)
<1>1. SUFFICES ASSUME res.tag = "ok"
               PROVE  Grounded(res)
  BY DEF Grounded
<1>2. /\ names.tag = "ok" /\ t.tag = "ok" /\ t.val.kind = "Tuple"
      /\ cs.tag = "ok" /\ p.tag = "ok"
      /\ res = Ok(GateOn(gate, FALSE, <<p.val.angle>>, Len(cs.val),
                         Append(cs.val, p.val.target)))
  BY <1>1 DEF ControlledRotation, Then, Expect, Ok, Err
<1>3. PICK k \in Nat : DOMAIN names.val = 1 .. k
  BY <1>2, ControlNamesReturn
<1>4. SomeQubits(cs)
  BY <1>3, ControlQubitsAllocated
<1>5. t.val \in Value /\ HeldBy(t.val) \subseteq KnownQubits
  BY <1>2, LookedUpHeld
<1>6. t.val.items \in Seq(Item)
  BY <1>2, <1>5, ValueParts
<1> HIDE DEF cs, t, names, res
<1>7. p.val.target \in KnownQubits
  BY <1>2, <1>5, <1>6, AngleAndTargetAllocated
<1> HIDE DEF p
<1>8. cs.val \in Seq(KnownQubits)
  BY <1>2, <1>4 DEF SomeQubits
<1>9. Append(cs.val, p.val.target) \in Seq(KnownQubits)
  BY <1>7, <1>8, AppendProperties
<1> QED
  BY <1>2, <1>9, GateGrounded

(* A name that is passed on is that of a register which resolves to nothing. *)
LEMMA QubitOrVariableAllocated ==
    ASSUME TypeOK, QubitsHeld, NEW n \in NamesOf(Len(regs)), NEW absent, NEW mistyped,
           absent # "ok", mistyped # "ok"
    PROVE  OneOrUnknown(QubitOrVariable(n, absent, mistyped))
<1> DEFINE res == QubitOrVariable(n, absent, mistyped)
           m   == ResolveAlias(n).val
<1>1. SUFFICES ASSUME res.tag = "ok"
               PROVE  res.val \in KnownQubits \union UnknownQubits
  BY DEF OneOrUnknown
<1>2. \/ Unresolved(ResolveAlias(n)) /\ res.val = Variable(n)
      \/ m \in DOMAIN locals /\ locals[m].kind = "Qubit" /\ res.val = locals[m].qubit
  BY <1>1 DEF QubitOrVariable, Then, Ok, Err
<1>3. PICK r \in DOMAIN regs : n = N(r)
  BY NamesOfRegisters
<1> QED
  BY <1>2, <1>3, QubitFound DEF UnknownQubits

LEMMA FirstNameReturns ==
    ASSUME TypeOK, QubitsHeld, NEW m \in DOMAIN locals, locals[m].kind = "Array",
           FirstName(locals[m].items).tag = "ok"
    PROVE  FirstName(locals[m].items).val \in NamesOf(Len(regs))
<1> DEFINE items == locals[m].items
<1>1. items # <<>> /\ items[1].is = "Name" /\ FirstName(items).val = items[1].name
  BY DEF FirstName, NameOf, Ok, Err
<1>2. items \in Seq(Item)
  BY ValueParts DEF TypeOK
<1>3. 1 \in DOMAIN items
  BY <1>1, <1>2, LenProperties, EmptySeq
<1>4. items[1].name \in NamedBy(locals[m])
  BY <1>1, <1>3 DEF NamedBy
<1> QED
  BY <1>1, <1>4 DEF QubitsHeld

LEMMA XCtlGrounded ==
    ASSUME TypeOK, QubitsHeld, NEW array, NEW target \in NamesOf(Len(regs))
    PROVE  Grounded(XCtl(array, target))
<1> DEFINE res == XCtl(array, target)
           a   == locals[array]
           c   == FirstName(a.items)
           q   == QubitOrVariable(c.val, "panic", "UnexpectedVariableType")
           t   == QubitOrVariable(target, "CannotResolveLocalVariableValue", "panic")
           g   == GateOn("X", FALSE, <<>>, 1, <<q.val, t.val>>)
<1>1. SUFFICES ASSUME res.tag = "ok"
               PROVE  Grounded(res)
  BY DEF Grounded
<1>2. array \in DOMAIN locals /\ a.kind = "Array"
  BY <1>1 DEF XCtl, Then, Expect, Ok, Err
<1>3. c.tag = "ok" /\ q.tag = "ok" /\ t.tag = "ok" /\ res = Ok(g)
  BY <1>1, <1>2 DEF XCtl, Then, Expect, Ok, Err
<1>4. c.val \in NamesOf(Len(regs))
  BY <1>2, <1>3, FirstNameReturns
<1>5. OneOrUnknown(q) /\ OneOrUnknown(t)
  BY <1>4, QubitOrVariableAllocated
<1> HIDE DEF q, t, res
<1>6. TakesUnknown(g) /\ QubitsIn(g) = {q.val, t.val}
  <2>1. DOMAIN <<q.val, t.val>> = {1, 2}
    OBVIOUS
  <2> QED
    BY <2>1 DEF TakesUnknown, QubitsIn, GateOn
<1> QED
  BY <1>3, <1>5, <1>6 DEF OneOrUnknown, Grounded, Admitted, Ok

LEMMA MeasureBodyAllocated ==
    ASSUME TypeOK, QubitsHeld, NEW array
    PROVE  OneOrUnknown(MeasureBody(array))
<1> DEFINE res == MeasureBody(array)
           m   == ResolveAlias(array).val
           n   == FirstName(locals[m].items)
           q   == QubitOrVariable(n.val, "panic", "panic")
<1>1. SUFFICES ASSUME res.tag = "ok"
               PROVE  OneOrUnknown(res)
  BY DEF OneOrUnknown
<1>2. LookUp(array).tag = "ok" /\ LookUp(array).val.kind = "Array"
  BY <1>1 DEF MeasureBody, Then, Expect, Ok, Err
<1>3. m \in DOMAIN locals /\ LookUp(array).val = locals[m]
  BY <1>2, LookedUp
<1>4. n.tag = "ok" /\ res = q
  BY <1>1, <1>2, <1>3 DEF MeasureBody, Then, Expect, Ok, Err
<1>5. n.val \in NamesOf(Len(regs))
  BY <1>2, <1>3, <1>4, FirstNameReturns
<1>6. OneOrUnknown(q)
  BY <1>5, QubitOrVariableAllocated
<1> QED
  BY <1>4, <1>6

(* A step emits nothing, or one instruction that acts on qubits it may.     *)
OutputGrows ==
    \/ output' = output
    \/ \E g : output' = Append(output, g) /\ QubitsIn(g) \subseteq Admitted(g)

LEMMA EmitGrows ==
    ASSUME NEW op, NEW defined, NEW res, Emit(op, defined, res), Grounded(res)
    PROVE  OutputGrows
BY DEF Emit, Grounded, OutputGrows

LEMMA MeasureGrows ==
    ASSUME NEW op, NEW qubit, Measure(op, qubit), OneOrUnknown(qubit)
    PROVE  OutputGrows
<1> DEFINE res == Then(qubit, LAMBDA q : Ok(Measurement(q, Fresh)))
<1>1. Emit(op, <<"Result*">>, res)
  BY DEF Measure
<1>2. CASE qubit.tag # "ok"
  <2>1. Grounded(res)
    BY <1>2 DEF Then, Grounded
  <2> HIDE DEF res
  <2> QED
    BY <1>1, <2>1, EmitGrows
<1>3. CASE qubit.tag = "ok"
  <2> DEFINE g == Measurement(qubit.val, Fresh)
  <2>1. res = Ok(g) /\ TakesUnknown(g) /\ QubitsIn(g) = {qubit.val}
    BY <1>3 DEF Then, Ok, Measurement, TakesUnknown, QubitsIn
  <2>2. qubit.val \in KnownQubits \union UnknownQubits
    BY <1>3 DEF OneOrUnknown
  <2> HIDE DEF g
  <2>3. QubitsIn(g) \subseteq Admitted(g)
    BY <2>1, <2>2 DEF Admitted
  <2> HIDE DEF res
  <2>4. Grounded(res)
    BY <2>1, <2>3 DEF Grounded, Ok
  <2> QED
    BY <1>1, <2>4, EmitGrows
<1> QED
  BY <1>2, <1>3

LEMMA NamesListed ==
    ASSUME NEW args, NEW k \in Nat, DOMAIN args = 1 .. k
    PROVE  DOMAIN Names(args) = 1 .. k
BY DEF Names

LEMMA ApplyGrows ==
    ASSUME TypeOK, QubitsHeld, Apply
    PROVE  OutputGrows
<1>1. \A i \in DOMAIN regs : N(i) \in NamesOf(Len(regs))
  BY NamesOfRegisters
<1>2. ASSUME NEW g \in DOMAIN PlainGate, NEW args \in [1 .. Arity(g) -> OfType("Qubit*")],
             Gate(g, args)
      PROVE  OutputGrows
  <2> DEFINE res == Then(QubitsFromCall(Names(args)), LAMBDA qs :
                         Ok(GateOn(PlainGate[g], g \in Daggered, <<>>, 0, qs)))
  <2>1. Arity(g) \in Nat /\ DOMAIN args = 1 .. Arity(g)
    BY DEF Arity
  <2>2. DOMAIN Names(args) = 1 .. Arity(g)
    BY <2>1, NamesListed
  <2>3. Grounded(res)
    BY <2>1, <2>2, CallGrounded DEF Then
  <2>4. Emit(g, <<>>, res)
    BY <1>2 DEF Gate
  <2> HIDE DEF res
  <2> QED
    BY <2>3, <2>4, EmitGrows
<1>3. ASSUME NEW g, NEW args, NEW k \in Nat, DOMAIN args = 1 .. k, NEW angles,
             Rotation(g, args, angles)
      PROVE  OutputGrows
  <2>1. DOMAIN Names(args) = 1 .. k
    BY <1>3, NamesListed
  <2>2. Grounded(RotationOn(RotationGate[g], args, angles))
    BY <2>1, RotationGrounded
  <2> QED
    BY <1>3, <2>2, EmitGrows DEF Rotation
<1>4. ASSUME NEW n \in 0 .. MaxArity, NEW args \in [1 .. n -> DOMAIN regs], NEW cs, NEW d,
             UserCall(args, cs, d)
      PROVE  OutputGrows
  <2> DEFINE res == Then(QubitsFromCall(Names(args)), LAMBDA qs :
                         Ok(GateOn(Circuit, FALSE, <<>>, 0, qs)))
  <2>1. n \in Nat /\ DOMAIN args = 1 .. n
    BY BoundsAssumption
  <2>2. DOMAIN Names(args) = 1 .. n
    BY <2>1, NamesListed
  <2>3. Grounded(res)
    BY <2>1, <2>2, CallGrounded DEF Then
  <2>4. Emit("call", d, res)
    BY <1>4 DEF UserCall
  <2> HIDE DEF res
  <2> QED
    BY <2>3, <2>4, EmitGrows
<1>5. ASSUME NEW a, NEW q \in DOMAIN regs, XCtlCall(a, q) PROVE OutputGrows
  <2>1. Grounded(XCtl(N(a), N(q)))
    BY <1>1, XCtlGrounded
  <2> QED
    BY <1>5, <2>1, EmitGrows DEF XCtlCall
<1>6. ASSUME NEW a, NEW t, NEW g, GateCtl(g, a, t) PROVE OutputGrows
  BY <1>6, ControlledGateGrounded, EmitGrows DEF GateCtl
<1>7. ASSUME NEW a, NEW t, NEW g, RotationCtl(g, a, t) PROVE OutputGrows
  BY <1>7, ControlledRotationGrounded, EmitGrows DEF RotationCtl
<1>8. ASSUME NEW q, MBodyCall(q) PROVE OutputGrows
  <2>1. DOMAIN <<N(q)>> = 1 .. 1
    OBVIOUS
  <2>2. OneOrUnknown(MBody(<<N(q)>>))
    BY <2>1, CallGrounded DEF MBody, OneQubit, OneOrUnknown
  <2> QED
    BY <1>8, <2>2, MeasureGrows DEF MBodyCall
<1>9. ASSUME NEW b, NEW a, MeasureBodyCall(b, a) PROVE OutputGrows
  BY <1>9, MeasureBodyAllocated, MeasureGrows DEF MeasureBodyCall
<1>10. CASE \E g \in DOMAIN PlainGate : \E args \in [1 .. Arity(g) -> OfType("Qubit*")] :
               Gate(g, args)
  BY <1>2, <1>10
<1>11. CASE \E g \in DOMAIN RotationGate, q \in OfType("Qubit*") :
               \/ \E a \in Numbers \union {"null"} : Rotation(g, <<q>>, <<a>>)
               \/ \E x \in OfType("Num") : Rotation(g, <<x, q>>, <<>>)
  <2>1. PICK g, q : \/ \E a : Rotation(g, <<q>>, <<a>>)
                    \/ \E x : Rotation(g, <<x, q>>, <<>>)
    BY <1>11
  <2>2. DOMAIN <<q>> = 1 .. 1 /\ \A x : DOMAIN <<x, q>> = 1 .. 2
    OBVIOUS
  <2> QED
    BY <1>3, <2>1, <2>2
<1>12. CASE \E args \in Args(DOMAIN regs), cs \in Consts, d \in {<<>>, <<"Num">>, <<"Qubit*">>} :
               UserCall(args, cs, d)
  BY <1>4, <1>12 DEF Args
<1>13. CASE \E a \in OfType("Array*"), q \in OfType("Qubit*") :
               XCtlCall(a, q) \/ \E g \in DOMAIN ControlledName : GateCtl(g, a, q)
  BY <1>5, <1>6, <1>13 DEF OfType
<1> QED
  BY <1>7, <1>8, <1>9, <1>10, <1>11, <1>12, <1>13 DEF Apply

LEMMA StepGrows ==
    ASSUME TypeOK, QubitsHeld, [Next]_vars
    PROVE  OutputGrows
<1>1. CASE Define
  BY <1>1 DEF Define, QubitAllocate, QubitAllocateArray, ArrayCreate, TupleCreate, Alloca,
              ArrayElement, Load, LoadGlobal, BitCastGlobal, BitCast, GetElementPtr,
              Ignored, Bind, OutputGrows
<1>2. CASE Modify
  BY <1>2 DEF Modify, QubitRelease, StoreReg, StoreConst, Refuse, Update, OutputGrows
<1>3. CASE Finish \/ UNCHANGED vars
  BY <1>3 DEF Finish, vars, OutputGrows
<1> QED
  BY <1>1, <1>2, <1>3, ApplyGrows DEF Next

(* Qubits stay allocated. *)
LEMMA AllocatedStay ==
    ASSUME TypeOK, Effect
    PROVE  KnownQubits \subseteq KnownQubits'
<1>1. nextQubit \in Nat /\ nextQubit' \in Nat /\ nextQubit <= nextQubit'
  BY DEF TypeOK, Effect, Untouched, Bound, Changed, Dropped
<1>2. PICK low \in Nat, high \in Nat : nextQubit = low /\ nextQubit' = high /\ low <= high
  BY <1>1
<1>3. \A k \in 0 .. low - 1 : k \in 0 .. high - 1
  BY <1>2
<1> QED
  BY <1>2, <1>3 DEF KnownQubits, AllocatedQubits, FormalQubits

(* What is stored holds no qubit that no name was bound to, and no name but *)
(* those of registers.                                                      *)
LEMMA StoredHeld ==
    ASSUME TypeOK, QubitsHeld, NEW rebound, Stored(locals', rebound), NEW n \in DOMAIN locals
    PROVE  /\ HeldBy(locals'[n]) \subseteq KnownQubits
           /\ NamedBy(locals'[n]) \subseteq NamesOf(Len(regs))
<1>1. /\ HeldBy(locals[n]) \subseteq KnownQubits
      /\ NamedBy(locals[n]) \subseteq NamesOf(Len(regs))
  BY DEF QubitsHeld
<1>2. CASE locals'[n] = locals[n]
  BY <1>1, <1>2
<1>3. CASE locals'[n] = Data
  BY <1>3 DEF Data, HeldBy, NamedBy, OwnedBy
<1>4. CASE Pushed(n, locals'[n])
  <2> DEFINE s == locals[n].items
             t == locals'[n].items
  <2>1. /\ locals[n].kind \in {"Array", "Tuple"} /\ locals'[n].kind \in {"Array", "Tuple"}
        /\ \A i \in DOMAIN s : t[i] = s[i]
        /\ \A i \in DOMAIN t : i \in DOMAIN s \/ Storable(t[i])
    BY <1>4 DEF Pushed, IsPrefixOf
  <2>2. ASSUME NEW i \in DOMAIN t, t[i].is = "Qubit"
        PROVE  t[i].qubit \in KnownQubits
    <3>1. CASE i \in DOMAIN s
      BY <1>1, <2>1, <2>2, <3>1 DEF HeldBy
    <3>2. CASE Storable(t[i])
      BY <2>2, <3>2, QubitFound DEF Storable
    <3> QED
      BY <2>1, <3>1, <3>2
  <2>3. ASSUME NEW i \in DOMAIN t, t[i].is = "Name"
        PROVE  t[i].name \in NamesOf(Len(regs))
    <3>1. CASE i \in DOMAIN s
      BY <1>1, <2>1, <2>3, <3>1 DEF NamedBy
    <3>2. CASE Storable(t[i])
      BY <2>3, <3>2 DEF Storable
    <3> QED
      BY <2>1, <3>1, <3>2
  <2> QED
    BY <2>1, <2>2, <2>3 DEF HeldBy, NamedBy
<1> QED
  BY <1>2, <1>3, <1>4 DEF Stored

LEMMA QubitsHeldKept ==
    ASSUME TypeOK, QubitsHeld, Effect
    PROVE  QubitsHeld'
<1>1. KnownQubits \subseteq KnownQubits'
  BY AllocatedStay
<1>2. NamesOf(Len(regs)) \subseteq NamesOf(Len(regs'))
  <2>1. Kept /\ regs \in Seq(Types)
    BY DEF Effect, Untouched, Bound, Changed, Dropped, TypeOK
  <2>2. DOMAIN regs = 1 .. Len(regs) /\ DOMAIN regs' = 1 .. Len(regs')
    BY <2>1, LenProperties DEF Kept
  <2> QED
    BY <2>1, <2>2 DEF NamesOf, Kept
<1>3. SUFFICES ASSUME NEW n \in DOMAIN locals'
               PROVE  /\ HeldBy(locals'[n]) \subseteq KnownQubits'
                      /\ NamedBy(locals'[n]) \subseteq NamesOf(Len(regs'))
  BY DEF QubitsHeld
<1>4. ASSUME n \in DOMAIN locals, locals'[n] = locals[n]
      PROVE  /\ HeldBy(locals'[n]) \subseteq KnownQubits'
             /\ NamedBy(locals'[n]) \subseteq NamesOf(Len(regs'))
  <2>1. /\ HeldBy(locals[n]) \subseteq KnownQubits
        /\ NamedBy(locals[n]) \subseteq NamesOf(Len(regs))
    BY <1>4 DEF QubitsHeld
  <2> QED
    BY <1>1, <1>2, <1>4, <2>1
<1>5. CASE Untouched
  BY <1>3, <1>4, <1>5 DEF Untouched
<1>6. CASE Changed
  <2>1. /\ Stored(locals', {N(p) : p \in OfType("Num*")})
        /\ DOMAIN locals' = DOMAIN locals
    BY <1>6 DEF Changed, Stored
  <2>2. /\ HeldBy(locals'[n]) \subseteq KnownQubits
        /\ NamedBy(locals'[n]) \subseteq NamesOf(Len(regs))
    BY <1>3, <2>1, StoredHeld
  <2> QED
    BY <1>1, <1>2, <2>2
<1>7. CASE Dropped
  BY <1>3, <1>4, <1>7 DEF Dropped
<1>8. CASE Bound
  <2>1. /\ nextQubit \in Nat /\ nextQubit' \in Nat
    BY <1>8 DEF Bound, TypeOK
  <2>2. PICK v : /\ locals' = Insert(locals, Fresh, v)
                 /\ \A q \in OwnedBy(v) : \E k \in nextQubit .. nextQubit' - 1 : q = Fixed(k)
                 /\ v.kind \in {"Array", "Tuple"} => v.items = <<>>
    BY <1>8 DEF Bound, NewBinding
  <2>3. \A k \in nextQubit .. nextQubit' - 1 : Fixed(k) \in KnownQubits'
    <3>1. PICK low \in Nat, high \in Nat : nextQubit = low /\ nextQubit' = high
      BY <2>1
    <3>2. \A k \in low .. high - 1 : k \in 0 .. high - 1
      OBVIOUS
    <3> QED
      BY <3>1, <3>2 DEF KnownQubits, AllocatedQubits
  <2>4. HeldBy(v) \subseteq KnownQubits' /\ NamedBy(v) = {}
    BY <2>2, <2>3 DEF HeldBy, NamedBy
  <2>5. \/ locals'[n] = v
        \/ n \in DOMAIN locals /\ locals'[n] = locals[n]
    BY <1>3, <2>2 DEF Insert
  <2> QED
    BY <1>4, <2>4, <2>5
<1> QED
  BY <1>5, <1>6, <1>7, <1>8 DEF Effect

-----------------------------------------------------------------------------
(* The loop of resolve_alias ends, so no instruction hangs the translator.  *)

(* The least argument at which something does not hold. *)
LEMMA LeastFailing ==
    ASSUME NEW Q, NEW k \in Nat, k \notin Q
    PROVE  \E m \in Nat : m \notin Q /\ \A j \in Nat : j < m => j \in Q
<1> DEFINE I == {m \in Nat : m \notin Q}
<1>1. PICK m \in I : \A j \in I : ~(j < m)
  BY SmallestMember
<1> QED
  BY <1>1

(* Where the chain of aliases from a name leads in one step. *)
Follow(env, n) == IF IsAlias(env, n) THEN env[n].target ELSE n

IsChain(at, env, n, longest) ==
    at = [k \in 0 .. longest |-> IF k = 0 THEN n ELSE Follow(env, at[k - 1])]

(* The recursive function by which Chase is defined exists. *)
LEMMA ChainExists ==
    ASSUME NEW env, NEW n, NEW longest \in Nat
    PROVE  \E at : IsChain(at, env, n, longest)
<1> DEFINE Chain(at, m) == IsChain(at, env, n, m)
           Q == {m \in Nat : \E at : Chain(at, m)}
<1>1. ASSUME longest \notin Q
      PROVE  FALSE
  <2>1. PICK m \in Nat : m \notin Q /\ \A j \in Nat : j < m => j \in Q
    BY <1>1, LeastFailing
  <2>2. CASE m = 0
    <3> DEFINE at == [k \in 0 .. 0 |-> n]
    <3>1. \A k \in 0 .. 0 : k = 0
      OBVIOUS
    <3>2. at = [k \in 0 .. 0 |-> IF k = 0 THEN n ELSE Follow(env, at[k - 1])]
      BY <3>1
    <3> QED
      BY <2>1, <2>2, <3>2 DEF IsChain
  <2>3. CASE m # 0
    <3>1. m - 1 \in Nat /\ m - 1 < m
      BY <2>3
    <3>2. PICK f : Chain(f, m - 1)
      BY <2>1, <3>1
    <3> DEFINE at == [k \in 0 .. m |-> IF k = m THEN Follow(env, f[m - 1]) ELSE f[k]]
    <3>3. \A k \in 0 .. m : at[k] = IF k = 0 THEN n ELSE Follow(env, at[k - 1])
      <4>1. \A k \in 0 .. m - 1 : f[k] = IF k = 0 THEN n ELSE Follow(env, f[k - 1])
        BY <3>2 DEF IsChain
      <4>2. SUFFICES ASSUME NEW k \in 0 .. m
                     PROVE  at[k] = IF k = 0 THEN n ELSE Follow(env, at[k - 1])
        OBVIOUS
      <4>3. CASE k = m
        <5>1. k # 0 /\ k - 1 \in 0 .. m /\ k - 1 # m /\ k - 1 = m - 1
          BY <2>3, <4>3
        <5>2. at[k] = Follow(env, f[m - 1]) /\ at[k - 1] = f[m - 1]
          BY <4>3, <5>1
        <5> QED
          BY <5>1, <5>2
      <4>4. CASE k # m
        <5>1. k \in 0 .. m - 1
          BY <4>4
        <5>2. at[k] = f[k]
          BY <4>4
        <5>3. CASE k = 0
          BY <4>1, <5>1, <5>2, <5>3
        <5>4. CASE k # 0
          <6>1. k - 1 \in 0 .. m /\ k - 1 # m
            BY <5>1, <5>4
          <6>2. at[k - 1] = f[k - 1]
            BY <6>1
          <6> QED
            BY <4>1, <5>1, <5>2, <5>4, <6>2
        <5> QED
          BY <5>3, <5>4
      <4> QED
        BY <4>3, <4>4
    <3>4. at = [k \in 0 .. m |-> at[k]]
      OBVIOUS
    <3> HIDE DEF at
    <3>5. Chain(at, m)
      BY <3>3, <3>4 DEF IsChain
    <3> QED
      BY <2>1, <3>5
  <2> QED
    BY <2>2, <2>3
<1> QED
  BY <1>1

LEMMA ChaseFollows ==
    ASSUME NEW env, NEW n, Cardinality(DOMAIN env) \in Nat
    PROVE  \E at : /\ Chase(env, n) = at[Cardinality(DOMAIN env)] /\ at[0] = n
                   /\ \A k \in 0 .. Cardinality(DOMAIN env) :
                         k # 0 => at[k] = Follow(env, at[k - 1])
<1> DEFINE longest == Cardinality(DOMAIN env)
           Chain(at) == at = [k \in 0 .. longest |-> IF k = 0 THEN n
                                 ELSE IF IsAlias(env, at[k - 1]) THEN env[at[k - 1]].target
                                 ELSE at[k - 1]]
           it == CHOOSE at : Chain(at)
<1>1. \E at : Chain(at)
  <2>1. PICK at : IsChain(at, env, n, longest)
    BY ChainExists
  <2>2. Chain(at)
    BY <2>1 DEF IsChain, Follow
  <2> QED
    BY <2>2
<1>2. Chain(it)
  <2> HIDE DEF Chain
  <2> QED
    BY <1>1, Zenon
<1>3. Chase(env, n) = it[longest]
  BY DEF Chase
<1> HIDE DEF it
<1>4. /\ it[0] = n
      /\ \A k \in 0 .. longest : k # 0 => it[k] = Follow(env, it[k - 1])
  BY <1>2 DEF Follow
<1> QED
  BY <1>3, <1>4

(* Aliases of an environment that only ever lead to earlier ones. *)
LEMMA ChaseEnds ==
    ASSUME NEW env, IsFiniteSet(DOMAIN env), NEW rank \in [DOMAIN env -> Nat],
           \A m \in DOMAIN env : IsAlias(env, m) /\ IsAlias(env, env[m].target) =>
               rank[env[m].target] < rank[m],
           NEW n
    PROVE  ~IsAlias(env, Chase(env, n))
<1>1. PICK longest \in Nat : longest = Cardinality(DOMAIN env)
  BY FS_CardinalityType
<1>2. PICK at : /\ Chase(env, n) = at[longest]
                /\ \A k \in 0 .. longest : k # 0 => at[k] = Follow(env, at[k - 1])
  BY <1>1, ChaseFollows
<1>3. SUFFICES ASSUME IsAlias(env, at[longest])
               PROVE  FALSE
  BY <1>2
<1>4. \A k \in Nat : k <= longest => IsAlias(env, at[longest - k])
  <2> DEFINE Q == {k \in Nat : k <= longest => IsAlias(env, at[longest - k])}
  <2>1. ASSUME NEW k \in Nat, k \notin Q
        PROVE  FALSE
    <3>1. PICK m \in Nat : m \notin Q /\ \A j \in Nat : j < m => j \in Q
      BY <2>1, LeastFailing
    <3>2. m <= longest /\ ~IsAlias(env, at[longest - m])
      BY <3>1
    <3>3. m # 0
      <4>1. longest - 0 = longest
        BY <1>1
      <4> QED
        BY <1>3, <3>2, <4>1
    <3>4. PICK j \in Nat : j = m - 1 /\ j < m /\ j <= longest
      BY <1>1, <3>2, <3>3
    <3>5. IsAlias(env, at[longest - j])
      BY <3>1, <3>4
    <3>6. PICK l \in 0 .. longest : l = longest - j /\ l # 0 /\ l - 1 = longest - m
      BY <1>1, <3>2, <3>4
    <3>7. at[l] = Follow(env, at[l - 1])
      BY <1>2, <3>6
    <3> QED
      BY <3>2, <3>5, <3>6, <3>7 DEF Follow
  <2> QED
    BY <2>1
<1>5. \A k \in 0 .. longest : IsAlias(env, at[k])
  <2>1. SUFFICES ASSUME NEW k \in 0 .. longest
                 PROVE  IsAlias(env, at[k])
    OBVIOUS
  <2>2. PICK j \in Nat : j <= longest /\ longest - j = k
    <3>1. longest - k \in Nat /\ longest - k <= longest /\ longest - (longest - k) = k
      BY <1>1
    <3> QED
      BY <3>1
  <2> QED
    BY <1>4, <2>2
<1>6. \A k \in 0 .. longest : /\ at[k] \in DOMAIN env
                              /\ k # 0 => rank[at[k]] < rank[at[k - 1]]
  <2>1. SUFFICES ASSUME NEW k \in 0 .. longest, k # 0
                 PROVE  rank[at[k]] < rank[at[k - 1]]
    BY <1>5 DEF IsAlias
  <2>2. k - 1 \in 0 .. longest
    BY <1>1, <2>1
  <2>3. at[k] = env[at[k - 1]].target
    BY <1>2, <1>5, <2>1, <2>2 DEF Follow
  <2> QED
    BY <1>5, <2>1, <2>2, <2>3 DEF IsAlias
<1>7. \A j, k \in 0 .. longest : j < k => rank[at[k]] < rank[at[j]]
  <2>1. SUFFICES ASSUME NEW j \in 0 .. longest
                 PROVE  \A k \in 0 .. longest : j < k => rank[at[k]] < rank[at[j]]
    OBVIOUS
  <2> DEFINE Q == {k \in Nat : k \in 0 .. longest /\ j < k => rank[at[k]] < rank[at[j]]}
  <2>2. ASSUME NEW k \in Nat, k \notin Q
        PROVE  FALSE
    <3>1. PICK m \in Nat : m \notin Q /\ \A i \in Nat : i < m => i \in Q
      BY <2>2, LeastFailing
    <3>2. m \in 0 .. longest /\ j < m /\ ~(rank[at[m]] < rank[at[j]])
      BY <3>1
    <3>3. PICK i \in Nat : i = m - 1 /\ i < m /\ i \in 0 .. longest /\ (j < i \/ j = i) /\ m # 0
      BY <1>1, <2>1, <3>2
    <3>4. rank[at[m]] < rank[at[i]]
      BY <1>6, <3>2, <3>3
    <3>5. rank[at[m]] \in Nat /\ rank[at[i]] \in Nat /\ rank[at[j]] \in Nat
      BY <1>6, <3>2, <3>3
    <3>6. j < i => rank[at[i]] < rank[at[j]]
      BY <3>1, <3>3
    <3>7. j = i => rank[at[i]] = rank[at[j]]
      OBVIOUS
    <3> QED
      BY <3>2, <3>3, <3>4, <3>5, <3>6, <3>7
  <2> QED
    BY <2>2
<1> DEFINE f == [k \in 0 .. longest |-> at[k]]
<1>8. f \in [0 .. longest -> DOMAIN env]
  BY <1>6
<1>9. \E j, k \in 0 .. longest : j # k /\ f[j] = f[k]
  <2>1. IsFiniteSet(0 .. longest) /\ Cardinality(0 .. longest) = longest + 1
    BY <1>1, FS_Interval
  <2>2. Cardinality(DOMAIN env) < Cardinality(0 .. longest)
    BY <1>1, <2>1
  <2> HIDE DEF f
  <2> QED
    BY <1>8, <2>1, <2>2, FS_PigeonHole
<1>10. PICK j \in 0 .. longest, k \in 0 .. longest : j < k /\ at[j] = at[k]
  BY <1>9
<1>11. rank[at[j]] \in Nat
  BY <1>6
<1> QED
  BY <1>7, <1>10, <1>11

(* The environments whose aliases point backwards. *)
Backwards(env) ==
    /\ DOMAIN env \subseteq {RegisterNames[i] : i \in DOMAIN RegisterNames}
    /\ \A i \in DOMAIN RegisterNames :
          IsAlias(env, N(i)) => env[N(i)].target \in NamesOf(i - 1) \union GlobalConstants

LEMMA BackwardsResolves ==
    ASSUME NamesDistinct, NEW env, Backwards(env), NEW n
    PROVE  ResolveIn(env, n).tag # "hang"
<1> DEFINE names == {RegisterNames[i] : i \in DOMAIN RegisterNames}
           index == [m \in names |-> CHOOSE i \in DOMAIN RegisterNames : RegisterNames[i] = m]
           rank  == [m \in DOMAIN env |-> index[m]]
<1>1. Len(RegisterNames) \in Nat /\ DOMAIN RegisterNames = 1 .. Len(RegisterNames)
  BY SeqNames
<1>2. IsFiniteSet(DOMAIN env)
  <2>1. IsFiniteSet(DOMAIN RegisterNames)
    BY <1>1, FS_Interval
  <2>2. RegisterNames \in Surjection(DOMAIN RegisterNames, names)
    BY NamesAssumption DEF Surjection
  <2>3. IsFiniteSet(names)
    BY <2>1, <2>2, FS_Surjection
  <2> QED
    BY <2>3, FS_Subset DEF Backwards
<1>3. \A i \in DOMAIN RegisterNames : index[RegisterNames[i]] = i
  <2>1. SUFFICES ASSUME NEW i \in DOMAIN RegisterNames
                 PROVE  index[RegisterNames[i]] = i
    OBVIOUS
  <2>2. (CHOOSE j \in DOMAIN RegisterNames : RegisterNames[j] = RegisterNames[i]) = i
    BY <2>1 DEF NamesDistinct
  <2> QED
    BY <2>2
<1> HIDE DEF index
<1>4. \A m \in DOMAIN env : \E i \in DOMAIN RegisterNames : m = RegisterNames[i] /\ rank[m] = i
  BY <1>3 DEF Backwards
<1>5. rank \in [DOMAIN env -> Nat]
  BY <1>1, <1>4
<1>6. ASSUME NEW m \in DOMAIN env, IsAlias(env, m), IsAlias(env, env[m].target)
      PROVE  rank[env[m].target] < rank[m]
  <2> DEFINE t == env[m].target
  <2>1. t \in DOMAIN env
    BY <1>6 DEF IsAlias
  <2>2. PICK i \in DOMAIN RegisterNames : m = RegisterNames[i] /\ rank[m] = i
    BY <1>4
  <2>3. PICK j \in DOMAIN RegisterNames : t = RegisterNames[j] /\ rank[t] = j
    BY <1>4, <2>1
  <2>4. t \in NamesOf(i - 1)
    BY <1>6, <2>2, <2>3 DEF Backwards, N, NamesDistinct
  <2>5. PICK l \in 1 .. i - 1 : t = RegisterNames[l]
    BY <2>4 DEF NamesOf
  <2>6. l \in DOMAIN RegisterNames /\ l < i
    BY <1>1, <2>2, <2>5
  <2>7. l = j
    BY <2>3, <2>5, <2>6 DEF NamesDistinct
  <2> QED
    BY <2>2, <2>3, <2>6, <2>7
<1> HIDE DEF rank
<1>7. ~IsAlias(env, Chase(env, n))
  BY <1>2, <1>5, <1>6, ChaseEnds
<1> QED
  BY <1>7 DEF ResolveIn, Ok, Err

LEMMA LocalsBackwards ==
    ASSUME NamesDistinct, IInv
    PROVE  Backwards(locals)
<1>1. TypeOK /\ AliasesDescend /\ DOMAIN regs \subseteq DOMAIN RegisterNames
  BY SeqNames DEF IInv
<1>2. ASSUME NEW i \in DOMAIN RegisterNames, IsAlias(locals, N(i))
      PROVE  locals[N(i)].target \in NamesOf(i - 1) \union GlobalConstants
  <2>1. PICK j \in DOMAIN regs : N(i) = N(j)
    BY <1>1, <1>2 DEF TypeOK, IsAlias, N
  <2>2. i = j
    BY <1>1, <2>1 DEF NamesDistinct, N
  <2> QED
    BY <1>1, <1>2, <2>2 DEF AliasesDescend
<1>3. DOMAIN locals \subseteq {RegisterNames[i] : i \in DOMAIN RegisterNames}
  BY <1>1 DEF TypeOK
<1> QED
  BY <1>2, <1>3 DEF Backwards

(* The environment of a cast: the alias is there before it is resolved. *)
LEMMA CastBackwards ==
    ASSUME NamesDistinct, IInv, Len(regs) < Len(RegisterNames), NEW p \in DOMAIN regs
    PROVE  Backwards(Insert(locals, Fresh, Alias(N(p))))
<1> DEFINE env == Insert(locals, Fresh, Alias(N(p)))
           new == Len(regs) + 1
<1>1. /\ Len(regs) \in Nat /\ DOMAIN regs = 1 .. Len(regs)
      /\ Len(RegisterNames) \in Nat /\ DOMAIN RegisterNames = 1 .. Len(RegisterNames)
  BY SeqNames DEF IInv
<1>2. new \in DOMAIN RegisterNames /\ Fresh = N(new)
  BY <1>1 DEF Fresh, N
<1>3. Backwards(locals)
  BY LocalsBackwards
<1>4. DOMAIN env \subseteq {RegisterNames[i] : i \in DOMAIN RegisterNames}
  BY <1>2, <1>3 DEF Backwards, Insert, N
<1>5. ASSUME NEW i \in DOMAIN RegisterNames, IsAlias(env, N(i))
      PROVE  env[N(i)].target \in NamesOf(i - 1) \union GlobalConstants
  <2>1. CASE i = new
    <3>1. env[N(i)].target = N(p)
      BY <1>2, <2>1 DEF Insert, Alias
    <3>2. N(p) \in NamesOf(i - 1)
      <4>1. i - 1 = Len(regs)
        BY <1>1, <2>1
      <4> QED
        BY <1>1, <4>1 DEF NamesOf, N
    <3> QED
      BY <3>1, <3>2
  <2>2. CASE i # new
    <3>1. N(i) # Fresh
      BY <1>2, <2>2 DEF NamesDistinct, N
    <3>2. IsAlias(locals, N(i)) /\ env[N(i)] = locals[N(i)]
      BY <1>5, <3>1 DEF IsAlias, Insert
    <3> QED
      BY <1>3, <1>5, <3>2 DEF Backwards
  <2> QED
    BY <2>1, <2>2
<1> HIDE DEF env
<1> QED
  BY <1>4, <1>5 DEF Backwards, env

(* Every name resolves to something, or to nothing. *)
Resolves == \A n : ResolveAlias(n).tag # "hang"

(* No endless loop; and an error, if it is one, stops the translation. *)
Ends(res) == res.tag \notin {"hang", "running"}

LEMMA CollectEnds ==
    ASSUME NEW found, DOMAIN found \subseteq Nat, \A i \in DOMAIN found : Ends(found[i])
    PROVE  Ends(Collect(found))
<1> DEFINE failed == {i \in DOMAIN found : found[i].tag # "ok"}
<1>1. CASE failed = {}
  BY <1>1 DEF Collect, Ok, Ends
<1>2. CASE failed # {}
  <2>1. PICK i \in failed : \A j \in failed : ~(j < i)
    BY <1>2, SmallestMember
  <2>2. \A j \in failed : i <= j
    BY <2>1
  <2>3. Min(failed) \in failed
    BY <2>1, <2>2 DEF Min
  <2>4. Collect(found) = found[Min(failed)]
    BY <1>2 DEF Collect
  <2> QED
    BY <2>3, <2>4
<1> QED
  BY <1>1, <1>2

LEMMA LookUpEnds ==
    ASSUME Resolves, NEW n
    PROVE  Ends(LookUp(n))
BY DEF Resolves, ResolveAlias, ResolveIn, Ends, LookUp, Then, Ok, Err

LEMMA QubitOfEnds ==
    ASSUME Resolves, NEW n
    PROVE  Ends(QubitOf(n))
BY LookUpEnds DEF Ends, QubitOf, Then, Expect, Ok, Err

LEMMA ArgumentEnds ==
    ASSUME Resolves, NEW n
    PROVE  Ends(QubitArgument(n))
<1> DEFINE v == LookUp(n).val
<1>1. Ends(LookUp(n))
  BY LookUpEnds
<1>2. Ends(ElementOf(v.base, v.index))
  BY DEF Ends, ElementOf, Ok, Err
<1>3. \/ QubitArgument(n) = LookUp(n)
      \/ QubitArgument(n) = Ok(v.qubit)
      \/ QubitArgument(n) = ElementOf(v.base, v.index)
      \/ QubitArgument(n) \in {Err("panic"), Err("UnexpectedVariableType")}
  BY DEF QubitArgument, Then
<1> QED
  BY <1>1, <1>2, <1>3 DEF Ends, Ok, Err

LEMMA CallQubitsEnd ==
    ASSUME Resolves, NEW args, NEW k \in Nat, DOMAIN args = 1 .. k
    PROVE  Ends(QubitsFromCall(args))
<1> DEFINE P     == {i \in DOMAIN args : args[i] \in DOMAIN locals}
           bound == Picked(args, P)
           found == [i \in DOMAIN bound |-> QubitArgument(bound[i])]
<1>1. Cardinality(P) \in Nat
  <2>1. IsFiniteSet(1 .. k)
    BY FS_Interval
  <2>2. P \subseteq 1 .. k
    OBVIOUS
  <2> QED
    BY <2>1, <2>2, FS_Subset, FS_CardinalityType
<1>2. DOMAIN found = 1 .. Cardinality(P)
  BY DEF Picked, InOrder
<1>3. QubitsFromCall(args) = Collect(found)
  BY DEF QubitsFromCall
<1> HIDE DEF bound, P
<1>4. \A i \in DOMAIN found : Ends(found[i])
  BY ArgumentEnds
<1> HIDE DEF found
<1>5. DOMAIN found \subseteq Nat
  BY <1>1, <1>2
<1> QED
  BY <1>3, <1>4, <1>5, CollectEnds

LEMMA ControlNamesEnd ==
    ASSUME TypeOK, Resolves, NEW array
    PROVE  Ends(ControlNames(array))
<1> DEFINE v     == LookUp(array)
           found == [i \in DOMAIN v.val.items |-> NameOf(v.val.items[i])]
<1>1. Ends(v)
  BY LookUpEnds
<1>2. CASE v.tag = "ok" /\ v.val.kind = "Array"
  <2>1. ControlNames(array) = Collect(found)
    BY <1>2 DEF ControlNames, Then, Expect, Ok
  <2>2. v.val.items \in Seq(Item)
    BY <1>2, LookedUp, ValueParts
  <2>3. DOMAIN found \subseteq Nat
    BY <2>2, LenProperties
  <2>4. \A i \in DOMAIN found : Ends(found[i])
    BY DEF NameOf, Ends, Ok, Err
  <2> HIDE DEF found
  <2> QED
    BY <2>1, <2>3, <2>4, CollectEnds
<1>3. CASE ~(v.tag = "ok" /\ v.val.kind = "Array")
  <2>1. ControlNames(array) = v \/ ControlNames(array) = Err("UnexpectedVariableType")
    BY <1>3 DEF ControlNames, Then, Expect, Ok, Err
  <2> QED
    BY <1>1, <2>1 DEF Ends, Err
<1> QED
  BY <1>2, <1>3

LEMMA ControlQubitsEnd ==
    ASSUME Resolves, NEW names, NEW k \in Nat, DOMAIN names = 1 .. k
    PROVE  Ends(ControlQubits(names))
<1> DEFINE found == [i \in DOMAIN names |-> QubitOf(names[i])]
<1>1. ControlQubits(names) = Collect(found) /\ DOMAIN found \subseteq Nat
  BY DEF ControlQubits
<1>2. \A i \in DOMAIN found : Ends(found[i])
  BY QubitOfEnds
<1> HIDE DEF found
<1> QED
  BY <1>1, <1>2, CollectEnds

LEMMA ControlledGateEnds ==
    ASSUME TypeOK, Resolves, NEW gate, NEW array, NEW target
    PROVE  Ends(ControlledGate(gate, array, target))
<1> DEFINE names == ControlNames(array)
           cs    == ControlQubits(names.val)
           t     == QubitOf(target)
<1>1. Ends(names) /\ Ends(t)
  BY ControlNamesEnd, QubitOfEnds
<1>2. names.tag = "ok" => Ends(cs)
  BY ControlNamesReturn, ControlQubitsEnd
<1> QED
  BY <1>1, <1>2 DEF ControlledGate, Then, Ends, Ok

LEMMA ControlledRotationEnds ==
    ASSUME TypeOK, Resolves, NEW gate, NEW array, NEW tuple
    PROVE  Ends(ControlledRotation(gate, array, tuple))
<1> DEFINE names == ControlNames(array)
           cs    == ControlQubits(names.val)
           t     == LookUp(tuple)
<1>1. Ends(names) /\ Ends(t)
  BY ControlNamesEnd, LookUpEnds
<1>2. names.tag = "ok" => Ends(cs)
  BY ControlNamesReturn, ControlQubitsEnd
<1>3. \A items : Ends(AngleAndTarget(items))
  BY DEF AngleAndTarget, Ends, Ok, Err
<1> QED
  BY <1>1, <1>2, <1>3 DEF ControlledRotation, Then, Expect, Ends, Ok, Err

LEMMA QubitOrVariableEnds ==
    ASSUME Resolves, NEW n, NEW absent, NEW mistyped, {absent, mistyped} \intersect {"hang", "running"} = {}
    PROVE  Ends(QubitOrVariable(n, absent, mistyped))
BY DEF Resolves, ResolveAlias, ResolveIn, QubitOrVariable, Then, Ends, Ok, Err

LEMMA XCtlEnds ==
    ASSUME Resolves, NEW array, NEW target
    PROVE  Ends(XCtl(array, target))
<1>1. \A n : /\ Ends(QubitOrVariable(n, "panic", "UnexpectedVariableType"))
             /\ Ends(QubitOrVariable(n, "CannotResolveLocalVariableValue", "panic"))
  BY QubitOrVariableEnds
<1>2. \A items : Ends(FirstName(items))
  BY DEF FirstName, NameOf, Ends, Ok, Err
<1> QED
  BY <1>1, <1>2 DEF XCtl, Then, Expect, Ends, Ok, Err

LEMMA MeasureBodyEnds ==
    ASSUME Resolves, NEW array
    PROVE  Ends(MeasureBody(array))
<1>1. \A n : Ends(QubitOrVariable(n, "panic", "panic"))
  BY QubitOrVariableEnds
<1>2. \A items : Ends(FirstName(items))
  BY DEF FirstName, NameOf, Ends, Ok, Err
<1>3. Ends(LookUp(array))
  BY LookUpEnds
<1> QED
  BY <1>1, <1>2, <1>3 DEF MeasureBody, Then, Expect, Ends, Ok, Err

LEMMA PushEnds ==
    ASSUME NEW base, NEW item
    PROVE  Ends(PushInto(base, item))
BY DEF PushInto, Then, Expect, Ends, Ok, Err

LEMMA StoreRegisterEnds ==
    ASSUME Resolves, NEW pointer, NEW name
    PROVE  Ends(StoreRegister(pointer, name))
<1>1. Ends(LookUp(pointer)) /\ Ends(LookUp(name)) /\ Ends(ResolveAlias(name))
  BY LookUpEnds DEF Resolves, ResolveAlias, ResolveIn, Ok, Err, Ends
<1>2. \A base : Ends(StoredItem(base, name))
  BY <1>1 DEF StoredItem, Then, Expect, Ends, Ok, Err
<1> QED
  BY <1>1, <1>2, PushEnds DEF StoreRegister, Then, Ends, Ok, Err

LEMMA StoreConstantEnds ==
    ASSUME Resolves, NEW pointer, NEW c
    PROVE  Ends(StoreConstant(pointer, c))
<1>1. Ends(LookUp(pointer))
  BY LookUpEnds
<1> QED
  BY <1>1, PushEnds DEF StoreConstant, Then, Ends, Ok, Err

LEMMA CastEnds ==
    ASSUME NamesDistinct, IInv, Len(regs) + 1 <= Len(RegisterNames),
           NEW p \in DOMAIN regs, NEW type
    PROVE  Ends(CastValue(N(p), type))
<1>1. Len(regs) < Len(RegisterNames)
  BY SeqNames DEF IInv
<1>2. Ends(ResolveIn(Insert(locals, Fresh, Alias(N(p))), N(p)))
  BY <1>1, CastBackwards, BackwardsResolves DEF Ends, ResolveIn, Ok, Err
<1> QED
  BY <1>2 DEF CastValue, Then, Ends, Ok, Err

LEMMA FieldEnds ==
    ASSUME Resolves, NEW n, NEW i
    PROVE  Ends(FieldValue(n, i))
<1>1. Ends(LookUp(n)) /\ Ends(ResolveAlias(n))
  BY LookUpEnds DEF Resolves, ResolveAlias, ResolveIn, Ok, Err, Ends
<1> QED
  BY <1>1 DEF FieldValue, Then, Expect, Ends, Ok, Err

LEMMA DefineEnds ==
    ASSUME NamesDistinct, IInv, Resolves, status # "hang", Define
    PROVE  status' # "hang"
<1>1. ASSUME NEW op, NEW type, NEW res, Ends(res), Bind(op, type, res)
      PROVE  status' # "hang"
  BY <1>1 DEF Ends, Bind, Advance
<1>2. \A v : Ends(Ok(v))
  BY DEF Ends, Ok
<1>3. CASE QubitAllocate \/ ArrayCreate \/ TupleCreate \/ Alloca
  BY <1>1, <1>2, <1>3 DEF QubitAllocate, ArrayCreate, TupleCreate, Alloca
<1>4. CASE \E n \in 0 .. MaxLength : QubitAllocateArray(n)
  BY <1>1, <1>2, <1>4 DEF QubitAllocateArray
<1>5. CASE \E a \in OfType("Array*"), i \in 0 .. MaxLength - 1 : ArrayElement(a, i)
  BY <1>1, <1>2, <1>5 DEF ArrayElement
<1>6. CASE \E p \in OfType("Qubit**") \union OfType("Num*") : Load(p)
  BY <1>1, <1>2, <1>6 DEF Load
<1>7. CASE \E g \in GlobalConstants : LoadGlobal(g) \/ BitCastGlobal(g)
  BY <1>1, <1>2, <1>7 DEF LoadGlobal, BitCastGlobal
<1>8. CASE \E p \in DOMAIN regs : \E type \in CastsOf(regs[p]) : BitCast(p, type)
  <2>0. PICK p \in DOMAIN regs : \E type \in CastsOf(regs[p]) : BitCast(p, type)
    BY <1>8
  <2>1. PICK type : BitCast(p, type)
    BY <2>0
  <2>2. Bind("bitcast", type, CastValue(N(p), type))
    BY <2>1 DEF BitCast
  <2>3. Ends(CastValue(N(p), type))
    BY <2>2, CastEnds DEF Bind, Advance
  <2> QED
    BY <1>1, <2>2, <2>3
<1>9. CASE \E p \in OfType("Struct*"), i \in 0 .. 1 : GetElementPtr(p, i)
  <2>1. PICK p, i : Bind("getelementptr", FieldType(i), FieldValue(N(p), i))
    BY <1>9 DEF GetElementPtr
  <2> QED
    BY <1>1, <2>1, FieldEnds
<1>10. CASE \E type \in IgnoredTypes : Ignored(type)
  BY <1>10 DEF Ignored, Advance, Ok
<1> QED
  BY <1>3, <1>4, <1>5, <1>6, <1>7, <1>8, <1>9, <1>10 DEF Define

LEMMA ModifyEnds ==
    ASSUME Resolves, status # "hang", Modify
    PROVE  status' # "hang"
<1>1. ASSUME NEW op, NEW res, Ends(res), Update(op, res)
      PROVE  status' # "hang"
  BY <1>1 DEF Ends, Update, Advance
<1>2. \A v : Ends(Ok(v))
  BY DEF Ends, Ok
<1>3. CASE \E q \in OfType("Qubit*") : QubitRelease(q)
  BY <1>1, <1>2, <1>3 DEF QubitRelease
<1>4. CASE \/ \E p \in OfType("Qubit**"), q \in OfType("Qubit*") : StoreReg(p, q)
           \/ \E p \in OfType("Num*"), x \in OfType("Num") : StoreReg(p, x)
  BY <1>1, <1>4, StoreRegisterEnds DEF StoreReg
<1>5. CASE \E p \in OfType("Num*"), c \in Numbers \union {"null"} : StoreConst(p, c)
  BY <1>1, <1>5, StoreConstantEnds DEF StoreConst
<1>6. CASE \E e \in Refusals : Refuse(e)
  <2>1. \A e \in Refusals : Ends(Err(e))
    BY DEF Refusals, Ends, Err
  <2> QED
    BY <1>1, <1>6, <2>1 DEF Refuse
<1> QED
  BY <1>3, <1>4, <1>5, <1>6 DEF Modify

LEMMA ApplyEnds ==
    ASSUME TypeOK, Resolves, status # "hang", Apply
    PROVE  status' # "hang"
<1>1. ASSUME NEW op, NEW defined, NEW res, Ends(res), Emit(op, defined, res)
      PROVE  status' # "hang"
  BY <1>1 DEF Ends, Emit, Advance
<1>2. ASSUME NEW g \in DOMAIN PlainGate, NEW args \in [1 .. Arity(g) -> OfType("Qubit*")],
             Gate(g, args)
      PROVE  status' # "hang"
  <2>1. Arity(g) \in Nat /\ DOMAIN args = 1 .. Arity(g)
    BY DEF Arity
  <2>2. Ends(QubitsFromCall(Names(args)))
    BY <2>1, NamesListed, CallQubitsEnd
  <2> QED
    BY <1>2, <2>2 DEF Gate, Emit, Advance, Then, Ends, Ok
<1>3. ASSUME NEW g, NEW args, NEW k \in Nat, DOMAIN args = 1 .. k, NEW angles,
             Rotation(g, args, angles)
      PROVE  status' # "hang"
  <2>1. Ends(QubitsFromCall(Names(args)))
    BY <1>3, NamesListed, CallQubitsEnd
  <2>2. Ends(RotationOn(RotationGate[g], args, angles))
    BY <2>1 DEF RotationOn, Then, Ends, Ok, Err
  <2> QED
    BY <1>1, <1>3, <2>2 DEF Rotation
<1>4. ASSUME NEW n \in 0 .. MaxArity, NEW args \in [1 .. n -> DOMAIN regs], NEW cs, NEW d,
             UserCall(args, cs, d)
      PROVE  status' # "hang"
  <2>1. n \in Nat /\ DOMAIN args = 1 .. n
    BY BoundsAssumption
  <2>2. Ends(QubitsFromCall(Names(args)))
    BY <2>1, NamesListed, CallQubitsEnd
  <2> QED
    BY <1>4, <2>2 DEF UserCall, Emit, Advance, Then, Ends, Ok
<1>5. ASSUME NEW a, NEW q, XCtlCall(a, q) PROVE status' # "hang"
  BY <1>1, <1>5, XCtlEnds DEF XCtlCall
<1>6. ASSUME NEW a, NEW t, NEW g, GateCtl(g, a, t) PROVE status' # "hang"
  BY <1>1, <1>6, ControlledGateEnds DEF GateCtl
<1>7. ASSUME NEW a, NEW t, NEW g, RotationCtl(g, a, t) PROVE status' # "hang"
  BY <1>1, <1>7, ControlledRotationEnds DEF RotationCtl
<1>8. ASSUME NEW op, NEW qubit, Ends(qubit), Measure(op, qubit) PROVE status' # "hang"
  BY <1>8 DEF Measure, Emit, Advance, Then, Ends, Ok
<1>9. ASSUME NEW q, MBodyCall(q) PROVE status' # "hang"
  <2>1. DOMAIN <<N(q)>> = 1 .. 1
    OBVIOUS
  <2>2. Ends(QubitsFromCall(<<N(q)>>))
    BY <2>1, CallQubitsEnd
  <2>3. Ends(MBody(<<N(q)>>))
    BY <2>2 DEF MBody, Then, Ends, Ok, Err
  <2> QED
    BY <1>8, <1>9, <2>3 DEF MBodyCall
<1>10. ASSUME NEW b, NEW a, MeasureBodyCall(b, a) PROVE status' # "hang"
  BY <1>8, <1>10, MeasureBodyEnds DEF MeasureBodyCall
<1>11. CASE \E g \in DOMAIN PlainGate : \E args \in [1 .. Arity(g) -> OfType("Qubit*")] :
               Gate(g, args)
  BY <1>2, <1>11
<1>12. CASE \E g \in DOMAIN RotationGate, q \in OfType("Qubit*") :
               \/ \E a \in Numbers \union {"null"} : Rotation(g, <<q>>, <<a>>)
               \/ \E x \in OfType("Num") : Rotation(g, <<x, q>>, <<>>)
  <2>1. PICK g, q : \/ \E a : Rotation(g, <<q>>, <<a>>)
                    \/ \E x : Rotation(g, <<x, q>>, <<>>)
    BY <1>12
  <2>2. DOMAIN <<q>> = 1 .. 1 /\ \A x : DOMAIN <<x, q>> = 1 .. 2
    OBVIOUS
  <2> QED
    BY <1>3, <2>1, <2>2
<1>13. CASE \E args \in Args(DOMAIN regs), cs \in Consts, d \in {<<>>, <<"Num">>, <<"Qubit*">>} :
               UserCall(args, cs, d)
  BY <1>4, <1>13 DEF Args
<1> QED
  BY <1>5, <1>6, <1>7, <1>9, <1>10, <1>11, <1>12, <1>13 DEF Apply

LEMMA StepEnds ==
    ASSUME NamesDistinct, IInv, status # "hang", [Next]_vars
    PROVE  status' # "hang"
<1>1. TypeOK /\ Resolves
  BY LocalsBackwards, BackwardsResolves DEF IInv, Resolves, ResolveAlias
<1>2. CASE Finish \/ UNCHANGED vars
  BY <1>2 DEF Finish, vars
<1> QED
  BY <1>1, <1>2, DefineEnds, ModifyEnds, ApplyEnds DEF Next

(* If the names of the registers are distinct, resolve_alias returns from   *)
(* every call that the translation of a body makes, whatever the body.      *)
(* EnvCollision shows what happens otherwise.                               *)
THEOREM AliasesAlwaysResolve ==
    ASSUME NamesDistinct
    PROVE  Spec => []AliasesResolve
<1>1. Init => AliasesResolve
  BY DEF Init, AliasesResolve
<1>2. IInv /\ AliasesResolve /\ [Next]_vars => AliasesResolve'
  BY StepEnds DEF AliasesResolve
<1> QED
  BY <1>1, <1>2, Invariance, PTL DEF Spec
-----------------------------------------------------------------------------
(* A register that resolves to nothing never resolves again, so what was    *)
(* emitted on its name stays apart from the qubits that are known.          *)

(* Chains of aliases that do not leave a set of names. *)
LEMMA ChaseStays ==
    ASSUME NEW env, IsFiniteSet(DOMAIN env), NEW X,
           \A m \in X : IsAlias(env, m) => env[m].target \in X,
           NEW n \in X
    PROVE  Chase(env, n) \in X
<1>1. PICK longest \in Nat : longest = Cardinality(DOMAIN env)
  BY FS_CardinalityType
<1>2. PICK at : /\ Chase(env, n) = at[longest] /\ at[0] = n
                /\ \A k \in 0 .. longest : k # 0 => at[k] = Follow(env, at[k - 1])
  BY <1>1, ChaseFollows
<1> DEFINE Q == {k \in Nat : k <= longest => at[k] \in X}
<1>3. ASSUME longest \notin Q
      PROVE  FALSE
  <2>1. PICK m \in Nat : m \notin Q /\ \A j \in Nat : j < m => j \in Q
    BY <1>3, LeastFailing
  <2>2. m <= longest /\ at[m] \notin X
    BY <2>1
  <2>3. m # 0
    BY <1>2, <2>2
  <2>4. PICK j \in Nat : j = m - 1 /\ j < m /\ j <= longest
    BY <1>1, <2>2, <2>3
  <2>5. at[j] \in X
    BY <2>1, <2>4
  <2>6. at[m] = Follow(env, at[j])
    BY <1>1, <1>2, <2>2, <2>3, <2>4
  <2> QED
    BY <2>2, <2>5, <2>6 DEF Follow
<1> QED
  BY <1>1, <1>2, <1>3

LEMMA LocalsFinite ==
    ASSUME TypeOK
    PROVE  IsFiniteSet(DOMAIN locals)
<1> DEFINE names == {RegisterNames[i] : i \in DOMAIN RegisterNames}
<1>1. DOMAIN RegisterNames = 1 .. Len(RegisterNames) /\ Len(RegisterNames) \in Nat
  BY SeqNames
<1>2. IsFiniteSet(DOMAIN RegisterNames)
  BY <1>1, FS_Interval
<1>3. RegisterNames \in Surjection(DOMAIN RegisterNames, names)
  BY NamesAssumption DEF Surjection
<1>4. IsFiniteSet(names)
  BY <1>2, <1>3, FS_Surjection
<1>5. DOMAIN locals \subseteq names
  BY SeqNames DEF TypeOK
<1> QED
  BY <1>4, <1>5, FS_Subset

(* Names that lead nowhere: each is an alias of another, or not bound.      *)
Broken(env, B) ==
    /\ B \intersect GlobalConstants = {}
    /\ \A n \in B : n \in DOMAIN env => IsAlias(env, n) /\ env[n].target \in B

LEMMA BrokenUnresolved ==
    ASSUME NamesDistinct, NEW env, Backwards(env), IsFiniteSet(DOMAIN env),
           NEW B, Broken(env, B), NEW n \in B
    PROVE  Unresolved(ResolveIn(env, n))
<1>1. Chase(env, n) \in B
  BY ChaseStays DEF Broken, IsAlias
<1>2. ResolveIn(env, n).tag # "hang"
  BY BackwardsResolves
<1> QED
  BY <1>1, <1>2 DEF ResolveIn, Broken, Unresolved, Ok, Err

(* A name that is in no such set leads to one that is bound. *)
LEMMA UnresolvedBroken ==
    ASSUME NamesDistinct, IInv, NEW n \in NamesOf(Len(regs)), Unresolved(ResolveAlias(n))
    PROVE  \E B : Broken(locals, B) /\ B \subseteq NamesOf(Len(regs)) /\ n \in B
<1> DEFINE Lost(m) == \E B : Broken(locals, B) /\ B \subseteq NamesOf(Len(regs)) /\ m \in B
           X == {m \in NamesOf(Len(regs)) \union GlobalConstants : ~Lost(m)}
<1>1. SUFFICES ASSUME ~Lost(n)
               PROVE  FALSE
  OBVIOUS
<1>2. /\ DOMAIN regs = 1 .. Len(regs) /\ Len(regs) \in Nat
      /\ DOMAIN locals \subseteq NamesOf(Len(regs))
      /\ NamesOf(Len(regs)) \intersect GlobalConstants = {}
  BY SeqNames DEF IInv, TypeOK, NamesOf, NamesDistinct
<1>3. \A m \in X : m \in DOMAIN locals \union GlobalConstants
  <2>1. SUFFICES ASSUME NEW m \in NamesOf(Len(regs)), m \notin DOMAIN locals
                 PROVE  Lost(m)
    OBVIOUS
  <2>2. Broken(locals, {m}) /\ {m} \subseteq NamesOf(Len(regs))
    BY <1>2, <2>1 DEF Broken
  <2> QED
    BY <2>2
<1>4. ASSUME NEW m \in X, IsAlias(locals, m)
      PROVE  locals[m].target \in X
  <2> DEFINE t == locals[m].target
  <2>1. m \in NamesOf(Len(regs)) /\ m \notin GlobalConstants
    BY <1>2, <1>4 DEF IsAlias
  <2>2. t \in NamesOf(Len(regs)) \union GlobalConstants
    <3>1. PICK i \in 1 .. Len(regs) : m = N(i)
      BY <2>1 DEF NamesOf, N
    <3>2. t \in NamesOf(i - 1) \union GlobalConstants
      BY <1>2, <1>4, <3>1 DEF IInv, AliasesDescend
    <3>3. \A j \in 1 .. i - 1 : j \in 1 .. Len(regs)
      BY <1>2, <3>1
    <3> QED
      BY <3>2, <3>3 DEF NamesOf
  <2>3. ASSUME Lost(t) PROVE FALSE
    <3>1. PICK B : Broken(locals, B) /\ B \subseteq NamesOf(Len(regs)) /\ t \in B
      BY <2>3
    <3>2. Broken(locals, B \union {m}) /\ B \union {m} \subseteq NamesOf(Len(regs))
      BY <1>4, <2>1, <3>1 DEF Broken
    <3> QED
      BY <3>2
  <2> HIDE DEF Lost
  <2> QED
    BY <2>2, <2>3
<1>5. n \in X
  BY <1>1
<1> HIDE DEF X
<1>6. Chase(locals, n) \in X
  BY <1>4, <1>5, LocalsFinite, ChaseStays DEF IInv
<1>7. ResolveAlias(n).tag # "hang"
  BY LocalsBackwards, BackwardsResolves DEF ResolveAlias
<1> QED
  BY <1>3, <1>5, <1>6, <1>7 DEF ResolveAlias, ResolveIn, Unresolved, Ok, Err

LEMMA BrokenStays ==
    ASSUME NamesDistinct, IInv, Effect, NEW B, Broken(locals, B), B \subseteq NamesOf(Len(regs))
    PROVE  Broken(locals', B)
<1>1. TypeOK /\ Backwards(locals) /\ IsFiniteSet(DOMAIN locals)
  BY LocalsBackwards, LocalsFinite DEF IInv
<1>2. SUFFICES ASSUME NEW n \in B, n \in DOMAIN locals'
               PROVE  n \in DOMAIN locals /\ locals'[n] = locals[n]
  BY DEF Broken, IsAlias
<1>3. CASE Untouched
  BY <1>2, <1>3 DEF Untouched
<1>4. CASE Dropped
  BY <1>2, <1>4 DEF Dropped
<1>5. CASE Bound
  <2>1. n # Fresh
    <3>1. \E i \in DOMAIN regs : n = N(i)
      BY <1>1, NamesOfRegisters
    <3> QED
      BY <1>1, <1>5, <3>1, FreshIsNew DEF Bound
  <2> QED
    BY <1>2, <1>5, <2>1 DEF Bound, Insert
<1>6. CASE Changed
  <2>1. Stored(locals', {N(p) : p \in OfType("Num*")})
    BY <1>6 DEF Changed
  <2>2. n \in DOMAIN locals /\ locals[n].kind = "Alias"
    BY <1>2, <2>1 DEF Stored, Broken, IsAlias
  <2>3. LookUp(n) # Ok(Data)
    BY <1>1, BrokenUnresolved DEF LookUp, ResolveAlias, Unresolved, Then, Ok
  <2> QED
    BY <2>1, <2>2, <2>3 DEF Stored, Pushed
<1> QED
  BY <1>3, <1>4, <1>5, <1>6 DEF Effect

LEMMA NextBackwards ==
    ASSUME NamesDistinct
    PROVE  IInv' => Backwards(locals)' /\ IsFiniteSet(DOMAIN locals)'
<1>1. IInv => Backwards(locals) /\ IsFiniteSet(DOMAIN locals)
  BY LocalsBackwards, LocalsFinite DEF IInv
<1> QED
  BY <1>1, PTL

LEMMA UnknownStay ==
    ASSUME NamesDistinct, IInv, Effect, IInv'
    PROVE  UnknownQubits \subseteq UnknownQubits'
<1>1. SUFFICES ASSUME NEW r \in DOMAIN regs, Unresolved(ResolveAlias(N(r)))
               PROVE  Variable(N(r)) \in UnknownQubits'
  BY DEF UnknownQubits
<1>2. N(r) \in NamesOf(Len(regs))
  BY NamesOfRegisters DEF IInv
<1>3. PICK B : Broken(locals, B) /\ B \subseteq NamesOf(Len(regs)) /\ N(r) \in B
  BY <1>1, <1>2, UnresolvedBroken
<1>4. Broken(locals', B)
  BY <1>3, BrokenStays
<1>5. Backwards(locals') /\ IsFiniteSet(DOMAIN locals')
  BY NextBackwards
<1>6. Unresolved(ResolveIn(locals', N(r)))
  BY <1>3, <1>4, <1>5, BrokenUnresolved
<1>7. r \in DOMAIN regs'
  BY DEF Effect, Untouched, Bound, Changed, Dropped, Kept
<1> QED
  BY <1>6, <1>7 DEF UnknownQubits, ResolveAlias, N

LEMMA OutputKept ==
    ASSUME NamesDistinct, IInv, OutputInv, Effect, OutputGrows, IInv'
    PROVE  OutputListed' /\ OnlyAllocatedQubits'
<1>1. \A i \in DOMAIN output : QubitsIn(output[i]) \subseteq Admitted(output[i])
  BY DEF OutputInv, OnlyAllocatedQubits, Admitted, KnownQubits
<1>2. KnownQubits \subseteq KnownQubits' /\ UnknownQubits \subseteq UnknownQubits'
  BY AllocatedStay, UnknownStay DEF IInv
<1>3. /\ OutputListed'
      /\ \A i \in DOMAIN output' : QubitsIn(output'[i]) \subseteq Admitted(output'[i])
  <2>1. CASE output' = output
    BY <1>1, <2>1 DEF OutputInv, OutputListed
  <2>2. CASE output' # output
    <3>1. PICK g : output' = Append(output, g) /\ QubitsIn(g) \subseteq Admitted(g)
      BY <2>2 DEF OutputGrows
    <3>2. PICK S : output \in Seq(S)
      BY DEF OutputInv, OutputListed
    <3>3. output \in Seq(S \union {g})
      BY <3>2, SeqMonotonic
    <3>4. /\ output' \in Seq(S \union {g})
          /\ \A i \in DOMAIN output' :
                \/ i \in DOMAIN output /\ output'[i] = output[i]
                \/ output'[i] = g
      <4>1. /\ output' \in Seq(S \union {g})
            /\ Len(output') = Len(output) + 1
            /\ \A i \in 1 .. Len(output) : output'[i] = output[i]
            /\ output'[Len(output) + 1] = g
        BY <3>1, <3>3, AppendProperties
      <4>2. /\ DOMAIN output = 1 .. Len(output) /\ Len(output) \in Nat
            /\ DOMAIN output' = 1 .. Len(output')
        BY <3>3, <4>1, LenProperties
      <4>3. \A i \in DOMAIN output' : i \in DOMAIN output \/ i = Len(output) + 1
        BY <4>1, <4>2
      <4> QED
        BY <4>1, <4>2, <4>3
    <3> QED
      BY <1>1, <3>1, <3>4 DEF OutputListed
  <2> QED
    BY <2>1, <2>2
<1>4. \A g : Admitted(g) \subseteq KnownQubits' \union
                 IF TakesUnknown(g) THEN UnknownQubits' ELSE {}
  BY <1>2 DEF Admitted
<1> HIDE DEF Admitted
<1>5. \A i \in DOMAIN output' : QubitsIn(output'[i]) \subseteq KnownQubits' \union
                                    IF TakesUnknown(output'[i]) THEN UnknownQubits' ELSE {}
  BY <1>3, <1>4
<1> QED
  BY <1>3, <1>5 DEF OnlyAllocatedQubits, KnownQubits

LEMMA InitialOutput == Init => OutputInv
<1> SUFFICES ASSUME Init PROVE OutputInv
  OBVIOUS
<1>1. TypeOK
  BY InitialType
<1>2. output \in Seq({}) /\ DOMAIN output = {}
  BY DEF Init
<1>3. QubitsHeld
  <2>1. SUFFICES ASSUME NEW n \in DOMAIN locals
                 PROVE  /\ HeldBy(locals[n]) \subseteq KnownQubits
                        /\ NamedBy(locals[n]) \subseteq NamesOf(Len(regs))
    BY DEF QubitsHeld
  <2>2. n \in PrimedNames /\ locals[n] = Qubit(Variable(n))
    BY <2>1 DEF Init
  <2>3. HeldBy(locals[n]) = {Variable(n)} /\ NamedBy(locals[n]) = {}
    BY <2>2 DEF HeldBy, NamedBy, OwnedBy, Qubit
  <2> QED
    BY <2>2, <2>3 DEF KnownQubits, FormalQubits
<1> QED
  BY <1>1, <1>2, <1>3 DEF OutputInv, OutputListed, OnlyAllocatedQubits

LEMMA OutputInvariance ==
    ASSUME NamesDistinct
    PROVE  Spec => []OutputInv
<1>1. IInv /\ IInv' /\ OutputInv /\ [Next]_vars => OutputInv'
  <2>1. SUFFICES ASSUME IInv, IInv', OutputInv, [Next]_vars
                 PROVE  OutputInv'
    OBVIOUS
  <2>2. TypeOK /\ QubitsHeld /\ Effect /\ OutputGrows
    BY <2>1, StepEffect, StepGrows DEF OutputInv
  <2> QED
    BY <2>1, <2>2, TypeKept, QubitsHeldKept, OutputKept DEF OutputInv
<1> QED
  BY InitialOutput, Invariance, <1>1, PTL DEF Spec

(* In a body whose registers have distinct names a gate or measurement is   *)
(* never emitted on a physical qubit that was not allocated before, be it   *)
(* found by name, through a pointer into a register of qubits, among the    *)
(* controls of an array or in a tuple; and never on a variable that is no   *)
(* formal of the circuit, but by x__ctl and measure__body, on the name of a *)
(* register that resolves to nothing, and then never will.                  *)
THEOREM EmittedQubitsAllocated ==
    ASSUME NamesDistinct
    PROVE  Spec => []OnlyAllocatedQubits
<1>1. OutputInv => OnlyAllocatedQubits
  BY DEF OutputInv
<1> QED
  BY OutputInvariance, <1>1, PTL
=============================================================================
