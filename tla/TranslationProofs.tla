------------------------- MODULE TranslationProofs -------------------------
(***************************************************************************)
(* Proofs about Translation, for every choice of its constants: what the   *)
(* local environment records of a body is what the body's registers mean.  *)
(***************************************************************************)
EXTENDS Translation, EnvironmentProofs

-----------------------------------------------------------------------------
(* The relation between the environment and the machine. It holds as long   *)
(* as nothing departs.                                                      *)

Denotations == {Qir!Opaque} \union [qubit : QuilQubit] \union [number : Values0]
                  \union [block : Nat \ {0}, offset : Nat]

MachineTyped ==
    /\ meaning \in Seq(Denotations) /\ Len(meaning) = Len(regs)
    /\ memory \in Seq(Seq(Denotations))
    /\ allocated = nextQubit

Addresses == {"Qubit**", "Num*", "i8*"}
Pointers  == Addresses \union {"Array*", "Tuple*", "Struct*"}

IsBound(r)        == N(r) \in DOMAIN locals
Entry(r)          == locals[N(r)]
PointsTo(r, b, i) == b \in DOMAIN memory /\ meaning[r] = Qir!Pointer(b, i)

(* A load goes through the pointer that is bound to some address type.      *)
Addressed(n) == {s \in DOMAIN regs : regs[s] \in Addresses /\ IsBound(s) /\ n = N(s)}

Reads(r, s) == \E b \in DOMAIN memory, i \in Nat :
    /\ PointsTo(s, b, i) /\ i + 1 \in DOMAIN memory[b]
    /\ meaning[r] = memory[b][i + 1]

QubitMeans(r) ==
    \/ Entry(r).kind = "Qubit" /\ meaning[r] = Qir!AQubit(Entry(r).qubit)
    \/ /\ Entry(r).kind = "Alias" /\ meaning[r] # Qir!Opaque
       /\ \E s \in Addressed(Entry(r).target) : Reads(r, s)

NumberMeans(r) ==
    /\ Entry(r).kind = "Alias" /\ meaning[r] # Qir!Opaque
    /\ Entry(r).target \in GlobalConstants \/ Addressed(Entry(r).target) # {}

(* An Index stands for a pointer into the block of what it is based on, an  *)
(* alias for the same address as its target.                                *)
IndexMeans(r) ==
    \E s \in DOMAIN regs, b \in DOMAIN memory :
        Entry(r).base = N(s) /\ PointsTo(s, b, 0) /\ PointsTo(r, b, Entry(r).index)

AddressMeans(r) ==
    \/ Entry(r).kind = "Data" /\ \E b \in DOMAIN memory : PointsTo(r, b, 0)
    \/ Entry(r).kind = "Index" /\ IndexMeans(r)
    \/ /\ Entry(r).kind = "Alias"
       /\ \/ Entry(r).target \in GlobalConstants
          \/ \E s \in Addressed(Entry(r).target) : meaning[r] = meaning[s]

QubitsMean(r) ==
    /\ Entry(r).kind = "Qubits"
    /\ \E b \in DOMAIN memory :
          /\ PointsTo(r, b, 0) /\ Len(memory[b]) = Len(Entry(r).qubits)
          /\ \A i \in DOMAIN memory[b] : memory[b][i] = Qir!AQubit(Entry(r).qubits[i])

(* The items of an array or a tuple are the cells written so far.           *)
ItemMeans(item, cell) ==
    /\ cell # Qir!Opaque
    /\ item.is = "Name"   => \E r \in DOMAIN regs :
          /\ regs[r] = "Qubit*" \/ (regs[r] = "Num" /\ IsBound(r))
          /\ item.name = N(r) /\ meaning[r] = cell
    /\ item.is = "Qubit"  => cell = Qir!AQubit(item.qubit)
    /\ item.is = "Number" => cell = Qir!ANumber(item.number)

Filled(items, cells) ==
    /\ Len(items) <= Len(cells)
    /\ \A i \in DOMAIN cells : IF i <= Len(items) THEN ItemMeans(items[i], cells[i])
                                                  ELSE cells[i] = Qir!Opaque

ItemsMean(r, kind) ==
    /\ Entry(r).kind = kind
    /\ \E b \in DOMAIN memory : PointsTo(r, b, 0) /\ Filled(Entry(r).items, memory[b])

StructMeans(r) ==
    /\ Entry(r).kind = "Alias"
    /\ \E s \in DOMAIN regs : /\ regs[s] = "Tuple*" /\ IsBound(s)
                              /\ Entry(r).target = N(s) /\ meaning[r] = meaning[s]

EntryMeans(r) ==
    /\ regs[r] = "Qubit*" => QubitMeans(r)
    /\ regs[r] = "Num" => NumberMeans(r)
    /\ regs[r] \in Addresses => AddressMeans(r)
    /\ regs[r] = "Array*" => QubitsMean(r) \/ ItemsMean(r, "Array")
    /\ regs[r] = "Tuple*" => ItemsMean(r, "Tuple")
    /\ regs[r] = "Struct*" => StructMeans(r)
    /\ regs[r] # "Result*"

EntriesMean == \A r \in DOMAIN regs : IsBound(r) => EntryMeans(r)

(* A block is filled through one array or tuple only, or is number memory.  *)
Owns(r, kinds, b) == IsBound(r) /\ Entry(r).kind \in kinds /\ PointsTo(r, b, 0)

BlocksApart == \A r, s \in DOMAIN regs, b \in DOMAIN memory :
    /\ Owns(r, {"Array", "Tuple"}, b)
    /\ Owns(s, {"Array", "Tuple", "Data"}, b)
    => r = s

PointerValid(r) ==
    /\ regs[r] \in Pointers =>
          meaning[r] = Qir!Opaque \/ \E b \in DOMAIN memory, i \in Nat : PointsTo(r, b, i)
    /\ regs[r] \in {"Array*", "Tuple*"} =>
          meaning[r] = Qir!Opaque \/ \E b \in DOMAIN memory : PointsTo(r, b, 0)

PointersValid == \A r \in DOMAIN regs : PointerValid(r)

(* A qubit without a binding was released, an address without one is an     *)
(* argument of the function, that nothing is known of.                      *)
LooseMeans(r) ==
    /\ regs[r] = "Qubit*" => "qubit" \in DOMAIN meaning[r] /\ meaning[r].qubit \in released
    /\ regs[r] \in Addresses => meaning[r] = Qir!Opaque

LooseMean == \A r \in DOMAIN regs : ~IsBound(r) => LooseMeans(r)

Related == /\ MachineTyped /\ EntriesMean /\ BlocksApart
           /\ PointersValid /\ LooseMean

-----------------------------------------------------------------------------
LEMMA ResolveStays ==
    ASSUME NEW env, IsFiniteSet(DOMAIN env), NEW X,
           \A m \in X : IsAlias(env, m) => env[m].target \in X,
           NEW n \in X, ResolveIn(env, n).tag = "ok"
    PROVE  /\ ResolveIn(env, n).val \in X
           /\ ResolveIn(env, n).val \in DOMAIN env \union GlobalConstants
           /\ ~IsAlias(env, ResolveIn(env, n).val)
<1>1. Chase(env, n) \in X
  BY ChaseStays
<1> QED
  BY <1>1 DEF ResolveIn, Ok, Err

(* Registers are known by their names. *)
LEMMA NamesApart ==
    ASSUME NamesDistinct, TypeOK
    PROVE  /\ \A r, s \in DOMAIN regs : N(r) = N(s) => r = s
           /\ \A r \in DOMAIN regs : N(r) \notin GlobalConstants
           /\ DOMAIN locals \intersect GlobalConstants = {}
           /\ \A n \in DOMAIN locals : \E r \in DOMAIN regs : n = N(r) /\ IsBound(r)
BY SeqNames DEF NamesDistinct, N, TypeOK, IsBound

-----------------------------------------------------------------------------
(* What the names of operands lead to. *)

(* An address leads to what its pointer is derived from: an element of a    *)
(* container, number memory, or a constant of the module.                   *)
AddressNames(d) == GlobalConstants \union
    {N(s) : s \in {t \in DOMAIN regs : regs[t] \in Addresses /\ IsBound(t) /\ meaning[t] = d}}

LEMMA AddressChain ==
    ASSUME NamesDistinct, TypeOK, EntriesMean, NEW d, NEW m \in AddressNames(d),
           IsAlias(locals, m)
    PROVE  locals[m].target \in AddressNames(d)
<1>1. PICK s \in DOMAIN regs : regs[s] \in Addresses /\ IsBound(s) /\ meaning[s] = d /\ m = N(s)
  BY NamesApart DEF AddressNames, IsAlias
<1>2. Entry(s).kind = "Alias" /\ AddressMeans(s)
  BY <1>1 DEF EntriesMean, EntryMeans, Entry, IsAlias
<1>3. CASE Entry(s).target \in GlobalConstants
  BY <1>1, <1>3 DEF AddressNames, Entry
<1>4. CASE \E t \in Addressed(Entry(s).target) : meaning[s] = meaning[t]
  BY <1>1, <1>4 DEF AddressNames, Addressed, Entry
<1> QED
  BY <1>2, <1>3, <1>4 DEF AddressMeans

(* The register of address type whose entry ends the chain of n.            *)
Grounds(s, d) == /\ regs[s] \in Addresses /\ IsBound(s) /\ meaning[s] = d
                 /\ AddressMeans(s) /\ Entry(s).kind # "Alias"

LEMMA AddressFound ==
    ASSUME NamesDistinct, TypeOK, EntriesMean, NEW d, NEW m \in AddressNames(d),
           ~IsAlias(locals, m)
    PROVE  m \in GlobalConstants \/ \E s \in DOMAIN regs : m = N(s) /\ Grounds(s, d)
<1>1. CASE m \in GlobalConstants
  BY <1>1
<1>2. CASE m \notin GlobalConstants
  <2>1. PICK s \in DOMAIN regs : regs[s] \in Addresses /\ IsBound(s) /\ meaning[s] = d /\ m = N(s)
    BY <1>2 DEF AddressNames
  <2>2. EntryMeans(s)
    BY <2>1 DEF EntriesMean
  <2>3. Entry(s).kind # "Alias"
    BY <2>1 DEF IsAlias, Entry, IsBound
  <2> QED
    BY <2>1, <2>2, <2>3 DEF EntryMeans, Grounds
<1> QED
  BY <1>1, <1>2

LEMMA AddressResolves ==
    ASSUME NamesDistinct, TypeOK, EntriesMean, NEW p \in DOMAIN regs,
           regs[p] \in Addresses, ResolveAlias(N(p)).tag = "ok"
    PROVE  LET m == ResolveAlias(N(p)).val
           IN  \/ m \in GlobalConstants
               \/ \E s \in DOMAIN regs : m = N(s) /\ Grounds(s, meaning[p])
<1> DEFINE m == ResolveAlias(N(p)).val
<1>1. IsBound(p)
  BY NamesApart, Resolved DEF IsBound, ResolveAlias, IsAlias
<1>2. N(p) \in AddressNames(meaning[p])
  BY <1>1 DEF AddressNames
<1>3. m \in AddressNames(meaning[p]) /\ ~IsAlias(locals, m)
  <2>1. \A n \in AddressNames(meaning[p]) :
            IsAlias(locals, n) => locals[n].target \in AddressNames(meaning[p])
    BY AddressChain
  <2> QED
    BY <1>2, <2>1, ResolveStays, LocalsFinite DEF ResolveAlias
<1> QED
  BY <1>3, AddressFound

(* A qubit leads to itself, or to an address it was loaded from.            *)
LEMMA QubitResolves ==
    ASSUME NamesDistinct, TypeOK, EntriesMean, NEW r \in DOMAIN regs,
           regs[r] = "Qubit*", IsBound(r), ResolveAlias(N(r)).tag = "ok"
    PROVE  LET m == ResolveAlias(N(r)).val
           IN  \/ m = N(r) /\ Entry(r).kind = "Qubit" /\ meaning[r] = Qir!AQubit(Entry(r).qubit)
               \/ m \in GlobalConstants
               \/ \E s, t \in DOMAIN regs : m = N(s) /\ Reads(r, t) /\ Grounds(s, meaning[t])
<1> DEFINE m == ResolveAlias(N(r)).val
<1>1. QubitMeans(r)
  BY DEF EntriesMean, EntryMeans
<1>2. CASE Entry(r).kind = "Qubit"
  <2>1. ~IsAlias(locals, N(r)) /\ meaning[r] = Qir!AQubit(Entry(r).qubit)
    BY <1>1, <1>2 DEF QubitMeans, IsAlias, Entry
  <2>2. m = N(r)
    BY <2>1, Resolved DEF ResolveAlias
  <2> QED
    BY <1>2, <2>1, <2>2
<1>3. CASE Entry(r).kind = "Alias"
  <2>1. PICK t \in Addressed(Entry(r).target) : Reads(r, t)
    BY <1>1, <1>3 DEF QubitMeans
  <2>2. t \in DOMAIN regs /\ Entry(r).target \in AddressNames(meaning[t])
    BY <2>1 DEF Addressed, AddressNames
  <2> DEFINE X == AddressNames(meaning[t]) \union {N(r)}
  <2>3. \A n \in X : IsAlias(locals, n) => locals[n].target \in X
    BY <2>2, AddressChain DEF Entry
  <2>4. m \in X /\ ~IsAlias(locals, m)
    BY <2>3, ResolveStays, LocalsFinite DEF ResolveAlias
  <2>5. m # N(r)
    BY <1>3, <2>4 DEF IsAlias, IsBound, Entry
  <2>6. m \in AddressNames(meaning[t])
    BY <2>4, <2>5
  <2>7. m \in GlobalConstants \/ \E s \in DOMAIN regs : m = N(s) /\ Grounds(s, meaning[t])
    BY <2>4, <2>6, AddressFound
  <2> QED
    BY <2>1, <2>2, <2>7
<1> QED
  BY <1>1, <1>2, <1>3 DEF QubitMeans

(* A number leads to an address or a constant, and never to a qubit.        *)
LEMMA NumberResolves ==
    ASSUME NamesDistinct, TypeOK, EntriesMean, NEW r \in DOMAIN regs,
           regs[r] = "Num", IsBound(r), ResolveAlias(N(r)).tag = "ok"
    PROVE  LET m == ResolveAlias(N(r)).val
           IN  m \in GlobalConstants \/ \E s \in DOMAIN regs : m = N(s) /\ \E d : Grounds(s, d)
<1> DEFINE m == ResolveAlias(N(r)).val
<1>1. NumberMeans(r)
  BY DEF EntriesMean, EntryMeans
<1>2. PICK d : Entry(r).target \in AddressNames(d)
  <2>1. CASE Entry(r).target \in GlobalConstants
    BY <2>1 DEF AddressNames
  <2>2. ASSUME NEW s \in Addressed(Entry(r).target)
        PROVE  Entry(r).target \in AddressNames(meaning[s])
    BY <2>2 DEF Addressed, AddressNames
  <2> QED
    BY <1>1, <2>1, <2>2 DEF NumberMeans
<1> DEFINE X == AddressNames(d) \union {N(r)}
<1>3. \A n \in X : IsAlias(locals, n) => locals[n].target \in X
  BY <1>2, AddressChain DEF Entry
<1>4. m \in X /\ ~IsAlias(locals, m)
  BY <1>3, ResolveStays, LocalsFinite DEF ResolveAlias
<1>5. m # N(r)
  BY <1>1, <1>4 DEF NumberMeans, IsAlias, IsBound, Entry
<1>6. m \in AddressNames(d)
  BY <1>4, <1>5
<1> QED
  BY <1>4, <1>6, AddressFound

(* A struct leads to the tuple it was cast from.                            *)
LEMMA TupleResolves ==
    ASSUME NamesDistinct, TypeOK, EntriesMean, NEW p \in DOMAIN regs,
           regs[p] \in {"Struct*", "Tuple*"}, ResolveAlias(N(p)).tag = "ok"
    PROVE  \E s \in DOMAIN regs : /\ ResolveAlias(N(p)).val = N(s) /\ regs[s] = "Tuple*"
                                  /\ IsBound(s) /\ ItemsMean(s, "Tuple")
                                  /\ meaning[s] = meaning[p]
<1> DEFINE m == ResolveAlias(N(p)).val
<1>1. IsBound(p)
  BY NamesApart, Resolved DEF IsBound, ResolveAlias, IsAlias
<1>2. EntryMeans(p)
  BY <1>1 DEF EntriesMean
<1>3. CASE regs[p] = "Tuple*"
  <2>1. ItemsMean(p, "Tuple")
    BY <1>2, <1>3 DEF EntryMeans
  <2>2. ~IsAlias(locals, N(p))
    BY <2>1 DEF ItemsMean, IsAlias, Entry
  <2> QED
    BY <1>1, <1>3, <2>1, <2>2, Resolved DEF ResolveAlias
<1>4. CASE regs[p] = "Struct*"
  <2>1. StructMeans(p)
    BY <1>2, <1>4 DEF EntryMeans
  <2>2. PICK s \in DOMAIN regs : /\ regs[s] = "Tuple*" /\ IsBound(s)
                                 /\ Entry(p).target = N(s) /\ meaning[p] = meaning[s]
    BY <2>1 DEF StructMeans
  <2>3. ItemsMean(s, "Tuple")
    BY <2>2 DEF EntriesMean, EntryMeans
  <2>4. ~IsAlias(locals, N(s))
    BY <2>3 DEF ItemsMean, IsAlias, Entry
  <2> DEFINE X == {N(s), N(p)}
  <2>5. \A n \in X : IsAlias(locals, n) => locals[n].target \in X
    BY <2>2, <2>4 DEF Entry
  <2>6. m \in X /\ ~IsAlias(locals, m)
    BY <2>5, ResolveStays, LocalsFinite DEF ResolveAlias
  <2>7. m = N(s)
    BY <1>1, <2>1, <2>6 DEF StructMeans, IsAlias, IsBound, Entry
  <2> QED
    BY <2>2, <2>3, <2>7
<1> QED
  BY <1>3, <1>4

-----------------------------------------------------------------------------
(* The qubits that the operands of the quantum instructions are found to be *)
(* are the qubits they denote.                                              *)

LEMMA LookedUpGround ==
    ASSUME NamesDistinct, TypeOK, NEW n, NEW s \in DOMAIN regs, NEW d,
           LookUp(n).tag = "ok", ResolveAlias(n).val = N(s), Grounds(s, d)
    PROVE  LookUp(n).val = Entry(s) /\ LookUp(n).val.kind \in {"Data", "Index"}
<1>1. LookUp(n).val = locals[N(s)]
  BY LookedUp
<1> QED
  BY <1>1 DEF Grounds, AddressMeans, Entry

LEMMA ElementMeans ==
    ASSUME NamesDistinct, TypeOK, EntriesMean, MachineTyped,
           NEW r \in DOMAIN regs, NEW t, NEW s \in DOMAIN regs,
           Reads(r, t), Grounds(s, meaning[t]), Entry(s).kind = "Index",
           ElementOf(Entry(s).base, Entry(s).index).tag = "ok"
    PROVE  meaning[r] = Qir!AQubit(ElementOf(Entry(s).base, Entry(s).index).val)
<1> DEFINE base == Entry(s).base
           index == Entry(s).index
<1>1. PICK u \in DOMAIN regs, b \in DOMAIN memory :
          base = N(u) /\ PointsTo(u, b, 0) /\ PointsTo(s, b, index)
  BY DEF Grounds, AddressMeans, IndexMeans
<1>2. /\ IsBound(u) /\ Entry(u).kind = "Qubits" /\ ~(index >= Len(Entry(u).qubits))
      /\ ElementOf(base, index).val = Entry(u).qubits[index + 1]
  BY <1>1 DEF ElementOf, IsBound, Entry, Ok, Err
<1>3. QubitsMean(u)
  <2>1. EntryMeans(u)
    BY <1>2 DEF EntriesMean
  <2>2. regs[u] = "Array*"
    <3>1. regs[u] \in Types
      BY SeqNames
    <3> QED
      BY <1>2, <2>1, <3>1 DEF EntryMeans, QubitMeans, NumberMeans, AddressMeans,
                              ItemsMean, StructMeans, Types, Addresses
  <2> QED
    BY <1>2, <2>1, <2>2 DEF EntryMeans, ItemsMean
<1>4. \A i \in DOMAIN memory[b] : memory[b][i] = Qir!AQubit(Entry(u).qubits[i])
  BY <1>1, <1>3 DEF QubitsMean, PointsTo, Qir!Pointer
<1>5. meaning[t] = meaning[s]
  BY DEF Grounds
<1>6. index + 1 \in DOMAIN memory[b] /\ meaning[r] = memory[b][index + 1]
  <2>1. PICK c \in DOMAIN memory, i \in Nat : /\ PointsTo(t, c, i) /\ i + 1 \in DOMAIN memory[c]
                                              /\ meaning[r] = memory[c][i + 1]
    BY DEF Reads
  <2>2. c = b /\ i = index
    BY <1>1, <1>5, <2>1 DEF PointsTo, Qir!Pointer
  <2> QED
    BY <2>1, <2>2
<1> QED
  BY <1>2, <1>4, <1>6

(* A qubit passed to a call.                                                *)
LEMMA ArgumentMeans ==
    ASSUME NamesDistinct, TypeOK, EntriesMean, MachineTyped, NEW r \in DOMAIN regs,
           regs[r] = "Qubit*", IsBound(r), QubitArgument(N(r)).tag = "ok"
    PROVE  meaning[r] = Qir!AQubit(QubitArgument(N(r)).val)
<1> DEFINE v == LookUp(N(r)).val
           m == ResolveAlias(N(r)).val
<1>1. LookUp(N(r)).tag = "ok"
  BY DEF QubitArgument, Then
<1>2. ResolveAlias(N(r)).tag = "ok" /\ m \in DOMAIN locals /\ v = locals[m]
  BY <1>1, LookedUp
<1>3. m \notin GlobalConstants
  BY <1>2, NamesApart
<1>4. CASE m = N(r) /\ Entry(r).kind = "Qubit" /\ meaning[r] = Qir!AQubit(Entry(r).qubit)
  <2>1. v.kind = "Qubit" /\ v = Entry(r)
    BY <1>2, <1>4 DEF Entry
  <2>2. QubitArgument(N(r)) = Ok(v.qubit)
    BY <1>1, <2>1 DEF QubitArgument, Then
  <2> QED
    BY <1>4, <2>1, <2>2 DEF Ok
<1>5. ASSUME NEW s \in DOMAIN regs, NEW t \in DOMAIN regs, m = N(s), Reads(r, t),
             Grounds(s, meaning[t])
      PROVE  meaning[r] = Qir!AQubit(QubitArgument(N(r)).val)
  <2>1. v = Entry(s) /\ v.kind \in {"Data", "Index"}
    BY <1>1, <1>5, LookedUpGround
  <2>2. v.kind = "Index" /\ QubitArgument(N(r)) = ElementOf(v.base, v.index)
    BY <1>1, <2>1 DEF QubitArgument, Then, Err
  <2> QED
    BY <1>5, <2>1, <2>2, ElementMeans
<1> QED
  BY <1>2, <1>3, <1>4, <1>5, QubitResolves

(* What names an item of an array: a qubit, or a number.                    *)
Named(r) == r \in DOMAIN regs /\ (regs[r] = "Qubit*" \/ (regs[r] = "Num" /\ IsBound(r)))

LEMMA NamedResolves ==
    ASSUME NamesDistinct, TypeOK, EntriesMean, NEW r, Named(r),
           ResolveAlias(N(r)).tag = "ok", ResolveAlias(N(r)).val \in DOMAIN locals,
           locals[ResolveAlias(N(r)).val].kind = "Qubit"
    PROVE  meaning[r] = Qir!AQubit(locals[ResolveAlias(N(r)).val].qubit)
<1> DEFINE m == ResolveAlias(N(r)).val
<1>1. r \in DOMAIN regs /\ IsBound(r)
  BY NamesApart, Resolved DEF Named, IsBound, ResolveAlias, IsAlias
<1>2. m \notin GlobalConstants
  BY NamesApart
<1>3. \A s \in DOMAIN regs : m = N(s) => \A d : ~Grounds(s, d)
  BY DEF Grounds, AddressMeans, Entry
<1>4. regs[r] # "Num"
  BY <1>1, <1>2, <1>3, NumberResolves
<1>5. regs[r] = "Qubit*"
  BY <1>4 DEF Named
<1> QED
  BY <1>1, <1>2, <1>3, <1>5, QubitResolves DEF Entry

LEMMA QubitOfMeans ==
    ASSUME NamesDistinct, TypeOK, EntriesMean, NEW r, Named(r), QubitOf(N(r)).tag = "ok"
    PROVE  meaning[r] = Qir!AQubit(QubitOf(N(r)).val)
<1>1. LookUp(N(r)).tag = "ok" /\ LookUp(N(r)).val.kind = "Qubit"
  BY DEF QubitOf, Then, Expect, Ok, Err
<1>2. QubitOf(N(r)) = Ok(LookUp(N(r)).val.qubit)
  BY <1>1 DEF QubitOf, Then, Expect, Ok
<1>3. meaning[r] = Qir!AQubit(LookUp(N(r)).val.qubit)
  BY <1>1, LookedUp, NamedResolves
<1> QED
  BY <1>2, <1>3 DEF Ok

(* Aliases lead to what is bound.                                           *)
LEMMA BoundResolves ==
    ASSUME NamesDistinct, TypeOK, EntriesMean, NEW r \in DOMAIN regs, IsBound(r)
    PROVE  ~Unresolved(ResolveAlias(N(r)))
<1> DEFINE X == DOMAIN locals \union GlobalConstants
<1>1. ASSUME NEW n \in X, IsAlias(locals, n)
      PROVE  locals[n].target \in X
  <2>1. PICK s \in DOMAIN regs : n = N(s) /\ IsBound(s)
    BY <1>1, NamesApart DEF IsAlias
  <2>2. EntryMeans(s) /\ regs[s] \in Types /\ Entry(s).kind = "Alias"
    BY <1>1, <2>1, SeqNames DEF EntriesMean, Entry, IsAlias
  <2>3. \/ Entry(s).target \in GlobalConstants
        \/ \E t \in DOMAIN regs : IsBound(t) /\ Entry(s).target = N(t)
    BY <2>2 DEF EntryMeans, QubitMeans, NumberMeans, AddressMeans, QubitsMean, ItemsMean,
                StructMeans, Types, Addresses, Addressed
  <2> QED
    BY <2>1, <2>3 DEF Entry, IsBound
<1>2. N(r) \in X
  BY DEF IsBound
<1>3. Chase(locals, N(r)) \in X
  BY <1>1, <1>2, ChaseStays, LocalsFinite
<1> QED
  BY <1>2, <1>3 DEF Unresolved, ResolveAlias, ResolveIn, Ok, Err

(* A name that nothing is known of would be taken for a formal, but it is   *)
(* that of a released qubit.                                                *)
LEMMA QubitOrVariableMeans ==
    ASSUME NamesDistinct, TypeOK, EntriesMean, LooseMean, NEW r, Named(r),
           NEW absent, NEW mistyped, absent # "ok", mistyped # "ok",
           QubitOrVariable(N(r), absent, mistyped).tag = "ok",
           Qir!Usable(meaning[r])
    PROVE  meaning[r] = Qir!AQubit(QubitOrVariable(N(r), absent, mistyped).val)
<1> DEFINE found == ResolveAlias(N(r))
<1>1. IsBound(r)
  BY DEF Named, LooseMean, LooseMeans, Qir!Usable
<1>2. found.tag = "ok" => 
         /\ found.val \in DOMAIN locals /\ locals[found.val].kind = "Qubit"
         /\ QubitOrVariable(N(r), absent, mistyped) = Ok(locals[found.val].qubit)
  BY DEF QubitOrVariable, Unresolved, Then, Ok, Err
<1>3. found.tag = "ok"
  <2>1. ~Unresolved(found)
    BY <1>1, BoundResolves DEF Named
  <2> QED
    BY <2>1 DEF QubitOrVariable, Then
<1> QED
  BY <1>2, <1>3, NamedResolves DEF Ok

-----------------------------------------------------------------------------
(* What is picked from a list: all of it, or nothing.                       *)
LEMMA PickedAll ==
    ASSUME NEW s, NEW k, Listed(s, k)
    PROVE  Picked(s, 1 .. k) = s
<1>1. k \in Nat
  BY DEF Listed
<1>2. /\ 1 .. k \in SUBSET (Nat \ {0}) /\ IsFiniteSet(1 .. k) /\ Cardinality(1 .. k) = k
  BY <1>1, FS_Interval
<1>3. \A j \in 1 .. k : InOrder(1 .. k)[j] = j
  <2>1. SUFFICES ASSUME NEW j \in 1 .. k
                 PROVE  InOrder(1 .. k)[j] = j
    OBVIOUS
  <2>2. Under(1 .. k, j) = 1 .. j - 1
    BY <1>1 DEF Under
  <2>3. Cardinality(1 .. j - 1) = j - 1
    BY FS_Interval
  <2>4. InOrder(1 .. k)[Cardinality(Under(1 .. k, j)) + 1] = j
    BY <1>2, InOrderFinds
  <2>5. j - 1 + 1 = j
    OBVIOUS
  <2> QED
    BY <2>2, <2>3, <2>4, <2>5
<1>4. DOMAIN InOrder(1 .. k) = 1 .. k
  BY <1>2 DEF InOrder
<1>5. Picked(s, 1 .. k) = [j \in 1 .. k |-> s[j]]
  BY <1>3, <1>4 DEF Picked
<1> QED
  BY <1>5 DEF Listed

LEMMA PickedNone ==
    ASSUME NEW s
    PROVE  Picked(s, {}) = <<>>
<1>1. Cardinality({}) = 0
  BY FS_EmptySet
<1>2. 1 .. 0 = {}
  OBVIOUS
<1>3. DOMAIN InOrder({}) = {}
  BY <1>1, <1>2 DEF InOrder
<1>4. Picked(s, {}) = [n \in {} |-> s[InOrder({})[n]]]
  BY <1>3 DEF Picked
<1> QED
  BY <1>4

(* The arguments of a call.                                                 *)
LEMMA CallMeans ==
    ASSUME NamesDistinct, TypeOK, MachineTyped, EntriesMean, LooseMean,
           NEW k \in Nat, NEW args, Listed(args, k),
           \A i \in 1 .. k : args[i] \in OfType("Qubit*") /\ Qir!Usable(meaning[args[i]]),
           QubitsFromCall(Names(args)).tag = "ok"
    PROVE  /\ QubitsFromCall(Names(args)).val = Qir!QubitsOf(Qir!Values(args))
           /\ Listed(Qir!QubitsOf(Qir!Values(args)), k)
<1> DEFINE names == Names(args)
           found == [i \in 1 .. k |-> QubitArgument(names[i])]
<1>1. DOMAIN args = 1 .. k /\ \A i \in 1 .. k : args[i] \in DOMAIN regs /\ regs[args[i]] = "Qubit*"
  BY ListedIs DEF OfType
<1>2. names = [i \in 1 .. k |-> N(args[i])] /\ Listed(names, k)
  BY <1>1 DEF Names, Listed
<1>3. \A i \in 1 .. k : IsBound(args[i])
  BY <1>1 DEF LooseMean, LooseMeans, Qir!Usable
<1>4. {i \in DOMAIN names : names[i] \in DOMAIN locals} = 1 .. k
  BY <1>2, <1>3 DEF IsBound
<1>5. QubitsFromCall(names) = Collect(found)
  <2>1. Picked(names, 1 .. k) = names
    BY <1>2, PickedAll
  <2>2. DOMAIN names = 1 .. k
    BY <1>2
  <2> HIDE DEF names
  <2> QED
    BY <1>4, <2>1, <2>2 DEF QubitsFromCall
<1>6. \A i \in 1 .. k : names[i] = N(args[i])
  BY <1>2
<1> HIDE DEF names
<1>7. /\ \A i \in 1 .. k : QubitArgument(names[i]).tag = "ok"
      /\ Collect(found).val = [i \in 1 .. k |-> QubitArgument(names[i]).val]
  <2>1. DOMAIN found = 1 .. k /\ \A i \in 1 .. k : found[i] = QubitArgument(names[i])
    OBVIOUS
  <2>2. Collect(found).tag = "ok"
    BY <1>5 DEF names
  <2> HIDE DEF found
  <2>3. DOMAIN found \subseteq Nat
    BY <2>1
  <2>4. /\ \A i \in DOMAIN found : found[i].tag = "ok"
        /\ Collect(found).val = [i \in DOMAIN found |-> found[i].val]
    BY <2>2, <2>3, Collected
  <2> QED
    BY <2>1, <2>4
<1> HIDE DEF found
<1>8. \A i \in 1 .. k : meaning[args[i]] = Qir!AQubit(QubitArgument(names[i]).val)
  BY <1>1, <1>3, <1>6, <1>7, ArgumentMeans
<1>9. Qir!QubitsOf(Qir!Values(args)) = [i \in 1 .. k |-> QubitArgument(names[i]).val]
  <2>1. Qir!Values(args) = [i \in 1 .. k |-> meaning[args[i]]]
    BY <1>1 DEF Qir!Values
  <2>2. Qir!QubitsOf(Qir!Values(args)) = [i \in 1 .. k |-> meaning[args[i]].qubit]
    BY <2>1 DEF Qir!QubitsOf
  <2>3. ASSUME NEW i \in 1 .. k
        PROVE  meaning[args[i]].qubit = QubitArgument(names[i]).val
    <3>1. meaning[args[i]] = Qir!AQubit(QubitArgument(names[i]).val)
      BY <1>8
    <3> QED
      BY <3>1 DEF Qir!AQubit
  <2> QED
    BY <2>2, <2>3
<1>10. Listed(Qir!QubitsOf(Qir!Values(args)), k)
  BY <1>9 DEF Listed
<1> QED
  BY <1>5, <1>7, <1>9, <1>10 DEF names

(* An array is known by its own name, and looked up under it.               *)
LEMMA ArrayBound ==
    ASSUME NamesDistinct, TypeOK, MachineTyped, EntriesMean, NEW a \in OfType("Array*"),
           IsBound(a), Entry(a).kind = "Array"
    PROVE  /\ Entry(a).items \in Seq(Item)
           /\ Qir!Denotes(a, "block")
           /\ Qir!Block(a) \in Seq(Denotations)
           /\ Filled(Entry(a).items, Qir!Block(a))
<1>1. ItemsMean(a, "Array")
  BY DEF OfType, EntriesMean, EntryMeans, QubitsMean
<1>2. Entry(a) \in Value
  BY DEF TypeOK, Entry, IsBound
<1>3. Entry(a).items \in Seq(Item)
  BY <1>2, ValueParts
<1>4. PICK b \in DOMAIN memory : PointsTo(a, b, 0) /\ Filled(Entry(a).items, memory[b])
  BY <1>1 DEF ItemsMean
<1>5. Qir!Denotes(a, "block") /\ Qir!Block(a) = memory[b]
  BY <1>4 DEF PointsTo, Qir!Pointer, Qir!Denotes, Qir!Block
<1>6. memory[b] \in Seq(Denotations)
  BY DEF MachineTyped
<1> QED
  BY <1>3, <1>4, <1>5, <1>6

LEMMA ArrayLookedUp ==
    ASSUME NamesDistinct, TypeOK, EntriesMean, NEW a \in OfType("Array*"),
           LookUp(N(a)).tag = "ok"
    PROVE  IsBound(a) /\ LookUp(N(a)).val = Entry(a)
<1>1. /\ ResolveAlias(N(a)).tag = "ok" /\ ResolveAlias(N(a)).val \in DOMAIN locals
      /\ LookUp(N(a)).val = locals[ResolveAlias(N(a)).val]
  BY LookedUp
<1>2. IsBound(a)
  BY <1>1, NamesApart, Resolved DEF OfType, IsBound, ResolveAlias, IsAlias
<1>3. ~IsAlias(locals, N(a))
  BY <1>2 DEF OfType, EntriesMean, EntryMeans, QubitsMean, ItemsMean, IsAlias, Entry
<1> QED
  BY <1>1, <1>2, <1>3, Resolved DEF ResolveAlias, Entry

(* When all its cells were written, a container has as many items.          *)
LEMMA FilledUp ==
    ASSUME NEW items, NEW cells, items \in Seq(Item), cells \in Seq(Denotations),
           Filled(items, cells), \A i \in DOMAIN cells : cells[i] # Qir!Opaque
    PROVE  /\ Len(items) = Len(cells) /\ DOMAIN items = DOMAIN cells
           /\ \A i \in DOMAIN items : ItemMeans(items[i], cells[i])
<1>1. /\ Len(items) \in Nat /\ DOMAIN items = 1 .. Len(items)
      /\ Len(cells) \in Nat /\ DOMAIN cells = 1 .. Len(cells)
  BY LenProperties
<1>2. Len(items) = Len(cells)
  <2>1. ~(Len(items) < Len(cells))
    <3>1. SUFFICES ASSUME Len(items) < Len(cells)
                   PROVE  FALSE
      OBVIOUS
    <3>2. Len(cells) \in DOMAIN cells /\ ~(Len(cells) <= Len(items))
      BY <1>1, <3>1
    <3> QED
      BY <3>2 DEF Filled
  <2>2. Len(items) <= Len(cells)
    BY DEF Filled
  <2>3. \A m, n \in Nat : ~(m < n) /\ m <= n => m = n
    OBVIOUS
  <2> QED
    BY <1>1, <2>1, <2>2, <2>3, Zenon
<1> QED
  BY <1>1, <1>2 DEF Filled

-----------------------------------------------------------------------------
(* The controlled intrinsics and the measurements.                          *)

(* All cells of the block of an array are qubits not yet released.          *)
AllUsable(cells) == \A i \in DOMAIN cells : Qir!Usable(cells[i])

LEMMA ItemNamed ==
    ASSUME NEW item, NEW cell, ItemMeans(item, cell), item.is = "Name"
    PROVE  \E r : Named(r) /\ item.name = N(r) /\ meaning[r] = cell
BY DEF ItemMeans, Named

LEMMA UsableWritten ==
    ASSUME NEW v, Qir!Usable(v)
    PROVE  v # Qir!Opaque
BY DEF Qir!Usable, Qir!Opaque

LEMMA ControlsMean ==
    ASSUME NamesDistinct, TypeOK, MachineTyped, EntriesMean, NEW a \in OfType("Array*"),
           NEW cells, cells = Qir!Block(a), AllUsable(cells),
           ControlNames(N(a)).tag = "ok", ControlQubits(ControlNames(N(a)).val).tag = "ok"
    PROVE  /\ Qir!Denotes(a, "block")
           /\ Listed(cells, Len(cells))
           /\ ControlQubits(ControlNames(N(a)).val).val = Qir!QubitsOf(cells)
           /\ Listed(Qir!QubitsOf(cells), Len(cells))
<1> DEFINE items == Entry(a).items
           named == [i \in DOMAIN items |-> NameOf(items[i])]
           names == ControlNames(N(a)).val
           found == [i \in DOMAIN names |-> QubitOf(names[i])]
<1>1. LookUp(N(a)).tag = "ok" /\ LookUp(N(a)).val.kind = "Array"
  BY DEF ControlNames, Then, Expect, Ok, Err
<1>2. IsBound(a) /\ LookUp(N(a)).val = Entry(a) /\ Entry(a).kind = "Array"
  BY <1>1, ArrayLookedUp
<1>3. /\ items \in Seq(Item) /\ Qir!Denotes(a, "block")
      /\ cells \in Seq(Denotations) /\ Filled(items, cells)
  BY <1>2, ArrayBound
<1>4. \A i \in DOMAIN cells : cells[i] # Qir!Opaque
  BY UsableWritten DEF AllUsable
<1>5. /\ Len(cells) \in Nat /\ DOMAIN items = 1 .. Len(cells) /\ DOMAIN cells = 1 .. Len(cells)
      /\ \A i \in DOMAIN items : ItemMeans(items[i], cells[i])
  BY <1>3, <1>4, FilledUp, LenProperties
<1>6. ControlNames(N(a)) = Collect(named)
  BY <1>1, <1>2 DEF ControlNames, Then, Expect, Ok
<1>7. /\ DOMAIN named = 1 .. Len(cells)
      /\ \A i \in 1 .. Len(cells) : named[i] = NameOf(items[i])
  BY <1>5
<1> HIDE DEF named
<1>8. /\ \A i \in DOMAIN named : named[i].tag = "ok"
      /\ names = [i \in DOMAIN named |-> named[i].val]
  <2>1. DOMAIN named \subseteq Nat /\ Collect(named).tag = "ok"
    BY <1>6, <1>7
  <2> QED
    BY <1>6, <2>1, Collected
<1>9. /\ DOMAIN names = 1 .. Len(cells)
      /\ \A i \in 1 .. Len(cells) : names[i] = items[i].name /\ items[i].is = "Name"
  <2>1. \A i \in 1 .. Len(cells) : NameOf(items[i]).tag = "ok" /\ names[i] = NameOf(items[i]).val
    BY <1>7, <1>8
  <2> QED
    BY <1>7, <1>8, <2>1 DEF NameOf, Ok, Err
<1> HIDE DEF names
<1>10. /\ DOMAIN found = 1 .. Len(cells)
       /\ \A i \in 1 .. Len(cells) : found[i] = QubitOf(names[i])
  BY <1>9
<1>11. ControlQubits(names) = Collect(found)
  BY DEF ControlQubits
<1> HIDE DEF found
<1>12. /\ \A i \in DOMAIN found : found[i].tag = "ok"
       /\ ControlQubits(names).val = [i \in DOMAIN found |-> found[i].val]
  <2>1. DOMAIN found \subseteq Nat /\ Collect(found).tag = "ok"
    BY <1>10, <1>11 DEF names
  <2> QED
    BY <1>11, <2>1, Collected
<1>13. ASSUME NEW i \in 1 .. Len(cells)
       PROVE  cells[i].qubit = QubitOf(names[i]).val
  <2>1. PICK r : Named(r) /\ names[i] = N(r) /\ meaning[r] = cells[i]
    BY <1>5, <1>9, ItemNamed
  <2>2. QubitOf(N(r)).tag = "ok"
    BY <1>10, <1>12, <2>1
  <2>3. cells[i] = Qir!AQubit(QubitOf(names[i]).val)
    BY <2>1, <2>2, QubitOfMeans
  <2> QED
    BY <2>3 DEF Qir!AQubit
<1>14. Qir!QubitsOf(cells) = [i \in 1 .. Len(cells) |-> QubitOf(names[i]).val]
  BY <1>5, <1>13 DEF Qir!QubitsOf
<1>15. ControlQubits(names).val = [i \in 1 .. Len(cells) |-> QubitOf(names[i]).val]
  BY <1>10, <1>12
<1>16. Listed(Qir!QubitsOf(cells), Len(cells))
  BY <1>5, <1>14 DEF Listed
<1>17. Listed(cells, Len(cells))
  BY <1>3, ListedSeq
<1> QED
  BY <1>3, <1>14, <1>15, <1>16, <1>17 DEF names

(* The one item of an array that has one cell.                              *)
LEMMA OneItem ==
    ASSUME NamesDistinct, TypeOK, MachineTyped, EntriesMean, NEW a \in OfType("Array*"),
           IsBound(a), Entry(a).kind = "Array", FirstName(Entry(a).items).tag = "ok",
           Qir!Denotes(a, "block") => Len(Qir!Block(a)) = 1
    PROVE  \E r : /\ Named(r) /\ FirstName(Entry(a).items).val = N(r)
                  /\ Qir!Block(a) = <<meaning[r]>>
<1> DEFINE items == Entry(a).items
           cells == Qir!Block(a)
<1>1. items \in Seq(Item) /\ cells \in Seq(Denotations) /\ Filled(items, cells) /\ Len(cells) = 1
  BY ArrayBound
<1>2. items # <<>> /\ FirstName(items) = NameOf(items[1])
  BY DEF FirstName, Err
<1>3. items[1].is = "Name" /\ FirstName(items).val = items[1].name
  BY <1>2 DEF NameOf, Ok, Err
<1>4. 1 \in DOMAIN cells /\ 1 <= Len(items)
  BY <1>1, <1>2
<1>5. ItemMeans(items[1], cells[1])
  BY <1>1, <1>4 DEF Filled
<1>6. PICK r : Named(r) /\ items[1].name = N(r) /\ meaning[r] = cells[1]
  BY <1>3, <1>5, ItemNamed
<1>7. cells = <<cells[1]>>
  BY <1>1
<1> QED
  BY <1>3, <1>6, <1>7

LEMMA XCtlMeans ==
    ASSUME NamesDistinct, TypeOK, MachineTyped, EntriesMean, LooseMean,
           NEW a \in OfType("Array*"), NEW q \in OfType("Qubit*"),
           XCtl(N(a), N(q)).tag = "ok", Qir!Usable(meaning[q]),
           AllUsable(Qir!Block(a)), Qir!Denotes(a, "block") => Len(Qir!Block(a)) = 1
    PROVE  \E c, t : /\ XCtl(N(a), N(q)).val = GateOn("X", FALSE, <<>>, 1, <<c, t>>)
                     /\ Qir!Block(a) = <<Qir!AQubit(c)>> /\ meaning[q] = Qir!AQubit(t)
<1> DEFINE items == Entry(a).items
           c == QubitOrVariable(FirstName(items).val, "panic", "UnexpectedVariableType")
           t == QubitOrVariable(N(q), "CannotResolveLocalVariableValue", "panic")
<1>1. IsBound(a) /\ Entry(a).kind = "Array"
  BY DEF XCtl, Then, Expect, Ok, Err, IsBound, Entry
<1>3. /\ FirstName(items).tag = "ok" /\ c.tag = "ok" /\ t.tag = "ok"
      /\ XCtl(N(a), N(q)) = Ok(GateOn("X", FALSE, <<>>, 1, <<c.val, t.val>>))
  BY <1>1 DEF XCtl, Then, Expect, Ok, Err, Entry, IsBound
<1>4. PICK r : Named(r) /\ FirstName(items).val = N(r) /\ Qir!Block(a) = <<meaning[r]>>
  BY <1>1, <1>3, OneItem
<1>5. Qir!Usable(meaning[r])
  BY <1>4 DEF AllUsable
<1>6. meaning[r] = Qir!AQubit(c.val)
  BY <1>3, <1>4, <1>5, QubitOrVariableMeans
<1>7. meaning[q] = Qir!AQubit(t.val)
  <2>1. Named(q)
    BY DEF Named, OfType
  <2> QED
    BY <1>3, <2>1, QubitOrVariableMeans
<1>8. XCtl(N(a), N(q)).val = GateOn("X", FALSE, <<>>, 1, <<c.val, t.val>>)
  BY <1>3 DEF Ok
<1>9. Qir!Block(a) = <<Qir!AQubit(c.val)>>
  BY <1>4, <1>6
<1> HIDE DEF c, t
<1> QED
  BY <1>7, <1>8, <1>9

LEMMA MeasureBodyMeans ==
    ASSUME NamesDistinct, TypeOK, MachineTyped, EntriesMean, LooseMean,
           NEW a \in OfType("Array*"), MeasureBody(N(a)).tag = "ok",
           AllUsable(Qir!Block(a)), Qir!Denotes(a, "block") => Len(Qir!Block(a)) = 1
    PROVE  Qir!Block(a) = <<Qir!AQubit(MeasureBody(N(a)).val)>>
<1> DEFINE items == Entry(a).items
           q == QubitOrVariable(FirstName(items).val, "panic", "panic")
<1>1. LookUp(N(a)).tag = "ok" /\ LookUp(N(a)).val.kind = "Array"
  BY DEF MeasureBody, Then, Expect, Ok, Err
<1>2. IsBound(a) /\ LookUp(N(a)).val = Entry(a) /\ Entry(a).kind = "Array"
  BY <1>1, ArrayLookedUp
<1>3. FirstName(items).tag = "ok" /\ q.tag = "ok" /\ MeasureBody(N(a)) = q
  BY <1>1, <1>2 DEF MeasureBody, Then, Expect, Ok, Err
<1>4. PICK r : Named(r) /\ FirstName(items).val = N(r) /\ Qir!Block(a) = <<meaning[r]>>
  BY <1>2, <1>3, OneItem
<1>5. Qir!Usable(meaning[r])
  BY <1>4 DEF AllUsable
<1>6. meaning[r] = Qir!AQubit(q.val)
  BY <1>3, <1>4, <1>5, QubitOrVariableMeans
<1> QED
  BY <1>3, <1>4, <1>6

LEMMA MBodyMeans ==
    ASSUME NamesDistinct, TypeOK, MachineTyped, EntriesMean, LooseMean,
           NEW q \in OfType("Qubit*"), MBody(<<N(q)>>).tag = "ok", Qir!Usable(meaning[q])
    PROVE  meaning[q] = Qir!AQubit(MBody(<<N(q)>>).val)
<1> DEFINE found == QubitsFromCall(Names(<<q>>))
<1>1. Names(<<q>>) = <<N(q)>>
  BY DEF Names
<1>2. found.tag = "ok" /\ MBody(<<N(q)>>).val = found.val[1]
  BY <1>1 DEF MBody, Then, Ok, Err
<1>3. Listed(<<q>>, 1)
  BY DEF Listed
<1>4. found.val = Qir!QubitsOf(Qir!Values(<<q>>))
  <2>1. \A i \in 1 .. 1 : <<q>>[i] = q
    OBVIOUS
  <2> QED
    BY <1>2, <1>3, <2>1, CallMeans
<1>5. found.val[1] = meaning[q].qubit
  <2>1. Qir!Values(<<q>>) = <<meaning[q]>>
    BY DEF Qir!Values
  <2>2. Qir!QubitsOf(<<meaning[q]>>) = <<meaning[q].qubit>>
    BY DEF Qir!QubitsOf
  <2> QED
    BY <1>4, <2>1, <2>2
<1>6. Qir!Usable(meaning[q]) => meaning[q] = Qir!AQubit(meaning[q].qubit)
  <2>1. meaning[q] \in Denotations
    BY SeqNames DEF MachineTyped, OfType
  <2> QED
    BY <2>1 DEF Denotations, Qir!Usable, Qir!Opaque, Qir!AQubit
<1> QED
  BY <1>2, <1>5, <1>6

-----------------------------------------------------------------------------
(* What the gates emitted do.                                               *)

LEMMA Turns ==
    ASSUME NEW angles, NEW n, NEW qs
    PROVE  /\ TurnOf(GateOn("X", FALSE, angles, n, qs)) = Turn("X", 4, angles)
           /\ TurnOf(GateOn("Y", FALSE, angles, n, qs)) = Turn("Y", 4, angles)
           /\ TurnOf(GateOn("Z", FALSE, angles, n, qs)) = Turn("Z", 4, angles)
           /\ TurnOf(GateOn("H", FALSE, angles, n, qs)) = Turn("XZ", 4, angles)
           /\ TurnOf(GateOn("SWAP", FALSE, angles, n, qs)) = Turn("SWAP", 4, angles)
           /\ TurnOf(GateOn("CNOT", FALSE, angles, n, qs)) = Turn("X", 4, angles)
           /\ TurnOf(GateOn("S", FALSE, angles, n, qs)) = Turn("Z", 2, angles)
           /\ TurnOf(GateOn("S", TRUE, angles, n, qs)) = Turn("Z", -2, angles)
           /\ TurnOf(GateOn("T", FALSE, angles, n, qs)) = Turn("Z", 1, angles)
           /\ TurnOf(GateOn("T", TRUE, angles, n, qs)) = Turn("Z", -1, angles)
           /\ TurnOf(GateOn(Circuit, FALSE, angles, n, qs)) = Turn(Circuit, 0, angles)
BY DEF TurnOf, GateOn, HalfTurns, Rotations, Circuit

LEMMA RotationTurns ==
    ASSUME NEW a, NEW n, NEW qs, NEW name \in {"RX", "RY", "RZ"}
    PROVE  TurnOf(GateOn(name, FALSE, <<a>>, n, qs)) = Turn(Rotations[name], 0, <<a>>)
BY DEF TurnOf, GateOn, HalfTurns, Rotations

(* The machine speaks of Quil as the translator does.                       *)
LEMMA Copies ==
    /\ \A axis, eighths, angles : Qir!Turn(axis, eighths, angles) = Turn(axis, eighths, angles)
    /\ \A turn, cs, ts : Qir!Acting(turn, cs, ts) = Acting(turn, cs, ts)
    /\ \A q, n : Qir!Measurement(q, n) = Measurement(q, n)
    /\ \A i : Qir!Fixed(i) = Fixed(i)
BY DEF Qir!Turn, Turn, Qir!Acting, Acting, Qir!Measurement, Measurement, Qir!Fixed, Fixed

(* The tables of translate_function_call, gate by gate.                     *)
LEMMA PlainTurns ==
    ASSUME NEW g \in DOMAIN PlainGate, NEW n, NEW qs
    PROVE  TurnOf(GateOn(PlainGate[g], g \in Daggered, <<>>, n, qs)) = Qir!Intended(g)
<1>1. CASE g \in {"x", "x__body"}
  <2>1. PlainGate[g] = "X" /\ (g \in Daggered) = FALSE /\ Qir!Intended(g) = Turn("X", 4, <<>>)
    BY <1>1, Copies DEF PlainGate, Daggered, Qir!Intended, Qir!Pauli, Qir!Hadamard, Qir!Phase
  <2> QED
    BY <2>1, Turns
<1>2. CASE g = "y"
  <2>1. PlainGate[g] = "Y" /\ (g \in Daggered) = FALSE /\ Qir!Intended(g) = Turn("Y", 4, <<>>)
    BY <1>2, Copies DEF PlainGate, Daggered, Qir!Intended, Qir!Pauli, Qir!Hadamard, Qir!Phase
  <2> QED
    BY <2>1, Turns
<1>3. CASE g = "z"
  <2>1. PlainGate[g] = "Z" /\ (g \in Daggered) = FALSE /\ Qir!Intended(g) = Turn("Z", 4, <<>>)
    BY <1>3, Copies DEF PlainGate, Daggered, Qir!Intended, Qir!Pauli, Qir!Hadamard, Qir!Phase
  <2> QED
    BY <2>1, Turns
<1>4. CASE g \in {"h", "h__body"}
  <2>1. PlainGate[g] = "H" /\ (g \in Daggered) = FALSE /\ Qir!Intended(g) = Turn("XZ", 4, <<>>)
    BY <1>4, Copies DEF PlainGate, Daggered, Qir!Intended, Qir!Pauli, Qir!Hadamard, Qir!Phase
  <2> QED
    BY <2>1, Turns
<1>5. CASE g = "swap"
  <2>1. /\ PlainGate[g] = "SWAP" /\ (g \in Daggered) = FALSE
        /\ Qir!Intended(g) = Turn("SWAP", 4, <<>>)
    BY <1>5, Copies DEF PlainGate, Daggered, Qir!Intended, Qir!Pauli, Qir!Hadamard, Qir!Phase
  <2> QED
    BY <2>1, Turns
<1>6. CASE g = "cnot"
  <2>1. /\ PlainGate[g] = "CNOT" /\ (g \in Daggered) = FALSE
        /\ Qir!Intended(g) = Turn("X", 4, <<>>)
    BY <1>6, Copies DEF PlainGate, Daggered, Qir!Intended, Qir!Pauli, Qir!Hadamard, Qir!Phase
  <2> QED
    BY <2>1, Turns
<1>7. CASE g = "s"
  <2>1. PlainGate[g] = "S" /\ (g \in Daggered) = FALSE /\ Qir!Intended(g) = Turn("Z", 2, <<>>)
    BY <1>7, Copies DEF PlainGate, Daggered, Qir!Intended, Qir!Pauli, Qir!Hadamard, Qir!Phase
  <2> QED
    BY <2>1, Turns
<1>8. CASE g = "sadj"
  <2>1. PlainGate[g] = "S" /\ (g \in Daggered) = TRUE /\ Qir!Intended(g) = Turn("Z", -2, <<>>)
    BY <1>8, Copies DEF PlainGate, Daggered, Qir!Intended, Qir!Pauli, Qir!Hadamard, Qir!Phase
  <2> QED
    BY <2>1, Turns
<1>9. CASE g = "t"
  <2>1. PlainGate[g] = "T" /\ (g \in Daggered) = FALSE /\ Qir!Intended(g) = Turn("Z", 1, <<>>)
    BY <1>9, Copies DEF PlainGate, Daggered, Qir!Intended, Qir!Pauli, Qir!Hadamard, Qir!Phase
  <2> QED
    BY <2>1, Turns
<1>10. CASE g = "tadj"
  <2>1. PlainGate[g] = "T" /\ (g \in Daggered) = TRUE /\ Qir!Intended(g) = Turn("Z", -1, <<>>)
    BY <1>10, Copies DEF PlainGate, Daggered, Qir!Intended, Qir!Pauli, Qir!Hadamard, Qir!Phase
  <2> QED
    BY <2>1, Turns
<1>11. g \in {"x", "y", "z", "t", "tadj", "s", "sadj", "x__body", "h__body", "h", "cnot", "swap"}
  BY DEF PlainGate
<1> QED
  BY <1>1, <1>2, <1>3, <1>4, <1>5, <1>6, <1>7, <1>8, <1>9, <1>10, <1>11

(* All but the controlled I and S do what they are named for.               *)
LEMMA ControlledTurns ==
    ASSUME NEW g \in DOMAIN ControlledName, g \notin {"I__ctl", "S__ctl"}, NEW n, NEW qs
    PROVE  TurnOf(GateOn(ControlledName[g], FALSE, <<>>, n, qs)) = Qir!Intended(g)
<1>1. CASE g = "X__ctl"
  <2>1. ControlledName[g] = "X" /\ Qir!Intended(g) = Turn("X", 4, <<>>)
    BY <1>1, Copies DEF ControlledName, Qir!Intended, Qir!Pauli, Qir!Hadamard, Qir!Phase
  <2> QED
    BY <2>1, Turns
<1>2. CASE g = "Y__ctl"
  <2>1. ControlledName[g] = "Y" /\ Qir!Intended(g) = Turn("Y", 4, <<>>)
    BY <1>2, Copies DEF ControlledName, Qir!Intended, Qir!Pauli, Qir!Hadamard, Qir!Phase
  <2> QED
    BY <2>1, Turns
<1>3. CASE g = "Z__ctl"
  <2>1. ControlledName[g] = "Z" /\ Qir!Intended(g) = Turn("Z", 4, <<>>)
    BY <1>3, Copies DEF ControlledName, Qir!Intended, Qir!Pauli, Qir!Hadamard, Qir!Phase
  <2> QED
    BY <2>1, Turns
<1>4. CASE g = "H__ctl"
  <2>1. ControlledName[g] = "H" /\ Qir!Intended(g) = Turn("XZ", 4, <<>>)
    BY <1>4, Copies DEF ControlledName, Qir!Intended, Qir!Pauli, Qir!Hadamard, Qir!Phase
  <2> QED
    BY <2>1, Turns
<1>5. CASE g = "T__ctl"
  <2>1. ControlledName[g] = "T" /\ Qir!Intended(g) = Turn("Z", 1, <<>>)
    BY <1>5, Copies DEF ControlledName, Qir!Intended, Qir!Pauli, Qir!Hadamard, Qir!Phase
  <2> QED
    BY <2>1, Turns
<1>6. g \in {"I__ctl", "X__ctl", "Y__ctl", "Z__ctl", "H__ctl", "T__ctl", "S__ctl"}
  BY DEF ControlledName
<1> QED
  BY <1>1, <1>2, <1>3, <1>4, <1>5, <1>6

LEMMA TurnsBy ==
    ASSUME NEW g, NEW n, NEW qs, NEW a
    PROVE  /\ g \in DOMAIN RotationGate =>
                 TurnOf(GateOn(RotationGate[g], FALSE, <<a>>, n, qs)) = Qir!IntendedBy(g, a)
           /\ g \in DOMAIN ControlledRotationName =>
                 TurnOf(GateOn(ControlledRotationName[g], FALSE, <<a>>, n, qs))
                    = Qir!IntendedBy(g, a)
<1>1. ASSUME g \in DOMAIN RotationGate
      PROVE  /\ RotationGate[g] \in {"RX", "RY", "RZ"}
             /\ Rotations[RotationGate[g]] = Qir!AxisOf[g]
  BY <1>1 DEF RotationGate, Rotations, Qir!AxisOf
<1>2. ASSUME g \in DOMAIN ControlledRotationName
      PROVE  /\ ControlledRotationName[g] \in {"RX", "RY", "RZ"}
             /\ Rotations[ControlledRotationName[g]] = Qir!AxisOf[g]
  BY <1>2 DEF ControlledRotationName, Rotations, Qir!AxisOf
<1> QED
  BY <1>1, <1>2, RotationTurns, Copies DEF Qir!IntendedBy

(* The qubits of a gate, divided into controls and targets.                 *)
Divides(qs, n, cs, ts) == SubSeq(qs, 1, n) = cs /\ SubSeq(qs, n + 1, Len(qs)) = ts

LEMMA Divided ==
    ASSUME NEW cs, NEW n, Listed(cs, n), NEW t
    PROVE  /\ Divides(Append(cs, t), n, cs, <<t>>)
           /\ SubSeq(cs, 1, 0) = <<>>
           /\ SubSeq(cs, 1, Len(cs)) = cs
<1>1. PICK S : cs \in Seq(S) /\ t \in S
  BY ListedWith
<1>2. Len(cs) = n /\ n \in Nat
  BY ListedIs
<1>3. Append(cs, t) \in Seq(S) /\ Len(Append(cs, t)) = n + 1
  BY <1>1, <1>2, AppendProperties
<1>4. SubSeq(Append(cs, t), 1, n) = cs
  BY <1>1, <1>2, <1>3, AppendProperties
<1>5. SubSeq(Append(cs, t), n + 1, n + 1) = <<t>>
  <2>1. PICK u, m : u = Append(cs, t) /\ m = n + 1
    OBVIOUS
  <2>2. m \in Int /\ u[m] = t /\ m - m + 1 = 1 /\ m + 1 - 1 = m /\ \A i \in m .. m : i = m
    BY <1>1, <1>2, <2>1, AppendProperties
  <2>3. /\ SubSeq(u, m, m) \in Seq(S) /\ Len(SubSeq(u, m, m)) = 1
        /\ SubSeq(u, m, m)[1] = t
    BY <1>1, <2>2, SubSeqProperties
  <2>4. \A w \in Seq(S) : Len(w) = 1 /\ w[1] = t => w = <<t>>
    BY <1>1
  <2> QED
    BY <2>1, <2>3, <2>4
<1>6. SubSeq(cs, 1, 0) = <<>>
  BY <1>1, <1>2
<1>7. SubSeq(cs, 1, Len(cs)) = cs
  BY <1>1, <1>2
<1> QED
  BY <1>3, <1>4, <1>5, <1>6, <1>7 DEF Divides

LEMMA ActOfPlain ==
    ASSUME NEW name, name # "CNOT", NEW dagger, NEW angles, NEW qs, NEW k, Listed(qs, k)
    PROVE  ActOf(GateOn(name, dagger, angles, 0, qs))
              = Acting(TurnOf(GateOn(name, dagger, angles, 0, qs)), <<>>, qs)
<1>1. SubSeq(qs, 1, 0) = <<>> /\ SubSeq(qs, 1, Len(qs)) = qs
  BY Divided
<1>2. PICK g : g = GateOn(name, dagger, angles, 0, qs)
  OBVIOUS
<1>3. g.op = "gate" /\ g.name = name /\ g.controls = 0 /\ g.qubits = qs
  BY <1>2 DEF GateOn
<1>4. 0 + 1 = 1
  OBVIOUS
<1>5. ActOf(g) = Acting(TurnOf(g), SubSeq(qs, 1, 0), SubSeq(qs, 0 + 1, Len(qs)))
  BY <1>3 DEF ActOf
<1> QED
  BY <1>1, <1>2, <1>4, <1>5

LEMMA AppendToOne ==
    ASSUME NEW q, NEW r
    PROVE  Append(<<q>>, r) = <<q, r>>
<1>1. /\ Listed(<<q>>, 1) /\ Listed(<<q, r>>, 2)
  BY DEF Listed
<1>2. PICK u : u = Append(<<q>>, r)
  OBVIOUS
<1>3. /\ Listed(u, 2) /\ u[1] = q /\ u[2] = r
  <2>1. 1 + 1 = 2 /\ <<q>>[1] = q
    OBVIOUS
  <2>2. /\ Listed(Append(<<q>>, r), 2)
        /\ Agree(Append(<<q>>, r), <<q>>, 1)
        /\ EndsWith(Append(<<q>>, r), 2, r)
    BY <1>1, <2>1, ListedAppend
  <2>3. Listed(u, 2) /\ Agree(u, <<q>>, 1) /\ EndsWith(u, 2, r)
    BY <1>2, <2>2, Zenon
  <2> QED
    BY <2>1, <2>3 DEF Agree, EndsWith
<1>4. Agree(u, <<q, r>>, 2)
  BY <1>3 DEF Agree
<1> QED
  BY <1>1, <1>2, <1>3, <1>4, ListedEqual

LEMMA ActOfCNOT ==
    ASSUME NEW dagger, NEW angles, NEW q, NEW r
    PROVE  ActOf(GateOn("CNOT", dagger, angles, 0, <<q, r>>))
              = Acting(TurnOf(GateOn("CNOT", dagger, angles, 0, <<q, r>>)), <<q>>, <<r>>)
<1>1. Listed(<<q>>, 1)
  BY DEF Listed
<1>2. SubSeq(<<q, r>>, 1, 1) = <<q>> /\ SubSeq(<<q, r>>, 1 + 1, Len(<<q, r>>)) = <<r>>
  <2>1. Append(<<q>>, r) = <<q, r>>
    BY AppendToOne
  <2>2. Divides(Append(<<q>>, r), 1, <<q>>, <<r>>)
    BY <1>1, Divided, Zenon
  <2>3. Divides(<<q, r>>, 1, <<q>>, <<r>>)
    BY <2>1, <2>2, Zenon
  <2> QED
    BY <2>3, Zenon DEF Divides
<1>3. PICK g : g = GateOn("CNOT", dagger, angles, 0, <<q, r>>)
  OBVIOUS
<1>4. g.op = "gate" /\ g.name = "CNOT" /\ g.controls = 0 /\ g.qubits = <<q, r>>
  BY <1>3 DEF GateOn
<1>5. 0 + 1 = 1
  OBVIOUS
<1>6. ActOf(g) = Acting(TurnOf(g), SubSeq(<<q, r>>, 1, 1),
                        SubSeq(<<q, r>>, 1 + 1, Len(<<q, r>>)))
  BY <1>4, <1>5 DEF ActOf
<1> QED
  BY <1>2, <1>3, <1>6

ActsOn(g, cs, ts) == ActOf(g) = Acting(TurnOf(g), cs, ts)

LEMMA ActOfControlled ==
    ASSUME NEW name, name # "CNOT", NEW dagger, NEW angles, NEW qs, NEW n, NEW cs, NEW ts,
           Divides(qs, n, cs, ts)
    PROVE  ActsOn(GateOn(name, dagger, angles, n, qs), cs, ts)
<1>1. SubSeq(qs, 1, n) = cs /\ SubSeq(qs, n + 1, Len(qs)) = ts
  BY Zenon DEF Divides
<1>2. PICK g : g = GateOn(name, dagger, angles, n, qs)
  OBVIOUS
<1>3. g.op = "gate" /\ g.name = name /\ g.controls = n /\ g.qubits = qs
  BY <1>2 DEF GateOn
<1>4. ActOf(g) = Acting(TurnOf(g), SubSeq(qs, 1, n), SubSeq(qs, n + 1, Len(qs)))
  BY <1>3 DEF ActOf
<1> QED
  BY <1>1, <1>2, <1>4 DEF ActsOn

-----------------------------------------------------------------------------
(* What the machine does when it performs a gate.                           *)

Performs(act, defined) ==
    /\ trace' = Append(trace, act)
    /\ meaning' = meaning \o defined
    /\ UNCHANGED <<memory, allocated, released>>

LEMMA PerformedPlain ==
    ASSUME NEW turn, NEW vs, NEW k, Listed(vs, k), NEW defined,
           Qir!Perform(turn, <<>>, vs, defined)
    PROVE  /\ \A i \in 1 .. k : Qir!Usable(vs[i])
           /\ Performs(Acting(turn, <<>>, Qir!QubitsOf(vs)), defined)
<1>1. <<>> \o vs = vs
  <2>1. PICK S : vs \in Seq(S)
    BY ListedWith
  <2> QED
    BY <2>1, ConcatEmptySeq
<1>2. DOMAIN vs = 1 .. k
  BY ListedIs
<1>3. Qir!QubitsOf(<<>>) = <<>>
  BY DEF Qir!QubitsOf
<1>4. \A i \in DOMAIN (<<>> \o vs) : Qir!Usable((<<>> \o vs)[i])
  BY DEF Qir!Perform
<1>5. \A i \in 1 .. k : Qir!Usable(vs[i])
  BY <1>1, <1>2, <1>4, Zenon
<1>6. /\ trace' = Append(trace, Acting(turn, Qir!QubitsOf(<<>>), Qir!QubitsOf(vs)))
      /\ meaning' = meaning \o defined /\ UNCHANGED <<memory, allocated, released>>
  BY Copies DEF Qir!Perform
<1> QED
  BY <1>3, <1>5, <1>6 DEF Performs

LEMMA PerformedControlled ==
    ASSUME NEW turn, NEW cs, NEW n, Listed(cs, n), NEW v, NEW defined,
           Qir!Perform(turn, cs, <<v>>, defined)
    PROVE  /\ AllUsable(cs) /\ Qir!Usable(v)
           /\ Performs(Acting(turn, Qir!QubitsOf(cs), <<v.qubit>>), defined)
<1>1. PICK all : all = Append(cs, v)
  OBVIOUS
<1>2. cs \o <<v>> = all
  BY <1>1, ListedConcat
<1>3. /\ n \in Nat /\ DOMAIN cs = 1 .. n /\ DOMAIN all = 1 .. n + 1
      /\ \A i \in 1 .. n : all[i] = cs[i]
      /\ all[n + 1] = v
  <2>1. Listed(all, n + 1) /\ Agree(all, cs, n) /\ EndsWith(all, n + 1, v)
    BY <1>1, ListedAppend, Zenon
  <2>2. n \in Nat /\ DOMAIN cs = 1 .. n
    BY ListedIs
  <2>3. DOMAIN all = 1 .. n + 1
    BY <2>1, ListedIs
  <2> QED
    BY <2>1, <2>2, <2>3 DEF Agree, EndsWith
<1>4. \A i \in DOMAIN (cs \o <<v>>) : Qir!Usable((cs \o <<v>>)[i])
  BY DEF Qir!Perform
<1>5. \A i \in DOMAIN all : Qir!Usable(all[i])
  BY <1>2, <1>4, Zenon
<1>6. AllUsable(cs) /\ Qir!Usable(v)
  <2>1. n + 1 \in 1 .. n + 1 /\ 1 .. n \subseteq 1 .. n + 1
    BY <1>3
  <2> QED
    BY <1>3, <1>5, <2>1 DEF AllUsable
<1>7. /\ trace' = Append(trace, Acting(turn, Qir!QubitsOf(cs), Qir!QubitsOf(<<v>>)))
      /\ meaning' = meaning \o defined /\ UNCHANGED <<memory, allocated, released>>
  BY Copies DEF Qir!Perform
<1>8. Qir!QubitsOf(<<v>>) = <<v.qubit>>
  BY DEF Qir!QubitsOf
<1> QED
  BY <1>6, <1>7, <1>8 DEF Performs

-----------------------------------------------------------------------------
(* The gate emitted for an instruction does what the machine performs.      *)

(* What holds of a body in which nothing departed. *)
Follows == NamesDistinct /\ TypeOK /\ Related

LEMMA ValuesListed ==
    ASSUME NEW args, NEW k, Listed(args, k)
    PROVE  /\ Listed(Qir!Values(args), k)
           /\ \A i \in 1 .. k : Qir!Values(args)[i] = meaning[args[i]]
<1>1. k \in Nat /\ DOMAIN args = 1 .. k
  BY ListedIs
<1>2. Qir!Values(args) = [i \in 1 .. k |-> meaning[args[i]]]
  BY <1>1 DEF Qir!Values
<1> QED
  BY <1>1, <1>2 DEF Listed

LEMMA GateActs ==
    ASSUME Follows, NEW g \in DOMAIN PlainGate, NEW args \in [1 .. Arity(g) -> OfType("Qubit*")],
           QubitsFromCall(Names(args)).tag = "ok", Qir!Gate(g, args)
    PROVE  Performs(ActOf(GateOn(PlainGate[g], g \in Daggered, <<>>, 0,
                                 QubitsFromCall(Names(args)).val)), <<>>)
<1> DEFINE k  == Arity(g)
           vs == Qir!Values(args)
           qs == QubitsFromCall(Names(args)).val
           emitted == GateOn(PlainGate[g], g \in Daggered, <<>>, 0, qs)
<1>1. k \in Nat /\ Listed(args, k) /\ \A i \in 1 .. k : args[i] \in OfType("Qubit*")
  BY DEF Arity, Listed
<1>2. Listed(vs, k) /\ \A i \in 1 .. k : vs[i] = meaning[args[i]]
  BY <1>1, ValuesListed
<1>3. CASE g # "cnot"
  <2>1. Qir!Perform(Qir!Intended(g), <<>>, vs, <<>>)
    BY <1>3 DEF Qir!Gate
  <2>2. /\ \A i \in 1 .. k : Qir!Usable(vs[i])
        /\ Performs(Acting(Qir!Intended(g), <<>>, Qir!QubitsOf(vs)), <<>>)
    BY <1>2, <2>1, PerformedPlain
  <2>3. qs = Qir!QubitsOf(vs) /\ Listed(qs, k)
    BY <1>1, <1>2, <2>2, CallMeans DEF Follows, Related
  <2>4. PlainGate[g] # "CNOT"
    BY <1>3 DEF PlainGate
  <2>5. ActOf(emitted) = Acting(TurnOf(emitted), <<>>, qs)
    BY <2>3, <2>4, ActOfPlain
  <2>6. TurnOf(emitted) = Qir!Intended(g)
    BY PlainTurns
  <2> QED
    BY <2>2, <2>3, <2>5, <2>6
<1>4. CASE g = "cnot"
  <2>1. Qir!Perform(Qir!Intended(g), <<vs[1]>>, <<vs[2]>>, <<>>)
    BY <1>4 DEF Qir!Gate
  <2>2. Listed(<<vs[1]>>, 1)
    BY DEF Listed
  <2>3. /\ AllUsable(<<vs[1]>>) /\ Qir!Usable(vs[2])
        /\ Performs(Acting(Qir!Intended(g), Qir!QubitsOf(<<vs[1]>>), <<vs[2].qubit>>), <<>>)
    BY <2>1, <2>2, PerformedControlled
  <2>4. k = 2 /\ \A i \in 1 .. 2 : i = 1 \/ i = 2
    BY <1>4 DEF Arity
  <2>5. \A i \in 1 .. k : Qir!Usable(meaning[args[i]])
    BY <1>2, <2>3, <2>4 DEF AllUsable
  <2>6. qs = Qir!QubitsOf(vs)
    BY <1>1, <1>2, <2>5, CallMeans DEF Follows, Related
  <2>7. qs = <<vs[1].qubit, vs[2].qubit>>
    <3>1. DOMAIN vs = 1 .. 2
      BY <1>2, <2>4, ListedIs
    <3> HIDE DEF vs
    <3>2. Qir!QubitsOf(vs) = [i \in 1 .. 2 |-> vs[i].qubit]
      BY <3>1 DEF Qir!QubitsOf
    <3> QED
      BY <2>6, <3>2
  <2>8. Qir!QubitsOf(<<vs[1]>>) = <<vs[1].qubit>>
    BY DEF Qir!QubitsOf
  <2>9. PlainGate[g] = "CNOT"
    BY <1>4 DEF PlainGate
  <2>10. ActOf(emitted) = Acting(TurnOf(emitted), <<vs[1].qubit>>, <<vs[2].qubit>>)
    BY <2>7, <2>9, ActOfCNOT
  <2>11. TurnOf(emitted) = Qir!Intended(g)
    BY PlainTurns
  <2> QED
    BY <2>3, <2>8, <2>10, <2>11
<1> QED
  BY <1>3, <1>4

LEMMA ValueOfOne ==
    ASSUME NEW q
    PROVE  /\ Qir!Values(<<q>>) = <<meaning[q]>>
           /\ Listed(<<meaning[q]>>, 1)
           /\ \A i \in 1 .. 1 : <<meaning[q]>>[i] = meaning[q]
<1>1. Qir!Values(<<q>>) = <<meaning[q]>>
  BY DEF Qir!Values
<1> QED
  BY <1>1 DEF Listed

(* A rotation by a constant: by a register it departs.                      *)
LEMMA RotationActs ==
    ASSUME Follows, NEW g \in DOMAIN RotationGate, NEW q \in OfType("Qubit*"),
           NEW a \in Numbers \ Inexact, RotationOn(RotationGate[g], <<q>>, <<a>>).tag = "ok", Qir!Rotate(g, q, a)
    PROVE  Performs(ActOf(RotationOn(RotationGate[g], <<q>>, <<a>>).val), <<>>)
<1> DEFINE vs == Qir!Values(<<q>>)
           qs == QubitsFromCall(Names(<<q>>)).val
           emitted == GateOn(RotationGate[g], FALSE, <<a>>, 0, qs)
<1>1. Listed(<<q>>, 1) /\ \A i \in 1 .. 1 : <<q>>[i] = q
  BY DEF Listed
<1>2. vs = <<meaning[q]>>
  BY ValueOfOne, Zenon
<1>3. Listed(vs, 1) /\ \A i \in 1 .. 1 : vs[i] = meaning[q]
  BY <1>2, ValueOfOne, Zenon
<1>4. Qir!Perform(Qir!IntendedBy(g, a), <<>>, vs, <<>>)
  <2>1. Qir!Perform(Qir!IntendedBy(g, a), <<>>, <<meaning[q]>>, <<>>)
    BY Zenon DEF Qir!Rotate
  <2> QED
    BY <1>2, <2>1, Zenon
<1>5. /\ \A i \in 1 .. 1 : Qir!Usable(vs[i])
      /\ Performs(Acting(Qir!IntendedBy(g, a), <<>>, Qir!QubitsOf(vs)), <<>>)
  BY <1>3, <1>4, PerformedPlain
<1>6. QubitsFromCall(Names(<<q>>)).tag = "ok"
  BY DEF RotationOn, Then, Ok, Err
<1>7. RotationOn(RotationGate[g], <<q>>, <<a>>).val = emitted
  <2> DEFINE doubles == [i \in DOMAIN <<a>> |-> AsFloat[<<a>>[i]]]
  <2>1. doubles = <<a>>
    BY DEF Inexact
  <2>2. RotationOn(RotationGate[g], <<q>>, <<a>>).val = GateOn(RotationGate[g], FALSE, doubles, 0, qs)
    BY <1>6 DEF RotationOn, Then, Ok, Err
  <2> QED
    BY <2>1, <2>2
<1>8. qs = Qir!QubitsOf(vs) /\ Listed(qs, 1)
  BY <1>1, <1>3, <1>5, <1>6, CallMeans DEF Follows, Related
<1> HIDE DEF qs, vs
<1>9. RotationGate[g] # "CNOT"
  BY DEF RotationGate
<1>10. ActOf(emitted) = Acting(TurnOf(emitted), <<>>, qs)
  BY <1>8, <1>9, ActOfPlain, Zenon
<1>11. TurnOf(emitted) = Qir!IntendedBy(g, a)
  BY TurnsBy, Zenon
<1> HIDE DEF emitted
<1> QED
  BY <1>5, <1>7, <1>8, <1>10, <1>11

(* A call of a circuit with no argument but qubits.                         *)
LEMMA UserCallActs ==
    ASSUME Follows, NEW k \in Nat, NEW args, Listed(args, k),
           \A i \in 1 .. k : args[i] \in OfType("Qubit*"), NEW defined,
           QubitsFromCall(Names(args)).tag = "ok",
           Qir!Call(Circuit, args, <<>>, defined)
    PROVE  Performs(ActOf(GateOn(Circuit, FALSE, <<>>, 0, QubitsFromCall(Names(args)).val)),
                    defined)
<1> DEFINE vs == Qir!Values(args)
           qs == QubitsFromCall(Names(args)).val
           emitted == GateOn(Circuit, FALSE, <<>>, 0, qs)
<1>1. Listed(vs, k) /\ \A i \in 1 .. k : vs[i] = meaning[args[i]]
  BY ValuesListed
<1>2. Qir!Perform(Turn(Circuit, 0, <<>>), <<>>, vs, defined)
  BY Copies DEF Qir!Call
<1>3. /\ \A i \in 1 .. k : Qir!Usable(vs[i])
      /\ Performs(Acting(Turn(Circuit, 0, <<>>), <<>>, Qir!QubitsOf(vs)), defined)
  BY <1>1, <1>2, PerformedPlain
<1>4. qs = Qir!QubitsOf(vs) /\ Listed(qs, k)
  BY <1>1, <1>3, CallMeans DEF Follows, Related
<1>5. ActOf(emitted) = Acting(TurnOf(emitted), <<>>, qs)
  BY <1>4, ActOfPlain DEF Circuit
<1>6. TurnOf(emitted) = Turn(Circuit, 0, <<>>)
  BY Turns
<1> QED
  BY <1>3, <1>4, <1>5, <1>6

LEMMA BlockListed ==
    ASSUME Follows, NEW a \in OfType("Array*"), Qir!Denotes(a, "block")
    PROVE  Listed(Qir!Block(a), Len(Qir!Block(a)))
<1>1. PICK b \in DOMAIN memory : meaning[a] = Qir!Pointer(b, 0)
  BY DEF Follows, Related, PointersValid, PointerValid, OfType, PointsTo,
         Qir!Denotes, Qir!Opaque
<1>2. Qir!Block(a) = memory[b]
  BY <1>1 DEF Qir!Block, Qir!Pointer
<1>3. Qir!Block(a) \in Seq(Denotations)
  BY <1>2 DEF Follows, Related, MachineTyped
<1> QED
  BY <1>3, ListedSeq

(* x__ctl of an array of one cell.                                          *)
LEMMA XCtlActs ==
    ASSUME Follows, NEW a \in OfType("Array*"), NEW q \in OfType("Qubit*"), OneCell(a),
           XCtl(N(a), N(q)).tag = "ok", Qir!Controlled("X__ctl", a, q)
    PROVE  Performs(ActOf(XCtl(N(a), N(q)).val), <<>>)
<1> DEFINE cells == Qir!Block(a)
<1>1. /\ Qir!Denotes(a, "block")
      /\ Qir!Perform(Qir!Intended("X__ctl"), cells, <<meaning[q]>>, <<>>)
  BY DEF Qir!Controlled
<1>2. Len(cells) = 1
  BY DEF OneCell
<1>3. Listed(cells, 1)
  BY <1>1, <1>2, BlockListed
<1>4. /\ AllUsable(cells) /\ Qir!Usable(meaning[q])
      /\ Performs(Acting(Qir!Intended("X__ctl"), Qir!QubitsOf(cells), <<meaning[q].qubit>>), <<>>)
  BY <1>1, <1>3, PerformedControlled
<1>5. PICK c, t : /\ XCtl(N(a), N(q)).val = GateOn("X", FALSE, <<>>, 1, <<c, t>>)
                  /\ cells = <<Qir!AQubit(c)>> /\ meaning[q] = Qir!AQubit(t)
  BY <1>2, <1>4, XCtlMeans DEF Follows, Related
<1> HIDE DEF cells
<1>6. Qir!QubitsOf(cells) = <<c>> /\ meaning[q].qubit = t
  BY <1>5 DEF Qir!QubitsOf, Qir!AQubit
<1> DEFINE emitted == GateOn("X", FALSE, <<>>, 1, <<c, t>>)
<1>7. ActsOn(emitted, <<c>>, <<t>>)
  <2>1. Append(<<c>>, t) = <<c, t>>
    BY AppendToOne
  <2>2. Listed(<<c>>, 1)
    BY DEF Listed
  <2>3. Divides(Append(<<c>>, t), 1, <<c>>, <<t>>)
    BY <2>2, Divided, Zenon
  <2>4. Divides(<<c, t>>, 1, <<c>>, <<t>>)
    BY <2>1, <2>3, Zenon
  <2>5. "X" # "CNOT"
    OBVIOUS
  <2> QED
    BY <2>4, <2>5, ActOfControlled, Zenon
<1>8. TurnOf(emitted) = Qir!Intended("X__ctl")
  <2>1. /\ ControlledName["X__ctl"] = "X" /\ "X__ctl" \in DOMAIN ControlledName
        /\ "X__ctl" \notin {"I__ctl", "S__ctl"}
    BY DEF ControlledName
  <2> QED
    BY <2>1, ControlledTurns, Zenon
<1> HIDE DEF emitted
<1> QED
  BY <1>4, <1>5, <1>6, <1>7, <1>8 DEF emitted, ActsOn

(* The controlled gates, but for I and S.                                   *)
LEMMA GateCtlActs ==
    ASSUME Follows, NEW a \in OfType("Array*"), NEW q \in OfType("Qubit*"),
           NEW g \in DOMAIN ControlledName, g \notin {"I__ctl", "S__ctl"},
           ControlledGate(ControlledName[g], N(a), N(q)).tag = "ok", Qir!Controlled(g, a, q)
    PROVE  Performs(ActOf(ControlledGate(ControlledName[g], N(a), N(q)).val), <<>>)
<1> DEFINE cells == Qir!Block(a)
           names == ControlNames(N(a))
           cs    == ControlQubits(names.val)
           t     == QubitOf(N(q))
           emitted == GateOn(ControlledName[g], FALSE, <<>>, Len(cs.val), Append(cs.val, t.val))
<1>1. /\ names.tag = "ok" /\ cs.tag = "ok" /\ t.tag = "ok"
      /\ ControlledGate(ControlledName[g], N(a), N(q)).val = emitted
  BY DEF ControlledGate, Then, Ok
<1>2. /\ Qir!Denotes(a, "block")
      /\ Qir!Perform(Qir!Intended(g), cells, <<meaning[q]>>, <<>>)
  BY DEF Qir!Controlled
<1>3. PICK n : Listed(cells, n)
  BY <1>2, BlockListed
<1>4. /\ AllUsable(cells)
      /\ Performs(Acting(Qir!Intended(g), Qir!QubitsOf(cells), <<meaning[q].qubit>>), <<>>)
  BY <1>2, <1>3, PerformedControlled
<1>5. cs.val = Qir!QubitsOf(cells) /\ Listed(cs.val, Len(cells))
  BY <1>1, <1>4, ControlsMean DEF Follows, Related
<1>6. meaning[q].qubit = t.val
  <2>1. Named(q)
    BY DEF Named, OfType
  <2>2. meaning[q] = Qir!AQubit(t.val)
    BY <1>1, <2>1, QubitOfMeans DEF Follows, Related
  <2> QED
    BY <2>2 DEF Qir!AQubit
<1> HIDE DEF cs, t, cells
<1>7. ActsOn(emitted, cs.val, <<t.val>>)
  <2>1. ControlledName[g] # "CNOT"
    BY DEF ControlledName
  <2>2. Len(cs.val) = Len(cells)
    BY <1>5, ListedIs
  <2>3. Listed(cs.val, Len(cs.val))
    BY <1>5, <2>2
  <2>4. Divides(Append(cs.val, t.val), Len(cs.val), cs.val, <<t.val>>)
    BY <2>3, Divided, Zenon
  <2> QED
    BY <2>1, <2>4, ActOfControlled, Zenon
<1>8. TurnOf(emitted) = Qir!Intended(g)
  BY ControlledTurns, Zenon
<1> HIDE DEF emitted
<1> QED
  BY <1>1, <1>4, <1>5, <1>6, <1>7, <1>8 DEF ActsOn

(* What is stored in a tuple, as the angle and the target of a rotation.    *)
LEMMA PairMeans ==
    ASSUME Follows, NEW t \in OfType("Struct*") \union OfType("Tuple*"),
           LookUp(N(t)).tag = "ok", LookUp(N(t)).val.kind = "Tuple",
           AngleAndTarget(LookUp(N(t)).val.items).tag = "ok", ~InexactAngle(t)
    PROVE  LET p == AngleAndTarget(LookUp(N(t)).val.items).val
           IN  /\ Qir!Block(t)[1] = Qir!ANumber(p.angle)
               /\ Qir!Block(t)[2] = Qir!AQubit(p.target)
<1> DEFINE items == LookUp(N(t)).val.items
           p == AngleAndTarget(items).val
<1>1. t \in DOMAIN regs /\ regs[t] \in {"Struct*", "Tuple*"}
  BY DEF OfType
<1>2. /\ ResolveAlias(N(t)).tag = "ok" /\ ResolveAlias(N(t)).val \in DOMAIN locals
      /\ LookUp(N(t)).val = locals[ResolveAlias(N(t)).val]
  BY LookedUp DEF Follows
<1>3. PICK s \in DOMAIN regs : /\ ResolveAlias(N(t)).val = N(s) /\ ItemsMean(s, "Tuple")
                               /\ meaning[s] = meaning[t]
  BY <1>1, <1>2, TupleResolves DEF Follows, Related
<1>4. items = Entry(s).items
  BY <1>2, <1>3 DEF Entry
<1>5. PICK b \in DOMAIN memory : PointsTo(s, b, 0) /\ Filled(items, memory[b])
  BY <1>3, <1>4 DEF ItemsMean
<1>6. Qir!Block(t) = memory[b]
  BY <1>3, <1>5 DEF PointsTo, Qir!Pointer, Qir!Block
<1>7. items \in Seq(Item) /\ memory[b] \in Seq(Denotations)
  <2>1. LookUp(N(t)).val \in Value
    BY <1>2 DEF Follows, TypeOK
  <2> QED
    BY <2>1, ValueParts DEF Follows, Related, MachineTyped
<1> HIDE DEF items
<1>8. /\ items # <<>> /\ Len(items) # 1 /\ items[1].is = "Number" /\ items[2].is = "Qubit"
      /\ p = [angle |-> AsFloat[items[1].number], target |-> items[2].qubit]
  BY DEF AngleAndTarget, Ok, Err, items
<1>9. 1 \in DOMAIN memory[b] /\ 2 \in DOMAIN memory[b] /\ 1 <= Len(items) /\ 2 <= Len(items)
  <2>1. Len(items) \in Nat /\ Len(items) # 0 /\ Len(items) <= Len(memory[b])
    BY <1>5, <1>7, <1>8 DEF Filled
  <2>2. Len(memory[b]) \in Nat /\ DOMAIN memory[b] = 1 .. Len(memory[b])
    BY <1>7
  <2>3. \A m, n \in Nat : m # 0 /\ m # 1 /\ m <= n =>
            1 \in 1 .. n /\ 2 \in 1 .. n /\ 1 <= m /\ 2 <= m
    OBVIOUS
  <2> QED
    BY <1>8, <2>1, <2>2, <2>3
<1>10. ItemMeans(items[1], memory[b][1]) /\ ItemMeans(items[2], memory[b][2])
  BY <1>5, <1>9 DEF Filled
<1>11. memory[b][1] = Qir!ANumber(items[1].number) /\ memory[b][2] = Qir!AQubit(items[2].qubit)
  BY <1>8, <1>10 DEF ItemMeans
<1>12. AsFloat[items[1].number] = items[1].number
  <2>1. items[1].number \in Numbers
    <3>1. items[1] \in Item
      BY <1>7, <1>9
    <3> QED
      BY <1>8, <3>1 DEF Item
  <2>2. Qir!Denotes(t, "block") /\ Qir!Block(t) # <<>>
    BY <1>3, <1>5, <1>6, <1>9 DEF PointsTo, Qir!Pointer, Qir!Denotes
  <2> QED
    BY <1>6, <1>11, <2>1, <2>2 DEF InexactAngle, Inexact
<1> QED
  BY <1>6, <1>8, <1>11, <1>12 DEF items

LEMMA RotationCtlActs ==
    ASSUME Follows, NEW a \in OfType("Array*"),
           NEW t \in OfType("Struct*") \union OfType("Tuple*"),
           NEW g \in DOMAIN ControlledRotationName,
           ControlledRotation(ControlledRotationName[g], N(a), N(t)).tag = "ok",
           Qir!ControlledRotation(g, a, t), ~InexactAngle(t)
    PROVE  Performs(ActOf(ControlledRotation(ControlledRotationName[g], N(a), N(t)).val), <<>>)
<1> DEFINE cells == Qir!Block(a)
           names == ControlNames(N(a))
           cs    == ControlQubits(names.val)
           v     == LookUp(N(t))
           p     == AngleAndTarget(v.val.items)
           emitted == GateOn(ControlledRotationName[g], FALSE, <<p.val.angle>>, Len(cs.val),
                             Append(cs.val, p.val.target))
<1>1. /\ names.tag = "ok" /\ cs.tag = "ok" /\ v.tag = "ok" /\ v.val.kind = "Tuple"
      /\ p.tag = "ok"
      /\ ControlledRotation(ControlledRotationName[g], N(a), N(t)).val = emitted
  BY DEF ControlledRotation, Then, Expect, Ok, Err
<1>2. /\ Qir!Block(t)[1] = Qir!ANumber(p.val.angle)
      /\ Qir!Block(t)[2] = Qir!AQubit(p.val.target)
  BY <1>1, PairMeans
<1>3. /\ Qir!Denotes(a, "block")
      /\ Qir!Perform(Qir!IntendedBy(g, Qir!Block(t)[1].number), cells, <<Qir!Block(t)[2]>>, <<>>)
  BY DEF Qir!ControlledRotation
<1>4. Qir!Block(t)[1].number = p.val.angle /\ Qir!Block(t)[2].qubit = p.val.target
  BY <1>2 DEF Qir!ANumber, Qir!AQubit
<1>5. Qir!Perform(Qir!IntendedBy(g, p.val.angle), cells, <<Qir!Block(t)[2]>>, <<>>)
  BY <1>3, <1>4, Zenon
<1>6. PICK n : Listed(cells, n)
  BY <1>3, BlockListed
<1> HIDE DEF p
<1>7. /\ AllUsable(cells)
      /\ Performs(Acting(Qir!IntendedBy(g, p.val.angle), Qir!QubitsOf(cells),
                         <<Qir!Block(t)[2].qubit>>), <<>>)
  BY <1>5, <1>6, PerformedControlled
<1>8. cs.val = Qir!QubitsOf(cells) /\ Listed(cs.val, Len(cells))
  BY <1>1, <1>7, ControlsMean DEF Follows, Related
<1> HIDE DEF cs, cells
<1>9. ActsOn(emitted, cs.val, <<p.val.target>>)
  <2>1. ControlledRotationName[g] # "CNOT"
    BY DEF ControlledRotationName
  <2>2. Len(cs.val) = Len(cells)
    BY <1>8, ListedIs
  <2>3. Listed(cs.val, Len(cs.val))
    BY <1>8, <2>2
  <2>4. Divides(Append(cs.val, p.val.target), Len(cs.val), cs.val, <<p.val.target>>)
    BY <2>3, Divided, Zenon
  <2> QED
    BY <2>1, <2>4, ActOfControlled, Zenon
<1>10. TurnOf(emitted) = Qir!IntendedBy(g, p.val.angle)
  <2>1. PICK x, m, qs : x = p.val.angle /\ m = Len(cs.val) /\ qs = Append(cs.val, p.val.target)
    OBVIOUS
  <2>2. TurnOf(GateOn(ControlledRotationName[g], FALSE, <<x>>, m, qs)) = Qir!IntendedBy(g, x)
    BY TurnsBy
  <2> QED
    BY <2>1, <2>2
<1> HIDE DEF emitted
<1> QED
  BY <1>1, <1>4, <1>7, <1>8, <1>9, <1>10 DEF ActsOn

(* A measurement of one qubit.                                              *)
LEMMA MeasuredActs ==
    ASSUME NEW q, NEW n, NEW vs, Qir!Observe(Measurement(q, n), vs)
    PROVE  Performs(ActOf(Measurement(q, n)), <<Qir!Opaque>>)
<1>1. ActOf(Measurement(q, n)) = Measurement(q, n)
  BY DEF ActOf, Measurement
<1>2. /\ trace' = Append(trace, Measurement(q, n))
      /\ meaning' = Append(meaning, Qir!Opaque) /\ UNCHANGED <<memory, allocated, released>>
  BY DEF Qir!Observe, Qir!Defines
<1> QED
  BY <1>1, <1>2 DEF Performs

-----------------------------------------------------------------------------
(* What a step leaves as it was.                                            *)

(* Registers keep their types and meanings, cells what was written to them, *)
(* and no binding goes away but that of a qubit.                            *)
Continues ==
    /\ \A r \in DOMAIN regs :
          /\ r \in DOMAIN regs' /\ regs'[r] = regs[r] /\ meaning'[r] = meaning[r]
          /\ IsBound(r) /\ regs[r] # "Qubit*" => N(r) \in DOMAIN locals'
    /\ \A b \in DOMAIN memory :
          /\ b \in DOMAIN memory'
          /\ DOMAIN memory'[b] = DOMAIN memory[b] /\ Len(memory'[b]) = Len(memory[b])
          /\ \A i \in DOMAIN memory[b] :
                memory[b][i] # Qir!Opaque => memory'[b][i] = memory[b][i]

LEMMA Distinguished ==
    ASSUME NEW x
    PROVE  Qir!AQubit(x) # Qir!Opaque /\ Qir!ANumber(x) # Qir!Opaque
BY DEF Qir!AQubit, Qir!ANumber, Qir!Opaque

LEMMA PointsToStays ==
    ASSUME Continues, NEW r \in DOMAIN regs, NEW b, NEW i, PointsTo(r, b, i)
    PROVE  PointsTo(r, b, i)'
BY DEF Continues, PointsTo

LEMMA AddressedStays ==
    ASSUME Continues, NEW n, NEW s \in Addressed(n)
    PROVE  s \in DOMAIN regs /\ s \in Addressed(n)'
BY DEF Continues, Addressed, IsBound, Addresses

LEMMA ReadsStays ==
    ASSUME Continues, NEW r \in DOMAIN regs, NEW s \in DOMAIN regs, Reads(r, s),
           meaning[r] # Qir!Opaque
    PROVE  Reads(r, s)'
<1>1. PICK b \in DOMAIN memory, i \in Nat : /\ PointsTo(s, b, i) /\ i + 1 \in DOMAIN memory[b]
                                            /\ meaning[r] = memory[b][i + 1]
  BY DEF Reads
<1>2. PointsTo(s, b, i)'
  BY <1>1, PointsToStays
<1>3. /\ b \in DOMAIN memory' /\ i + 1 \in DOMAIN memory'[b]
      /\ meaning'[r] = memory'[b][i + 1]
  BY <1>1 DEF Continues
<1> QED
  BY <1>2, <1>3 DEF Reads

LEMMA ItemStays ==
    ASSUME Continues, NEW item, NEW cell, ItemMeans(item, cell)
    PROVE  ItemMeans(item, cell)'
<1>1. ASSUME item.is = "Name"
      PROVE  \E r \in DOMAIN regs' : /\ regs'[r] = "Qubit*" \/ (regs'[r] = "Num" /\ IsBound(r)')
                                     /\ item.name = N(r) /\ meaning'[r] = cell
  <2>1. PICK r \in DOMAIN regs : /\ regs[r] = "Qubit*" \/ (regs[r] = "Num" /\ IsBound(r))
                                 /\ item.name = N(r) /\ meaning[r] = cell
    BY <1>1 DEF ItemMeans
  <2>2. r \in DOMAIN regs' /\ regs'[r] = regs[r] /\ meaning'[r] = meaning[r]
    BY DEF Continues
  <2>3. regs[r] = "Num" /\ IsBound(r) => IsBound(r)'
    BY DEF Continues, IsBound
  <2> QED
    BY <2>1, <2>2, <2>3
<1> QED
  BY <1>1 DEF ItemMeans

(* An entry that stays keeps its meaning; that of a container, if its block *)
(* stays as well.                                                           *)
LEMMA EntryStays ==
    ASSUME Continues, NEW r \in DOMAIN regs, EntryMeans(r),
           Entry(r)' = Entry(r),
           Entry(r).kind \in {"Array", "Tuple"} =>
              \A b \in DOMAIN memory : PointsTo(r, b, 0) => memory'[b] = memory[b]
    PROVE  EntryMeans(r)'
<1>1. regs'[r] = regs[r] /\ meaning'[r] = meaning[r]
  BY DEF Continues
<1>2. ASSUME QubitMeans(r)
      PROVE  QubitMeans(r)'
  <2>1. CASE Entry(r).kind = "Qubit" /\ meaning[r] = Qir!AQubit(Entry(r).qubit)
    BY <1>1, <2>1 DEF QubitMeans
  <2>2. CASE Entry(r).kind = "Alias" /\ meaning[r] # Qir!Opaque
    <3>1. ASSUME NEW s \in Addressed(Entry(r).target), Reads(r, s)
          PROVE  s \in Addressed(Entry(r).target)' /\ Reads(r, s)'
      <4>1. s \in DOMAIN regs /\ s \in Addressed(Entry(r).target)'
        BY AddressedStays
      <4> QED
        BY <2>2, <3>1, <4>1, ReadsStays
    <3> QED
      BY <1>1, <1>2, <2>2, <3>1 DEF QubitMeans
  <2> QED
    BY <1>2, <2>1, <2>2 DEF QubitMeans
<1>3. ASSUME NumberMeans(r)
      PROVE  NumberMeans(r)'
  <2>1. Addressed(Entry(r).target) # {} => Addressed(Entry(r).target)' # {}
    BY AddressedStays
  <2> QED
    BY <1>1, <1>3, <2>1 DEF NumberMeans
<1>4. ASSUME AddressMeans(r)
      PROVE  AddressMeans(r)'
  <2>1. CASE Entry(r).kind = "Data" /\ \E b \in DOMAIN memory : PointsTo(r, b, 0)
    <3>1. \E b \in DOMAIN memory' : PointsTo(r, b, 0)'
      BY <2>1, PointsToStays DEF Continues
    <3> QED
      BY <2>1, <3>1 DEF AddressMeans
  <2>2. CASE Entry(r).kind = "Index" /\ IndexMeans(r)
    <3>1. PICK s \in DOMAIN regs, b \in DOMAIN memory :
              Entry(r).base = N(s) /\ PointsTo(s, b, 0) /\ PointsTo(r, b, Entry(r).index)
      BY <2>2 DEF IndexMeans
    <3>2. /\ s \in DOMAIN regs' /\ b \in DOMAIN memory'
          /\ PointsTo(s, b, 0)' /\ PointsTo(r, b, Entry(r).index)'
      BY <3>1, PointsToStays DEF Continues
    <3>3. IndexMeans(r)'
      BY <3>1, <3>2 DEF IndexMeans
    <3> QED
      BY <2>2, <3>3 DEF AddressMeans
  <2>3. CASE Entry(r).kind = "Alias" /\ Entry(r).target \in GlobalConstants
    BY <2>3 DEF AddressMeans
  <2>4. ASSUME NEW s \in Addressed(Entry(r).target), meaning[r] = meaning[s],
               Entry(r).kind = "Alias"
        PROVE  AddressMeans(r)'
    <3>1. s \in DOMAIN regs /\ s \in Addressed(Entry(r).target)'
      BY AddressedStays
    <3>2. meaning'[r] = meaning'[s]
      BY <1>1, <2>4, <3>1 DEF Continues
    <3> QED
      BY <2>4, <3>1, <3>2 DEF AddressMeans
  <2> QED
    BY <1>4, <2>1, <2>2, <2>3, <2>4 DEF AddressMeans
<1>5. ASSUME QubitsMean(r)
      PROVE  QubitsMean(r)'
  <2>1. PICK b \in DOMAIN memory :
          /\ PointsTo(r, b, 0) /\ Len(memory[b]) = Len(Entry(r).qubits)
          /\ \A i \in DOMAIN memory[b] : memory[b][i] = Qir!AQubit(Entry(r).qubits[i])
    BY <1>5 DEF QubitsMean
  <2>2. b \in DOMAIN memory' /\ PointsTo(r, b, 0)'
    BY <2>1, PointsToStays DEF Continues
  <2>3. Len(memory'[b]) = Len(Entry(r)'.qubits) /\ DOMAIN memory'[b] = DOMAIN memory[b]
    BY <2>1 DEF Continues
  <2>4. ASSUME NEW i \in DOMAIN memory[b]
        PROVE  memory'[b][i] = Qir!AQubit(Entry(r)'.qubits[i])
    <3>1. memory[b][i] = Qir!AQubit(Entry(r).qubits[i]) /\ memory[b][i] # Qir!Opaque
      BY <2>1, Distinguished
    <3> QED
      BY <3>1 DEF Continues
  <2> QED
    BY <1>5, <2>2, <2>3, <2>4 DEF QubitsMean
<1>6. ASSUME NEW kind \in {"Array", "Tuple"}, ItemsMean(r, kind)
      PROVE  ItemsMean(r, kind)'
  <2>1. PICK b \in DOMAIN memory : PointsTo(r, b, 0) /\ Filled(Entry(r).items, memory[b])
    BY <1>6 DEF ItemsMean
  <2>2. b \in DOMAIN memory' /\ PointsTo(r, b, 0)'
    BY <2>1, PointsToStays DEF Continues
  <2>3. memory'[b] = memory[b]
    BY <1>6, <2>1 DEF ItemsMean
  <2>4. Filled(Entry(r).items, memory[b])'
    BY <2>1, <2>3, ItemStays DEF Filled
  <2> QED
    BY <1>6, <2>2, <2>4 DEF ItemsMean
<1>7. ASSUME StructMeans(r)
      PROVE  StructMeans(r)'
  <2>1. PICK s \in DOMAIN regs : /\ regs[s] = "Tuple*" /\ IsBound(s)
                                 /\ Entry(r).target = N(s) /\ meaning[r] = meaning[s]
    BY <1>7 DEF StructMeans
  <2>2. s \in DOMAIN regs' /\ regs'[s] = "Tuple*" /\ IsBound(s)' /\ meaning'[r] = meaning'[s]
    BY <1>1, <2>1 DEF Continues, IsBound
  <2> QED
    BY <1>7, <2>1, <2>2 DEF StructMeans
<1> QED
  BY <1>1, <1>2, <1>3, <1>4, <1>5, <1>6, <1>7 DEF EntryMeans

-----------------------------------------------------------------------------
(* A register is added, and a block to the memory at most.                  *)

MemoryGrows == memory' = memory \/ \E cells \in Seq(Denotations) : memory' = Append(memory, cells)
LocalsGrow  == locals' = locals \/ \E v : locals' = Insert(locals, Fresh, v)

Extended(n, type, v) ==
    /\ n = Len(regs) + 1 /\ n <= Len(RegisterNames)
    /\ type \in Types /\ v \in Denotations
    /\ regs' = Append(regs, type) /\ meaning' = Append(meaning, v)
    /\ MemoryGrows /\ LocalsGrow
    /\ released' = released /\ allocated' = nextQubit'

LEMMA MemoryGrown ==
    ASSUME memory \in Seq(Seq(Denotations)), MemoryGrows
    PROVE  /\ memory' \in Seq(Seq(Denotations))
           /\ \A b \in DOMAIN memory : b \in DOMAIN memory' /\ memory'[b] = memory[b]
<1>1. ASSUME NEW cells \in Seq(Denotations), memory' = Append(memory, cells)
      PROVE  /\ memory' \in Seq(Seq(Denotations))
             /\ \A b \in DOMAIN memory : b \in DOMAIN memory' /\ memory'[b] = memory[b]
  <2>1. PICK m \in Seq(Seq(Denotations)) : m = memory
    OBVIOUS
  <2>2. Append(m, cells) \in Seq(Seq(Denotations)) /\ Len(Append(m, cells)) = Len(m) + 1
    BY <2>1, AppendProperties
  <2>3. \A b \in 1 .. Len(m) : Append(m, cells)[b] = m[b]
    BY <2>1, AppendProperties
  <2>4. DOMAIN m = 1 .. Len(m) /\ DOMAIN Append(m, cells) = 1 .. Len(m) + 1 /\ Len(m) \in Nat
    BY <2>1, <2>2, LenProperties
  <2>5. \A b \in DOMAIN m : b \in DOMAIN Append(m, cells) /\ Append(m, cells)[b] = m[b]
    BY <2>3, <2>4
  <2> QED
    BY <1>1, <2>1, <2>2, <2>5
<1> QED
  BY <1>1 DEF MemoryGrows

LEMMA ExtendedRegisters ==
    ASSUME Follows, NEW n, NEW type, NEW v, Extended(n, type, v)
    PROVE  /\ n \notin DOMAIN regs /\ DOMAIN regs' = DOMAIN regs \union {n}
           /\ regs'[n] = type /\ meaning'[n] = v /\ n \in DOMAIN RegisterNames
           /\ N(n) = Fresh /\ N(n) \notin DOMAIN locals /\ N(n) \notin GlobalConstants
           /\ \A r \in DOMAIN regs : regs'[r] = regs[r] /\ meaning'[r] = meaning[r] /\ N(r) # N(n)
           /\ meaning' \in Seq(Denotations) /\ Len(meaning') = Len(regs')
<1>1. /\ regs \in Seq(Types) /\ meaning \in Seq(Denotations) /\ Len(meaning) = Len(regs)
      /\ type \in Types /\ v \in Denotations /\ n = Len(regs) + 1 /\ n <= Len(RegisterNames)
  BY DEF Follows, TypeOK, Related, MachineTyped, Extended
<1>2. /\ Len(regs) \in Nat /\ DOMAIN regs = 1 .. Len(regs) /\ DOMAIN meaning = 1 .. Len(regs)
  BY <1>1, LenProperties
<1>3. /\ regs' \in Seq(Types) /\ Len(regs') = n /\ regs'[n] = type
      /\ \A r \in 1 .. Len(regs) : regs'[r] = regs[r]
  <2>1. regs' = Append(regs, type)
    BY DEF Extended
  <2> QED
    BY <1>1, <2>1, AppendProperties
<1>4. /\ meaning' \in Seq(Denotations) /\ Len(meaning') = n /\ meaning'[n] = v
      /\ \A r \in 1 .. Len(regs) : meaning'[r] = meaning[r]
  <2>1. meaning' = Append(meaning, v)
    BY DEF Extended
  <2> QED
    BY <1>1, <2>1, AppendProperties
<1>5. DOMAIN regs' = 1 .. n
  BY <1>3, LenProperties
<1>6. n \notin DOMAIN regs /\ DOMAIN regs' = DOMAIN regs \union {n}
  BY <1>1, <1>2, <1>5
<1>7. n \in DOMAIN RegisterNames /\ DOMAIN regs \subseteq DOMAIN RegisterNames
  BY <1>1, <1>2, SeqNames
<1>8. N(n) = Fresh
  BY <1>1 DEF N, Fresh
<1>9. \A r \in DOMAIN regs : N(r) # N(n)
  BY <1>6, <1>7 DEF Follows, NamesDistinct, N
<1>10. N(n) \notin DOMAIN locals /\ N(n) \notin GlobalConstants
  BY <1>7, <1>9 DEF Follows, NamesDistinct, TypeOK, N
<1> QED
  BY <1>2, <1>3, <1>4, <1>6, <1>7, <1>8, <1>9, <1>10

LEMMA ExtendedContinues ==
    ASSUME Follows, NEW n, NEW type, NEW v, Extended(n, type, v)
    PROVE  /\ Continues
           /\ \A r \in DOMAIN regs : (IsBound(r) => Entry(r)' = Entry(r)) /\ (IsBound(r)' <=> IsBound(r))
           /\ \A b \in DOMAIN memory : memory'[b] = memory[b]
           /\ MachineTyped'
<1>1. /\ memory' \in Seq(Seq(Denotations))
      /\ \A b \in DOMAIN memory : b \in DOMAIN memory' /\ memory'[b] = memory[b]
  BY MemoryGrown DEF Follows, Related, MachineTyped, Extended
<1>2. ASSUME NEW r \in DOMAIN regs
      PROVE  (IsBound(r) => Entry(r)' = Entry(r)) /\ (IsBound(r)' <=> IsBound(r))
  <2>1. N(r) # Fresh
    BY ExtendedRegisters
  <2>2. CASE locals' = locals
    BY <2>2 DEF Entry, IsBound
  <2>3. ASSUME NEW val, locals' = Insert(locals, Fresh, val)
        PROVE  (IsBound(r) => Entry(r)' = Entry(r)) /\ (IsBound(r)' <=> IsBound(r))
    <3>1. IsBound(r)' <=> IsBound(r)
      BY <2>1, <2>3 DEF Insert, IsBound
    <3>2. IsBound(r) => Entry(r)' = Entry(r)
      BY <2>1, <2>3 DEF Insert, Entry, IsBound
    <3> QED
      BY <3>1, <3>2
  <2> QED
    BY <2>2, <2>3 DEF Extended, LocalsGrow
<1>3. Continues
  <2>1. \A r \in DOMAIN regs : r \in DOMAIN regs' /\ regs'[r] = regs[r] /\ meaning'[r] = meaning[r]
    BY ExtendedRegisters
  <2> QED
    BY <1>1, <1>2, <2>1 DEF Continues, IsBound
<1>4. MachineTyped'
  BY <1>1, ExtendedRegisters DEF MachineTyped, Extended
<1> QED
  BY <1>1, <1>2, <1>3, <1>4

(* What an array, a tuple or number memory is bound to is a block.          *)
LEMMA OwnerPoints ==
    ASSUME TypeOK, EntriesMean, NEW r \in DOMAIN regs, IsBound(r),
           Entry(r).kind \in {"Array", "Tuple", "Data"}
    PROVE  /\ \E b \in DOMAIN memory : PointsTo(r, b, 0)
           /\ Entry(r).kind # "Data" => ItemsMean(r, Entry(r).kind)
<1>1. EntryMeans(r) /\ regs[r] \in Types
  BY SeqNames DEF EntriesMean
<1>2. CASE Entry(r).kind = "Data"
  BY <1>1, <1>2 DEF EntryMeans, QubitMeans, NumberMeans, AddressMeans, QubitsMean, ItemsMean,
                    StructMeans, Types, Addresses
<1>3. CASE Entry(r).kind \in {"Array", "Tuple"}
  <2>1. ItemsMean(r, Entry(r).kind)
    BY <1>1, <1>3 DEF EntryMeans, QubitMeans, NumberMeans, AddressMeans, QubitsMean, ItemsMean,
                      StructMeans, Types, Addresses
  <2> QED
    BY <1>3, <2>1 DEF ItemsMean
<1> QED
  BY <1>2, <1>3

(* The blocks stay apart when every owner has been one, or is of a block    *)
(* that no other owns.                                                      *)
LEMMA RelatedExtends ==
    ASSUME Follows, NEW n, NEW type, NEW v, Extended(n, type, v),
           IsBound(n)' => EntryMeans(n)',
           ~IsBound(n)' => LooseMeans(n)',
           PointerValid(n)',
           IsBound(n)' /\ Entry(n)'.kind \in {"Array", "Tuple", "Data"} =>
              \A b \in DOMAIN memory : v # Qir!Pointer(b, 0)
    PROVE  Related'
<1>1. /\ DOMAIN regs' = DOMAIN regs \union {n} /\ regs'[n] = type /\ meaning'[n] = v
      /\ \A r \in DOMAIN regs : regs'[r] = regs[r] /\ meaning'[r] = meaning[r]
  BY ExtendedRegisters
<1>2. /\ Continues /\ MachineTyped'
      /\ \A r \in DOMAIN regs : (IsBound(r) => Entry(r)' = Entry(r)) /\ (IsBound(r)' <=> IsBound(r))
      /\ \A b \in DOMAIN memory : memory'[b] = memory[b]
  BY ExtendedContinues
<1>3. EntriesMean'
  <2>1. ASSUME NEW r \in DOMAIN regs, IsBound(r)
        PROVE  EntryMeans(r)'
    BY <1>2, <2>1, EntryStays DEF Follows, Related, EntriesMean
  <2> QED
    BY <1>1, <1>2, <2>1 DEF EntriesMean
<1>4. LooseMean'
  <2>1. ASSUME NEW r \in DOMAIN regs, ~IsBound(r)
        PROVE  LooseMeans(r)'
    BY <1>1, <2>1 DEF Follows, Related, LooseMean, LooseMeans, Extended
  <2> QED
    BY <1>1, <1>2, <2>1 DEF LooseMean
<1>5. PointersValid'
  <2>1. ASSUME NEW r \in DOMAIN regs
        PROVE  PointerValid(r)'
    <3>1. PointerValid(r)
      BY DEF Follows, Related, PointersValid
    <3>2. \A b, i : PointsTo(r, b, i) => b \in DOMAIN memory' /\ PointsTo(r, b, i)'
      BY <1>2, PointsToStays DEF PointsTo
    <3> QED
      BY <1>1, <3>1, <3>2 DEF PointerValid
  <2> QED
    BY <1>1, <2>1 DEF PointersValid
<1>6. BlocksApart'
  <2>1. SUFFICES ASSUME NEW r \in DOMAIN regs', NEW s \in DOMAIN regs', NEW b \in DOMAIN memory',
                        Owns(r, {"Array", "Tuple"}, b)', Owns(s, {"Array", "Tuple", "Data"}, b)'
                 PROVE  r = s
    BY DEF BlocksApart
  <2>2. ASSUME NEW t \in DOMAIN regs, NEW kinds \in SUBSET {"Array", "Tuple", "Data"},
               Owns(t, kinds, b)'
        PROVE  b \in DOMAIN memory /\ Owns(t, kinds, b)
    <3>1. IsBound(t) /\ Entry(t).kind \in kinds /\ meaning[t] = Qir!Pointer(b, 0)
      BY <1>1, <1>2, <2>2 DEF Owns, PointsTo
    <3>2. PICK c \in DOMAIN memory : PointsTo(t, c, 0)
      BY <3>1, OwnerPoints DEF Follows, Related
    <3>3. b = c
      BY <3>1, <3>2 DEF PointsTo, Qir!Pointer
    <3> QED
      BY <3>1, <3>2, <3>3 DEF Owns
  <2>3. ASSUME NEW kinds \in SUBSET {"Array", "Tuple", "Data"}, Owns(n, kinds, b)'
        PROVE  b \notin DOMAIN memory
    BY <1>1, <2>3 DEF Owns, PointsTo
  <2>4. {"Array", "Tuple"} \in SUBSET {"Array", "Tuple", "Data"}
    OBVIOUS
  <2>5. r = n \/ r \in DOMAIN regs
    BY <1>1, <2>1
  <2>6. s = n \/ s \in DOMAIN regs
    BY <1>1, <2>1
  <2> QED
    BY <2>1, <2>2, <2>3, <2>4, <2>5, <2>6 DEF Follows, Related, BlocksApart
<1> QED
  BY <1>2, <1>3, <1>4, <1>5, <1>6 DEF Related

-----------------------------------------------------------------------------
(* Instructions that define a register.                                     *)

Quiet == output' = output /\ trace' = trace

LEMMA AdvanceExtends ==
    ASSUME Follows, NEW op, NEW type \in Types, NEW res, Advance(op, <<type>>, res),
           res.tag = "ok", NEW v \in Denotations, Qir!Defines(v),
           MemoryGrows, LocalsGrow, released' = released, allocated' = nextQubit'
    PROVE  Extended(Len(regs) + 1, type, v)
<1>1. regs' = Append(regs, type)
  <2>1. PICK s \in Seq(Types) : s = regs
    BY DEF Follows, TypeOK
  <2>2. s \o <<type>> = Append(s, type)
    OBVIOUS
  <2>3. regs' = regs \o <<type>>
    BY DEF Advance
  <2> QED
    BY <2>1, <2>2, <2>3
<1>2. Len(<<type>>) = 1
  OBVIOUS
<1>3. Len(regs) + 1 <= Len(RegisterNames)
  BY <1>2 DEF Advance
<1> QED
  BY <1>1, <1>3 DEF Extended, Qir!Defines

LEMMA BindExtends ==
    ASSUME Follows, NEW op, NEW type \in Types, NEW res, Bind(op, type, res),
           res.tag = "ok", NEW v \in Denotations, Qir!Defines(v),
           MemoryGrows, released' = released, allocated' = nextQubit'
    PROVE  \E n : Extended(n, type, v) /\ IsBound(n)' /\ Entry(n)' = res.val
<1>1. Advance(op, <<type>>, res) /\ locals' = Insert(locals, Fresh, res.val)
  BY DEF Bind
<1>2. PICK n : n = Len(regs) + 1
  OBVIOUS
<1>3. Extended(n, type, v)
  BY <1>1, <1>2, AdvanceExtends DEF LocalsGrow
<1>4. N(n) = Fresh
  BY <1>2 DEF N, Fresh
<1>5. N(n) \in DOMAIN locals' /\ locals'[N(n)] = res.val
  BY <1>1, <1>4 DEF Insert
<1> QED
  BY <1>3, <1>5 DEF IsBound, Entry

LEMMA BlockExtends ==
    ASSUME Follows, NEW op, NEW type \in Pointers, NEW res, Bind(op, type, res),
           res.tag = "ok", NEW cells \in Seq(Denotations), Qir!NewBlock(cells),
           allocated' = nextQubit'
    PROVE  \E n, b : /\ PointsTo(n, b, 0)' /\ regs'[n] = type /\ memory'[b] = cells
                     /\ Entry(n)' = res.val
                     /\ EntryMeans(n)' => Related'
<1>1. PICK m \in Seq(Seq(Denotations)) : m = memory
  BY DEF Follows, Related, MachineTyped
<1>2. PICK b \in Nat : b = Len(m) + 1
  BY <1>1, LenProperties
<1>3. memory' = Append(memory, cells) /\ Qir!Defines(Qir!Pointer(b, 0)) /\ released' = released
  BY <1>1, <1>2 DEF Qir!NewBlock
<1>4. /\ b \notin DOMAIN m /\ b \in DOMAIN Append(m, cells) /\ Append(m, cells)[b] = cells
      /\ b \in Nat \ {0}
  <2>1. /\ Append(m, cells) \in Seq(Seq(Denotations)) /\ Len(Append(m, cells)) = b
        /\ Append(m, cells)[b] = cells
    BY <1>2, AppendProperties
  <2>2. DOMAIN m = 1 .. Len(m) /\ DOMAIN Append(m, cells) = 1 .. b /\ Len(m) \in Nat
    BY <2>1, LenProperties
  <2> QED
    BY <1>2, <2>1, <2>2
<1>5. b \notin DOMAIN memory /\ b \in DOMAIN memory' /\ memory'[b] = cells
  BY <1>1, <1>3, <1>4
<1>6. MemoryGrows
  BY <1>3 DEF MemoryGrows
<1>7. Qir!Pointer(b, 0) \in Denotations
  BY <1>4 DEF Qir!Pointer, Denotations
<1>8. type \in Types
  BY DEF Pointers, Addresses, Types
<1>9. PICK n : Extended(n, type, Qir!Pointer(b, 0)) /\ IsBound(n)' /\ Entry(n)' = res.val
  BY <1>3, <1>6, <1>7, <1>8, BindExtends
<1>10. regs'[n] = type /\ meaning'[n] = Qir!Pointer(b, 0)
  BY <1>9, ExtendedRegisters
<1>11. PointsTo(n, b, 0)'
  BY <1>5, <1>10 DEF PointsTo
<1>12. PointerValid(n)'
  <2>1. \E c \in DOMAIN memory' : PointsTo(n, c, 0)'
    BY <1>5, <1>11
  <2> QED
    BY <2>1 DEF PointerValid
<1>13. \A c \in DOMAIN memory : Qir!Pointer(b, 0) # Qir!Pointer(c, 0)
  BY <1>5 DEF Qir!Pointer
<1>14. EntryMeans(n)' => Related'
  BY <1>9, <1>12, <1>13, RelatedExtends
<1> QED
  BY <1>5, <1>9, <1>10, <1>11, <1>14

LEMMA AllocateRelated ==
    ASSUME Follows, QubitAllocate, Qir!Allocate
    PROVE  Related' /\ Quiet
<1> DEFINE q == Fixed(nextQubit)
<1>1. nextQubit \in Nat /\ allocated = nextQubit
  BY DEF Follows, TypeOK, Related, MachineTyped
<1>2. q \in QuilQubit /\ Qir!AQubit(q) \in Denotations
  BY <1>1 DEF QuilQubit, Fixed, Denotations, Qir!AQubit
<1>3. Qir!Defines(Qir!AQubit(q)) /\ allocated' = nextQubit' /\ released' = released /\ MemoryGrows
  BY <1>1, Copies DEF Qir!Allocate, QubitAllocate, MemoryGrows
<1>4. /\ Bind("qubit_allocate", "Qubit*", Ok(Qubit(q))) /\ Ok(Qubit(q)).tag = "ok"
      /\ Ok(Qubit(q)).val = Qubit(q)
  BY DEF QubitAllocate, Ok
<1>5. "Qubit*" \in Types
  BY DEF Types
<1> HIDE DEF q
<1>6. PICK n : Extended(n, "Qubit*", Qir!AQubit(q)) /\ IsBound(n)' /\ Entry(n)' = Qubit(q)
  BY <1>2, <1>3, <1>4, <1>5, BindExtends
<1>7. regs'[n] = "Qubit*" /\ meaning'[n] = Qir!AQubit(q)
  BY <1>6, ExtendedRegisters
<1>8. EntryMeans(n)'
  <2>1. QubitMeans(n)'
    BY <1>6, <1>7 DEF QubitMeans, Qubit
  <2> QED
    BY <1>7, <2>1 DEF EntryMeans, Addresses
<1>9. PointerValid(n)'
  BY <1>7 DEF PointerValid, Pointers, Addresses
<1>10. Related'
  <2>1. Entry(n)'.kind \notin {"Array", "Tuple", "Data"}
    BY <1>6 DEF Qubit
  <2> QED
    BY <1>6, <1>8, <1>9, <2>1, RelatedExtends
<1> QED
  BY <1>10 DEF Quiet, QubitAllocate, Bind, Qir!Allocate

LEMMA AllocateArrayRelated ==
    ASSUME Follows, NEW k \in Nat, QubitAllocateArray(k), Qir!AllocateArray(k)
    PROVE  Related' /\ Quiet
<1> DEFINE qs == [i \in 1 .. k |-> Fixed(nextQubit + i - 1)]
           cells == [i \in 1 .. k |-> Qir!AQubit(Fixed(nextQubit + i - 1))]
<1>1. nextQubit \in Nat /\ allocated = nextQubit
  BY DEF Follows, TypeOK, Related, MachineTyped
<1>2. cells \in Seq(Denotations)
  <2>1. ASSUME NEW i \in 1 .. k
        PROVE  Qir!AQubit(Fixed(nextQubit + i - 1)) \in Denotations
    <3>1. PICK j \in Nat : j = nextQubit + i - 1
      BY <1>1
    <3>2. Fixed(j) \in QuilQubit
      BY DEF Fixed, QuilQubit
    <3> QED
      BY <3>1, <3>2 DEF Denotations, Qir!AQubit
  <2> QED
    BY <2>1
<1>3. Qir!NewBlock(cells) /\ allocated' = nextQubit'
  BY <1>1, Copies DEF Qir!AllocateArray, QubitAllocateArray
<1>4. /\ Bind("qubit_allocate_array", "Array*", Ok(Qubits(qs))) /\ Ok(Qubits(qs)).tag = "ok"
      /\ Ok(Qubits(qs)).val = Qubits(qs)
  BY DEF QubitAllocateArray, Ok
<1>5. "Array*" \in Pointers
  BY DEF Pointers
<1>6. DOMAIN qs = 1 .. k /\ DOMAIN cells = 1 .. k /\ Len(qs) = k /\ Len(cells) = k
  OBVIOUS
<1>7. \A i \in 1 .. k : cells[i] = Qir!AQubit(qs[i])
  OBVIOUS
<1> HIDE DEF qs, cells
<1>8. PICK n, b : /\ PointsTo(n, b, 0)' /\ regs'[n] = "Array*" /\ memory'[b] = cells
                  /\ Entry(n)' = Qubits(qs)
                  /\ EntryMeans(n)' => Related'
  BY <1>2, <1>3, <1>4, <1>5, BlockExtends
<1>9. QubitsMean(n)'
  <2>1. Entry(n)'.kind = "Qubits" /\ Entry(n)'.qubits = qs
    BY <1>8 DEF Qubits
  <2>2. b \in DOMAIN memory'
    BY <1>8 DEF PointsTo
  <2> QED
    BY <1>6, <1>7, <1>8, <2>1, <2>2 DEF QubitsMean
<1>10. EntryMeans(n)'
  BY <1>8, <1>9 DEF EntryMeans, Addresses
<1> QED
  BY <1>8, <1>10 DEF Quiet, QubitAllocateArray, Bind, Qir!AllocateArray, Qir!NewBlock

(* A new array or tuple has no items, and no cell of its block is written.  *)
LEMMA CreateRelated ==
    ASSUME Follows, NEW k \in Nat, ArrayCreate \/ TupleCreate \/ Alloca, Qir!Create(k)
    PROVE  Related' /\ Quiet
<1> DEFINE cells == [i \in 1 .. k |-> Qir!Opaque]
<1>1. cells \in Seq(Denotations)
  BY DEF Denotations
<1>2. Qir!NewBlock(cells) /\ allocated' = nextQubit'
  BY DEF Qir!Create, ArrayCreate, TupleCreate, Alloca, Follows, Related, MachineTyped
<1>3. \A i \in DOMAIN cells : cells[i] = Qir!Opaque
  OBVIOUS
<1>4. Len(cells) = k /\ Len(<<>>) = 0 /\ DOMAIN cells = 1 .. k
  OBVIOUS
<1> HIDE DEF cells
<1>5. Filled(<<>>, cells)'
  BY <1>3, <1>4 DEF Filled
<1>6. CASE ArrayCreate
  <2>1. /\ Bind("array_create", "Array*", Ok(Array(<<>>))) /\ Ok(Array(<<>>)).tag = "ok"
        /\ Ok(Array(<<>>)).val = Array(<<>>)
    BY <1>6 DEF ArrayCreate, Ok
  <2>2. "Array*" \in Pointers
    BY DEF Pointers
  <2>3. PICK n, b : /\ PointsTo(n, b, 0)' /\ regs'[n] = "Array*" /\ memory'[b] = cells
                    /\ Entry(n)' = Array(<<>>)
                    /\ EntryMeans(n)' => Related'
    BY <1>1, <1>2, <2>1, <2>2, BlockExtends
  <2>4. b \in DOMAIN memory' /\ Entry(n)'.kind = "Array" /\ Entry(n)'.items = <<>>
    BY <2>3 DEF PointsTo, Array
  <2>5. ItemsMean(n, "Array")'
    BY <1>5, <2>3, <2>4 DEF ItemsMean
  <2>6. EntryMeans(n)'
    BY <2>3, <2>5 DEF EntryMeans, Addresses
  <2> QED
    BY <2>1, <2>3, <2>6, <1>2 DEF Quiet, Bind, Qir!NewBlock
<1>7. CASE TupleCreate
  <2>1. /\ Bind("tuple_create", "Tuple*", Ok(Tuple(<<>>))) /\ Ok(Tuple(<<>>)).tag = "ok"
        /\ Ok(Tuple(<<>>)).val = Tuple(<<>>)
    BY <1>7 DEF TupleCreate, Ok
  <2>2. "Tuple*" \in Pointers
    BY DEF Pointers
  <2>3. PICK n, b : /\ PointsTo(n, b, 0)' /\ regs'[n] = "Tuple*" /\ memory'[b] = cells
                    /\ Entry(n)' = Tuple(<<>>)
                    /\ EntryMeans(n)' => Related'
    BY <1>1, <1>2, <2>1, <2>2, BlockExtends
  <2>4. b \in DOMAIN memory' /\ Entry(n)'.kind = "Tuple" /\ Entry(n)'.items = <<>>
    BY <2>3 DEF PointsTo, Tuple
  <2>5. ItemsMean(n, "Tuple")'
    BY <1>5, <2>3, <2>4 DEF ItemsMean
  <2>6. EntryMeans(n)'
    BY <2>3, <2>5 DEF EntryMeans, Addresses
  <2> QED
    BY <2>1, <2>3, <2>6, <1>2 DEF Quiet, Bind, Qir!NewBlock
<1>8. CASE Alloca
  <2>1. Bind("alloca", "Num*", Ok(Data)) /\ Ok(Data).tag = "ok" /\ Ok(Data).val = Data
    BY <1>8 DEF Alloca, Ok
  <2>2. "Num*" \in Pointers
    BY DEF Pointers, Addresses
  <2>3. PICK n, b : /\ PointsTo(n, b, 0)' /\ regs'[n] = "Num*" /\ memory'[b] = cells
                    /\ Entry(n)' = Data
                    /\ EntryMeans(n)' => Related'
    BY <1>1, <1>2, <2>1, <2>2, BlockExtends
  <2>4. b \in DOMAIN memory' /\ Entry(n)'.kind = "Data"
    BY <2>3 DEF PointsTo, Data
  <2>5. AddressMeans(n)'
    BY <2>3, <2>4 DEF AddressMeans
  <2>6. EntryMeans(n)'
    BY <2>3, <2>5 DEF EntryMeans, Addresses
  <2> QED
    BY <2>1, <2>3, <2>6, <1>2 DEF Quiet, Bind, Qir!NewBlock
<1> QED
  BY <1>6, <1>7, <1>8

(* The address of a constant of the module.                                 *)
LEMMA BitCastGlobalRelated ==
    ASSUME Follows, NEW g \in GlobalConstants, BitCastGlobal(g), Qir!Address(g)
    PROVE  Related' /\ Quiet
<1> DEFINE cells == <<Qir!ANumber(g)>>
<1>1. cells \in Seq(Denotations)
  BY DEF Denotations, Qir!ANumber, Values0
<1>2. Qir!NewBlock(cells) /\ allocated' = nextQubit'
  BY DEF Qir!Address, BitCastGlobal, Follows, Related, MachineTyped
<1>3. Bind("bitcast", "Num*", Ok(Alias(g))) /\ Ok(Alias(g)).tag = "ok" /\ Ok(Alias(g)).val = Alias(g)
  BY DEF BitCastGlobal, Ok
<1>4. "Num*" \in Pointers
  BY DEF Pointers, Addresses
<1> HIDE DEF cells
<1>5. PICK n, b : /\ PointsTo(n, b, 0)' /\ regs'[n] = "Num*" /\ memory'[b] = cells
                  /\ Entry(n)' = Alias(g)
                  /\ EntryMeans(n)' => Related'
  BY <1>1, <1>2, <1>3, <1>4, BlockExtends
<1>6. AddressMeans(n)'
  BY <1>5 DEF AddressMeans, Alias
<1>7. EntryMeans(n)'
  BY <1>5, <1>6 DEF EntryMeans, Addresses
<1> QED
  BY <1>2, <1>3, <1>5, <1>7 DEF Quiet, Bind, Qir!NewBlock

(* A register that denotes what is known already.                           *)
LEMMA DenoteExtends ==
    ASSUME Follows, NEW op, NEW type \in Types \ {"Array*", "Tuple*"}, NEW res,
           Bind(op, type, res), res.tag = "ok", res.val.kind \in {"Alias", "Index"},
           NEW v \in Denotations, Qir!Denote(v), nextQubit' = nextQubit,
           type \in Pointers =>
              v = Qir!Opaque \/ \E b \in DOMAIN memory, i \in Nat : v = Qir!Pointer(b, i)
    PROVE  \E n : /\ Extended(n, type, v) /\ Continues /\ memory' = memory
                  /\ n \in DOMAIN regs' /\ regs'[n] = type /\ meaning'[n] = v
                  /\ Entry(n)' = res.val
                  /\ EntryMeans(n)' => Related'
<1>1. Qir!Defines(v) /\ MemoryGrows /\ released' = released /\ allocated' = nextQubit'
  BY DEF Qir!Denote, MemoryGrows, Follows, Related, MachineTyped
<1>2. PICK n : Extended(n, type, v) /\ IsBound(n)' /\ Entry(n)' = res.val
  BY <1>1, BindExtends
<1>3. n \in DOMAIN regs' /\ regs'[n] = type /\ meaning'[n] = v
  BY <1>2, ExtendedRegisters
<1>4. memory' = memory
  BY DEF Qir!Denote
<1>5. PointerValid(n)'
  <2>1. \A b, i : b \in DOMAIN memory /\ v = Qir!Pointer(b, i) =>
            b \in DOMAIN memory' /\ PointsTo(n, b, i)'
    BY <1>3, <1>4 DEF PointsTo
  <2> QED
    BY <1>3, <2>1 DEF PointerValid
<1>6. Continues
  BY <1>2, ExtendedContinues
<1>7. EntryMeans(n)' => Related'
  BY <1>2, <1>5, RelatedExtends
<1> QED
  BY <1>2, <1>3, <1>4, <1>6, <1>7

(* A pointer that is not opaque points into a block.                        *)
LEMMA PointerPoints ==
    ASSUME Follows, NEW p \in DOMAIN regs, Qir!Denotes(p, "block"), regs[p] \in Pointers
    PROVE  \E b \in DOMAIN memory, i \in Nat :
               PointsTo(p, b, i) /\ (regs[p] \in {"Array*", "Tuple*"} => i = 0)
<1>1. meaning[p] # Qir!Opaque
  BY DEF Qir!Denotes, Qir!Opaque
<1>2. PointerValid(p)
  BY DEF Follows, Related, PointersValid
<1> QED
  BY <1>1, <1>2 DEF PointerValid

LEMMA ArrayElementRelated ==
    ASSUME Follows, NEW a \in OfType("Array*"), NEW i \in Nat, ArrayElement(a, i),
           Qir!Element(a, i)
    PROVE  Related' /\ Quiet
<1>1. a \in DOMAIN regs /\ regs[a] = "Array*"
  BY DEF OfType
<1>2. Qir!Denotes(a, "block")
  BY DEF Qir!Element
<1>3. PICK b \in DOMAIN memory : PointsTo(a, b, 0)
  BY <1>1, <1>2, PointerPoints DEF Pointers
<1>4. Qir!Denote(Qir!Pointer(b, i))
  BY <1>3 DEF PointsTo, Qir!Pointer, Qir!Element
<1>5. /\ Bind("element_ptr", "i8*", Ok(Index(N(a), i))) /\ Ok(Index(N(a), i)).tag = "ok"
      /\ Ok(Index(N(a), i)).val = Index(N(a), i) /\ Index(N(a), i).kind = "Index"
      /\ nextQubit' = nextQubit
  BY DEF ArrayElement, Ok, Index
<1>6. "i8*" \in Types \ {"Array*", "Tuple*"}
  BY DEF Types
<1>7. Qir!Pointer(b, i) \in Denotations
  <2>1. b \in Nat \ {0}
    BY SeqNames DEF Follows, Related, MachineTyped
  <2> QED
    BY <2>1 DEF Denotations, Qir!Pointer
<1>8. PICK n : /\ Extended(n, "i8*", Qir!Pointer(b, i)) /\ Continues /\ memory' = memory
               /\ n \in DOMAIN regs' /\ regs'[n] = "i8*" /\ meaning'[n] = Qir!Pointer(b, i)
               /\ Entry(n)' = Index(N(a), i)
               /\ EntryMeans(n)' => Related'
  BY <1>4, <1>5, <1>6, <1>7, DenoteExtends
<1>9. IndexMeans(n)'
  <2>1. /\ a \in DOMAIN regs' /\ b \in DOMAIN memory' /\ PointsTo(a, b, 0)'
    BY <1>1, <1>3, <1>8, PointsToStays DEF Continues
  <2>2. PointsTo(n, b, i)' /\ Entry(n)'.base = N(a) /\ Entry(n)'.index = i
    BY <1>8, <2>1 DEF PointsTo, Index
  <2> QED
    BY <2>1, <2>2 DEF IndexMeans
<1>10. EntryMeans(n)'
  BY <1>5, <1>8, <1>9 DEF EntryMeans, Addresses, AddressMeans
<1> QED
  BY <1>4, <1>5, <1>8, <1>10 DEF Quiet, Bind, Qir!Denote

LEMMA GetElementPtrRelated ==
    ASSUME Follows, NEW t \in OfType("Struct*"), NEW i \in {0, 1}, GetElementPtr(t, i),
           FieldValue(N(t), i).tag = "ok", Qir!Element(t, i)
    PROVE  Related' /\ Quiet
<1> DEFINE m == ResolveAlias(N(t)).val
<1>1. t \in DOMAIN regs /\ regs[t] = "Struct*"
  BY DEF OfType
<1>2. ResolveAlias(N(t)).tag = "ok" /\ FieldValue(N(t), i) = Ok(Index(m, i))
  BY DEF FieldValue, Then, Expect, Ok, Err
<1>3. PICK s \in DOMAIN regs : m = N(s) /\ ItemsMean(s, "Tuple") /\ meaning[s] = meaning[t]
  BY <1>1, <1>2, TupleResolves DEF Follows, Related
<1>4. PICK b \in DOMAIN memory : PointsTo(s, b, 0)
  BY <1>3 DEF ItemsMean
<1>5. Qir!Denote(Qir!Pointer(b, i))
  BY <1>3, <1>4 DEF PointsTo, Qir!Pointer, Qir!Element
<1>6. PICK type \in {"Num*", "Qubit**"} : type = FieldType(i)
  BY DEF FieldType
<1>7. /\ Bind("getelementptr", type, Ok(Index(N(s), i))) /\ Ok(Index(N(s), i)).tag = "ok"
      /\ Ok(Index(N(s), i)).val = Index(N(s), i) /\ Index(N(s), i).kind = "Index"
      /\ nextQubit' = nextQubit
  BY <1>2, <1>3, <1>6 DEF GetElementPtr, Ok, Index
<1>8. type \in Types \ {"Array*", "Tuple*"}
  BY DEF Types
<1>9. Qir!Pointer(b, i) \in Denotations /\ i \in Nat
  <2>1. b \in Nat \ {0}
    BY SeqNames DEF Follows, Related, MachineTyped
  <2> QED
    BY <2>1 DEF Denotations, Qir!Pointer
<1>10. PICK n : /\ Extended(n, type, Qir!Pointer(b, i)) /\ Continues /\ memory' = memory
                /\ n \in DOMAIN regs' /\ regs'[n] = type /\ meaning'[n] = Qir!Pointer(b, i)
                /\ Entry(n)' = Index(N(s), i)
                /\ EntryMeans(n)' => Related'
  BY <1>5, <1>7, <1>8, <1>9, DenoteExtends
<1>11. IndexMeans(n)'
  <2>1. /\ s \in DOMAIN regs' /\ b \in DOMAIN memory' /\ PointsTo(s, b, 0)'
    BY <1>3, <1>4, <1>10, PointsToStays DEF Continues
  <2>2. PointsTo(n, b, i)' /\ Entry(n)'.base = N(s) /\ Entry(n)'.index = i
    BY <1>10, <2>1 DEF PointsTo, Index
  <2> QED
    BY <2>1, <2>2 DEF IndexMeans
<1>12. EntryMeans(n)'
  BY <1>7, <1>10, <1>11 DEF EntryMeans, Addresses, AddressMeans
<1> QED
  BY <1>5, <1>7, <1>10, <1>12 DEF Quiet, Bind, Qir!Denote

LEMMA LoadRelated ==
    ASSUME Follows, NEW p \in OfType("Qubit**") \union OfType("Num*"), Load(p), Qir!Read(p)
    PROVE  Related' /\ Quiet
<1>1. p \in DOMAIN regs /\ regs[p] \in {"Qubit**", "Num*"}
  BY DEF OfType
<1>2. PICK b \in DOMAIN memory, i \in Nat : PointsTo(p, b, i)
  BY <1>1, PointerPoints DEF Qir!Read, Qir!InBounds, Pointers, Addresses
<1>3. IsBound(p)
  <2>1. meaning[p] # Qir!Opaque
    BY <1>2 DEF PointsTo, Qir!Pointer, Qir!Opaque
  <2> QED
    BY <1>1, <2>1 DEF Follows, Related, LooseMean, LooseMeans, Addresses
<1>4. PICK v : v = memory[b][i + 1]
  OBVIOUS
<1>5. i + 1 \in DOMAIN memory[b] /\ v \in Denotations /\ v # Qir!Opaque /\ Qir!Denote(v)
  <2>1. /\ i < Len(memory[b]) /\ Qir!Denote(memory[b][i + 1])
        /\ memory[b][i + 1] # Qir!Opaque
    BY <1>2 DEF PointsTo, Qir!Pointer, Qir!Read, Qir!InBounds, Qir!Cell, Qir!Block
  <2>2. memory[b] \in Seq(Denotations)
    BY DEF Follows, Related, MachineTyped
  <2>3. i + 1 \in DOMAIN memory[b]
    BY <2>1, <2>2, LenProperties
  <2> QED
    BY <1>4, <2>1, <2>2, <2>3
<1>6. PICK type \in {"Num", "Qubit*"} : type = IF regs[p] = "Num*" THEN "Num" ELSE "Qubit*"
  OBVIOUS
<1>7. /\ Bind("load", type, Ok(Alias(N(p)))) /\ Ok(Alias(N(p))).tag = "ok"
      /\ Ok(Alias(N(p))).val = Alias(N(p)) /\ Alias(N(p)).kind = "Alias"
      /\ nextQubit' = nextQubit
  BY <1>6 DEF Load, Ok, Alias
<1>8. type \in Types \ {"Array*", "Tuple*"} /\ type \notin Pointers
  BY DEF Types, Pointers, Addresses
<1>9. PICK n : /\ Extended(n, type, v) /\ Continues /\ memory' = memory
               /\ n \in DOMAIN regs' /\ regs'[n] = type /\ meaning'[n] = v
               /\ Entry(n)' = Alias(N(p))
               /\ EntryMeans(n)' => Related'
  BY <1>5, <1>7, <1>8, DenoteExtends
<1>10. p \in Addressed(N(p))'
  <2>1. p \in Addressed(N(p))
    BY <1>1, <1>3 DEF Addressed, Addresses
  <2> QED
    BY <1>9, <2>1, AddressedStays
<1>11. Reads(n, p)'
  <2>1. b \in DOMAIN memory' /\ PointsTo(p, b, i)'
    BY <1>1, <1>2, <1>9, PointsToStays DEF Continues
  <2> QED
    BY <1>4, <1>5, <1>9, <2>1 DEF Reads
<1>12. Entry(n)'.kind = "Alias" /\ Entry(n)'.target = N(p)
  BY <1>9 DEF Alias
<1>13. QubitMeans(n)' /\ NumberMeans(n)'
  <2>1. \E s \in Addressed(Entry(n).target)' : Reads(n, s)'
    BY <1>10, <1>11, <1>12
  <2> QED
    BY <1>5, <1>9, <1>12, <2>1 DEF QubitMeans, NumberMeans
<1>14. EntryMeans(n)'
  BY <1>9, <1>13 DEF EntryMeans, Addresses
<1> QED
  BY <1>5, <1>7, <1>9, <1>14 DEF Quiet, Bind, Qir!Denote

LEMMA LoadGlobalRelated ==
    ASSUME Follows, NEW g \in GlobalConstants, LoadGlobal(g), Qir!Denote(Qir!ANumber(g))
    PROVE  Related' /\ Quiet
<1>1. /\ Bind("load", "Num", Ok(Alias(g))) /\ Ok(Alias(g)).tag = "ok"
      /\ Ok(Alias(g)).val = Alias(g) /\ Alias(g).kind = "Alias" /\ nextQubit' = nextQubit
  BY DEF LoadGlobal, Ok, Alias
<1>2. "Num" \in Types \ {"Array*", "Tuple*"} /\ "Num" \notin Pointers
  BY DEF Types, Pointers, Addresses
<1>3. Qir!ANumber(g) \in Denotations /\ Qir!ANumber(g) # Qir!Opaque
  BY Distinguished DEF Denotations, Qir!ANumber, Values0
<1>4. PICK n : /\ regs'[n] = "Num" /\ meaning'[n] = Qir!ANumber(g)
               /\ Entry(n)' = Alias(g)
               /\ EntryMeans(n)' => Related'
  BY <1>1, <1>2, <1>3, DenoteExtends
<1>5. NumberMeans(n)'
  BY <1>3, <1>4 DEF NumberMeans, Alias
<1>6. EntryMeans(n)'
  BY <1>4, <1>5 DEF EntryMeans, Addresses
<1> QED
  BY <1>1, <1>4, <1>6 DEF Quiet, Bind, Qir!Denote

(* The name of the next register is new.                                    *)
LEMMA FreshNew ==
    ASSUME Follows, Len(regs) + 1 <= Len(RegisterNames)
    PROVE  /\ Fresh \notin DOMAIN locals /\ Fresh \notin GlobalConstants
           /\ \A r \in DOMAIN regs : N(r) # Fresh
<1>1. PICK n : n = Len(regs) + 1
  OBVIOUS
<1>2. n \in DOMAIN RegisterNames /\ n \notin DOMAIN regs /\ DOMAIN regs \subseteq DOMAIN RegisterNames
  <2>1. regs \in Seq(Types)
    BY DEF Follows, TypeOK
  <2>2. Len(regs) \in Nat /\ DOMAIN regs = 1 .. Len(regs)
    BY <2>1, LenProperties
  <2>3. DOMAIN RegisterNames = 1 .. Len(RegisterNames) /\ Len(RegisterNames) \in Nat
    BY SeqNames
  <2> QED
    BY <1>1, <2>2, <2>3
<1>3. Fresh = RegisterNames[n]
  BY <1>1 DEF Fresh
<1> QED
  BY <1>2, <1>3 DEF Follows, NamesDistinct, TypeOK, N

(* What a cast resolves is not changed by the alias that it binds first.    *)
LEMMA CastOfAddress ==
    ASSUME Follows, Len(regs) + 1 <= Len(RegisterNames), NEW p \in DOMAIN regs,
           regs[p] \in Addresses, IsBound(p), NEW type, CastValue(N(p), type).tag = "ok"
    PROVE  CastValue(N(p), type) = Ok(Alias(N(p)))
<1> DEFINE env == Insert(locals, Fresh, Alias(N(p)))
           m == ResolveIn(env, N(p)).val
           X == AddressNames(meaning[p])
<1>1. Fresh \notin DOMAIN locals /\ Fresh \notin GlobalConstants
  BY FreshNew
<1>2. X \subseteq DOMAIN locals \union GlobalConstants
  BY DEF AddressNames, IsBound
<1>3. N(p) \in X
  BY DEF AddressNames
<1>4. ASSUME NEW n \in X
      PROVE  /\ IsAlias(env, n) <=> IsAlias(locals, n)
             /\ n \in DOMAIN env => n \in DOMAIN locals /\ env[n] = locals[n]
  BY <1>1, <1>2, <1>4 DEF IsAlias, Insert
<1>5. ASSUME NEW n \in X, IsAlias(env, n)
      PROVE  env[n].target \in X
  <2>1. IsAlias(locals, n) /\ env[n] = locals[n]
    BY <1>4, <1>5 DEF IsAlias
  <2>2. locals[n].target \in X
    BY <2>1, AddressChain DEF Follows, Related
  <2> QED
    BY <2>1, <2>2
<1>6. IsFiniteSet(DOMAIN env)
  <2>1. DOMAIN env = DOMAIN locals \union {Fresh}
    BY DEF Insert
  <2> QED
    BY <2>1, LocalsFinite, FS_AddElement DEF Follows
<1> HIDE DEF env, X
<1>7. ResolveIn(env, N(p)).tag = "ok" /\ m \in DOMAIN env
  BY DEF CastValue, Then, Ok, Err, env
<1>8. m \in X /\ ~IsAlias(env, m)
  BY <1>3, <1>5, <1>6, <1>7, ResolveStays
<1>9. ~IsAlias(locals, m) /\ m \in DOMAIN locals /\ env[m] = locals[m]
  BY <1>4, <1>7, <1>8
<1>10. m \notin GlobalConstants
  BY <1>9, NamesApart DEF Follows
<1>11. PICK s \in DOMAIN regs : m = N(s) /\ Grounds(s, meaning[p])
  BY <1>8, <1>9, <1>10, AddressFound DEF Follows, Related, X
<1>12. env[m].kind # "Tuple"
  BY <1>9, <1>11 DEF Grounds, AddressMeans, Entry
<1> QED
  BY <1>7, <1>12 DEF CastValue, Then, env

LEMMA CastOfTuple ==
    ASSUME Follows, Len(regs) + 1 <= Len(RegisterNames), NEW p \in DOMAIN regs,
           IsBound(p), Entry(p).kind = "Tuple", NEW type, Fresh # N(p)
    PROVE  CastValue(N(p), type) = IF type = "Struct*" THEN Ok(Alias(N(p)))
                                                       ELSE Ok(Index(N(p), 0))
<1> DEFINE env == Insert(locals, Fresh, Alias(N(p)))
<1>1. N(p) \in DOMAIN env /\ env[N(p)] = Entry(p)
  BY DEF Insert, IsBound, Entry
<1>2. ~IsAlias(env, N(p))
  BY <1>1 DEF IsAlias
<1> HIDE DEF env
<1>3. ResolveIn(env, N(p)) = Ok(N(p))
  BY <1>1, <1>2 DEF ResolveIn
<1>4. ResolveIn(env, N(p)).tag = "ok" /\ ResolveIn(env, N(p)).val = N(p)
  BY <1>3 DEF Ok
<1> QED
  BY <1>1, <1>4 DEF CastValue, Then, env

LEMMA BitCastRelated ==
    ASSUME Follows, NEW p \in DOMAIN regs, NEW type \in CastsOf(regs[p]), BitCast(p, type),
           CastValue(N(p), type).tag = "ok", Qir!Cast(p)
    PROVE  Related' /\ Quiet
<1>1. PICK v : v = meaning[p]
  OBVIOUS
<1>2. /\ regs[p] \in {"i8*", "Tuple*", "Num*"} /\ type \in {"Qubit**", "Num*", "Struct*"}
      /\ regs[p] # "Tuple*" => type # "Struct*"
      /\ regs[p] = "Tuple*" => type # "Qubit**"
  BY DEF CastsOf
<1>3. /\ Bind("bitcast", type, CastValue(N(p), type)) /\ nextQubit' = nextQubit
      /\ Qir!Denote(v)
  BY <1>1 DEF BitCast, Qir!Cast
<1>4. Len(regs) + 1 <= Len(RegisterNames)
  <2>1. Len(<<type>>) = 1
    OBVIOUS
  <2> QED
    BY <1>3, <2>1 DEF Bind, Advance
<1>5. Fresh # N(p) /\ Fresh \notin DOMAIN locals
  BY <1>4, FreshNew
<1>6. IsBound(p)
  <2>1. SUFFICES ASSUME ~IsBound(p)
                 PROVE  FALSE
    OBVIOUS
  <2> DEFINE env == Insert(locals, Fresh, Alias(N(p)))
  <2>2. N(p) \notin DOMAIN env
    BY <1>5, <2>1 DEF Insert, IsBound
  <2>3. N(p) \notin GlobalConstants
    BY NamesApart DEF Follows
  <2> HIDE DEF env
  <2>4. ResolveIn(env, N(p)).tag # "ok"
    BY <2>2, <2>3 DEF ResolveIn, IsAlias, Err
  <2> QED
    BY <2>4 DEF CastValue, Then, env
<1>7. /\ meaning[p] \in Denotations /\ type \in Types \ {"Array*", "Tuple*"}
      /\ meaning[p] = Qir!Opaque \/ \E b \in DOMAIN memory, i \in Nat : meaning[p] = Qir!Pointer(b, i)
  <2>1. meaning[p] \in Denotations
    BY SeqNames DEF Follows, Related, MachineTyped
  <2>2. PointerValid(p) /\ regs[p] \in Pointers
    BY <1>2 DEF Follows, Related, PointersValid, Pointers, Addresses
  <2> QED
    BY <1>2, <2>1, <2>2 DEF PointerValid, PointsTo, Types
<1>8. EntryMeans(p)
  BY <1>6 DEF Follows, Related, EntriesMean
<1>9. CASE regs[p] \in Addresses
  <2>1. CastValue(N(p), type) = Ok(Alias(N(p)))
    BY <1>4, <1>6, <1>9, CastOfAddress
  <2>2. /\ Bind("bitcast", type, Ok(Alias(N(p)))) /\ Ok(Alias(N(p))).tag = "ok"
        /\ Ok(Alias(N(p))).val = Alias(N(p)) /\ Alias(N(p)).kind = "Alias"
    BY <1>3, <2>1 DEF Ok, Alias
  <2>3. PICK n : /\ Extended(n, type, v) /\ Continues
                 /\ regs'[n] = type /\ meaning'[n] = v
                 /\ Entry(n)' = Alias(N(p))
                 /\ EntryMeans(n)' => Related'
    BY <1>1, <1>3, <1>7, <2>2, DenoteExtends
  <2>4. p \in Addressed(N(p))'
    <3>1. p \in Addressed(N(p))
      BY <1>6, <1>9 DEF Addressed
    <3> QED
      BY <2>3, <3>1, AddressedStays
  <2>5. meaning'[n] = meaning'[p]
    BY <1>1, <2>3 DEF Continues
  <2>6. Entry(n)'.kind = "Alias" /\ Entry(n)'.target = N(p)
    BY <2>3 DEF Alias
  <2>7. AddressMeans(n)'
    BY <2>4, <2>5, <2>6 DEF AddressMeans
  <2>8. EntryMeans(n)'
    <3>1. type \in {"Qubit**", "Num*"}
      BY <1>2, <1>9 DEF Addresses
    <3> QED
      BY <2>3, <2>7, <3>1 DEF EntryMeans, Addresses
  <2> QED
    BY <1>3, <2>2, <2>3, <2>8 DEF Quiet, Bind, Qir!Denote
<1>10. CASE regs[p] = "Tuple*"
  <2>1. ItemsMean(p, "Tuple")
    BY <1>8, <1>10 DEF EntryMeans
  <2>2. PICK b \in DOMAIN memory : PointsTo(p, b, 0) /\ Entry(p).kind = "Tuple"
    BY <2>1 DEF ItemsMean
  <2>3. CASE type = "Struct*"
    <3>1. /\ Bind("bitcast", type, Ok(Alias(N(p)))) /\ Ok(Alias(N(p))).tag = "ok"
          /\ Ok(Alias(N(p))).val = Alias(N(p)) /\ Alias(N(p)).kind = "Alias"
      BY <1>3, <1>4, <1>5, <1>6, <2>2, <2>3, CastOfTuple DEF Ok, Alias
    <3>2. PICK n : /\ Extended(n, type, v) /\ Continues
                   /\ regs'[n] = type /\ meaning'[n] = v
                   /\ Entry(n)' = Alias(N(p))
                   /\ EntryMeans(n)' => Related'
      BY <1>1, <1>3, <1>7, <3>1, DenoteExtends
    <3>3. p \in DOMAIN regs' /\ regs'[p] = "Tuple*" /\ IsBound(p)' /\ meaning'[n] = meaning'[p]
      BY <1>1, <1>6, <1>10, <3>2 DEF Continues, IsBound
    <3>4. Entry(n)'.kind = "Alias" /\ Entry(n)'.target = N(p)
      BY <3>2 DEF Alias
    <3>5. StructMeans(n)'
      BY <3>3, <3>4 DEF StructMeans
    <3>6. EntryMeans(n)'
      BY <2>3, <3>2, <3>5 DEF EntryMeans, Addresses
    <3> QED
      BY <1>3, <3>1, <3>2, <3>6 DEF Quiet, Bind, Qir!Denote
  <2>4. CASE type = "Num*"
    <3>1. /\ Bind("bitcast", type, Ok(Index(N(p), 0))) /\ Ok(Index(N(p), 0)).tag = "ok"
          /\ Ok(Index(N(p), 0)).val = Index(N(p), 0) /\ Index(N(p), 0).kind = "Index"
      BY <1>3, <1>4, <1>5, <1>6, <2>2, <2>4, CastOfTuple DEF Ok, Index
    <3>2. PICK n : /\ Extended(n, type, v) /\ Continues
                   /\ regs'[n] = type /\ meaning'[n] = v
                   /\ Entry(n)' = Index(N(p), 0)
                   /\ EntryMeans(n)' => Related'
      BY <1>1, <1>3, <1>7, <3>1, DenoteExtends
    <3>3. p \in DOMAIN regs' /\ b \in DOMAIN memory' /\ PointsTo(p, b, 0)'
      BY <2>2, <3>2, PointsToStays DEF Continues
    <3>4. /\ Entry(n)'.kind = "Index" /\ Entry(n)'.base = N(p) /\ Entry(n)'.index = 0
          /\ PointsTo(n, b, 0)'
      BY <1>1, <2>2, <3>2, <3>3 DEF Index, PointsTo
    <3>5. IndexMeans(n)'
      BY <3>3, <3>4 DEF IndexMeans
    <3>6. EntryMeans(n)'
      BY <2>4, <3>2, <3>4, <3>5 DEF EntryMeans, Addresses, AddressMeans
    <3> QED
      BY <1>3, <3>1, <3>2, <3>6 DEF Quiet, Bind, Qir!Denote
  <2> QED
    BY <1>2, <1>10, <2>3, <2>4
<1> QED
  BY <1>2, <1>9, <1>10 DEF Addresses

(* A register that is left without a binding.                               *)
LEMMA LooseExtends ==
    ASSUME Follows, NEW op, NEW type \in {"Array*", "Num", "Result*"}, NEW res,
           Advance(op, <<type>>, res), res.tag = "ok",
           NEW v \in Denotations, Qir!Defines(v),
           UNCHANGED <<locals, nextQubit, memory, allocated, released>>,
           type = "Array*" => \E b \in DOMAIN memory : v = Qir!Pointer(b, 0)
    PROVE  Related'
<1>1. PICK n : n = Len(regs) + 1
  OBVIOUS
<1>2. type \in Types /\ MemoryGrows /\ LocalsGrow /\ released' = released /\ allocated' = nextQubit'
  BY DEF Types, MemoryGrows, LocalsGrow, Follows, Related, MachineTyped
<1>3. Extended(n, type, v)
  BY <1>1, <1>2, AdvanceExtends
<1>4. regs'[n] = type /\ meaning'[n] = v /\ N(n) \notin DOMAIN locals
  BY <1>3, ExtendedRegisters
<1>5. ~IsBound(n)'
  BY <1>4 DEF IsBound
<1>6. LooseMeans(n)'
  BY <1>4 DEF LooseMeans, Addresses
<1>7. PointerValid(n)'
  <2>1. CASE type = "Array*"
    <3>1. PICK b \in DOMAIN memory : v = Qir!Pointer(b, 0)
      BY <2>1
    <3>2. b \in DOMAIN memory' /\ PointsTo(n, b, 0)'
      BY <1>4, <3>1 DEF PointsTo
    <3> QED
      BY <3>2 DEF PointerValid
  <2>2. CASE type # "Array*"
    BY <1>4, <2>2 DEF PointerValid, Pointers, Addresses
  <2> QED
    BY <2>1, <2>2
<1> QED
  BY <1>3, <1>5, <1>6, <1>7, RelatedExtends

LEMMA ComputedDenotes ==
    ASSUME Follows, NEW type \in {"Array*", "Num", "Result*"}, NEW v \in Computed(type)
    PROVE  /\ v \in Denotations
           /\ type = "Array*" => \E b \in DOMAIN memory : v = Qir!Pointer(b, 0)
<1>1. CASE type = "Array*"
  <2>1. PICK r \in OfType("Array*") : v = meaning[r] /\ meaning[r] # Qir!Opaque
    BY <1>1 DEF Computed
  <2>2. r \in DOMAIN regs /\ regs[r] = "Array*"
    BY DEF OfType
  <2>3. PointerValid(r)
    BY <2>2 DEF Follows, Related, PointersValid
  <2>4. v \in Denotations
    BY <2>1, <2>2, SeqNames DEF Follows, Related, MachineTyped
  <2> QED
    BY <2>1, <2>2, <2>3, <2>4 DEF PointerValid, PointsTo
<1>2. CASE type = "Num"
  <2>1. v = Qir!ANumber("computed")
    BY <1>2 DEF Computed
  <2>2. Qir!ANumber("computed") \in Denotations
    BY DEF Denotations, Qir!ANumber, Values0
  <2> QED
    BY <1>2, <2>1, <2>2
<1>3. CASE type = "Result*"
  BY <1>3 DEF Computed, Denotations
<1> QED
  BY <1>1, <1>2, <1>3

LEMMA IgnoredRelated ==
    ASSUME Follows, NEW type \in {"Array*", "Num", "Result*"}, Ignored(type),
           NEW v \in Computed(type), Qir!Denote(v)
    PROVE  Related' /\ Quiet
<1>1. /\ Advance("ignored", <<type>>, Ok("ignored")) /\ Ok("ignored").tag = "ok"
      /\ Qir!Defines(v) /\ UNCHANGED <<locals, nextQubit, memory, allocated, released>>
  BY DEF Ignored, Qir!Denote, Ok
<1>2. Related'
  BY <1>1, ComputedDenotes, LooseExtends
<1> QED
  BY <1>2 DEF Quiet, Ignored, Qir!Denote

-----------------------------------------------------------------------------
(* Stores.                                                                  *)

(* The one cell that is written, which was not written before.              *)
WroteCell(b, i, v) ==
    /\ b \in DOMAIN memory /\ i + 1 \in DOMAIN memory[b] /\ memory[b][i + 1] = Qir!Opaque
    /\ memory' \in Seq(Seq(Denotations)) /\ DOMAIN memory' = DOMAIN memory
    /\ \A c \in DOMAIN memory : c # b => memory'[c] = memory[c]
    /\ DOMAIN memory'[b] = DOMAIN memory[b] /\ Len(memory'[b]) = Len(memory[b])
    /\ \A j \in DOMAIN memory[b] : memory'[b][j] = IF j = i + 1 THEN v ELSE memory[b][j]

LEMMA Updated ==
    ASSUME NEW S, NEW s \in Seq(S), NEW i \in DOMAIN s, NEW v \in S
    PROVE  /\ [s EXCEPT ![i] = v] \in Seq(S) /\ DOMAIN [s EXCEPT ![i] = v] = DOMAIN s
           /\ Len([s EXCEPT ![i] = v]) = Len(s)
           /\ \A j \in DOMAIN s : [s EXCEPT ![i] = v][j] = IF j = i THEN v ELSE s[j]
<1>1. Len(s) \in Nat /\ DOMAIN s = 1 .. Len(s) /\ \A j \in 1 .. Len(s) : s[j] \in S
  BY LenProperties, ElementOfSeq
<1> QED
  BY <1>1

LEMMA WriteWrites ==
    ASSUME Follows, NEW p \in DOMAIN regs, regs[p] \in Addresses, NEW v \in Denotations,
           InTurn(p), Qir!Write(p, v)
    PROVE  \E b \in DOMAIN memory, i \in Nat :
              /\ PointsTo(p, b, i) /\ WroteCell(b, i, v)
              /\ \A j \in DOMAIN memory[b] : memory[b][j] = Qir!Opaque <=> j > i
<1>1. Qir!InBounds(p)
  BY DEF Qir!Write
<1>2. PICK b \in DOMAIN memory, i \in Nat : PointsTo(p, b, i)
  BY <1>1, PointerPoints DEF Qir!InBounds, Pointers
<1>3. PICK m \in Seq(Seq(Denotations)) : m = memory
  BY DEF Follows, Related, MachineTyped
<1>4. i < Len(m[b]) /\ \A j \in DOMAIN m[b] : m[b][j] = Qir!Opaque <=> j > i
  BY <1>1, <1>2, <1>3 DEF PointsTo, Qir!Pointer, Qir!InBounds, Qir!Block, InTurn
<1>5. memory' = [memory EXCEPT ![b][i + 1] = v]
  BY <1>2 DEF PointsTo, Qir!Pointer, Qir!Write
<1>6. PICK cells \in Seq(Denotations) : cells = m[b]
  BY <1>2, <1>3
<1>7. i + 1 \in DOMAIN cells
  BY <1>4, <1>6, LenProperties
<1>8. PICK new \in Seq(Denotations) :
         /\ new = [cells EXCEPT ![i + 1] = v]
         /\ DOMAIN new = DOMAIN cells /\ Len(new) = Len(cells)
         /\ \A j \in DOMAIN cells : new[j] = IF j = i + 1 THEN v ELSE cells[j]
  <2>1. PICK k \in DOMAIN cells : k = i + 1
    BY <1>7
  <2>2. /\ [cells EXCEPT ![k] = v] \in Seq(Denotations)
        /\ DOMAIN [cells EXCEPT ![k] = v] = DOMAIN cells
        /\ Len([cells EXCEPT ![k] = v]) = Len(cells)
        /\ \A j \in DOMAIN cells : [cells EXCEPT ![k] = v][j] = IF j = k THEN v ELSE cells[j]
    BY Updated
  <2> QED
    BY <2>1, <2>2
<1>9. memory' = [m EXCEPT ![b] = new]
  BY <1>2, <1>3, <1>5, <1>6, <1>8
<1>10. /\ memory' \in Seq(Seq(Denotations)) /\ DOMAIN memory' = DOMAIN m
       /\ \A c \in DOMAIN m : memory'[c] = IF c = b THEN new ELSE m[c]
  BY <1>2, <1>3, <1>9, Updated
<1>11. memory[b][i + 1] = Qir!Opaque
  <2>1. i + 1 > i
    OBVIOUS
  <2> QED
    BY <1>3, <1>4, <1>6, <1>7, <2>1
<1>12. WroteCell(b, i, v)
  BY <1>2, <1>3, <1>6, <1>7, <1>8, <1>10, <1>11 DEF WroteCell
<1> QED
  BY <1>2, <1>3, <1>4, <1>12

Registers == UNCHANGED <<regs, nextQubit, meaning, allocated>>

LEMMA WriteContinues ==
    ASSUME Follows, Registers, DOMAIN locals' = DOMAIN locals,
           NEW b, NEW i, NEW v, WroteCell(b, i, v)
    PROVE  Continues
<1>1. \A r \in DOMAIN regs : /\ r \in DOMAIN regs' /\ regs'[r] = regs[r] /\ meaning'[r] = meaning[r]
                             /\ IsBound(r) /\ regs[r] # "Qubit*" => N(r) \in DOMAIN locals'
  BY DEF Registers, IsBound
<1>2. ASSUME NEW c \in DOMAIN memory
      PROVE  /\ c \in DOMAIN memory'
             /\ DOMAIN memory'[c] = DOMAIN memory[c] /\ Len(memory'[c]) = Len(memory[c])
             /\ \A j \in DOMAIN memory[c] :
                   memory[c][j] # Qir!Opaque => memory'[c][j] = memory[c][j]
  BY DEF WroteCell
<1> QED
  BY <1>1, <1>2 DEF Continues

(* A store changes the entry of one register at most, that of the container *)
(* or of the number memory that is written.                                 *)
LEMMA RelatedWrites ==
    ASSUME Follows, Registers, released' = released, DOMAIN locals' = DOMAIN locals,
           NEW b, NEW i, NEW v, WroteCell(b, i, v),
           NEW t \in DOMAIN regs, EntryMeans(t)',
           \A r \in DOMAIN regs : r # t /\ IsBound(r) =>
              Entry(r)' = Entry(r) /\ ~Owns(r, {"Array", "Tuple"}, b),
           \/ Entry(t)'.kind = Entry(t).kind
           \/ /\ Entry(t)'.kind = "Data" /\ PointsTo(t, b, 0)
              /\ ~Owns(t, {"Array", "Tuple"}, b)
    PROVE  Related'
<1>1. Continues
  BY WriteContinues
<1>2. MachineTyped'
  BY DEF Follows, Related, MachineTyped, WroteCell, Registers
<1>3. \A r \in DOMAIN regs : IsBound(r)' <=> IsBound(r)
  BY DEF IsBound
<1>4. DOMAIN regs' = DOMAIN regs /\ DOMAIN memory' = DOMAIN memory
  BY DEF Registers, WroteCell
<1>5. EntriesMean'
  <2>1. ASSUME NEW r \in DOMAIN regs, IsBound(r), r # t
        PROVE  EntryMeans(r)'
    <3>1. EntryMeans(r) /\ Entry(r)' = Entry(r) /\ ~Owns(r, {"Array", "Tuple"}, b)
      BY <2>1 DEF Follows, Related, EntriesMean
    <3>2. ASSUME Entry(r).kind \in {"Array", "Tuple"}, NEW c \in DOMAIN memory, PointsTo(r, c, 0)
          PROVE  memory'[c] = memory[c]
      <4>1. c # b
        BY <2>1, <3>1, <3>2 DEF Owns
      <4> QED
        BY <4>1 DEF WroteCell
    <3> QED
      BY <1>1, <3>1, <3>2, EntryStays
  <2> QED
    BY <1>3, <1>4, <2>1 DEF EntriesMean
<1>6. LooseMean'
  <2>1. ASSUME NEW r \in DOMAIN regs, ~IsBound(r)
        PROVE  LooseMeans(r)'
    BY <2>1 DEF Follows, Related, LooseMean, LooseMeans, Registers
  <2> QED
    BY <1>3, <1>4, <2>1 DEF LooseMean
<1>7. \A r \in DOMAIN regs : \A c, j : PointsTo(r, c, j)' <=> PointsTo(r, c, j)
  BY <1>4 DEF PointsTo, Registers
<1>8. PointersValid'
  <2>1. ASSUME NEW r \in DOMAIN regs
        PROVE  PointerValid(r)'
    <3>1. PointerValid(r)
      BY DEF Follows, Related, PointersValid
    <3>2. regs'[r] = regs[r] /\ meaning'[r] = meaning[r]
      BY DEF Registers
    <3> QED
      BY <1>4, <1>7, <3>1, <3>2 DEF PointerValid
  <2> QED
    BY <1>4, <2>1 DEF PointersValid
<1>9. BlocksApart'
  <2>1. SUFFICES ASSUME NEW r \in DOMAIN regs, NEW s \in DOMAIN regs, NEW c \in DOMAIN memory,
                        Owns(r, {"Array", "Tuple"}, c)', Owns(s, {"Array", "Tuple", "Data"}, c)',
                        r # s
                 PROVE  FALSE
    BY <1>4 DEF BlocksApart
  <2>2. \A u \in DOMAIN regs : \A kinds :
            Owns(u, kinds, c)' <=> IsBound(u) /\ Entry(u)'.kind \in kinds /\ PointsTo(u, c, 0)
    BY <1>3, <1>7 DEF Owns
  <2>3. \A u \in DOMAIN regs : \A kinds :
            Owns(u, kinds, c) <=> IsBound(u) /\ Entry(u).kind \in kinds /\ PointsTo(u, c, 0)
    BY DEF Owns
  <2>4. \A u \in DOMAIN regs : u # t /\ IsBound(u) =>
            Entry(u)' = Entry(u) /\ ~Owns(u, {"Array", "Tuple"}, b)
    OBVIOUS
  <2>5. CASE Entry(t)'.kind = Entry(t).kind
    <3>1. Owns(r, {"Array", "Tuple"}, c)
      BY <2>1, <2>2, <2>3, <2>4, <2>5
    <3>2. Owns(s, {"Array", "Tuple", "Data"}, c)
      BY <2>1, <2>2, <2>3, <2>4, <2>5
    <3> QED
      BY <2>1, <3>1, <3>2 DEF Follows, Related, BlocksApart
  <2>6. CASE /\ Entry(t)'.kind = "Data" /\ PointsTo(t, b, 0)
             /\ ~Owns(t, {"Array", "Tuple"}, b)
    <3>1. r # t /\ Owns(r, {"Array", "Tuple"}, c)
      BY <2>1, <2>2, <2>3, <2>4, <2>6
    <3>2. CASE s = t
      <4>1. PointsTo(t, c, 0) /\ PointsTo(t, b, 0)
        BY <2>1, <2>2, <2>6, <3>2
      <4>2. b = c
        BY <4>1 DEF PointsTo, Qir!Pointer
      <4> QED
        BY <2>1, <2>2, <2>4, <3>1, <4>2
    <3>3. CASE s # t
      <4>1. Owns(s, {"Array", "Tuple", "Data"}, c)
        BY <2>1, <2>2, <2>3, <2>4, <3>3
      <4> QED
        BY <2>1, <3>1, <4>1 DEF Follows, Related, BlocksApart
    <3> QED
      BY <3>2, <3>3
  <2> QED
    BY <2>5, <2>6
<1> QED
  BY <1>2, <1>5, <1>6, <1>8, <1>9 DEF Related

(* An item is pushed at its turn.                                           *)
LEMMA PushRelated ==
    ASSUME Follows, Registers, released' = released,
           NEW u \in DOMAIN regs, IsBound(u), NEW kind \in {"Array", "Tuple"},
           Entry(u).kind = kind,
           NEW b, PointsTo(u, b, 0), NEW i \in Nat, NEW v, WroteCell(b, i, v),
           \A j \in DOMAIN memory[b] : memory[b][j] = Qir!Opaque <=> j > i,
           NEW item, ItemMeans(item, v),
           locals' = Insert(locals, N(u), [kind |-> kind, items |-> Append(Entry(u).items, item)])
    PROVE  Related'
<1>1. ItemsMean(u, kind) /\ EntryMeans(u) /\ regs[u] \in Types
  BY OwnerPoints, SeqNames DEF Follows, Related, EntriesMean
<1>2. regs[u] = IF kind = "Array" THEN "Array*" ELSE "Tuple*"
  BY <1>1 DEF EntryMeans, QubitMeans, NumberMeans, AddressMeans, QubitsMean, ItemsMean,
              StructMeans, Types, Addresses
<1>3. PICK items \in Seq(Item) : items = Entry(u).items
  BY ValueParts DEF Follows, TypeOK, IsBound, Entry
<1>4. PICK cells \in Seq(Denotations) : cells = memory[b] /\ b \in DOMAIN memory
  BY DEF PointsTo, Follows, Related, MachineTyped
<1>5. Filled(items, cells)
  <2>1. PICK c \in DOMAIN memory : PointsTo(u, c, 0) /\ Filled(items, memory[c])
    BY <1>1, <1>3 DEF ItemsMean
  <2>2. c = b
    BY <2>1 DEF PointsTo, Qir!Pointer
  <2> QED
    BY <1>4, <2>1, <2>2
<1>6. /\ Len(items) \in Nat /\ Len(cells) \in Nat /\ DOMAIN cells = 1 .. Len(cells)
      /\ DOMAIN items = 1 .. Len(items)
  BY LenProperties
<1>7. i + 1 \in DOMAIN cells /\ \A j \in DOMAIN cells : cells[j] = Qir!Opaque <=> j > i
  BY <1>4 DEF WroteCell
<1>8. Len(items) = i
  <2>1. \A j \in DOMAIN cells : j <= Len(items) <=> j <= i
    <3>1. \A j \in DOMAIN cells : j <= Len(items) <=> cells[j] # Qir!Opaque
      BY <1>5 DEF Filled, ItemMeans
    <3>2. \A j \in DOMAIN cells : j <= i <=> ~(j > i)
      BY <1>6
    <3> QED
      BY <1>7, <3>1, <3>2
  <2>2. Len(items) <= Len(cells)
    BY <1>5 DEF Filled
  <2>3. PICK m \in Nat, n \in Nat : m = Len(items) /\ n = Len(cells)
    BY <1>6
  <2>4. /\ \A j \in 1 .. n : j <= m <=> j <= i
        /\ m <= n /\ i + 1 \in 1 .. n
    BY <1>6, <1>7, <2>1, <2>2, <2>3
  <2>5. ~(m < i)
    BY <2>4
  <2>6. ~(m > i)
    <3>1. i + 1 <= m <=> i + 1 <= i
      BY <2>4
    <3> QED
      BY <3>1
  <2> QED
    BY <2>3, <2>5, <2>6
<1>9. PICK more : more = Append(items, item)
  OBVIOUS
<1>10. Len(more) = i + 1 /\ more[i + 1] = item /\ \A j \in 1 .. i : more[j] = items[j]
  <2>1. PICK S : items \in Seq(S) /\ item \in S
    <3>1. Listed(items, Len(items))
      BY ListedSeq
    <3> QED
      BY <3>1, ListedWith
  <2> QED
    BY <1>8, <1>9, <2>1, AppendProperties
<1>11. Continues
  <2>1. DOMAIN locals' = DOMAIN locals
    BY DEF Insert, IsBound
  <2> QED
    BY <2>1, WriteContinues
<1>12. PICK new : new = memory'[b]
  OBVIOUS
<1>13. Filled(more, new)'
  <2>2. /\ DOMAIN new = DOMAIN cells /\ Len(new) = Len(cells)
        /\ \A j \in DOMAIN cells : new[j] = IF j = i + 1 THEN v ELSE cells[j]
    BY <1>4, <1>12 DEF WroteCell
  <2>3. ASSUME NEW j \in DOMAIN new
        PROVE  IF j <= Len(more) THEN ItemMeans(more[j], new[j])' ELSE new[j] = Qir!Opaque
    <3>1. j \in 1 .. Len(cells)
      BY <1>6, <2>2
    <3>2. CASE j = i + 1
      BY <1>10, <1>11, <2>2, <3>2, ItemStays
    <3>3. CASE j <= i
      <4>1. ItemMeans(items[j], cells[j])
        BY <1>5, <1>8, <2>2, <3>3 DEF Filled
      <4>2. more[j] = items[j] /\ new[j] = cells[j] /\ j <= Len(more)
        BY <1>10, <2>2, <3>1, <3>3
      <4> QED
        BY <1>11, <4>1, <4>2, ItemStays
    <3>4. CASE j > i + 1
      <4>1. new[j] = Qir!Opaque /\ ~(j <= Len(more))
        BY <1>7, <1>10, <2>2, <3>1, <3>4
      <4> QED
        BY <4>1
    <3> QED
      BY <1>6, <3>1, <3>2, <3>3, <3>4
  <2>4. Len(more) <= Len(new)
    BY <1>6, <1>7, <1>10, <2>2
  <2> QED
    BY <2>3, <2>4 DEF Filled
<1>14. Entry(u)'.kind = kind /\ Entry(u)'.items = more
  BY <1>3, <1>9 DEF Insert, Entry
<1>15. EntryMeans(u)'
  <2>1. PointsTo(u, b, 0)' /\ b \in DOMAIN memory'
    BY <1>11, PointsToStays DEF PointsTo
  <2>2. ItemsMean(u, kind)'
    <3>1. Filled(Entry(u).items, memory[b])'
      BY <1>12, <1>14, <1>13
    <3> QED
      BY <1>14, <2>1, <3>1 DEF ItemsMean
  <2>3. regs'[u] = regs[u]
    BY DEF Registers
  <2> QED
    BY <1>2, <2>2, <2>3 DEF EntryMeans, Addresses
<1>16. ASSUME NEW r \in DOMAIN regs, r # u, IsBound(r)
       PROVE  Entry(r)' = Entry(r) /\ ~Owns(r, {"Array", "Tuple"}, b)
  <2>1. N(r) # N(u)
    BY <1>16, NamesApart DEF Follows
  <2>2. Entry(r)' = Entry(r)
    BY <1>16, <2>1 DEF Insert, Entry, IsBound
  <2>3. Owns(u, {"Array", "Tuple", "Data"}, b)
    BY DEF Owns
  <2>4. ~Owns(r, {"Array", "Tuple"}, b)
    BY <1>4, <1>16, <2>3 DEF Follows, Related, BlocksApart
  <2> QED
    BY <2>2, <2>4
<1>17. DOMAIN locals' = DOMAIN locals
  BY DEF Insert, IsBound
<1>18. Entry(u)'.kind = Entry(u).kind
  BY <1>14
<1> QED
  BY <1>15, <1>16, <1>17, <1>18, RelatedWrites

(* The pointer of a store is to number memory, or to a cell of what it is   *)
(* an index of.                                                             *)
LEMMA StoreGrounds ==
    ASSUME Follows, NEW p \in DOMAIN regs, regs[p] \in Addresses, LookUp(N(p)).tag = "ok"
    PROVE  \E s \in DOMAIN regs : /\ Grounds(s, meaning[p]) /\ LookUp(N(p)).val = Entry(s)
                                  /\ Entry(s).kind \in {"Data", "Index"}
<1>1. ResolveAlias(N(p)).tag = "ok" /\ ResolveAlias(N(p)).val \in DOMAIN locals
  BY LookedUp DEF Follows
<1>2. ResolveAlias(N(p)).val \notin GlobalConstants
  BY <1>1, NamesApart DEF Follows
<1>3. PICK s \in DOMAIN regs : ResolveAlias(N(p)).val = N(s) /\ Grounds(s, meaning[p])
  BY <1>1, <1>2, AddressResolves DEF Follows, Related
<1>4. LookUp(N(p)).val = Entry(s) /\ LookUp(N(p)).val.kind \in {"Data", "Index"}
  BY <1>3, LookedUpGround DEF Follows
<1> QED
  BY <1>3, <1>4

LEMMA DataGround ==
    ASSUME Follows, NEW p \in DOMAIN regs, NEW s \in DOMAIN regs, Grounds(s, meaning[p]),
           Entry(s).kind = "Data", NEW b, NEW i, PointsTo(p, b, i)
    PROVE  /\ i = 0 /\ Owns(s, {"Array", "Tuple", "Data"}, b)
           /\ \A r \in DOMAIN regs : ~Owns(r, {"Array", "Tuple"}, b)
<1>1. PICK c \in DOMAIN memory : PointsTo(s, c, 0)
  BY DEF Grounds, AddressMeans
<1>2. c = b /\ i = 0
  BY <1>1 DEF Grounds, PointsTo, Qir!Pointer
<1>3. Owns(s, {"Array", "Tuple", "Data"}, b)
  BY <1>1, <1>2 DEF Owns, Grounds
<1>4. ASSUME NEW r \in DOMAIN regs, Owns(r, {"Array", "Tuple"}, b)
      PROVE  FALSE
  <2>1. r = s
    BY <1>1, <1>2, <1>3, <1>4 DEF Follows, Related, BlocksApart
  <2> QED
    BY <1>4, <2>1 DEF Owns
<1> QED
  BY <1>2, <1>3, <1>4

LEMMA IndexGround ==
    ASSUME Follows, NEW p \in DOMAIN regs, NEW s \in DOMAIN regs, Grounds(s, meaning[p]),
           Entry(s).kind = "Index", NEW b, NEW i, PointsTo(p, b, i)
    PROVE  \E u \in DOMAIN regs : Entry(s).base = N(u) /\ PointsTo(u, b, 0)
<1>1. PICK u \in DOMAIN regs, c \in DOMAIN memory :
          Entry(s).base = N(u) /\ PointsTo(u, c, 0) /\ PointsTo(s, c, Entry(s).index)
  BY DEF Grounds, AddressMeans, IndexMeans
<1>2. c = b
  BY <1>1 DEF Grounds, PointsTo, Qir!Pointer
<1> QED
  BY <1>1, <1>2

LEMMA StoredMeans ==
    ASSUME Follows, NEW r \in OfType("Qubit*") \union OfType("Num"),
           ResolveAlias(N(r)).tag = "ok", NEW base, StoredItem(base, N(r)).tag = "ok"
    PROVE  ItemMeans(StoredItem(base, N(r)).val, meaning[r])
<1>1. r \in DOMAIN regs /\ regs[r] \in {"Qubit*", "Num"}
  BY DEF OfType
<1>2. IsBound(r)
  BY <1>1, NamesApart, Resolved DEF Follows, IsBound, ResolveAlias, IsAlias
<1>3. EntryMeans(r)
  BY <1>1, <1>2 DEF Follows, Related, EntriesMean
<1>4. meaning[r] # Qir!Opaque
  BY <1>1, <1>3, Distinguished DEF EntryMeans, QubitMeans, NumberMeans
<1>5. Named(r)
  BY <1>1, <1>2 DEF Named
<1>6. CASE base \in DOMAIN locals /\ locals[base].kind = "Tuple"
  <2> DEFINE found == LookUp(N(r))
  <2>1. /\ found.tag = "ok" /\ found.val.kind = "Qubit"
        /\ StoredItem(base, N(r)) = Ok(QubitItem(found.val.qubit))
    BY <1>6 DEF StoredItem, Then, Expect, Ok, Err
  <2>2. meaning[r] = Qir!AQubit(found.val.qubit)
    BY <1>5, <2>1, LookedUp, NamedResolves DEF Follows, Related
  <2>3. StoredItem(base, N(r)).val = QubitItem(found.val.qubit)
    BY <2>1 DEF Ok
  <2> HIDE DEF found
  <2> QED
    BY <1>4, <2>2, <2>3 DEF ItemMeans, QubitItem
<1>7. CASE ~(base \in DOMAIN locals /\ locals[base].kind = "Tuple")
  <2>1. StoredItem(base, N(r)).val = Name(N(r))
    BY <1>7 DEF StoredItem, Ok
  <2>2. ItemMeans(Name(N(r)), meaning[r])
    BY <1>1, <1>2, <1>4 DEF ItemMeans, Name
  <2> QED
    BY <2>1, <2>2
<1> QED
  BY <1>6, <1>7

(* A push through an index into what is bound to N(u).                      *)
LEMMA PushedRelated ==
    ASSUME Follows, Registers, released' = released, NEW u \in DOMAIN regs,
           NEW b, PointsTo(u, b, 0), NEW i \in Nat, NEW v, WroteCell(b, i, v),
           \A j \in DOMAIN memory[b] : memory[b][j] = Qir!Opaque <=> j > i,
           NEW item, ItemMeans(item, v),
           PushInto(N(u), item).tag = "ok", locals' = PushInto(N(u), item).val
    PROVE  Related'
<1>1. PICK kind : kind = Entry(u).kind
  OBVIOUS
<1>2. /\ IsBound(u) /\ kind \in {"Array", "Tuple"}
      /\ locals' = Insert(locals, N(u), [kind |-> kind, items |-> Append(Entry(u).items, item)])
  BY <1>1 DEF PushInto, Then, Expect, Ok, Err, IsBound, Entry
<1> QED
  BY <1>1, <1>2, PushRelated

LEMMA StoreRegRelated ==
    ASSUME Follows, NEW p \in OfType("Qubit**") \union OfType("Num*"),
           NEW r \in OfType("Qubit*") \union OfType("Num"), StoreReg(p, r),
           StoreRegister(N(p), N(r)).tag = "ok", Qir!Write(p, meaning[r]), InTurn(p)
    PROVE  Related' /\ Quiet
<1>1. /\ p \in DOMAIN regs /\ regs[p] \in Addresses /\ r \in DOMAIN regs
  BY DEF OfType, Addresses
<1>2. PICK v \in Denotations : v = meaning[r]
  BY <1>1, SeqNames DEF Follows, Related, MachineTyped
<1>3. PICK b \in DOMAIN memory, i \in Nat :
         /\ PointsTo(p, b, i) /\ WroteCell(b, i, v)
         /\ \A j \in DOMAIN memory[b] : memory[b][j] = Qir!Opaque <=> j > i
  BY <1>1, <1>2, WriteWrites
<1>4. Registers /\ released' = released
  BY DEF Registers, StoreReg, Update, Advance, Qir!Write, Follows, TypeOK
<1>5. LookUp(N(p)).tag = "ok" /\ ResolveAlias(N(r)).tag = "ok"
  BY DEF StoreRegister, Then, Unresolved, Err
<1>6. PICK s \in DOMAIN regs : /\ Grounds(s, meaning[p]) /\ LookUp(N(p)).val = Entry(s)
                               /\ Entry(s).kind \in {"Data", "Index"}
  BY <1>1, <1>5, StoreGrounds
<1>7. locals' = StoreRegister(N(p), N(r)).val
  BY DEF StoreReg, Update
<1>8. CASE Entry(s).kind = "Data"
  <2>1. locals' = locals
    BY <1>5, <1>6, <1>7, <1>8 DEF StoreRegister, Then, Unresolved, Ok
  <2>2. \A t \in DOMAIN regs : Entry(t)' = Entry(t) /\ ~Owns(t, {"Array", "Tuple"}, b)
    BY <1>1, <1>3, <1>6, <1>8, <2>1, DataGround DEF Entry
  <2>3. EntryMeans(s)'
    <3>1. Continues
      BY <1>3, <1>4, <2>1, WriteContinues
    <3>2. EntryMeans(s)
      BY <1>6 DEF Grounds, Follows, Related, EntriesMean
    <3> QED
      BY <1>8, <2>2, <3>1, <3>2, EntryStays
  <2>4. Related'
    BY <1>3, <1>4, <2>1, <2>2, <2>3, RelatedWrites
  <2> QED
    BY <2>4 DEF Quiet, StoreReg, Update, Qir!Write
<1>9. CASE Entry(s).kind = "Index"
  <2>1. PICK u \in DOMAIN regs : Entry(s).base = N(u) /\ PointsTo(u, b, 0)
    BY <1>1, <1>3, <1>6, <1>9, IndexGround
  <2>2. PICK stored : stored = StoredItem(N(u), N(r))
    OBVIOUS
  <2>3. /\ stored.tag = "ok" /\ PushInto(N(u), stored.val).tag = "ok"
        /\ locals' = PushInto(N(u), stored.val).val
    BY <1>5, <1>6, <1>7, <1>9, <2>1, <2>2 DEF StoreRegister, Then, Unresolved
  <2>4. ItemMeans(stored.val, v)
    BY <1>2, <1>5, <2>2, <2>3, StoredMeans
  <2>5. Related'
    BY <1>3, <1>4, <2>1, <2>3, <2>4, PushedRelated
  <2> QED
    BY <2>5 DEF Quiet, StoreReg, Update, Qir!Write
<1> QED
  BY <1>6, <1>8, <1>9

LEMMA StoreConstRelated ==
    ASSUME Follows, NEW p \in OfType("Num*"), NEW c, StoreConst(p, c),
           StoreConstant(N(p), c).tag = "ok", Qir!Write(p, Qir!ANumber(c)), InTurn(p)
    PROVE  Related' /\ Quiet
<1>1. p \in DOMAIN regs /\ regs[p] \in Addresses
  BY DEF OfType, Addresses
<1>2. LookUp(N(p)).tag = "ok" /\ c \in Numbers
  BY DEF StoreConstant, Then, Err
<1>3. PICK v \in Denotations : v = Qir!ANumber(c)
  BY <1>2 DEF Denotations, Qir!ANumber, Values0
<1>4. PICK b \in DOMAIN memory, i \in Nat :
         /\ PointsTo(p, b, i) /\ WroteCell(b, i, v)
         /\ \A j \in DOMAIN memory[b] : memory[b][j] = Qir!Opaque <=> j > i
  BY <1>1, <1>3, WriteWrites
<1>5. Registers /\ released' = released
  BY DEF Registers, StoreConst, Update, Advance, Qir!Write, Follows, TypeOK
<1>6. PICK s \in DOMAIN regs : /\ Grounds(s, meaning[p]) /\ LookUp(N(p)).val = Entry(s)
                               /\ Entry(s).kind \in {"Data", "Index"}
  BY <1>1, <1>2, StoreGrounds
<1>7. locals' = StoreConstant(N(p), c).val
  BY DEF StoreConst, Update
<1>8. CASE Entry(s).kind = "Data"
  <2>1. locals' = Insert(locals, N(p), Data)
    BY <1>2, <1>6, <1>7, <1>8 DEF StoreConstant, Then, Ok
  <2>2. IsBound(p)
    BY <1>1, <1>2, LookedUp, NamesApart, Resolved DEF Follows, IsBound, ResolveAlias, IsAlias
  <2>3. i = 0 /\ \A t \in DOMAIN regs : ~Owns(t, {"Array", "Tuple"}, b)
    BY <1>1, <1>4, <1>6, <1>8, DataGround
  <2>4. DOMAIN locals' = DOMAIN locals
    BY <2>1, <2>2 DEF Insert, IsBound
  <2>5. ASSUME NEW t \in DOMAIN regs, t # p, IsBound(t)
        PROVE  Entry(t)' = Entry(t)
    <3>1. N(t) # N(p)
      BY <1>1, <2>5, NamesApart DEF Follows
    <3> QED
      BY <2>1, <2>5, <3>1 DEF Insert, Entry, IsBound
  <2>6. Entry(p)' = Data
    BY <2>1 DEF Insert, Entry
  <2>7. Entry(p)'.kind = "Data" /\ PointsTo(p, b, 0)
    BY <1>4, <2>3, <2>6 DEF Data
  <2>8. EntryMeans(p)'
    <3>1. Continues
      BY <1>4, <1>5, <2>4, WriteContinues
    <3>2. PointsTo(p, b, 0)' /\ b \in DOMAIN memory'
      BY <1>1, <2>7, <3>1, PointsToStays DEF Continues
    <3>3. AddressMeans(p)'
      BY <2>7, <3>2 DEF AddressMeans
    <3>4. regs'[p] = "Num*"
      BY <1>5 DEF OfType, Registers
    <3> QED
      BY <3>3, <3>4 DEF EntryMeans, Addresses
  <2>9. Related'
    BY <1>1, <1>4, <1>5, <2>3, <2>4, <2>5, <2>7, <2>8, RelatedWrites
  <2> QED
    BY <2>9 DEF Quiet, StoreConst, Update, Qir!Write
<1>9. CASE Entry(s).kind = "Index"
  <2>1. PICK u \in DOMAIN regs : Entry(s).base = N(u) /\ PointsTo(u, b, 0)
    BY <1>1, <1>4, <1>6, <1>9, IndexGround
  <2>2. PICK item : item = Number(c)
    OBVIOUS
  <2>3. /\ PushInto(N(u), item).tag = "ok"
        /\ locals' = PushInto(N(u), item).val
    BY <1>2, <1>6, <1>7, <1>9, <2>1, <2>2 DEF StoreConstant, Then
  <2>4. ItemMeans(item, v)
    BY <1>3, <2>2, Distinguished DEF ItemMeans, Number
  <2>5. Related'
    BY <1>4, <1>5, <2>1, <2>3, <2>4, PushedRelated
  <2> QED
    BY <2>5 DEF Quiet, StoreConst, Update, Qir!Write
<1> QED
  BY <1>6, <1>8, <1>9

-----------------------------------------------------------------------------
(* Instructions that define nothing and store nothing: only the binding of  *)
(* a qubit goes away, with the qubit.                                       *)
LEMMA RelatedStays ==
    ASSUME Follows, Registers, memory' = memory, released \subseteq released',
           \A r \in DOMAIN regs :
              /\ IsBound(r)' => IsBound(r) /\ Entry(r)' = Entry(r)
              /\ IsBound(r) /\ ~IsBound(r)' =>
                    /\ regs[r] = "Qubit*"
                    /\ "qubit" \in DOMAIN meaning[r] /\ meaning[r].qubit \in released'
    PROVE  Related'
<1>1. MachineTyped'
  BY DEF Follows, Related, MachineTyped, Registers
<1>2. Continues
  <2>1. \A r \in DOMAIN regs : /\ r \in DOMAIN regs' /\ regs'[r] = regs[r] /\ meaning'[r] = meaning[r]
                               /\ IsBound(r) /\ regs[r] # "Qubit*" => N(r) \in DOMAIN locals'
    BY DEF Registers, IsBound
  <2> QED
    BY <2>1 DEF Continues
<1>3. DOMAIN regs' = DOMAIN regs /\ DOMAIN memory' = DOMAIN memory
  BY DEF Registers
<1>4. EntriesMean'
  <2>1. ASSUME NEW r \in DOMAIN regs, IsBound(r)'
        PROVE  EntryMeans(r)'
    <3>1. IsBound(r) /\ Entry(r)' = Entry(r)
      BY <2>1
    <3>2. EntryMeans(r)
      BY <3>1 DEF Follows, Related, EntriesMean
    <3> QED
      BY <1>2, <3>1, <3>2, EntryStays
  <2> QED
    BY <1>3, <2>1 DEF EntriesMean
<1>5. LooseMean'
  <2>1. ASSUME NEW r \in DOMAIN regs, ~IsBound(r)'
        PROVE  LooseMeans(r)'
    <3>1. regs'[r] = regs[r] /\ meaning'[r] = meaning[r]
      BY DEF Registers
    <3>2. CASE IsBound(r)
      BY <2>1, <3>1, <3>2 DEF LooseMeans, Addresses
    <3>3. CASE ~IsBound(r)
      <4>1. LooseMeans(r)
        BY <3>3 DEF Follows, Related, LooseMean
      <4> QED
        BY <3>1, <4>1 DEF LooseMeans
    <3> QED
      BY <3>2, <3>3
  <2> QED
    BY <1>3, <2>1 DEF LooseMean
<1>6. \A r \in DOMAIN regs : \A c, j : PointsTo(r, c, j)' <=> PointsTo(r, c, j)
  BY <1>3 DEF PointsTo, Registers
<1>7. PointersValid'
  <2>1. ASSUME NEW r \in DOMAIN regs
        PROVE  PointerValid(r)'
    <3>1. PointerValid(r)
      BY DEF Follows, Related, PointersValid
    <3>2. regs'[r] = regs[r] /\ meaning'[r] = meaning[r]
      BY DEF Registers
    <3> QED
      BY <1>3, <1>6, <3>1, <3>2 DEF PointerValid
  <2> QED
    BY <1>3, <2>1 DEF PointersValid
<1>8. BlocksApart'
  <2>1. \A r \in DOMAIN regs : \A kinds, c : Owns(r, kinds, c)' => Owns(r, kinds, c)
    BY <1>6 DEF Owns
  <2> QED
    BY <1>3, <2>1 DEF Follows, Related, BlocksApart
<1> QED
  BY <1>1, <1>4, <1>5, <1>7, <1>8 DEF Related

LEMMA ReleaseRelated ==
    ASSUME Follows, NEW q \in OfType("Qubit*"), QubitRelease(q), Qir!Release(q)
    PROVE  Related' /\ Quiet
<1>1. /\ locals' = [m \in DOMAIN locals \ {N(q)} |-> locals[m]]
      /\ Advance("qubit_release", <<>>, Ok(locals')) /\ Ok(locals').tag = "ok"
      /\ UNCHANGED <<nextQubit, output>>
  BY DEF QubitRelease, Update, Ok
<1>2. Registers
  BY <1>1 DEF Registers, Advance, Qir!Release, Follows, TypeOK
<1>3. /\ memory' = memory /\ released \subseteq released' /\ trace' = trace
      /\ "qubit" \in DOMAIN meaning[q] /\ meaning[q].qubit \in released'
  BY DEF Qir!Release, Qir!Usable
<1>4. ASSUME NEW r \in DOMAIN regs
      PROVE  /\ IsBound(r)' => IsBound(r) /\ Entry(r)' = Entry(r)
             /\ IsBound(r) /\ ~IsBound(r)' => r = q
  <2>1. q \in DOMAIN regs
    BY DEF OfType
  <2>2. N(r) = N(q) => r = q
    BY <2>1, NamesApart DEF Follows
  <2> QED
    BY <1>1, <2>2 DEF IsBound, Entry
<1>5. regs[q] = "Qubit*"
  BY DEF OfType
<1>6. Related'
  BY <1>2, <1>3, <1>4, <1>5, RelatedStays
<1> QED
  BY <1>1, <1>3, <1>6 DEF Quiet

(* What is emitted and performed.                                           *)
Emitted(g) == output' = Append(output, g) /\ trace' = Append(trace, ActOf(g))

LEMMA EmitRelated ==
    ASSUME Follows, NEW op, NEW res, res.tag = "ok", Emit(op, <<>>, res),
           Performs(ActOf(res.val), <<>>)
    PROVE  Related' /\ Emitted(res.val)
<1>1. regs' = regs \o <<>> /\ meaning' = meaning \o <<>>
  BY DEF Emit, Advance, Performs
<1>2. regs' = regs /\ meaning' = meaning
  <2>1. regs \in Seq(Types) /\ meaning \in Seq(Denotations)
    BY DEF Follows, TypeOK, Related, MachineTyped
  <2> QED
    BY <1>1, <2>1, ConcatEmptySeq
<1>3. Registers /\ memory' = memory /\ released' = released /\ locals' = locals
  BY <1>2 DEF Registers, Emit, Performs
<1>4. \A r \in DOMAIN regs : Entry(r)' = Entry(r) /\ (IsBound(r)' <=> IsBound(r))
  BY <1>3 DEF Entry, IsBound
<1>5. Related'
  BY <1>3, <1>4, RelatedStays
<1> QED
  BY <1>5 DEF Emitted, Emit, Performs

LEMMA EmitDefines ==
    ASSUME Follows, NEW op, NEW type \in {"Num", "Result*"}, NEW res, res.tag = "ok",
           Emit(op, <<type>>, res), NEW v \in Denotations, Performs(ActOf(res.val), <<v>>)
    PROVE  Related' /\ Emitted(res.val)
<1>1. Qir!Defines(v)
  <2>1. PICK s \in Seq(Denotations) : s = meaning
    BY DEF Follows, Related, MachineTyped
  <2>2. s \o <<v>> = Append(s, v)
    OBVIOUS
  <2> QED
    BY <2>1, <2>2 DEF Performs, Qir!Defines
<1>2. Advance(op, <<type>>, res) /\ UNCHANGED <<locals, nextQubit, memory, allocated, released>>
  BY DEF Emit, Performs
<1>3. Related'
  BY <1>1, <1>2, LooseExtends
<1> QED
  BY <1>3 DEF Emitted, Emit, Performs

LEMMA MeasuredRelated ==
    ASSUME Follows, NEW op, NEW qubit, qubit.tag = "ok", Measure(op, qubit),
           NEW vs, Qir!Observe(Measurement(qubit.val, Fresh), vs)
    PROVE  Related' /\ Emitted(Measurement(qubit.val, Fresh))
<1> DEFINE g == Measurement(qubit.val, Fresh)
<1>1. Emit(op, <<"Result*">>, Ok(g)) /\ Ok(g).tag = "ok" /\ Ok(g).val = g
  BY DEF Measure, Then, Ok
<1>2. Performs(ActOf(g), <<Qir!Opaque>>)
  BY MeasuredActs
<1>3. Qir!Opaque \in Denotations
  BY DEF Denotations
<1> HIDE DEF g
<1>4. Related' /\ Emitted(Ok(g).val)
  BY <1>1, <1>2, <1>3, EmitDefines
<1> QED
  BY <1>1, <1>4 DEF g

LEMMA MBodyRelated ==
    ASSUME Follows, NEW q \in OfType("Qubit*"), MBodyCall(q), MBody(<<N(q)>>).tag = "ok",
           Qir!MeasureQubit(q, Fresh)
    PROVE  Related' /\ \E g : Emitted(g)
<1>1. Qir!Observe(Measurement(meaning[q].qubit, Fresh), <<meaning[q]>>)
  BY Copies DEF Qir!MeasureQubit
<1>2. Qir!Usable(meaning[q])
  <2>1. \A i \in DOMAIN <<meaning[q]>> : Qir!Usable(<<meaning[q]>>[i])
    BY <1>1 DEF Qir!Observe
  <2>2. 1 \in DOMAIN <<meaning[q]>> /\ <<meaning[q]>>[1] = meaning[q]
    OBVIOUS
  <2> QED
    BY <2>1, <2>2
<1>3. meaning[q] = Qir!AQubit(MBody(<<N(q)>>).val)
  BY <1>2, MBodyMeans DEF Follows, Related
<1>4. meaning[q].qubit = MBody(<<N(q)>>).val
  BY <1>3 DEF Qir!AQubit
<1>5. Measure("m_body", MBody(<<N(q)>>))
  BY DEF MBodyCall
<1>6. Qir!Observe(Measurement(MBody(<<N(q)>>).val, Fresh), <<meaning[q]>>)
  BY <1>1, <1>4
<1> QED
  BY <1>5, <1>6, MeasuredRelated

(* The arguments of a call of two.                                          *)
LEMMA ArgumentTwo ==
    ASSUME NEW b, NEW a
    PROVE  Names(<<b, a>>)[2] = N(a)
BY DEF Names

(* One qubit in one basis, that of Z: any other measurement departs.        *)
LEMMA OneInZ ==
    ASSUME Follows, NEW b \in OfType("Array*"), NEW a \in OfType("Array*"),
           OneCell(a), InZ(b), Qir!MeasureArray(b, a, Fresh)
    PROVE  Qir!Observe(Measurement(Qir!Block(a)[1].qubit, Fresh), Qir!Block(a))
<1> DEFINE bases == Qir!Block(b)
           vs    == Qir!Block(a)
<1>1. /\ Qir!Denotes(b, "block") /\ Len(vs) = 1 /\ Len(bases) = 1
      /\ Qir!Observe(IF Len(vs) = 1 /\ bases[1].number \in PauliZ
                     THEN Qir!Measurement(vs[1].qubit, Fresh) ELSE Qir!Joint(bases, vs), vs)
  BY DEF Qir!MeasureArray, Qir!MeasureValues, OneCell
<1>2. 1 \in DOMAIN bases
  <2>1. Listed(bases, 1)
    BY <1>1, BlockListed
  <2> QED
    BY <2>1, ListedIs
<1>3. bases[1] \in {Qir!ANumber(c) : c \in PauliZ}
  BY <1>2 DEF InZ
<1>4. bases[1].number \in PauliZ
  BY <1>3 DEF Qir!ANumber
<1> HIDE DEF bases, vs
<1> QED
  BY <1>1, <1>4, Copies DEF vs

LEMMA MeasureBodyRelated ==
    ASSUME Follows, NEW b \in OfType("Array*"), NEW a \in OfType("Array*"),
           MeasureBodyCall(b, a), OneCell(a), InZ(b),
           MeasureBody(N(a)).tag = "ok", Qir!MeasureArray(b, a, Fresh)
    PROVE  Related' /\ \E g : Emitted(g)
<1>1. Qir!Observe(Measurement(Qir!Block(a)[1].qubit, Fresh), Qir!Block(a))
  BY OneInZ
<1>2. AllUsable(Qir!Block(a)) /\ Len(Qir!Block(a)) = 1
  BY <1>1 DEF Qir!Observe, AllUsable, OneCell
<1>3. Qir!Block(a) = <<Qir!AQubit(MeasureBody(N(a)).val)>>
  BY <1>2, MeasureBodyMeans DEF Follows, Related
<1>4. Qir!Block(a)[1].qubit = MeasureBody(N(a)).val
  BY <1>3 DEF Qir!AQubit
<1>5. Measure("measure_body", MeasureBody(N(a)))
  BY ArgumentTwo DEF MeasureBodyCall
<1>6. Qir!Observe(Measurement(MeasureBody(N(a)).val, Fresh), Qir!Block(a))
  BY <1>1, <1>4
<1> QED
  BY <1>5, <1>6, MeasuredRelated

-----------------------------------------------------------------------------
(* The output and the trace grow together.                                  *)
LEMMA TogetherKept ==
    ASSUME OutputListed, Acts = trace, Quiet \/ \E g : Emitted(g)
    PROVE  Acts' = trace'
<1>1. CASE Quiet
  BY <1>1 DEF Quiet, Acts
<1>2. ASSUME NEW g, Emitted(g)
      PROVE  Acts' = trace'
  <2>1. PICK S : output \in Seq(S)
    BY DEF OutputListed
  <2>2. PICK n \in Nat : n = Len(output) /\ DOMAIN output = 1 .. n
    BY <2>1
  <2>3. output \in Seq(S \union {g})
    <3>1. output \in [1 .. n -> S]
      BY <2>1, <2>2
    <3>2. output \in [1 .. n -> S \union {g}]
      BY <3>1
    <3> QED
      BY <2>2, <3>2
  <2>4. /\ DOMAIN output' = 1 .. n + 1 /\ output'[n + 1] = g
        /\ \A i \in 1 .. n : output'[i] = output[i]
    BY <1>2, <2>2, <2>3 DEF Emitted
  <2>5. Acts' = [i \in 1 .. n + 1 |-> ActOf(output'[i])]
    BY <2>4 DEF Acts
  <2>6. Acts = [i \in 1 .. n |-> ActOf(output[i])]
    BY <2>2 DEF Acts
  <2>7. Listed(Acts, n)
    BY <2>6 DEF Listed
  <2>8. PICK all : all = Append(Acts, ActOf(g))
    OBVIOUS
  <2>9. Listed(all, n + 1) /\ Agree(all, Acts, n) /\ EndsWith(all, n + 1, ActOf(g))
    BY <2>7, <2>8, ListedAppend, Zenon
  <2>10. all = [i \in 1 .. n + 1 |-> all[i]]
    BY <2>9 DEF Listed
  <2>11. \A i \in 1 .. n + 1 : all[i] = ActOf(output'[i])
    BY <2>4, <2>6, <2>9 DEF Agree, EndsWith
  <2>12. all = Acts'
    BY <2>5, <2>10, <2>11
  <2> QED
    BY <1>2, <2>8, <2>12 DEF Emitted
<1> QED
  BY <1>1, <1>2

-----------------------------------------------------------------------------
(* A step that fails changes nothing.                                       *)
Unmoved == UNCHANGED <<regs, locals, nextQubit, output>>

LEMMA StepFails ==
    ASSUME Next, status' # "running"
    PROVE  Unmoved
<1>1. ASSUME NEW op, NEW type, NEW res, Bind(op, type, res), nextQubit' = nextQubit
      PROVE  Unmoved
  BY <1>1 DEF Bind, Advance, Unmoved
<1>2. ASSUME NEW op, NEW res, Update(op, res)
      PROVE  Unmoved
  BY <1>2 DEF Update, Advance, Unmoved
<1>3. ASSUME NEW op, NEW defined, NEW res, Emit(op, defined, res)
      PROVE  Unmoved
  BY <1>3 DEF Emit, Advance, Unmoved
<1>4. CASE Define
  <2>1. CASE QubitAllocate \/ \E n \in 0 .. MaxLength : QubitAllocateArray(n)
    BY <2>1 DEF QubitAllocate, QubitAllocateArray, Bind, Advance, Ok
  <2>2. CASE ArrayCreate \/ TupleCreate \/ Alloca
    BY <1>1, <2>2 DEF ArrayCreate, TupleCreate, Alloca
  <2>3. CASE \E a \in OfType("Array*"), i \in 0 .. MaxLength - 1 : ArrayElement(a, i)
    BY <1>1, <2>3 DEF ArrayElement
  <2>4. CASE \E p \in OfType("Qubit**") \union OfType("Num*") : Load(p)
    BY <1>1, <2>4 DEF Load
  <2>5. CASE \E g \in GlobalConstants : LoadGlobal(g) \/ BitCastGlobal(g)
    BY <1>1, <2>5 DEF LoadGlobal, BitCastGlobal
  <2>6. CASE \E p \in DOMAIN regs : \E type \in CastsOf(regs[p]) : BitCast(p, type)
    BY <1>1, <2>6 DEF BitCast
  <2>7. CASE \E p \in OfType("Struct*"), i \in 0 .. 1 : GetElementPtr(p, i)
    BY <1>1, <2>7 DEF GetElementPtr
  <2>8. CASE \E type \in IgnoredTypes : Ignored(type)
    BY <2>8 DEF Ignored, Advance, Ok
  <2> QED
    BY <1>4, <2>1, <2>2, <2>3, <2>4, <2>5, <2>6, <2>7, <2>8 DEF Define
<1>5. CASE Modify
  BY <1>2, <1>5 DEF Modify, QubitRelease, StoreReg, StoreConst, Refuse
<1>6. CASE Apply
  <2>1. CASE \E g \in DOMAIN PlainGate : \E args \in [1 .. Arity(g) -> OfType("Qubit*")] :
                Gate(g, args)
    BY <1>3, <2>1 DEF Gate
  <2>2. CASE \E g, args, angles : Rotation(g, args, angles)
    BY <1>3, <2>2 DEF Rotation
  <2>3. CASE \E args \in Args(DOMAIN regs), cs \in Consts, d \in {<<>>, <<"Num">>, <<"Qubit*">>} :
                UserCall(args, cs, d)
    BY <1>3, <2>3 DEF UserCall
  <2>4. CASE \E a \in OfType("Array*"), q \in OfType("Qubit*") :
                XCtlCall(a, q) \/ \E g \in DOMAIN ControlledName : GateCtl(g, a, q)
    BY <1>3, <2>4 DEF XCtlCall, GateCtl
  <2>5. CASE \E a, t, g : RotationCtl(g, a, t)
    BY <1>3, <2>5 DEF RotationCtl
  <2>6. CASE \/ \E q \in OfType("Qubit*") : MBodyCall(q)
             \/ \E b, a \in OfType("Array*") : MeasureBodyCall(b, a)
    BY <1>3, <2>6 DEF MBodyCall, MeasureBodyCall, Measure
  <2> QED
    BY <1>6, <2>1, <2>2, <2>3, <2>4, <2>5, <2>6 DEF Apply
<1>7. CASE Finish
  BY <1>7 DEF Finish, Unmoved
<1> QED
  BY <1>4, <1>5, <1>6, <1>7 DEF Next

LEMMA UnmovedRelated ==
    ASSUME Follows, Unmoved, UNCHANGED machine
    PROVE  Related' /\ Quiet
<1>1. Registers /\ memory' = memory /\ released' = released /\ locals' = locals
  BY DEF Registers, Unmoved, machine
<1>2. \A r \in DOMAIN regs : Entry(r)' = Entry(r) /\ (IsBound(r)' <=> IsBound(r))
  BY <1>1 DEF Registers, Entry, IsBound
<1>3. Related'
  BY <1>1, <1>2, RelatedStays
<1> QED
  BY <1>3 DEF Quiet, Unmoved, machine

-----------------------------------------------------------------------------
(* Every step of the two together is a step of the translator; when it      *)
(* fails, the machine stays.                                                *)
Departs == departures \subseteq departures' /\ departures' \subseteq departures \union Tolerated

LEMMA DefinesBoth ==
    ASSUME BothDefine
    PROVE  /\ Define /\ Departs
           /\ status' # "running" => UNCHANGED machine
<1>1. CASE \/ Both(QubitAllocate, Qir!Allocate, {})
           \/ \E n \in 0 .. MaxLength : Both(QubitAllocateArray(n), Qir!AllocateArray(n), {})
           \/ \E n \in 0 .. MaxLength : Both(ArrayCreate, Qir!Create(n), {})
           \/ Both(TupleCreate, Qir!Create(2), {})
           \/ Both(Alloca, Qir!Create(1), {})
  BY <1>1 DEF Departs, Both, Define
<1>2. CASE \/ \E a \in OfType("Array*"), i \in 0 .. MaxLength - 1 :
                 Both(ArrayElement(a, i), Qir!Element(a, i), {})
           \/ \E p \in OfType("Qubit**") \union OfType("Num*") : Both(Load(p), Qir!Read(p), {})
           \/ \E g \in GlobalConstants :
                 \/ Both(LoadGlobal(g), Qir!Denote(Qir!ANumber(g)), {})
                 \/ Both(BitCastGlobal(g), Qir!Address(g), {})
  BY <1>2 DEF Departs, Both, Define
<1>3. CASE \/ \E p \in DOMAIN regs : \E type \in CastsOf(regs[p]) :
                 Both(BitCast(p, type), Qir!Cast(p), {})
           \/ \E p \in OfType("Struct*"), i \in 0 .. 1 :
                 Both(GetElementPtr(p, i), Qir!Element(p, i), {})
           \/ \E type \in IgnoredTypes : \E v \in Computed(type) :
                 Both(Ignored(type), Qir!Denote(v), When(type = "Qubit*", "computed qubit"))
  BY <1>3 DEF Departs, Both, Define
<1> QED
  BY <1>1, <1>2, <1>3 DEF BothDefine

LEMMA ModifiesBoth ==
    ASSUME BothModify
    PROVE  /\ Modify /\ Departs
           /\ status' # "running" => UNCHANGED machine
BY DEF BothModify, Departs, Both, Modify

LEMMA AppliesBoth ==
    ASSUME BothApply
    PROVE  /\ Apply /\ Departs
           /\ status' # "running" => UNCHANGED machine
<1>1. CASE \E g \in DOMAIN PlainGate : \E args \in [1 .. Arity(g) -> OfType("Qubit*")] :
              Both(Gate(g, args), Qir!Gate(g, args), {})
  BY <1>1 DEF Departs, Both, Apply
<1>2. CASE \E g \in DOMAIN RotationGate, q \in OfType("Qubit*") :
              \/ \E a \in Numbers \union {"null"} :
                    Both(Rotation(g, <<q>>, <<a>>), Qir!Rotate(g, q, a),
                         When(a \in Inexact, "integer angle"))
              \/ \E x \in OfType("Num") :
                    Both(Rotation(g, <<x, q>>, <<>>), Qir!Rotate(g, q, Angle(x)), {"computed angle"})
  BY <1>2 DEF Departs, Both, Apply
<1>3. CASE \E args \in Args(DOMAIN regs), cs \in Consts, d \in {<<>>, <<"Num">>, <<"Qubit*">>} :
           \E v \in IF d = <<>> THEN {Qir!Opaque} ELSE Computed(d[1]) :
              Both(UserCall(args, cs, d),
                   Qir!Call(Circuit, Picked(args, {i \in DOMAIN args : IsQubit(args[i])}),
                            Picked([i \in DOMAIN args |-> "argument"],
                                   {i \in DOMAIN args : ~IsQubit(args[i])}) \o cs,
                            [i \in DOMAIN d |-> v]),
                   When(d = <<"Qubit*">>, "computed qubit")
                     \union When(cs # <<>> \/ \E i \in DOMAIN args : ~IsQubit(args[i]),
                                 "classical argument"))
  <2>1. PICK args \in Args(DOMAIN regs), cs \in Consts, d \in {<<>>, <<"Num">>, <<"Qubit*">>} :
           \E v \in IF d = <<>> THEN {Qir!Opaque} ELSE Computed(d[1]) :
              Both(UserCall(args, cs, d),
                   Qir!Call(Circuit, Picked(args, {i \in DOMAIN args : IsQubit(args[i])}),
                            Picked([i \in DOMAIN args |-> "argument"],
                                   {i \in DOMAIN args : ~IsQubit(args[i])}) \o cs,
                            [i \in DOMAIN d |-> v]),
                   When(d = <<"Qubit*">>, "computed qubit")
                     \union When(cs # <<>> \/ \E i \in DOMAIN args : ~IsQubit(args[i]),
                                 "classical argument"))
    BY <1>3
  <2>2. /\ UserCall(args, cs, d) /\ Departs
        /\ status' # "running" => UNCHANGED machine
    BY <2>1 DEF Departs, Both
  <2> QED
    BY <2>2 DEF Apply
<1>4. CASE \E a \in OfType("Array*"), q \in OfType("Qubit*") :
              \/ Both(XCtlCall(a, q), Qir!Controlled("X__ctl", a, q),
                      When(~OneCell(a), "several controls"))
              \/ \E g \in DOMAIN ControlledName :
                    Both(GateCtl(g, a, q), Qir!Controlled(g, a, q),
                         When(g \in {"I__ctl", "S__ctl"}, "misnamed gate"))
  BY <1>4 DEF Departs, Both, Apply
<1>5. CASE \E a \in OfType("Array*"), t \in OfType("Struct*") \union OfType("Tuple*"),
              g \in DOMAIN ControlledRotationName :
                 Both(RotationCtl(g, a, t), Qir!ControlledRotation(g, a, t),
                      When(InexactAngle(t), "integer angle"))
  BY <1>5 DEF Departs, Both, Apply
<1>6. CASE \/ \E q \in OfType("Qubit*") : Both(MBodyCall(q), Qir!MeasureQubit(q, Fresh), {})
           \/ \E b, a \in OfType("Array*") :
                 Both(MeasureBodyCall(b, a), Qir!MeasureArray(b, a, Fresh),
                      When(~OneCell(a), "joint measurement")
                        \union When(~InZ(b), "other basis"))
  BY <1>6 DEF Departs, Both, Apply
<1> QED
  BY <1>1, <1>2, <1>3, <1>4, <1>5, <1>6 DEF BothApply

LEMMA NextBoth ==
    ASSUME BothNext
    PROVE  /\ Next /\ Departs
           /\ status' # "running" => UNCHANGED machine
<1>1. CASE Both(Finish, FALSE, {})
  BY <1>1 DEF Departs, Both, Next
<1> QED
  BY <1>1, DefinesBoth, ModifiesBoth, AppliesBoth DEF BothNext, Next

-----------------------------------------------------------------------------
(* A step from which nothing departs keeps the relation.                    *)
LEMMA Succeeds ==
    ASSUME NEW op, NEW defined, NEW res, Ends(res), Advance(op, defined, res),
           status' = "running"
    PROVE  res.tag = "ok"
BY DEF Ends, Advance

LEMMA DefineRelated ==
    ASSUME Follows, IInv, Resolves, BothDefine, status' = "running", departures' = {}
    PROVE  Related' /\ Quiet
<1>1. CASE \/ Both(QubitAllocate, Qir!Allocate, {})
           \/ \E n \in 0 .. MaxLength : Both(QubitAllocateArray(n), Qir!AllocateArray(n), {})
  <2>1. \A n \in 0 .. MaxLength : n \in Nat
    BY BoundsAssumption
  <2> QED
    BY <1>1, <2>1, AllocateRelated, AllocateArrayRelated DEF Both
<1>2. CASE \/ \E n \in 0 .. MaxLength : Both(ArrayCreate, Qir!Create(n), {})
           \/ Both(TupleCreate, Qir!Create(2), {})
           \/ Both(Alloca, Qir!Create(1), {})
  <2>1. \A n \in 0 .. MaxLength : n \in Nat
    BY BoundsAssumption
  <2>2. \E n \in Nat : (ArrayCreate \/ TupleCreate \/ Alloca) /\ Qir!Create(n)
    BY <1>2, <2>1 DEF Both
  <2> QED
    BY <2>2, CreateRelated
<1>3. CASE \E a \in OfType("Array*"), i \in 0 .. MaxLength - 1 :
              Both(ArrayElement(a, i), Qir!Element(a, i), {})
  <2>1. \A i \in 0 .. MaxLength - 1 : i \in Nat
    BY BoundsAssumption
  <2> QED
    BY <1>3, <2>1, ArrayElementRelated DEF Both
<1>4. CASE \E p \in OfType("Qubit**") \union OfType("Num*") : Both(Load(p), Qir!Read(p), {})
  BY <1>4, LoadRelated DEF Both
<1>5. CASE \E g \in GlobalConstants :
              \/ Both(LoadGlobal(g), Qir!Denote(Qir!ANumber(g)), {})
              \/ Both(BitCastGlobal(g), Qir!Address(g), {})
  BY <1>5, LoadGlobalRelated, BitCastGlobalRelated DEF Both
<1>6. CASE \E p \in DOMAIN regs : \E type \in CastsOf(regs[p]) :
              Both(BitCast(p, type), Qir!Cast(p), {})
  <2>1. PICK p \in DOMAIN regs : \E type \in CastsOf(regs[p]) : BitCast(p, type) /\ Qir!Cast(p)
    BY <1>6 DEF Both
  <2>2. PICK type \in CastsOf(regs[p]) : BitCast(p, type) /\ Qir!Cast(p)
    BY <2>1
  <2>3. Advance("bitcast", <<type>>, CastValue(N(p), type))
    BY <2>2 DEF BitCast, Bind
  <2>4. Len(regs) + 1 <= Len(RegisterNames)
    <3>1. Len(<<type>>) = 1
      OBVIOUS
    <3> QED
      BY <2>3, <3>1 DEF Advance
  <2>5. CastValue(N(p), type).tag = "ok"
    BY <2>3, <2>4, CastEnds, Succeeds DEF Follows
  <2> QED
    BY <2>2, <2>5, BitCastRelated
<1>7. CASE \E p \in OfType("Struct*"), i \in 0 .. 1 :
              Both(GetElementPtr(p, i), Qir!Element(p, i), {})
  <2>1. PICK p \in OfType("Struct*"), i \in 0 .. 1 : GetElementPtr(p, i) /\ Qir!Element(p, i)
    BY <1>7 DEF Both
  <2>2. Advance("getelementptr", <<FieldType(i)>>, FieldValue(N(p), i))
    BY <2>1 DEF GetElementPtr, Bind
  <2>3. FieldValue(N(p), i).tag = "ok" /\ i \in {0, 1}
    BY <2>2, FieldEnds, Succeeds
  <2> QED
    BY <2>1, <2>3, GetElementPtrRelated
<1>8. CASE \E type \in IgnoredTypes : \E v \in Computed(type) :
              Both(Ignored(type), Qir!Denote(v), When(type = "Qubit*", "computed qubit"))
  <2>0. PICK type \in IgnoredTypes : \E v \in Computed(type) :
           Both(Ignored(type), Qir!Denote(v), When(type = "Qubit*", "computed qubit"))
    BY <1>8
  <2>1. PICK v \in Computed(type) :
           Both(Ignored(type), Qir!Denote(v), When(type = "Qubit*", "computed qubit"))
    BY <2>0
  <2>2. Ignored(type) /\ Qir!Denote(v) /\ When(type = "Qubit*", "computed qubit") = {}
    BY <2>1 DEF Both
  <2>3. type # "Qubit*"
    BY <2>2 DEF When
  <2>4. type \in {"Array*", "Num", "Result*"}
    BY <2>3 DEF IgnoredTypes
  <2> QED
    BY <2>2, <2>4, IgnoredRelated
<1> QED
  BY <1>1, <1>2, <1>3, <1>4, <1>5, <1>6, <1>7, <1>8 DEF BothDefine

LEMMA ModifyRelated ==
    ASSUME Follows, Resolves, BothModify, status' = "running", departures' = {}
    PROVE  Related' /\ Quiet
<1>1. CASE \E q \in OfType("Qubit*") : Both(QubitRelease(q), Qir!Release(q), {})
  BY <1>1, ReleaseRelated DEF Both
<1>2. CASE \/ \E p \in OfType("Qubit**"), q \in OfType("Qubit*") :
                 Both(StoreReg(p, q), Qir!Write(p, meaning[q]),
                      When(~InTurn(p), "store out of order"))
           \/ \E p \in OfType("Num*"), x \in OfType("Num") :
                 Both(StoreReg(p, x), Qir!Write(p, meaning[x]),
                      When(~InTurn(p), "store out of order"))
  <2>1. PICK p \in OfType("Qubit**") \union OfType("Num*"),
             r \in OfType("Qubit*") \union OfType("Num") :
           Both(StoreReg(p, r), Qir!Write(p, meaning[r]),
                When(~InTurn(p), "store out of order"))
    BY <1>2
  <2>2. StoreReg(p, r) /\ Qir!Write(p, meaning[r]) /\ When(~InTurn(p), "store out of order") = {}
    BY <2>1 DEF Both
  <2>3. InTurn(p)
    BY <2>2 DEF When
  <2>4. Advance("store", <<>>, StoreRegister(N(p), N(r)))
    BY <2>2 DEF StoreReg, Update
  <2>5. StoreRegister(N(p), N(r)).tag = "ok"
    BY <2>4, StoreRegisterEnds, Succeeds
  <2> QED
    BY <2>2, <2>3, <2>5, StoreRegRelated
<1>3. CASE \E p \in OfType("Num*"), c \in Numbers \union {"null"} :
              Both(StoreConst(p, c), Qir!Write(p, Qir!ANumber(c)),
                   When(~InTurn(p), "store out of order"))
  <2>1. PICK p \in OfType("Num*"), c \in Numbers \union {"null"} :
           Both(StoreConst(p, c), Qir!Write(p, Qir!ANumber(c)),
                When(~InTurn(p), "store out of order"))
    BY <1>3
  <2>2. /\ StoreConst(p, c) /\ Qir!Write(p, Qir!ANumber(c))
        /\ When(~InTurn(p), "store out of order") = {}
    BY <2>1 DEF Both
  <2>3. InTurn(p)
    BY <2>2 DEF When
  <2>4. Advance("store", <<>>, StoreConstant(N(p), c))
    BY <2>2 DEF StoreConst, Update
  <2>5. StoreConstant(N(p), c).tag = "ok"
    BY <2>4, StoreConstantEnds, Succeeds
  <2> QED
    BY <2>2, <2>3, <2>5, StoreConstRelated
<1>4. CASE \E e \in Refusals : Both(Refuse(e), FALSE, {})
  BY <1>4 DEF Both
<1> QED
  BY <1>1, <1>2, <1>3, <1>4 DEF BothModify

-----------------------------------------------------------------------------
LEMMA EmitCall ==
    ASSUME Follows, NEW op, NEW defined, NEW found, Ends(found), status' = "running",
           NEW gate, Emit(op, defined, IF found.tag = "ok" THEN Ok(gate) ELSE found)
    PROVE  found.tag = "ok" /\ Emit(op, defined, Ok(gate))
BY DEF Emit, Advance, Ends, Ok

LEMMA GateRelated ==
    ASSUME Follows, Resolves, status' = "running",
           NEW g \in DOMAIN PlainGate, NEW args \in [1 .. Arity(g) -> OfType("Qubit*")],
           Gate(g, args), Qir!Gate(g, args)
    PROVE  Related' /\ \E gate : Emitted(gate)
<1> DEFINE found == QubitsFromCall(Names(args))
           gate  == GateOn(PlainGate[g], g \in Daggered, <<>>, 0, found.val)
<1>1. Ends(found)
  <2>1. Arity(g) \in Nat /\ DOMAIN args = 1 .. Arity(g)
    BY DEF Arity
  <2> QED
    BY <2>1, NamesListed, CallQubitsEnd
<1>2. Emit(g, <<>>, IF found.tag = "ok" THEN Ok(gate) ELSE found)
  BY DEF Gate, Then
<1>3. found.tag = "ok" => Performs(ActOf(gate), <<>>)
  BY GateActs
<1> HIDE DEF gate, found
<1>4. found.tag = "ok" /\ Emit(g, <<>>, Ok(gate)) /\ Ok(gate).tag = "ok" /\ Ok(gate).val = gate
  BY <1>1, <1>2, EmitCall DEF Ok
<1> QED
  BY <1>3, <1>4, EmitRelated

LEMMA RotationSucceeds ==
    ASSUME Resolves, status' = "running", NEW g, NEW q, NEW a, Rotation(g, <<q>>, <<a>>)
    PROVE  /\ RotationOn(RotationGate[g], <<q>>, <<a>>).tag = "ok"
           /\ a \in Numbers
<1> DEFINE res == RotationOn(RotationGate[g], <<q>>, <<a>>)
           found == QubitsFromCall(Names(<<q>>))
<1>1. Ends(found)
  <2>1. 1 \in Nat /\ DOMAIN <<q>> = 1 .. 1
    OBVIOUS
  <2> QED
    BY <2>1, NamesListed, CallQubitsEnd
<1>2. Ends(res)
  BY <1>1 DEF RotationOn, Then, Ends, Ok, Err
<1>3. Emit(g, <<>>, res)
  BY DEF Rotation
<1>4. res.tag = "ok" => a \in Numbers
  <2>1. 1 \in DOMAIN <<a>> /\ <<a>>[1] = a
    OBVIOUS
  <2> QED
    BY <2>1 DEF RotationOn, Then, Err
<1> HIDE DEF res
<1>5. res.tag = "ok"
  BY <1>2, <1>3, Succeeds DEF Emit
<1> QED
  BY <1>4, <1>5 DEF res

LEMMA RotationRelated ==
    ASSUME Follows, Resolves, status' = "running",
           NEW g \in DOMAIN RotationGate, NEW q \in OfType("Qubit*"), NEW a, a \notin Inexact,
           Rotation(g, <<q>>, <<a>>), Qir!Rotate(g, q, a)
    PROVE  Related' /\ \E gate : Emitted(gate)
<1> DEFINE res == RotationOn(RotationGate[g], <<q>>, <<a>>)
<1>1. res.tag = "ok" /\ a \in Numbers \ Inexact
  BY RotationSucceeds
<1>2. Emit(g, <<>>, res)
  BY DEF Rotation
<1>3. Performs(ActOf(res.val), <<>>)
  BY <1>1, RotationActs
<1> HIDE DEF res
<1> QED
  BY <1>1, <1>2, <1>3, EmitRelated

LEMMA UserCallRelated ==
    ASSUME Follows, Resolves, status' = "running",
           NEW k \in Nat, NEW args, Listed(args, k),
           \A i \in 1 .. k : args[i] \in OfType("Qubit*"),
           NEW cs, NEW d \in {<<>>, <<"Num">>}, NEW v, d = <<"Num">> => v \in Computed("Num"),
           UserCall(args, cs, d), Qir!Call(Circuit, args, <<>>, [i \in DOMAIN d |-> v])
    PROVE  Related' /\ \E gate : Emitted(gate)
<1> DEFINE found == QubitsFromCall(Names(args))
           gate  == GateOn(Circuit, FALSE, <<>>, 0, found.val)
<1>1. Ends(found)
  <2>1. DOMAIN args = 1 .. k
    BY ListedIs
  <2> QED
    BY <2>1, NamesListed, CallQubitsEnd
<1>2. Emit("call", d, IF found.tag = "ok" THEN Ok(gate) ELSE found)
  BY DEF UserCall, Then
<1>3. found.tag = "ok" => Performs(ActOf(gate), [i \in DOMAIN d |-> v])
  BY UserCallActs
<1> HIDE DEF gate, found
<1>4. found.tag = "ok" /\ Emit("call", d, Ok(gate)) /\ Ok(gate).tag = "ok" /\ Ok(gate).val = gate
  BY <1>1, <1>2, EmitCall DEF Ok
<1>5. CASE d = <<>>
  <2>1. [i \in DOMAIN d |-> v] = <<>>
    BY <1>5
  <2> QED
    BY <1>3, <1>4, <1>5, <2>1, EmitRelated
<1>6. CASE d = <<"Num">>
  <2>1. [i \in DOMAIN d |-> v] = <<v>>
    BY <1>6
  <2>2. v \in Denotations
    BY <1>6, ComputedDenotes
  <2>3. Emit("call", <<"Num">>, Ok(gate)) /\ Performs(ActOf(Ok(gate).val), <<v>>)
    BY <1>3, <1>4, <1>6, <2>1
  <2> QED
    BY <1>4, <2>2, <2>3, EmitDefines
<1> QED
  BY <1>5, <1>6

LEMMA MeasureSucceeds ==
    ASSUME NEW op, NEW qubit, Ends(qubit), Measure(op, qubit), status' = "running"
    PROVE  qubit.tag = "ok"
BY DEF Measure, Emit, Advance, Then, Ends, Ok

LEMMA AllQubitsPicked ==
    ASSUME NEW n, NEW args, Listed(args, n), \A i \in 1 .. n : IsQubit(args[i])
    PROVE  /\ Picked(args, {i \in DOMAIN args : IsQubit(args[i])}) = args
           /\ Picked([i \in DOMAIN args |-> "argument"], {i \in DOMAIN args : ~IsQubit(args[i])})
                 = <<>>
<1>1. DOMAIN args = 1 .. n
  BY ListedIs
<1>2. {i \in DOMAIN args : IsQubit(args[i])} = 1 .. n
  BY <1>1
<1>3. {i \in DOMAIN args : ~IsQubit(args[i])} = {}
  BY <1>1
<1> QED
  BY <1>2, <1>3, PickedAll, PickedNone

LEMMA ArgsListed ==
    ASSUME NEW args \in Args(DOMAIN regs)
    PROVE  \E n \in Nat : /\ Listed(args, n) /\ DOMAIN args = 1 .. n
                          /\ \A i \in 1 .. n : args[i] \in DOMAIN regs
<1>1. PICK n \in 0 .. MaxArity : args \in [1 .. n -> DOMAIN regs]
  BY DEF Args
<1>2. n \in Nat
  BY BoundsAssumption
<1>3. args = [i \in 1 .. n |-> args[i]]
  BY <1>1
<1> QED
  BY <1>1, <1>2, <1>3 DEF Listed

(* A call of a circuit, as the disjunct of Applies states it. *)
CalledBoth(args, cs, d, v) ==
    Both(UserCall(args, cs, d),
         Qir!Call(Circuit, Picked(args, {i \in DOMAIN args : IsQubit(args[i])}),
                  Picked([i \in DOMAIN args |-> "argument"],
                         {i \in DOMAIN args : ~IsQubit(args[i])}) \o cs,
                  [i \in DOMAIN d |-> v]),
         When(d = <<"Qubit*">>, "computed qubit")
           \union When(cs # <<>> \/ \E i \in DOMAIN args : ~IsQubit(args[i]),
                       "classical argument"))

LEMMA PureCall ==
    ASSUME status' = "running", departures' = {},
           NEW args \in Args(DOMAIN regs), NEW cs, NEW d \in {<<>>, <<"Num">>, <<"Qubit*">>},
           NEW v \in IF d = <<>> THEN {Qir!Opaque} ELSE Computed(d[1]),
           CalledBoth(args, cs, d, v)
    PROVE  /\ UserCall(args, cs, d) /\ Qir!Call(Circuit, args, <<>>, [i \in DOMAIN d |-> v])
           /\ \A i \in DOMAIN args : args[i] \in OfType("Qubit*")
           /\ d \in {<<>>, <<"Num">>}
           /\ d = <<"Num">> => v \in Computed("Num")
<1> DEFINE qubits    == Picked(args, {i \in DOMAIN args : IsQubit(args[i])})
           others    == Picked([i \in DOMAIN args |-> "argument"],
                               {i \in DOMAIN args : ~IsQubit(args[i])})
           defined   == [i \in DOMAIN d |-> v]
<1>0. /\ UserCall(args, cs, d) /\ Qir!Call(Circuit, qubits, others \o cs, defined)
      /\ departures' = departures \union (When(d = <<"Qubit*">>, "computed qubit")
            \union When(cs # <<>> \/ \E i \in DOMAIN args : ~IsQubit(args[i]),
                        "classical argument"))
  BY Zenon DEF CalledBoth, Both
<1>1. /\ UserCall(args, cs, d) /\ Qir!Call(Circuit, qubits, others \o cs, defined)
      /\ When(d = <<"Qubit*">>, "computed qubit") = {}
      /\ When(cs # <<>> \/ \E i \in DOMAIN args : ~IsQubit(args[i]),
              "classical argument") = {}
  <2> DEFINE w1 == When(d = <<"Qubit*">>, "computed qubit")
             w2 == When(cs # <<>> \/ \E i \in DOMAIN args : ~IsQubit(args[i]),
                        "classical argument")
  <2>1. departures' = departures \union (w1 \union w2)
    BY <1>0
  <2> HIDE DEF w1, w2
  <2>2. w1 = {} /\ w2 = {}
    BY <2>1
  <2> QED
    BY <1>0, <2>2 DEF w1, w2
<1>2. d # <<"Qubit*">> /\ cs = <<>> /\ \A i \in DOMAIN args : IsQubit(args[i])
  BY <1>1 DEF When
<1>3. PICK n \in Nat : /\ Listed(args, n) /\ DOMAIN args = 1 .. n
                      /\ \A i \in 1 .. n : args[i] \in DOMAIN regs
  BY ArgsListed
<1>4. \A i \in 1 .. n : args[i] \in OfType("Qubit*") /\ IsQubit(args[i])
  BY <1>2, <1>3 DEF OfType, IsQubit
<1>5. qubits = args /\ others \o cs = <<>>
  <2>1. \A i \in 1 .. n : IsQubit(args[i])
    BY <1>4
  <2>2. Listed(args, n) /\ n \in Nat
    BY <1>3
  <2>3. qubits = args /\ others = <<>>
    BY <2>1, <2>2, AllQubitsPicked
  <2> HIDE DEF qubits, others
  <2>4. <<>> \o <<>> = <<>>
    OBVIOUS
  <2> QED
    BY <1>2, <2>3, <2>4
<1> HIDE DEF qubits, others, defined
<1>6. Qir!Call(Circuit, args, <<>>, defined)
  BY <1>1, <1>5
<1>7. d \in {<<>>, <<"Num">>}
  BY <1>2
<1>8. d = <<"Num">> => v \in Computed("Num")
  <2>1. ASSUME d = <<"Num">>
        PROVE  v \in Computed("Num")
    <3>1. d # <<>> /\ d[1] = "Num"
      BY <2>1
    <3>2. v \in IF d = <<>> THEN {Qir!Opaque} ELSE Computed(d[1])
      OBVIOUS
    <3> QED
      BY <3>1, <3>2
  <2> QED
    BY <2>1
<1> QED
  BY <1>1, <1>3, <1>4, <1>6, <1>7, <1>8 DEF defined

LEMMA CallsRelated ==
    ASSUME Follows, Resolves, status' = "running", departures' = {},
           NEW args \in Args(DOMAIN regs), NEW cs, NEW d \in {<<>>, <<"Num">>, <<"Qubit*">>},
           NEW v \in IF d = <<>> THEN {Qir!Opaque} ELSE Computed(d[1]),
           CalledBoth(args, cs, d, v)
    PROVE  Related' /\ \E gate : Emitted(gate)
<1>1. PICK n \in Nat : Listed(args, n) /\ DOMAIN args = 1 .. n
  BY ArgsListed
<1>2. /\ UserCall(args, cs, d) /\ Qir!Call(Circuit, args, <<>>, [i \in DOMAIN d |-> v])
      /\ \A i \in DOMAIN args : args[i] \in OfType("Qubit*")
      /\ d \in {<<>>, <<"Num">>}
      /\ d = <<"Num">> => v \in Computed("Num")
  BY PureCall
<1>3. \A i \in 1 .. n : args[i] \in OfType("Qubit*")
  BY <1>1, <1>2
<1> QED
  BY <1>1, <1>2, <1>3, UserCallRelated

LEMMA ApplyRelated ==
    ASSUME Follows, Resolves, BothApply, status' = "running", departures' = {}
    PROVE  Related' /\ \E gate : Emitted(gate)
<1>0. TypeOK
  BY DEF Follows
<1>1. CASE \E g \in DOMAIN PlainGate : \E args \in [1 .. Arity(g) -> OfType("Qubit*")] :
              Both(Gate(g, args), Qir!Gate(g, args), {})
  BY <1>1, GateRelated DEF Both
<1>2. CASE \E g \in DOMAIN RotationGate, q \in OfType("Qubit*") :
              \/ \E a \in Numbers \union {"null"} :
                    Both(Rotation(g, <<q>>, <<a>>), Qir!Rotate(g, q, a),
                         When(a \in Inexact, "integer angle"))
              \/ \E x \in OfType("Num") :
                    Both(Rotation(g, <<x, q>>, <<>>), Qir!Rotate(g, q, Angle(x)), {"computed angle"})
  <2>1. PICK g \in DOMAIN RotationGate, q \in OfType("Qubit*") :
              \/ \E a \in Numbers \union {"null"} :
                    Both(Rotation(g, <<q>>, <<a>>), Qir!Rotate(g, q, a),
                         When(a \in Inexact, "integer angle"))
              \/ \E x \in OfType("Num") :
                    Both(Rotation(g, <<x, q>>, <<>>), Qir!Rotate(g, q, Angle(x)), {"computed angle"})
    BY <1>2
  <2>2. \E a : Rotation(g, <<q>>, <<a>>) /\ Qir!Rotate(g, q, a) /\ a \notin Inexact
    BY <2>1 DEF Both, When
  <2> QED
    BY <2>2, RotationRelated
<1>3. CASE \E args \in Args(DOMAIN regs), cs \in Consts, d \in {<<>>, <<"Num">>, <<"Qubit*">>} :
           \E v \in IF d = <<>> THEN {Qir!Opaque} ELSE Computed(d[1]) :
              Both(UserCall(args, cs, d),
                   Qir!Call(Circuit, Picked(args, {i \in DOMAIN args : IsQubit(args[i])}),
                            Picked([i \in DOMAIN args |-> "argument"],
                                   {i \in DOMAIN args : ~IsQubit(args[i])}) \o cs,
                            [i \in DOMAIN d |-> v]),
                   When(d = <<"Qubit*">>, "computed qubit")
                     \union When(cs # <<>> \/ \E i \in DOMAIN args : ~IsQubit(args[i]),
                                 "classical argument"))
  <2>1. \E args \in Args(DOMAIN regs), cs \in Consts, d \in {<<>>, <<"Num">>, <<"Qubit*">>} :
           \E v \in IF d = <<>> THEN {Qir!Opaque} ELSE Computed(d[1]) : CalledBoth(args, cs, d, v)
    BY <1>3, Zenon DEF CalledBoth
  <2> QED
    BY <2>1, CallsRelated
<1>4. CASE \E a \in OfType("Array*"), q \in OfType("Qubit*") :
              Both(XCtlCall(a, q), Qir!Controlled("X__ctl", a, q),
                   When(~OneCell(a), "several controls"))
  <2>1. PICK a \in OfType("Array*"), q \in OfType("Qubit*") :
           Both(XCtlCall(a, q), Qir!Controlled("X__ctl", a, q),
                When(~OneCell(a), "several controls"))
    BY <1>4
  <2>2. XCtlCall(a, q) /\ Qir!Controlled("X__ctl", a, q) /\ When(~OneCell(a), "several controls") = {}
    BY <2>1 DEF Both
  <2>3. OneCell(a)
    BY <2>2 DEF When
  <2>4. Emit("x_ctl", <<>>, XCtl(N(a), N(q)))
    BY <2>2 DEF XCtlCall
  <2>5. XCtl(N(a), N(q)).tag = "ok"
    BY <2>4, XCtlEnds, Succeeds DEF Emit
  <2>6. Performs(ActOf(XCtl(N(a), N(q)).val), <<>>)
    BY <2>2, <2>3, <2>5, XCtlActs
  <2> QED
    BY <2>4, <2>5, <2>6, EmitRelated
<1>5. CASE \E a \in OfType("Array*"), q \in OfType("Qubit*"), g \in DOMAIN ControlledName :
              Both(GateCtl(g, a, q), Qir!Controlled(g, a, q),
                   When(g \in {"I__ctl", "S__ctl"}, "misnamed gate"))
  <2>1. PICK a \in OfType("Array*"), q \in OfType("Qubit*"), g \in DOMAIN ControlledName :
           Both(GateCtl(g, a, q), Qir!Controlled(g, a, q),
                When(g \in {"I__ctl", "S__ctl"}, "misnamed gate"))
    BY <1>5
  <2>2. /\ GateCtl(g, a, q) /\ Qir!Controlled(g, a, q)
        /\ When(g \in {"I__ctl", "S__ctl"}, "misnamed gate") = {}
    BY <2>1 DEF Both
  <2>3. g \notin {"I__ctl", "S__ctl"}
    BY <2>2 DEF When
  <2> DEFINE res == ControlledGate(ControlledName[g], N(a), N(q))
  <2>4. Emit(g, <<>>, res)
    BY <2>2 DEF GateCtl
  <2>5. res.tag = "ok"
    BY <1>0, <2>4, ControlledGateEnds, Succeeds DEF Emit
  <2>6. Performs(ActOf(res.val), <<>>)
    BY <2>2, <2>3, <2>5, GateCtlActs
  <2> HIDE DEF res
  <2> QED
    BY <2>4, <2>5, <2>6, EmitRelated
<1>6. CASE \E a \in OfType("Array*"), t \in OfType("Struct*") \union OfType("Tuple*"),
              g \in DOMAIN ControlledRotationName :
                 Both(RotationCtl(g, a, t), Qir!ControlledRotation(g, a, t),
                      When(InexactAngle(t), "integer angle"))
  <2>1. PICK a \in OfType("Array*"), t \in OfType("Struct*") \union OfType("Tuple*"),
             g \in DOMAIN ControlledRotationName :
           RotationCtl(g, a, t) /\ Qir!ControlledRotation(g, a, t) /\ ~InexactAngle(t)
    BY <1>6 DEF Both, When
  <2> DEFINE res == ControlledRotation(ControlledRotationName[g], N(a), N(t))
  <2>2. Emit(g, <<>>, res)
    BY <2>1 DEF RotationCtl
  <2>3. res.tag = "ok"
    BY <1>0, <2>2, ControlledRotationEnds, Succeeds DEF Emit
  <2>4. Performs(ActOf(res.val), <<>>)
    BY <2>1, <2>3, RotationCtlActs
  <2> HIDE DEF res
  <2> QED
    BY <2>2, <2>3, <2>4, EmitRelated
<1>7. CASE \E q \in OfType("Qubit*") : Both(MBodyCall(q), Qir!MeasureQubit(q, Fresh), {})
  <2>1. PICK q \in OfType("Qubit*") : MBodyCall(q) /\ Qir!MeasureQubit(q, Fresh)
    BY <1>7 DEF Both
  <2>2. Ends(MBody(<<N(q)>>))
    <3>1. DOMAIN <<N(q)>> = 1 .. 1
      OBVIOUS
    <3>2. Ends(QubitsFromCall(<<N(q)>>))
      BY <3>1, CallQubitsEnd
    <3> QED
      BY <3>2 DEF MBody, Then, Ends, Ok, Err
  <2>3. MBody(<<N(q)>>).tag = "ok"
    BY <2>1, <2>2, MeasureSucceeds DEF MBodyCall
  <2> QED
    BY <2>1, <2>3, MBodyRelated
<1>8. CASE \E b, a \in OfType("Array*") :
              Both(MeasureBodyCall(b, a), Qir!MeasureArray(b, a, Fresh),
                   When(~OneCell(a), "joint measurement")
                     \union When(~InZ(b), "other basis"))
  <2>1. PICK b \in OfType("Array*"), a \in OfType("Array*") :
           Both(MeasureBodyCall(b, a), Qir!MeasureArray(b, a, Fresh),
                When(~OneCell(a), "joint measurement")
                  \union When(~InZ(b), "other basis"))
    BY <1>8
  <2>2. /\ MeasureBodyCall(b, a) /\ Qir!MeasureArray(b, a, Fresh)
        /\ When(~OneCell(a), "joint measurement") = {}
        /\ When(~InZ(b), "other basis") = {}
    BY <2>1 DEF Both
  <2>3. OneCell(a) /\ InZ(b)
    BY <2>2 DEF When
  <2>4. MeasureBody(N(a)).tag = "ok"
    BY <2>2, MeasureBodyEnds, MeasureSucceeds, ArgumentTwo DEF MeasureBodyCall
  <2> QED
    BY <2>2, <2>3, <2>4, MeasureBodyRelated
<1>9. CASE \E a \in OfType("Array*"), q \in OfType("Qubit*") :
              \/ Both(XCtlCall(a, q), Qir!Controlled("X__ctl", a, q),
                      When(~OneCell(a), "several controls"))
              \/ \E g \in DOMAIN ControlledName :
                    Both(GateCtl(g, a, q), Qir!Controlled(g, a, q),
                         When(g \in {"I__ctl", "S__ctl"}, "misnamed gate"))
  BY <1>4, <1>5, <1>9
<1> QED
  BY <1>1, <1>2, <1>3, <1>6, <1>7, <1>8, <1>9 DEF BothApply

-----------------------------------------------------------------------------
LEMMA InitiallyRelated ==
    ASSUME NamesDistinct, BothInit
    PROVE  Related /\ Acts = trace
<1>1. /\ regs = Params /\ locals = [n \in PrimedNames |-> Qubit(Variable(n))]
      /\ nextQubit = 0 /\ output = <<>>
      /\ meaning = Formals /\ memory = <<>> /\ allocated = 0 /\ released = {} /\ trace = <<>>
  BY DEF BothInit, Init, Qir!Init
<1>2. Len(Params) \in Nat /\ DOMAIN Params = 1 .. Len(Params)
      /\ DOMAIN Params \subseteq DOMAIN RegisterNames
  BY SeqNames, ParamsAssumption
<1>3. /\ DOMAIN regs = DOMAIN Params /\ DOMAIN memory = {} /\ DOMAIN output = {}
  BY <1>1
<1>4. ASSUME NEW r \in DOMAIN regs
      PROVE  /\ IsBound(r) <=> regs[r] = "Qubit*"
             /\ IsBound(r) => Entry(r) = Qubit(Variable(N(r)))
             /\ meaning[r] = IF regs[r] = "Qubit*" THEN Qir!AQubit(Variable(N(r))) ELSE Qir!Opaque
  <2>1. N(r) \in PrimedNames <=> Params[r] = "Qubit*"
    <3>1. ASSUME NEW j \in DOMAIN Params, RegisterNames[j] = N(r)
          PROVE  j = r
      BY <1>2, <1>3, <3>1 DEF NamesDistinct, N
    <3> QED
      BY <1>3, <3>1 DEF PrimedNames, N
  <2>2. IsBound(r) <=> N(r) \in PrimedNames
    BY <1>1 DEF IsBound
  <2>3. IsBound(r) => Entry(r) = Qubit(Variable(N(r)))
    BY <1>1, <2>2 DEF Entry
  <2>4. meaning[r] = IF regs[r] = "Qubit*" THEN Qir!AQubit(Variable(N(r))) ELSE Qir!Opaque
    BY <1>1 DEF Formals, N, Qir!AQubit, Qir!Opaque
  <2> QED
    BY <1>1, <2>1, <2>2, <2>3, <2>4
<1>5. MachineTyped
  <2>1. \A r \in DOMAIN regs : meaning[r] \in Denotations
    <3>1. \A r \in DOMAIN regs : Variable(N(r)) \in QuilQubit
      BY <1>2, <1>3, NamesAssumption DEF Variable, QuilQubit, N
    <3>2. \A q \in QuilQubit : Qir!AQubit(q) \in Denotations
      BY DEF Denotations, Qir!AQubit
    <3>3. Qir!Opaque \in Denotations
      BY DEF Denotations
    <3> QED
      BY <1>4, <3>1, <3>2, <3>3
  <2>2. DOMAIN meaning = 1 .. Len(Params)
    BY <1>1, <1>2 DEF Formals
  <2>3. meaning \in [1 .. Len(Params) -> Denotations]
    <3>1. meaning = [i \in 1 .. Len(Params) |-> meaning[i]]
      BY <1>1, <1>2 DEF Formals
    <3> QED
      BY <1>2, <1>3, <2>1, <3>1
  <2>4. meaning \in Seq(Denotations) /\ Len(meaning) = Len(Params)
    BY <1>2, <2>3
  <2>5. memory \in Seq(Seq(Denotations))
    BY <1>1
  <2> QED
    BY <1>1, <2>4, <2>5 DEF MachineTyped
<1>6. EntriesMean
  <2>1. ASSUME NEW r \in DOMAIN regs, IsBound(r)
        PROVE  EntryMeans(r)
    <3>1. regs[r] = "Qubit*" /\ QubitMeans(r)
      BY <1>4, <2>1 DEF QubitMeans, Qubit
    <3> QED
      BY <3>1 DEF EntryMeans, Addresses
  <2> QED
    BY <2>1 DEF EntriesMean
<1>7. BlocksApart
  BY <1>3 DEF BlocksApart
<1>8. PointersValid
  BY <1>4 DEF PointersValid, PointerValid, Pointers, Addresses
<1>9. LooseMean
  BY <1>4 DEF LooseMean, LooseMeans, Addresses
<1>10. Acts = trace
  <2>1. Acts = [i \in {} |-> ActOf(output[i])]
    BY <1>3 DEF Acts
  <2>2. [i \in {} |-> ActOf(output[i])] = <<>>
    OBVIOUS
  <2> QED
    BY <1>1, <2>1, <2>2
<1> QED
  BY <1>5, <1>6, <1>7, <1>8, <1>9, <1>10 DEF Related

-----------------------------------------------------------------------------
(* The inductive invariant: as long as nothing departed, the environment    *)
(* means what the registers of the machine denote, and the acts of the      *)
(* output are what the machine performed.                                   *)
FollowInv == departures = {} => Related /\ Acts = trace

LEMMA FollowKept ==
    ASSUME NamesDistinct, IInv, OutputInv, FollowInv, [BothNext]_both
    PROVE  FollowInv'
<1> SUFFICES ASSUME departures' = {}
             PROVE  Related' /\ Acts' = trace'
  BY DEF FollowInv
<1>1. OutputListed /\ TypeOK
  BY DEF OutputInv
<1>2. departures = {}
  BY NextBoth DEF both, Departs
<1>3. Follows /\ Acts = trace
  BY <1>1, <1>2 DEF Follows, FollowInv
<1>4. Resolves
  BY LocalsBackwards, BackwardsResolves DEF IInv, Resolves, ResolveAlias
<1>5. CASE UNCHANGED both \/ (BothNext /\ status' # "running")
  <2>1. Unmoved /\ UNCHANGED machine
    BY <1>5, NextBoth, StepFails DEF both, vars, Unmoved
  <2> QED
    BY <1>1, <1>3, <2>1, UnmovedRelated, TogetherKept
<1>6. CASE BothNext /\ status' = "running"
  <2>1. ~Both(Finish, FALSE, {})
    BY <1>6 DEF Both
  <2>2. Related' /\ (Quiet \/ \E g : Emitted(g))
    BY <1>3, <1>4, <1>6, <2>1, DefineRelated, ModifyRelated, ApplyRelated DEF BothNext
  <2> QED
    BY <1>1, <1>3, <2>2, TogetherKept
<1> QED
  BY <1>5, <1>6

LEMMA BothRefines == BothSpec => Spec
<1>1. BothInit => Init
  BY DEF BothInit
<1>2. [BothNext]_both => [Next]_vars
  BY NextBoth DEF both
<1> QED
  BY <1>1, <1>2, PTL DEF BothSpec, Spec

(* If the names of the registers are distinct, the gates emitted for a body *)
(* do what the instructions translated so far do, on the same qubits and in *)
(* the same order, as long as nothing departed: nothing the translator does *)
(* to its environment (src/src/translate/function.rs, environment/mod.rs)   *)
(* loses track of what a register denotes. Measurements are compared with   *)
(* the bases they are given: in another one than Z they depart.             *)
THEOREM Faithful ==
    ASSUME NamesDistinct
    PROVE  BothSpec => []FaithfulOutput
<1>1. BothInit => FollowInv
  BY InitiallyRelated DEF FollowInv
<1>2. IInv /\ OutputInv /\ FollowInv /\ [BothNext]_both => FollowInv'
  BY FollowKept
<1>3. FollowInv => FaithfulOutput
  BY DEF FollowInv, FaithfulOutput
<1>4. Spec => []IInv
  BY Invariance
<1>5. Spec => []OutputInv
  BY OutputInvariance
<1> QED
  BY <1>1, <1>2, <1>3, <1>4, <1>5, BothRefines, PTL DEF BothSpec

-----------------------------------------------------------------------------
(* The refinement. As long as the acts of the output are the trace, what    *)
(* the machine does is what the machine of the refinement mapping does.     *)
Same == Acts = trace /\ Acts' = trace'

LEMMA CopiesOfPromise ==
    /\ \A turn, cs, ts : Promise!Acting(turn, cs, ts) = Qir!Acting(turn, cs, ts)
    /\ \A vs : Promise!QubitsOf(vs) = Qir!QubitsOf(vs)
    /\ \A rs : Promise!Values(rs) = Qir!Values(rs)
    /\ \A g : Promise!Intended(g) = Qir!Intended(g)
    /\ \A g, a : Promise!IntendedBy(g, a) = Qir!IntendedBy(g, a)
    /\ \A axis, eighths, angles : Promise!Turn(axis, eighths, angles) = Qir!Turn(axis, eighths, angles)
    /\ \A q, n : Promise!Measurement(q, n) = Qir!Measurement(q, n)
    /\ \A i : Promise!Fixed(i) = Qir!Fixed(i)
<1>1. \A turn, cs, ts : Promise!Acting(turn, cs, ts) = Qir!Acting(turn, cs, ts)
  BY DEF Promise!Acting, Qir!Acting
<1>2. \A vs : Promise!QubitsOf(vs) = Qir!QubitsOf(vs)
  BY DEF Promise!QubitsOf, Qir!QubitsOf
<1>3. \A rs : Promise!Values(rs) = Qir!Values(rs)
  BY DEF Promise!Values, Qir!Values
<1>4. \A g : Promise!Intended(g) = Qir!Intended(g)
  BY DEF Promise!Intended, Qir!Intended, Promise!Turn, Qir!Turn, Promise!Pauli, Qir!Pauli,
         Promise!Hadamard, Qir!Hadamard, Promise!Phase, Qir!Phase
<1>5. \A g, a : Promise!IntendedBy(g, a) = Qir!IntendedBy(g, a)
  BY DEF Promise!IntendedBy, Qir!IntendedBy, Promise!Turn, Qir!Turn, Promise!AxisOf, Qir!AxisOf
<1>6. \A axis, eighths, angles : Promise!Turn(axis, eighths, angles) = Qir!Turn(axis, eighths, angles)
  BY DEF Promise!Turn, Qir!Turn
<1>7. \A q, n : Promise!Measurement(q, n) = Qir!Measurement(q, n)
  BY DEF Promise!Measurement, Qir!Measurement
<1>8. \A i : Promise!Fixed(i) = Qir!Fixed(i)
  BY DEF Promise!Fixed, Qir!Fixed
<1> QED
  BY <1>1, <1>2, <1>3, <1>4, <1>5, <1>6, <1>7, <1>8

LEMMA PromisedPerform ==
    ASSUME Same, NEW turn, NEW cs, NEW ts, NEW defined, Qir!Perform(turn, cs, ts, defined)
    PROVE  Promise!Perform(turn, cs, ts, defined)
<1>1. trace' = Append(trace, Qir!Acting(turn, Qir!QubitsOf(cs), Qir!QubitsOf(ts)))
  BY DEF Qir!Perform
<1>2. Acts' = Append(Acts, Promise!Acting(turn, Promise!QubitsOf(cs), Promise!QubitsOf(ts)))
  BY <1>1, CopiesOfPromise DEF Same
<1>3. \A i \in DOMAIN (cs \o ts) : Promise!Usable((cs \o ts)[i])
  BY DEF Qir!Perform, Qir!Usable, Promise!Usable
<1>4. meaning' = meaning \o defined /\ UNCHANGED <<memory, allocated, released>>
  BY DEF Qir!Perform
<1> QED
  BY <1>2, <1>3, <1>4 DEF Promise!Perform

LEMMA PromisedExecutes ==
    ASSUME NEW op, NEW rs, NEW cs, Qir!Executes(op, rs, cs)
    PROVE  Promise!Executes(op, rs, cs)
BY DEF Qir!Executes, Promise!Executes, Qir!Instruction, Promise!Instruction

LEMMA PromisedDenote ==
    ASSUME Same, NEW v, Qir!Denote(v)
    PROVE  Promise!Denote(v)
BY DEF Same, Qir!Denote, Promise!Denote, Qir!Defines, Promise!Defines

LEMMA PromisedBlock ==
    ASSUME Same, NEW cs, Qir!NewBlock(cs)
    PROVE  Promise!NewBlock(cs)
BY DEF Same, Qir!NewBlock, Promise!NewBlock, Qir!Defines, Promise!Defines,
       Qir!Pointer, Promise!Pointer

LEMMA PromisedObserve ==
    ASSUME Same, NEW act, NEW vs, Qir!Observe(act, vs)
    PROVE  Promise!Observe(act, vs)
<1>1. /\ \A i \in DOMAIN vs : Promise!Usable(vs[i])
      /\ Promise!Defines(Promise!Opaque) /\ UNCHANGED <<memory, allocated, released>>
  BY DEF Qir!Observe, Qir!Usable, Promise!Usable, Qir!Defines, Promise!Defines,
         Qir!Opaque, Promise!Opaque
<1>2. Acts' = Append(Acts, act)
  BY DEF Qir!Observe, Same
<1> QED
  BY <1>1, <1>2 DEF Promise!Observe

LEMMA PromisedMeasure ==
    ASSUME Same, NEW bases, NEW vs, NEW n, Qir!MeasureValues(bases, vs, n)
    PROVE  Promise!MeasureValues(bases, vs, n)
<1> DEFINE act == IF Len(vs) = 1 /\ bases[1].number \in PauliZ
                  THEN Qir!Measurement(vs[1].qubit, n) ELSE Qir!Joint(bases, vs)
<1>1. /\ Len(bases) = Len(vs) /\ \A i \in DOMAIN bases : "number" \in DOMAIN bases[i]
      /\ Qir!Observe(act, vs)
  BY DEF Qir!MeasureValues
<1>2. Promise!Joint(bases, vs) = Qir!Joint(bases, vs)
  BY CopiesOfPromise DEF Promise!Joint, Qir!Joint, Promise!NumbersOf, Qir!NumbersOf
<1>3. act = IF Len(vs) = 1 /\ bases[1].number \in PauliZ
            THEN Promise!Measurement(vs[1].qubit, n) ELSE Promise!Joint(bases, vs)
  BY <1>2, CopiesOfPromise
<1> HIDE DEF act
<1>4. Promise!Observe(act, vs)
  BY <1>1, PromisedObserve
<1> QED
  BY <1>1, <1>3, <1>4 DEF Promise!MeasureValues

LEMMA PromisedDefine ==
    ASSUME Follows, Same, BothDefine, status' = "running", departures' = {}
    PROVE  Promise!Next
<1>1. DOMAIN meaning = DOMAIN regs
  BY SeqNames DEF Follows, TypeOK, Related, MachineTyped
<1>2. \A p \in DOMAIN regs : p \in Promise!Registers
  BY <1>1 DEF Promise!Registers
<1>3. /\ \A n \in 0 .. MaxLength : n \in Promise!Sizes
      /\ \A i \in 0 .. MaxLength - 1 : i \in Promise!Sizes
      /\ \A i \in 0 .. 1 : i \in Promise!Sizes
      /\ 2 \in Promise!Sizes
  BY BoundsAssumption DEF Promise!Sizes
<1>4. CASE Qir!Allocate
  <2>1. Promise!Allocate
    BY <1>4 DEF Same, Qir!Allocate, Promise!Allocate, Qir!Defines, Promise!Defines,
                Qir!AQubit, Promise!AQubit, Qir!Fixed, Promise!Fixed
  <2> QED
    BY <2>1 DEF Promise!Next
<1>5. ASSUME NEW n \in Promise!Sizes, Qir!AllocateArray(n) \/ Qir!Create(n)
      PROVE  Promise!Next
  <2>1. CASE Qir!AllocateArray(n)
    <3> DEFINE cells == [i \in 1 .. n |-> Qir!AQubit(Qir!Fixed(allocated + i - 1))]
    <3>1. Qir!NewBlock(cells) /\ allocated' = allocated + n
      BY <2>1 DEF Qir!AllocateArray
    <3>2. cells = [i \in 1 .. n |-> Promise!AQubit(Promise!Fixed(allocated + i - 1))]
      BY DEF Qir!AQubit, Promise!AQubit, Qir!Fixed, Promise!Fixed
    <3> HIDE DEF cells
    <3>3. Promise!NewBlock(cells)
      BY <3>1, PromisedBlock
    <3>4. Promise!AllocateArray(n)
      BY <3>1, <3>2, <3>3 DEF Promise!AllocateArray
    <3> QED
      BY <3>4 DEF Promise!Next
  <2>2. CASE Qir!Create(n)
    <3> DEFINE cells == [i \in 1 .. n |-> Qir!Opaque]
    <3>1. Qir!NewBlock(cells) /\ UNCHANGED allocated
      BY <2>2 DEF Qir!Create
    <3>2. cells = [i \in 1 .. n |-> Promise!Opaque]
      BY DEF Qir!Opaque, Promise!Opaque
    <3> HIDE DEF cells
    <3>3. Promise!NewBlock(cells)
      BY <3>1, PromisedBlock
    <3>4. Promise!Create(n)
      BY <3>1, <3>2, <3>3 DEF Promise!Create
    <3> QED
      BY <3>4 DEF Promise!Next
  <2> QED
    BY <1>5, <2>1, <2>2
<1>6. ASSUME NEW p \in Promise!Registers, NEW i \in Promise!Sizes, Qir!Element(p, i)
      PROVE  Promise!Next
  <2>1. Promise!Denote(Promise!Pointer(meaning[p].block, i))
    BY <1>6, PromisedDenote DEF Qir!Element, Qir!Pointer, Promise!Pointer
  <2>2. Promise!Element(p, i)
    BY <1>6, <2>1 DEF Qir!Element, Promise!Element, Qir!Denotes, Promise!Denotes,
                      Qir!Block, Promise!Block
  <2> QED
    BY <2>2 DEF Promise!Next
<1>7. ASSUME NEW p \in Promise!Registers, Qir!Read(p) PROVE Promise!Next
  <2>1. Promise!Denote(Qir!Cell(p))
    BY <1>7, PromisedDenote DEF Qir!Read
  <2>2. Promise!Cell(p) = Qir!Cell(p) /\ Promise!InBounds(p) /\ Promise!Cell(p) # Promise!Opaque
    BY <1>7 DEF Qir!Read, Qir!Cell, Promise!Cell, Qir!InBounds, Promise!InBounds,
                Qir!Denotes, Promise!Denotes, Qir!Block, Promise!Block, Qir!Opaque, Promise!Opaque
  <2>3. Promise!Read(p)
    BY <2>1, <2>2 DEF Promise!Read
  <2> QED
    BY <2>3 DEF Promise!Next
<1>8. ASSUME NEW c \in Values0, Qir!Denote(Qir!ANumber(c)) \/ Qir!Address(c)
      PROVE  Promise!Next
  <2>1. CASE Qir!Denote(Qir!ANumber(c))
    <3>1. Promise!Denote(Promise!ANumber(c))
      BY <2>1, PromisedDenote DEF Qir!ANumber, Promise!ANumber
    <3> QED
      BY <3>1 DEF Promise!Next
  <2>2. CASE Qir!Address(c)
    <3>1. Promise!NewBlock(<<Promise!ANumber(c)>>)
      BY <2>2, PromisedBlock DEF Qir!Address, Qir!ANumber, Promise!ANumber
    <3>2. Promise!Address(c)
      BY <2>2, <3>1 DEF Qir!Address, Promise!Address
    <3> QED
      BY <3>2 DEF Promise!Next
  <2> QED
    BY <1>8, <2>1, <2>2
<1>9. ASSUME NEW p \in Promise!Registers, Qir!Cast(p) PROVE Promise!Next
  <2>1. Promise!Cast(p)
    BY <1>9, PromisedDenote DEF Qir!Cast, Promise!Cast
  <2> QED
    BY <2>1 DEF Promise!Next
<1>10. CASE \/ Both(QubitAllocate, Qir!Allocate, {})
            \/ \E n \in 0 .. MaxLength : Both(QubitAllocateArray(n), Qir!AllocateArray(n), {})
            \/ \E n \in 0 .. MaxLength : Both(ArrayCreate, Qir!Create(n), {})
            \/ Both(TupleCreate, Qir!Create(2), {})
            \/ Both(Alloca, Qir!Create(1), {})
  BY <1>3, <1>4, <1>5, <1>10 DEF Both
<1>11. CASE \/ \E a \in OfType("Array*"), i \in 0 .. MaxLength - 1 :
                  Both(ArrayElement(a, i), Qir!Element(a, i), {})
            \/ \E p \in OfType("Struct*"), i \in 0 .. 1 :
                  Both(GetElementPtr(p, i), Qir!Element(p, i), {})
  BY <1>2, <1>3, <1>6, <1>11 DEF Both, OfType
<1>12. CASE \E p \in OfType("Qubit**") \union OfType("Num*") : Both(Load(p), Qir!Read(p), {})
  BY <1>2, <1>7, <1>12 DEF Both, OfType
<1>13. CASE \E g \in GlobalConstants :
               \/ Both(LoadGlobal(g), Qir!Denote(Qir!ANumber(g)), {})
               \/ Both(BitCastGlobal(g), Qir!Address(g), {})
  BY <1>8, <1>13 DEF Both, Values0
<1>14. CASE \E p \in DOMAIN regs : \E type \in CastsOf(regs[p]) :
               Both(BitCast(p, type), Qir!Cast(p), {})
  BY <1>2, <1>9, <1>14 DEF Both
<1>15. CASE \E type \in IgnoredTypes : \E v \in Computed(type) :
               Both(Ignored(type), Qir!Denote(v), When(type = "Qubit*", "computed qubit"))
  <2>0. PICK type \in IgnoredTypes : \E v \in Computed(type) :
           Both(Ignored(type), Qir!Denote(v), When(type = "Qubit*", "computed qubit"))
    BY <1>15
  <2>1. PICK v \in Computed(type) :
           Both(Ignored(type), Qir!Denote(v), When(type = "Qubit*", "computed qubit"))
    BY <2>0
  <2>2. Qir!Denote(v)
    BY <2>1 DEF Both
  <2>3. CASE type = "Num"
    <3>1. v = Qir!ANumber("computed") /\ "computed" \in Values0
      BY <2>3 DEF Computed, Values0
    <3> QED
      BY <1>8, <2>2, <3>1
  <2>4. CASE type \in {"Qubit*", "Array*"}
    <3>1. PICK r \in OfType(type) : v = meaning[r]
      BY <2>4 DEF Computed
    <3>2. Qir!Cast(r) /\ r \in Promise!Registers
      BY <1>2, <2>2, <3>1 DEF Qir!Cast, OfType
    <3> QED
      BY <1>9, <3>2
  <2>5. CASE type = "Result*"
    <3>1. v = Promise!Opaque
      BY <2>5 DEF Computed, Qir!Opaque, Promise!Opaque
    <3>2. Promise!Denote(Promise!Opaque)
      BY <2>2, <3>1, PromisedDenote
    <3> QED
      BY <3>2 DEF Promise!Next
  <2> QED
    BY <2>3, <2>4, <2>5 DEF IgnoredTypes
<1> QED
  BY <1>10, <1>11, <1>12, <1>13, <1>14, <1>15 DEF BothDefine

LEMMA MachineRegisters ==
    ASSUME Follows
    PROVE  Promise!Registers = DOMAIN regs
BY SeqNames DEF Follows, TypeOK, Related, MachineTyped, Promise!Registers

LEMMA PromisedWrite ==
    ASSUME Same, NEW p, NEW v, Qir!Write(p, v)
    PROVE  Promise!Write(p, v)
<1>1. Promise!InBounds(p)
  BY DEF Qir!Write, Qir!InBounds, Promise!InBounds, Qir!Denotes, Promise!Denotes,
         Qir!Block, Promise!Block
<1>2. /\ memory' = [memory EXCEPT ![meaning[p].block][meaning[p].offset + 1] = v]
      /\ UNCHANGED <<meaning, allocated, released, instruction, Acts>>
  BY DEF Same, Qir!Write
<1> QED
  BY <1>1, <1>2 DEF Promise!Write

LEMMA StoredNumber ==
    ASSUME NEW pointer, NEW c, StoreConstant(pointer, c).tag = "ok"
    PROVE  c \in Numbers
BY DEF StoreConstant, Then, Err

LEMMA PromisedModify ==
    ASSUME Follows, Resolves, Same, BothModify, status' = "running", departures' = {}
    PROVE  Promise!Next
<1>1. \A p \in DOMAIN regs : p \in Promise!Registers
  BY MachineRegisters
<1>2. CASE \E q \in OfType("Qubit*") : Both(QubitRelease(q), Qir!Release(q), {})
  <2>1. PICK q \in OfType("Qubit*") : Qir!Release(q)
    BY <1>2 DEF Both
  <2>2. Promise!Release(q)
    BY <2>1 DEF Same, Qir!Release, Promise!Release, Qir!Usable, Promise!Usable
  <2>3. q \in Promise!Registers
    BY <1>1 DEF OfType
  <2> QED
    BY <2>2, <2>3 DEF Promise!Next
<1>3. CASE \/ \E p \in OfType("Qubit**"), q \in OfType("Qubit*") :
                 Both(StoreReg(p, q), Qir!Write(p, meaning[q]),
                      When(~InTurn(p), "store out of order"))
           \/ \E p \in OfType("Num*"), x \in OfType("Num") :
                 Both(StoreReg(p, x), Qir!Write(p, meaning[x]),
                      When(~InTurn(p), "store out of order"))
  <2>1. \E p, r \in DOMAIN regs : Qir!Write(p, meaning[r])
    BY <1>3 DEF Both, OfType
  <2>2. PICK p, r \in DOMAIN regs : Qir!Write(p, meaning[r])
    BY <2>1
  <2>3. Promise!Write(p, meaning[r])
    BY <2>2, PromisedWrite
  <2> QED
    BY <1>1, <2>3 DEF Promise!Next
<1>4. CASE \E p \in OfType("Num*"), c \in Numbers \union {"null"} :
              Both(StoreConst(p, c), Qir!Write(p, Qir!ANumber(c)),
                   When(~InTurn(p), "store out of order"))
  <2>1. PICK p \in OfType("Num*"), c \in Numbers \union {"null"} :
           StoreConst(p, c) /\ Qir!Write(p, Qir!ANumber(c))
    BY <1>4 DEF Both
  <2>2. Advance("store", <<>>, StoreConstant(N(p), c))
    BY <2>1 DEF StoreConst, Update
  <2>3. StoreConstant(N(p), c).tag = "ok"
    BY <2>2, StoreConstantEnds, Succeeds
  <2>4. c \in Values0
    BY <2>3, StoredNumber DEF Values0
  <2>5. Promise!Write(p, Promise!ANumber(c))
    BY <2>1, PromisedWrite DEF Qir!ANumber, Promise!ANumber
  <2>6. p \in Promise!Registers
    BY <1>1 DEF OfType
  <2> QED
    BY <2>4, <2>5, <2>6 DEF Promise!Next
<1>5. CASE \E e \in Refusals : Both(Refuse(e), FALSE, {})
  BY <1>5 DEF Both
<1> QED
  BY <1>2, <1>3, <1>4, <1>5 DEF BothModify

LEMMA PromisedGate ==
    ASSUME Follows, Same, NEW g \in DOMAIN PlainGate,
           NEW args \in [1 .. Arity(g) -> OfType("Qubit*")], Qir!Gate(g, args)
    PROVE  Promise!Next
<1>1. Promise!Gate(g, args)
  <2> DEFINE vs == Qir!Values(args)
             turn == Qir!Intended(g)
  <2>1. Promise!Values(args) = vs /\ Promise!Intended(g) = turn
    BY CopiesOfPromise
  <2>2. IF g = "cnot" THEN Qir!Perform(turn, <<vs[1]>>, <<vs[2]>>, <<>>)
                      ELSE Qir!Perform(turn, <<>>, vs, <<>>)
    BY DEF Qir!Gate
  <2> HIDE DEF vs, turn
  <2>3. IF g = "cnot" THEN Promise!Perform(turn, <<vs[1]>>, <<vs[2]>>, <<>>)
                      ELSE Promise!Perform(turn, <<>>, vs, <<>>)
    BY <2>2, PromisedPerform
  <2>4. Promise!Executes(g, args, <<>>)
    <3>1. Qir!Executes(g, args, <<>>)
      BY DEF Qir!Gate
    <3> QED
      BY <3>1, PromisedExecutes
  <2> QED
    BY <2>1, <2>3, <2>4 DEF Promise!Gate
<1>2. \A i \in 1 .. Arity(g) : args[i] \in Promise!Registers
  BY MachineRegisters DEF OfType
<1>3. CASE g \in {"cnot", "swap"}
  <2>1. args = <<args[1], args[2]>> /\ args[1] \in Promise!Registers /\ args[2] \in Promise!Registers
    BY <1>2, <1>3 DEF Arity
  <2>2. Promise!Gate(g, <<args[1], args[2]>>)
    BY <1>1, <2>1
  <2> QED
    BY <1>3, <2>1, <2>2 DEF Promise!Next
<1>4. CASE g \notin {"cnot", "swap"}
  <2>1. args = <<args[1]>> /\ args[1] \in Promise!Registers
    BY <1>2, <1>4 DEF Arity
  <2>2. Promise!Gate(g, <<args[1]>>)
    BY <1>1, <2>1
  <2>3. g \in Promise!Plain \ {"swap"}
    BY <1>4 DEF PlainGate, Promise!Plain
  <2> QED
    BY <2>1, <2>2, <2>3 DEF Promise!Next
<1> QED
  BY <1>3, <1>4

LEMMA PromisedRotation ==
    ASSUME Follows, Same, NEW g \in DOMAIN RotationGate, NEW q \in OfType("Qubit*"),
           NEW a \in Numbers, Qir!Rotate(g, q, a)
    PROVE  Promise!Next
<1>1. Promise!Rotate(g, q, a)
  <2>1. /\ Qir!Executes(g, <<q>>, <<a>>)
        /\ Qir!Perform(Qir!IntendedBy(g, a), <<>>, <<meaning[q]>>, <<>>)
    BY Zenon DEF Qir!Rotate
  <2>2. Promise!Executes(g, <<q>>, <<a>>)
    BY <2>1, PromisedExecutes
  <2>3. Promise!Perform(Promise!IntendedBy(g, a), <<>>, <<meaning[q]>>, <<>>)
    BY <2>1, PromisedPerform, CopiesOfPromise
  <2> QED
    BY <2>2, <2>3 DEF Promise!Rotate
<1>2. q \in Promise!Registers /\ a \in Values0 /\ g \in {"rx", "ry", "rz"}
  BY MachineRegisters DEF OfType, Values0, RotationGate
<1> QED
  BY <1>1, <1>2 DEF Promise!Next

LEMMA PromisedCall ==
    ASSUME Follows, Same, NEW args \in Args(DOMAIN regs), NEW d \in {<<>>, <<"Num">>}, NEW v,
           d = <<"Num">> => v \in Computed("Num"),
           Qir!Call(Circuit, args, <<>>, [i \in DOMAIN d |-> v])
    PROVE  Promise!Next
<1> DEFINE defined == [i \in DOMAIN d |-> v]
<1>1. defined \in {<<>>} \union {<<Promise!ANumber(c)>> : c \in Values0}
  <2>1. CASE d = <<>>
    <3>1. defined = <<>>
      BY <2>1
    <3> QED
      BY <3>1
  <2>2. CASE d = <<"Num">>
    <3>1. v = Promise!ANumber("computed") /\ "computed" \in Values0
      BY <2>2 DEF Computed, Values0, Qir!ANumber, Promise!ANumber
    <3>2. defined = <<v>>
      BY <2>2
    <3> QED
      BY <3>1, <3>2
  <2> QED
    BY <2>1, <2>2
<1> HIDE DEF defined
<1>2. Promise!Call("circuit", args, <<>>, defined)
  <2>1. Qir!Perform(Qir!Turn("circuit", 0, <<>>), <<>>, Qir!Values(args), defined)
    BY DEF Qir!Call, Circuit, defined
  <2>2. Promise!Perform(Qir!Turn("circuit", 0, <<>>), <<>>, Qir!Values(args), defined)
    BY <2>1, PromisedPerform
  <2>3. /\ Promise!Turn("circuit", 0, <<>>) = Qir!Turn("circuit", 0, <<>>)
        /\ Promise!Values(args) = Qir!Values(args)
    BY CopiesOfPromise
  <2>4. Promise!Executes("circuit", args, <<>>)
    <3>1. Qir!Executes("circuit", args, <<>>)
      BY DEF Qir!Call, Circuit
    <3> QED
      BY <3>1, PromisedExecutes
  <2> QED
    BY <2>2, <2>3, <2>4 DEF Promise!Call
<1>3. args \in Promise!Lists(Promise!Registers)
  <2>1. PICK n \in 0 .. MaxArity : args \in [1 .. n -> DOMAIN regs]
    BY DEF Args
  <2>2. n \in 0 .. MaxArity
    BY BoundsAssumption
  <2> QED
    BY <2>1, <2>2, MachineRegisters DEF Promise!Lists
<1> QED
  BY <1>1, <1>2, <1>3 DEF Promise!Next

LEMMA PromisedControlled ==
    ASSUME Follows, Same, NEW a \in DOMAIN regs, NEW q \in DOMAIN regs,
           NEW g \in DOMAIN ControlledName, Qir!Controlled(g, a, q)
    PROVE  Promise!Next
<1>1. /\ Qir!Denotes(a, "block")
      /\ Qir!Perform(Qir!Intended(g), Qir!Block(a), <<meaning[q]>>, <<>>)
  BY DEF Qir!Controlled
<1>2. Promise!Perform(Qir!Intended(g), Qir!Block(a), <<meaning[q]>>, <<>>)
  BY <1>1, PromisedPerform
<1>3. /\ Promise!Denotes(a, "block") /\ Promise!Block(a) = Qir!Block(a)
      /\ Promise!Intended(g) = Qir!Intended(g)
  BY <1>1, CopiesOfPromise DEF Qir!Denotes, Promise!Denotes, Qir!Block, Promise!Block
<1>4. Promise!Controlled(g, a, q)
  <2>1. Promise!Executes(g, <<a, q>>, <<>>)
    BY PromisedExecutes DEF Qir!Controlled
  <2> QED
    BY <1>2, <1>3, <2>1 DEF Promise!Controlled
<1>5. g \in Promise!WithArray /\ a \in Promise!Registers /\ q \in Promise!Registers
  BY MachineRegisters DEF ControlledName, Promise!WithArray
<1> QED
  BY <1>4, <1>5 DEF Promise!Next

LEMMA PromisedControlledRotation ==
    ASSUME Follows, Same, NEW a \in DOMAIN regs, NEW t \in DOMAIN regs,
           NEW g \in DOMAIN ControlledRotationName, Qir!ControlledRotation(g, a, t)
    PROVE  Promise!Next
<1> DEFINE turn == Qir!IntendedBy(g, Qir!Block(t)[1].number)
<1>1. /\ Qir!Denotes(a, "block") /\ Qir!Denotes(t, "block")
      /\ Len(Qir!Block(t)) = 2 /\ "number" \in DOMAIN Qir!Block(t)[1]
      /\ Qir!Perform(turn, Qir!Block(a), <<Qir!Block(t)[2]>>, <<>>)
  BY DEF Qir!ControlledRotation
<1>2. /\ Promise!Denotes(a, "block") /\ Promise!Denotes(t, "block")
      /\ Promise!Block(a) = Qir!Block(a) /\ Promise!Block(t) = Qir!Block(t)
  BY <1>1 DEF Qir!Denotes, Promise!Denotes, Qir!Block, Promise!Block
<1>3. Promise!IntendedBy(g, Promise!Block(t)[1].number) = turn
  BY <1>2, CopiesOfPromise
<1> HIDE DEF turn
<1>4. Promise!Perform(turn, Qir!Block(a), <<Qir!Block(t)[2]>>, <<>>)
  BY <1>1, PromisedPerform
<1>5. Promise!ControlledRotation(g, a, t)
  <2>1. Promise!Executes(g, <<a, t>>, <<>>)
    BY PromisedExecutes DEF Qir!ControlledRotation
  <2> QED
    BY <1>1, <1>2, <1>3, <1>4, <2>1 DEF Promise!ControlledRotation
<1>6. g \in {"Rx__ctl", "Ry__ctl", "Rz__ctl"} /\ a \in Promise!Registers /\ t \in Promise!Registers
  BY MachineRegisters DEF ControlledRotationName
<1> QED
  BY <1>5, <1>6 DEF Promise!Next

LEMMA FreshTarget ==
    ASSUME Follows, NEW op, NEW qubit, Measure(op, qubit)
    PROVE  Fresh \in Targets
<1>1. Len(regs) + Len(<<"Result*">>) <= Len(RegisterNames)
  BY DEF Measure, Emit, Advance
<1>2. Len(regs) + 1 \in DOMAIN RegisterNames
  BY <1>1, SeqNames DEF Follows
<1> QED
  BY <1>2 DEF Fresh, Targets

LEMMA PromisedMeasurement ==
    ASSUME Follows, Same, NEW b \in DOMAIN regs, NEW r \in DOMAIN regs, Fresh \in Targets,
           Qir!MeasureQubit(r, Fresh) \/ Qir!MeasureArray(b, r, Fresh)
    PROVE  Promise!Next
<1>1. b \in Promise!Registers /\ r \in Promise!Registers
  BY MachineRegisters
<1>2. CASE Qir!MeasureQubit(r, Fresh)
  <2>1. Promise!MeasureQubit(r, Fresh)
    <3>1. Promise!Executes("m__body", <<r>>, <<>>)
      BY <1>2, PromisedExecutes DEF Qir!MeasureQubit
    <3>2. Promise!Observe(Promise!Measurement(meaning[r].qubit, Fresh), <<meaning[r]>>)
      BY <1>2, PromisedObserve, CopiesOfPromise DEF Qir!MeasureQubit
    <3> QED
      BY <3>1, <3>2 DEF Promise!MeasureQubit
  <2> QED
    BY <1>1, <2>1 DEF Promise!Next
<1>3. CASE Qir!MeasureArray(b, r, Fresh)
  <2>1. /\ Qir!Denotes(b, "block") /\ Qir!Denotes(r, "block")
        /\ Promise!MeasureValues(Qir!Block(b), Qir!Block(r), Fresh)
    BY <1>3, PromisedMeasure DEF Qir!MeasureArray
  <2>2. Promise!Executes("measure__body", <<b, r>>, <<>>)
    BY <1>3, PromisedExecutes DEF Qir!MeasureArray
  <2>3. Promise!MeasureArray(b, r, Fresh)
    BY <2>1, <2>2 DEF Promise!MeasureArray, Qir!Denotes, Promise!Denotes, Qir!Block, Promise!Block
  <2> QED
    BY <1>1, <2>3 DEF Promise!Next
<1> QED
  BY <1>2, <1>3

LEMMA PromisedApply ==
    ASSUME Follows, Resolves, Same, BothApply, status' = "running", departures' = {}
    PROVE  Promise!Next
<1>1. CASE \E g \in DOMAIN PlainGate : \E args \in [1 .. Arity(g) -> OfType("Qubit*")] :
              Both(Gate(g, args), Qir!Gate(g, args), {})
  BY <1>1, PromisedGate DEF Both
<1>2. CASE \E g \in DOMAIN RotationGate, q \in OfType("Qubit*") :
              \/ \E a \in Numbers \union {"null"} :
                    Both(Rotation(g, <<q>>, <<a>>), Qir!Rotate(g, q, a),
                         When(a \in Inexact, "integer angle"))
              \/ \E x \in OfType("Num") :
                    Both(Rotation(g, <<x, q>>, <<>>), Qir!Rotate(g, q, Angle(x)), {"computed angle"})
  <2>1. PICK g \in DOMAIN RotationGate, q \in OfType("Qubit*") :
              \/ \E a \in Numbers \union {"null"} :
                    Both(Rotation(g, <<q>>, <<a>>), Qir!Rotate(g, q, a),
                         When(a \in Inexact, "integer angle"))
              \/ \E x \in OfType("Num") :
                    Both(Rotation(g, <<x, q>>, <<>>), Qir!Rotate(g, q, Angle(x)), {"computed angle"})
    BY <1>2
  <2>2. PICK a : Rotation(g, <<q>>, <<a>>) /\ Qir!Rotate(g, q, a)
    BY <2>1 DEF Both
  <2>3. a \in Numbers
    BY <2>2, RotationSucceeds
  <2> QED
    BY <2>2, <2>3, PromisedRotation
<1>3. CASE \E args \in Args(DOMAIN regs), cs \in Consts, d \in {<<>>, <<"Num">>, <<"Qubit*">>} :
           \E v \in IF d = <<>> THEN {Qir!Opaque} ELSE Computed(d[1]) :
              Both(UserCall(args, cs, d),
                   Qir!Call(Circuit, Picked(args, {i \in DOMAIN args : IsQubit(args[i])}),
                            Picked([i \in DOMAIN args |-> "argument"],
                                   {i \in DOMAIN args : ~IsQubit(args[i])}) \o cs,
                            [i \in DOMAIN d |-> v]),
                   When(d = <<"Qubit*">>, "computed qubit")
                     \union When(cs # <<>> \/ \E i \in DOMAIN args : ~IsQubit(args[i]),
                                 "classical argument"))
  <2>1. PICK args \in Args(DOMAIN regs), cs \in Consts, d \in {<<>>, <<"Num">>, <<"Qubit*">>} :
           \E v \in IF d = <<>> THEN {Qir!Opaque} ELSE Computed(d[1]) :
              /\ Qir!Call(Circuit, args, <<>>, [i \in DOMAIN d |-> v])
              /\ d \in {<<>>, <<"Num">>}
              /\ d = <<"Num">> => v \in Computed("Num")
    <3>1. \E args \in Args(DOMAIN regs), cs \in Consts, d \in {<<>>, <<"Num">>, <<"Qubit*">>} :
             \E v \in IF d = <<>> THEN {Qir!Opaque} ELSE Computed(d[1]) : CalledBoth(args, cs, d, v)
      BY <1>3, Zenon DEF CalledBoth
    <3> QED
      BY <3>1, PureCall
  <2>2. PICK v : /\ Qir!Call(Circuit, args, <<>>, [i \in DOMAIN d |-> v])
                 /\ d \in {<<>>, <<"Num">>}
                 /\ d = <<"Num">> => v \in Computed("Num")
    BY <2>1
  <2> QED
    BY <2>2, PromisedCall
<1>4. CASE \E a \in OfType("Array*"), q \in OfType("Qubit*") :
              \/ Both(XCtlCall(a, q), Qir!Controlled("X__ctl", a, q),
                      When(~OneCell(a), "several controls"))
              \/ \E g \in DOMAIN ControlledName :
                    Both(GateCtl(g, a, q), Qir!Controlled(g, a, q),
                         When(g \in {"I__ctl", "S__ctl"}, "misnamed gate"))
  <2>1. \E a, q \in DOMAIN regs, g \in DOMAIN ControlledName : Qir!Controlled(g, a, q)
    BY <1>4 DEF Both, OfType, ControlledName
  <2> QED
    BY <2>1, PromisedControlled
<1>5. CASE \E a \in OfType("Array*"), t \in OfType("Struct*") \union OfType("Tuple*"),
              g \in DOMAIN ControlledRotationName :
                 Both(RotationCtl(g, a, t), Qir!ControlledRotation(g, a, t),
                      When(InexactAngle(t), "integer angle"))
  <2>1. \E a, t \in DOMAIN regs, g \in DOMAIN ControlledRotationName :
           Qir!ControlledRotation(g, a, t)
    BY <1>5 DEF Both, OfType
  <2> QED
    BY <2>1, PromisedControlledRotation
<1>6. CASE \/ \E q \in OfType("Qubit*") : Both(MBodyCall(q), Qir!MeasureQubit(q, Fresh), {})
           \/ \E b, a \in OfType("Array*") :
                 Both(MeasureBodyCall(b, a), Qir!MeasureArray(b, a, Fresh),
                      When(~OneCell(a), "joint measurement")
                        \union When(~InZ(b), "other basis"))
  <2>1. \E b, r \in DOMAIN regs :
           /\ Qir!MeasureQubit(r, Fresh) \/ Qir!MeasureArray(b, r, Fresh)
           /\ MBodyCall(r) \/ MeasureBodyCall(b, r)
    BY <1>6 DEF Both, OfType
  <2>2. Fresh \in Targets
    BY <2>1, FreshTarget DEF MBodyCall, MeasureBodyCall
  <2> QED
    BY <2>1, <2>2, PromisedMeasurement
<1> QED
  BY <1>1, <1>2, <1>3, <1>4, <1>5, <1>6 DEF BothApply

LEMMA PromisedStep ==
    ASSUME NamesDistinct, Tolerated = {}, IInv, OutputInv, FollowInv, departures = {},
           [BothNext]_both
    PROVE  departures' = {} /\ [Promise!Next]_(Promise!qvars)
<1>1. departures' = {}
  BY NextBoth DEF both, Departs
<1>2. Same
  BY <1>1, FollowKept DEF FollowInv, Same
<1>3. Follows /\ Acts = trace
  BY DEF Follows, FollowInv, OutputInv
<1>4. Resolves
  BY LocalsBackwards, BackwardsResolves DEF IInv, Resolves, ResolveAlias
<1>5. CASE UNCHANGED both \/ (BothNext /\ status' # "running")
  <2>1. UNCHANGED machine
    BY <1>5, NextBoth DEF both
  <2> QED
    BY <1>1, <1>2, <2>1 DEF Same, machine, Promise!qvars
<1>6. CASE BothNext /\ status' = "running"
  <2>1. ~Both(Finish, FALSE, {})
    BY <1>6 DEF Both
  <2>2. Promise!Next
    BY <1>1, <1>2, <1>3, <1>4, <1>6, <2>1, PromisedDefine, PromisedModify, PromisedApply DEF BothNext
  <2> QED
    BY <1>1, <2>2
<1> QED
  BY <1>5, <1>6

(* Where nothing may depart, the translation of a body implements the       *)
(* machine: what its output does, act by act, is what the QirMachine does   *)
(* when it executes the very instructions of the body, with their operands  *)
(* (src/src/translate/function.rs, src/src/environment/mod.rs).             *)
THEOREM Implements ==
    ASSUME NamesDistinct, Tolerated = {}
    PROVE  BothSpec => ImplementsQir
<1>1. BothInit => FollowInv /\ departures = {} /\ Promise!Init
  <2>1. BothInit => FollowInv /\ Acts = trace
    BY InitiallyRelated DEF FollowInv
  <2> QED
    BY <2>1 DEF BothInit, Qir!Init, Promise!Init, Qir!Instruction, Promise!Instruction
<1>2. /\ IInv /\ OutputInv /\ FollowInv /\ [BothNext]_both => FollowInv'
      /\ IInv /\ OutputInv /\ FollowInv /\ departures = {} /\ [BothNext]_both =>
            (departures = {})' /\ [Promise!Next]_(Promise!qvars)
  BY FollowKept, PromisedStep
<1>3. Spec => []IInv
  BY Invariance
<1>4. Spec => []OutputInv
  BY OutputInvariance
<1> QED
  BY <1>1, <1>2, <1>3, <1>4, BothRefines, PTL DEF BothSpec, ImplementsQir, Promise!Spec

=============================================================================
