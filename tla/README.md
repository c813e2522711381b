# A verification development for quil-qir

quil-qir translates a QIR module (LLVM bitcode that calls the quantum
intrinsics `__quantum__rt__*` and `__quantum__qis__*`) to a Quil program. This
directory models the translator in TLA+, checks it with TLC and proves parts of
it with TLAPS. Sources are cited relative to the repository; `mod.rs` is
`src/environment/mod.rs` and `global.rs` its neighbour; `function.rs`,
`block.rs`, `module.rs` and `utilities.rs` are in `src/translate/`.

The program is a sequential batch compiler. What is hard about it is not
concurrency but **long sequences of legal LLVM instructions over a mutable,
aliased, name-indexed environment**: what a name denotes depends on every load,
cast, store and release before it, several ways of finding a qubit must agree,
and nothing tells the user when a call has lost an operand.

## 1. Inventory

| Component | State | Operations | Correct when |
|---|---|---|---|
| Local environment (`environment/*.rs`) | `LocalEnvironment`: `variables` (name to qubit, register of qubits, array, tuple, alias, pointer, data), `next_qubit_to_allocate` | `resolve_alias`, `store`, `load`, `bitcast`, `allocate_tuple`, getelementptr (`block.rs`) | resolution ends; no instruction changes what an earlier one bound; no qubit is handed out twice |
| Operands of calls (`utilities.rs`) | none | `get_qubits_from_call`, `get_controlled_call_args`, `resolve_controls_to_qubits`, constant parameters | the qubits found are those the call names, in its order |
| Intrinsics (`function.rs`) | writes the environment, emits gates | one arm per intrinsic | the gates emitted are those the body performs |
| Blocks (`block.rs`) | the output so far | one arm per LLVM instruction and terminator | order of execution is kept |
| Call graph (`function.rs`, `module.rs`) | `GlobalEnvironment.circuit_definitions`, the Rust call stack | call, return, assembly of the program | every function reached becomes one circuit, defined with what it applies; the search ends |
| Module driver (`module.rs`, `global.rs`) | `GlobalEnvironment.variables` | priming with constants and parameters, DECLAREs | everything used is declared once, with its type |
| Names (`utilities.rs`) | none | `name_to_string`, `prefix_name_for_label` | distinct registers have distinct regions and labels |
| Errors, macros | none | | |
| Command line, Python binding (`main.rs`, `lib.rs`) | none | read a file, find the entry point, print | |

How they interact: `translate_module` translates the body of the entry point;
`translate_function_body` makes a fresh `LocalEnvironment`, primes it with the
qubit parameters and translates block by block; `translate_function_call` either
handles an intrinsic or, for another function, makes sure that it has a circuit
(translating its body first, recursively) and emits a gate. Global and local
environments are passed down by mutable reference, so everything a callee does to
the global one is seen by its callers. There are no threads, callbacks or
persistence: crash recovery and message delivery do not arise.

Hard behaviours, by source (the full list, with lines, is `hazards` in
`PROJECT.json`): aliases resolved at use and not at definition; arrays that hold
names; stores that push without looking at the index; releases that leave
aliases behind; arguments that are dropped when unbound; sanitised names that
collide; circuits inserted only after their body, each counting its qubits from
0; memory regions shared by all applications of a circuit; blocks translated in
the order of their layout and not of execution; branches that become nothing;
recursion with no bound; the order of a HashMap in the output.

## 2. Modules

| Module | Models |
|---|---|
| `Quil` | the Quil data that is emitted: qubits, gates, measurements; and what a gate of Quil does |
| `Environment` | the translation of one straight-line body: `LocalEnvironment`, one action per LLVM instruction or class of intrinsic, the gates emitted |
| `QirMachine` | abstract specification: what a QIR body means, as the trace of a machine with memory blocks |
| `Translation` | `Environment` and `QirMachine` running the same body; the promise that the output is the trace |
| `ControlFlow` | the blocks of one function, translated in the order of their layout and run beside their Quil |
| `Circuits` | the recursion through the call graph up to the assembled program |
| `CircuitLibrary` | abstract specification: circuits are defined one at a time, bottom-up, for good |
| `Naming` | the names of memory regions, on sequences of characters |
| `Enumeration` | the members of a set of positions in their order, as an iteration with a filter yields them |
| `ModuleTranslation` | a whole run of the translator on a module of several functions: the global environment, the bodies, the DECLAREs, the program; implements `Circuits` |
| `ModuleExecution` | the program of `ModuleTranslation` and the module it came from, run side by side |
| `MCEnvironment`, `MCTranslation`, `MCControlFlow`, `MCModule` | instances for TLC: families of inputs |
| `EnvironmentProofs`, `CircuitsProofs`, `ControlFlowProofs`, `ModuleTranslationProofs`, `SearchProofs`, `ModuleExecutionProofs`, `TranslationProofs`, `EnumerationProofs` | theorems |

The translator is cut in three, because the state of a body, of a control-flow
graph and of a call graph multiply: `Environment` has everything that can happen
inside a body, `ControlFlow` what several blocks add, `ModuleTranslation` what
several bodies add. Each of the three is composed with a machine that executes
the input, and says which inputs are translated faithfully. What carries over
from block to block is `locals` and the counter, and from body to body the global
environment and `circuit_definitions`, and these are whole in the module where
they are passed on.

### Environment

The state is that of the code: `locals` is `LocalEnvironment.variables`,
`nextQubit` is `next_qubit_to_allocate`, `output` the instructions returned,
`declared` the names of measurements put into the global environment, `status`
the `TranslationResult`. A panic (`unwrap`, `todo!()`, an index out of bounds) is
the status `"panic"`; a loop that never ends is `"hang"`.

The input is not a variable of the code. It is chosen as it is consumed: at each
step the next instruction is any one whose operands are registers already
defined (SSA) and of the LLVM type the instruction takes, so a behaviour is a
body together with its translation. `regs` holds the LLVM types and
`RegisterNames` the sanitised name of each register. The names are a parameter,
so that two registers can have the same one.

`Result` and `?` are `Ok`/`Err` and `Then`, so the order of early returns is
kept: which error comes first is part of the model. The look-ups that
differ in the code differ in the model:

- `ResolveIn` is `resolve_alias`: follow aliases, then require a local or global
  binding. `Chase` follows at most as many aliases as there are bindings;
  if there is an alias still, the loop of the code does not end.
- `QubitArgument` (an argument of an ordinary call), `QubitOf` (controls and
  targets of controlled gates), `XCtl` and `QubitOrVariable` (`x__ctl`, which
  looks the array up without resolving it and takes a name it cannot resolve for
  a formal), `MBody` and `MeasureBody` (which takes such names for formals too, and
  never looks at the bases) all find qubits in their own ways.
- `StoreRegister`, `StoreConstant` and `PushInto` are `Environment::store`.

Numbers are names of constants. The one thing the translator does with a number
is to convert it: an integer, kept as 64 bits without a sign, becomes a double when it
is put out as an angle (`utilities.rs:183` and `333`); `AsFloat` is that conversion, a
constant function that need not be the identity nor injective. A circuit's call takes
constant arguments too (`Consts`), which the translator drops.
The table of intrinsics to gates is data: `PlainGate`, `RotationGate`,
`ControlledName` and `ControlledRotationName` map the name of an intrinsic (less
its prefix) to that of its gate, as the arms of `translate_function_call` do, and
intrinsics with the same operand handling are one action with the name as a
parameter. `refused` stands for the operands and callees that are refused whatever
the environment holds.

### Translation and QirMachine

`QirMachine` is the meaning of the QIR instructions: registers denote qubits,
numbers and pointers into blocks of cells, gates append to a trace. LLVM and the
QIR runtime are not in the repository, so this module is marked external: it is
their semantics as far as the translator relies on it, and an instruction that
would be undefined behaviour (reading an unwritten cell, using a released
qubit) is not enabled. `measure__body` has both its operands, the bases and the
qubits: of one qubit in the basis of Pauli Z it is what Quil calls a measurement; in
another basis, or of several qubits, it is an act that Quil does not have
(`Joint`). `instruction` is the quantum instruction executed last with its operands:
it makes the input of the machine visible, so that an act cannot be passed off as that
of another instruction.

`Translation` takes both steps for one instruction. The translator is *not*
faithful to every body; what it loses is named. `departures` records, from the
body and the machine alone, that the body

1. applies `x__ctl` to an array that is not of one qubit (**several controls**),
2. measures several qubits jointly (**joint measurement**),
3. measures in another basis than Pauli Z (**other basis**),
4. writes a cell not at its turn (**store out of order**): twice, or before
   one with a lower index,
5. applies a controlled I or S (**misnamed gate**),
6. rotates by a register (**computed angle**),
7. rotates by a constant that becomes another as a double (**integer angle**),
8. uses a qubit that a phi, a select or a call yields (**computed qubit**),
9. passes a classical argument to a circuit, in a register or as a constant
   (**classical argument**).

The two sides share no table of gates. A gate is compared by what it does: the
axis and the angle of its turn, its controls, its targets (`ActOf` in `Quil` from
the name and the modifiers of the gate emitted, `Intended` in `QirMachine` from the
name of the intrinsic), so a CNOT and a CONTROLLED X are the same act, and a
DAGGER that is left out is not.

`FaithfulOutput` says that a body without departures is translated to exactly
its trace, at every prefix. So the nine are the whole list for the bodies in
reach of the runs: a tenth way to lose something would be a counterexample. Any of
the nine, not noted, is one, but for *joint measurement*: two qubits in two bases,
all of them stored first, take more instructions than a run can have, and there the
proof alone says that nothing else is lost. *Other basis* and *integer angle*, not
noted, refute `ImplementsQir` too.
Departures are tolerated in these runs so that they are exercised;
`ImplementsQir` is the refinement without them: each step is that of the machine
for the same instruction. It reaches longer bodies: a controlled rotation needs three stores, and most of their orders depart. `GatesAsNamed` tolerates only the
misnamed gates and compares the turns alone; a controlled S refutes it.

### ControlFlow

A function is a sequence of blocks, the order of its layout; a block is a
sequence of allocations, gates and releases, and a terminator. The translator
goes through the blocks as the loops of `translate_function_body` and
`translate_block` do, `next` being a block and a place in it: the label
(`TranslateLabel`), one action per instruction on the environment that the block
before left, and the terminator (`TranslateTerminator`), a jump if it is `br`
without a condition. Conditional branches, switches,
unreachable and returns emit nothing here (`block.rs:167-183`; the MOVE of a
return value is in `ModuleTranslation`).

When all blocks are translated, the function and its Quil run beside each other
(external: neither LLVM nor Quil is in the repository). The function takes a
step up to its next gate or its end, and Quil then has to come to the same. A gate
carries its place in the function as its name, so that another gate on the
right qubit is not taken for it. `departures` collects what a run of the function
does that the translator loses:

1. it allocates a qubit into a register whose last one it did not release, in
   a loop (**second qubit**),
2. it uses a qubit in a block laid out before that of its allocation (**laid out
   before allocation**),
3. or behind one that releases it (**laid out after release**),
4. a conditional branch goes elsewhere than to the next block (**branch not to
   the next block**),
5. it returns in a block that is not the last (**return before the last block**).

With the first departure the comparison ends: from there the two sides have
nothing to do with each other. Without any they take one path (`SamePath`), on
the same qubits (`OneToOne`), and Quil gets there (`CatchesUp`). None of the five
can be left out: with any one of them not noted, TLC finds a counterexample.
Functions are well-formed as LLVM demands: definitions dominate uses,
computed by `ReachedAvoiding`. A function that comes to `unreachable` has no
meaning from there on and is not compared further.

### ModuleTranslation

The state is `GlobalEnvironment` (`variables`, `circuits` for
`circuit_definitions`), the Rust call stack (`stack`, one frame per
`translate_function_body` under way, with its local environment and counter), the
DECLAREs of the parameters and the `program`. The actions follow `main.rs` and
`translate_module`: `Read`, `FindEntry`, `PrimeConstants`, `PrimeParameters`, then
the bodies (`Allocate`, `Gate`, `Measure`, `Call`, `Descend`, `Overflow`,
`Missing`), `Return` into the caller with the circuit inserted, and `Finish`, which
assembles the program. Every error path is a status. Bodies here are short and
straight: qubits are allocated, acted on, measured and passed to other functions;
a body returns nothing, a constant or a register. The registers of a function are
numbered, parameters first, then one for each instruction, and `NameOf` gives the
name of each; a frame's `locals` is keyed by names, as `LocalEnvironment.variables`
is. Two registers may have one name. Two functions do not: LLVM gives each
function of a module a name of its own (`NamesAssumption`).

The names of regions are made as in the code, by `Naming`, so that names that
collide do.

`ImplementsSearch` is a refinement: forgetting everything but the calls, this is
`Circuits` (whose own refinement of `CircuitLibrary` is proved). Priming
maps to stuttering steps, `Return` maps to `Return`.

### ModuleExecution

Once the program is there, it is run beside the module (external). Both machines
share `frames`: a call of a function is the application of its circuit, and both
advance together if both can; if one cannot, the run is stuck and `Completes`
fails. A qubit of the module is known by when it was allocated, one of the program by
its number, and `pairs` holds which was used for which. Quil memory is a map from
region to outcome; regions are global, so a circuit that is applied a second time
overwrites what the first application measured.

### Naming

`Sanitised` replaces periods by underscores (`name_to_string`), `Prefixed` puts
the function's name and two underscores in front (`prefix_name_for_label`),
`ReturnLabel` is the region of a return value. `Unambiguous` is the condition on
the names of registers under which prefixes can be told from names.

### Circuits

The Rust call stack is `stack`, with one frame per `translate_function_body`
under way: the function, its next call, the gates emitted. `Descend`, `Return`
and `Apply` are the branches of `translate_function_call`; between the look-up
(`function.rs:506`) and the insertion (`function.rs:511`) lies a whole nested
translation. `Overflow` is the end of the thread's stack. The call graph and the
set of functions with a body are chosen in `Init`. The failure of any other
instruction is `Fail`.

## 3. Runs

| Run | Question | Bounds |
|---|---|---|
| `Env` | Is the local environment sound? `TypeOK`, `AllocationsDisjoint`, `OnlyAllocatedQubits`, `NoAliasCycle`, `AliasesResolve`, `BindingsGrow` | five families of bodies, up to 7 registers, arrays of 2, budgets of 1 or 2 per instruction |
| `TrBodies` | Is a body translated faithfully? `FaithfulOutput` | families for registers of qubits, control arrays, arrays of qubits with bases, measurements, numbers and calls, and one for each intrinsic of the tables, with what it needs; up to 10 registers, arrays of 2, tuples of 2 |
| `TrStrict` | Does the translator refine `QirMachine`? `ImplementsQir` | the families for control arrays, arrays of qubits with bases, measurements, numbers and calls, and one for tuples with a control; arrays of 2, nothing tolerated |
| `Blocks` | Is a control-flow graph translated faithfully? `TypeOK`, `SamePath`, `OneToOne`, `CatchesUp` | all functions of 2 blocks of up to 2 instructions, and of 3 blocks with up to 2, 1 and 1 (or 1, 2 and 1) instructions, on 2 registers; all terminators |
| `Circuits` | Is the search through the call graph right, and does it end? | all call graphs of 3 functions with up to 2 calls each, any subset defined, stack of 4 |
| `Module` | Does the program of a module work? `TypeOK`, `RegionsDeclared`, `QubitsApart`, `OutcomesKept`, `ReturnFaithful`, `AnswerJustified`, `ImplementsSearch`, `Completes` | modules of 3 functions with bodies of up to 4 instructions, stack of 3, five families |
| `EnvNonQubit`, `EnvUnbound`, `EnvCollision`, `TrControlledS`, `ModuleTypes`, `Recursion` | findings, section 5 | |

A body is bounded by a *budget*: how often each instruction may occur. Within
one TLC explores every order, every well-typed choice of operands, and every
abandoned prefix. The families are chosen by what interacts: an operand of a
gate is found through at most array, pointer, cast, load and store, and each
family holds the instructions of such a path with enough repetitions that two
pointers into one array, two stores in either order, a store after a use, and a
release before a use occur. Two elements distinguish order and index; three
would add permutations of the same steps. An array of one qubit is measured in an
array of one basis, Z or another, filled before or after it; two of each, all four
stored, are beyond the runs, and the proof covers them. Families of different kinds do not
share state other than the map of names; the proofs, which have no bound,
cover what they say across families.

For `Circuits`, three functions give the smallest diamond, cycle through two
functions, repeated call and undefined callee; a stack of 4 is one more than a
call graph of 3 functions without recursion needs, which is what
`DepthBounded` states.

For `Blocks`, three blocks give a diamond without its last block, loops over one
and over two blocks, a block jumped over, and a layout in which a block comes
before the one it is entered from; the two registers are a qubit that is used and
another one whose allocation moves the counter. Loops make the
runs of a function unbounded while their states stay finite.

For `Module`, the families are: *Translated*, an entry point that calls a function
with its qubits swapped, which may call a third one, each with its own
allocations, measurements and results; *Wrapped*, the same below an entry point
that allocates nothing; *Around*, everything that surrounds the bodies
(constants of every kind, parameters of every type, every return); *Broken*, any
subset of functions defined, unreadable bitcode; and a recursive module. Three
functions give a circuit applied from two places and a circuit applied twice by
two activations of its caller, which is what sharing of qubits and of regions
needs. Two of the register names are chosen to collide once prefixed.

**Deadlock.** Every specification here stops: the translator returns a program or
an error, and budgets run out. Hence `CHECK_DEADLOCK FALSE`.

**Fairness.** There is one thread, which never waits, so a step that can be taken
is taken. `Circuits`: `WF_vars` of every action but `Fail`, which is left out
because nothing makes an instruction untranslatable. `Terminates` says that the
search ends, and that with no recursion and all bodies present it ends in a
program or in the error of an instruction, never in an overflow or a missing
definition. `ModuleExecution`: `WF` of the next-state relation, since neither the
translator nor the two machines ever wait. `ControlFlow`: `WF_vars(Quil)` only,
because Quil never waits, while a function may go round a loop for ever or
never be called; `CatchesUp` then says that no jump of Quil leads in circles.

## 4. Properties that carry the weight

- `AllocationsDisjoint`: the counter is above every physical qubit in use, and
  no two names own the same one.
- `OnlyAllocatedQubits`: however an operand was found, it is a qubit allocated so far
  (`AllocatedQubits`) or a formal of the circuit, a qubit parameter of its function
  (`FormalQubits`). `x__ctl` and `measure__body` take any name they cannot resolve for a
  formal (`function.rs:176`, `198`, `257`), and what they emit then is no circuit that
  Quil could expand; the property allows this of the gates they emit alone, and only
  for registers that indeed resolve to nothing (`UnknownQubits`): never for one that is
  bound. The family with a released control reaches it through `qubit_release`.
- `NoAliasCycle`: in every set of aliases one leads out. `AliasesResolve`: the loop
  of `resolve_alias` ends from every name it is entered with, in a cast also in the
  environment that is being changed.
- `BindingsGrow` (action property): arrays and tuples only grow behind their
  items; a name disappears only by a release; the only entry replaced is
  an alias of number memory, by the constant stored through it.
- `FaithfulOutput`, `ImplementsQir`: section 2.
- `SamePath`, `OneToOne`, `CatchesUp`: section 2, `ControlFlow`.
- `RegionsDeclared`: a region used by any code under way is in the global
  environment at once and stays there, and in the program every region used is
  declared once, unless a parameter of the entry point has its very name. The
  entries are overwritten by returns and the DECLAREs made from them at the end.
- `QubitsApart`: every body counts from 0, so a circuit that allocates and a caller
  that does share physical qubits. As long as only one call allocates, whichever
  it is, different qubits stay different through all levels of calls, unless two
  qubit registers of one function have one name (`RegistersApart`).
- `OutcomesKept`: while no two names collide, a register that holds an outcome
  finds it in its region as long as its function runs, whatever the circuits
  applied since have measured.
- `ReturnFaithful`: an outcome that the entry point returns is in the region of the
  return value at the end; of what a call or an argument gave nothing was ever
  written, and the region is undefined.
- `AnswerJustified`: what the translator answers fits the module. A program holds the
  circuits of exactly the functions the entry point leads to, which is without
  recursion; an overflow or a missing body has its cause, as in `StopsForCause`.
- `ImplementsSearch`: the run of the whole translator is a search of `Circuits`.
- `Completes`: a module that is translated can be run to its end: the circuits are
  there, with as many formals as they are given qubits, and code and body end
  together.
- `StopsForCause`: a search that ends without a program has its cause in the
  module: recursion, if the stack could hold a translation of every function, or
  a body missing that the entry point leads to. No circuit is sought in vain.
- `Closed`, `TranslatedOnce`, `ProgramComplete`, `DepthBounded`,
  `ImplementsLibrary`, `Terminates`: each function reached becomes one circuit
  with one gate per call, before any use of it is emitted, and the program holds
  exactly these.

Each property is paired with a mutant of the code (a dropped guard, a counter
read late, a store pushed in front, ...) under which TLC finds it violated;
mutants stand before the definition they alter.

## 5. Findings

| Run | What it shows |
|---|---|
| `EnvNonQubit` | `utilities.rs:96`: "Non-qubit arguments are ignored." A number loaded from a constant of the module is refused with an error; a tuple panics. |
| `EnvUnbound` | `utilities.rs:107`: "The call argument *must* resolve to a known variable". An argument with no local binding is skipped before that test: the gate has fewer qubits and there is no error. |
| `EnvCollision` | `%p_1` and `%p.1` are one name after sanitising. A cast of one to the other binds a name to an alias of itself and `resolve_alias` never returns. |
| `TrControlledS` | `function.rs:291-292`: the controlled intrinsics "can translate much more directly into Quil". A controlled S is translated to a controlled H (`function.rs:389`). |
| `ModuleTypes` | `global.rs:25-26`: the map is there "to ensure that only a single datatype is written to a variable of a given name". The DECLAREs of the parameters bypass it (`module.rs:88-92`) and those made from it are all INTEGER (`module.rs:114`): a parameter of type double and a constant of one name are declared as REAL and as INTEGER. |
| `Recursion` | `module.rs:94-98` describes the circuit as defined before the recursion. It is defined after it, so a recursive function is descended into until the stack overflows. |

## 6. Proofs

TLC checks bodies of a few instructions; the theorems hold for bodies of any
length, arrays of any size, any names, any call graph, modules of any number of
functions, functions of any number of blocks. What a theorem assumes are the
ASSUMEs of its module, which TLC evaluates for the instances of section 3, and the
condition it states.

| Property | Theorem |
|---|---|
| `Environment`: `TypeOK`, `AllocationsDisjoint`, `OnlyAllocatedQubits`, `NoAliasCycle`, `AliasesResolve`, `BindingsGrow` | `TypeCorrect`, `QubitsAllocatedOnce`, `EmittedQubitsAllocated`, `AliasesAcyclic`, `AliasesAlwaysResolve`, `MeaningsKept` |
| `Translation`: `FaithfulOutput`, `ImplementsQir` | `Faithful`, `Implements` |
| `Circuits`: `TypeOK`, `Closed`, `TranslatedOnce`, `ProgramComplete`, `DepthBounded`, `StopsForCause`, `ImplementsLibrary` | `TypeCorrect`, `CircuitsClosed`, `TranslatedAtMostOnce`, `Complete`, `Bounded`, `Justified`, `Implements` |
| `ModuleTranslation`: `TypeOK`, `RegionsDeclared`, `ImplementsSearch`, `AnswerJustified` | `TypeCorrect`, `Declared`, `Searches`, `Justified` (of `SearchProofs`) |
| `ModuleExecution`: `QubitsApart`, `OutcomesKept`, `ReturnFaithful` | `ActsOnTheQubits`, `KeepsOutcomes`, `ReturnsOutcome` |
| `ControlFlow`: `TypeOK`, `SamePath`, `OneToOne` | `TypeCorrect`, `TakesOnePath`, `OneQubitEach` |

**`EnvironmentProofs`.** The many actions are first reduced to four effects
on the environment (lemma `StepEffect`, one step per action): nothing changed,
one register bound (`Bound`), one entry changed by a store (`Changed`), one
entry dropped (`Dropped`). Every invariant is then shown to be kept by each
effect, and not by each of some twenty-five actions.

- `TypeCorrect`: `Spec => []TypeOK`. No assumption on names.
- `Invariance`: `Spec => []IInv`, where
  `IInv == TypeOK /\ AliasesDescend /\ QubitBindings /\ AllocationsDisjoint`.
- `QubitsAllocatedOnce` (`AllocationsDisjoint`), `AliasesAcyclic`
  (`NoAliasCycle`), `MeaningsKept` (`BindingsGrow`) follow from it.

`NoAliasCycle` is not inductive: that no cycle exists now does not say that the
next alias will not close one. `AliasesDescend` does: the target of the alias of
register *i* is the name of a register before *i*, or of a global constant. This
needs that no two registers have one name (`NamesDistinct`), the assumption of
all theorems here but `TypeCorrect`: `EnvCollision` is
what happens without it. The
well-founded order on register numbers then gives a member of any set of aliases
whose target is outside. `BindingsGrow` needs `QubitBindings`: a release drops
the name of a qubit, and this says what such a name can have been bound to.

- `EmittedQubitsAllocated` (`OnlyAllocatedQubits`) has an invariant of its own,
  `OutputInv`. An operand is found by name, through a pointer into a register of
  qubits, among the names in an array, or in a tuple that stored it; `QubitsHeld` says
  that whatever an entry holds, in its own right or among its items, is an allocated
  qubit or a formal, and that the names it holds are names of registers. A
  store keeps it because an item that is a qubit is copied from an entry that holds
  it (`Storable`), a release because a qubit stays allocated. Then each way to
  find operands returns such qubits or an error, one lemma for each
  (`CallQubitsAllocated`, `ControlledGateGrounded`, ...), and the two that take an
  unresolved name for a formal return that name at worst (`XCtlGrounded`, ...).
  What they emitted then must stay excused: a name that resolves to nothing never
  resolves again. A set of names is `Broken` if each of them is unbound or an alias
  into the set; from it no chain of aliases leads out (`BrokenUnresolved`), every
  unresolved name is in one (`UnresolvedBroken`), and each effect keeps it one
  (`BrokenStays`), since only the register defined is bound anew: this is where
  `NamesDistinct` comes in.
- `AliasesAlwaysResolve` (`AliasesResolve`): under `NamesDistinct` the loop of
  `resolve_alias` ends wherever the translation calls it, so that no body hangs the
  translator. The loop is the recursive function in `Chase`; that it exists is shown
  for every number of steps (`ChainExists`, by the least number for which it would
  not). Were its last value an alias, all the values before it would be aliases with
  falling register numbers, hence one more of them than there are entries
  (`ChaseEnds`). A cast resolves in an environment that holds its own alias already,
  which points backwards too (`CastBackwards`). Every operator that resolves a name
  passes an error on and makes no hang of its own (`LookUpEnds`, ...).

**`CircuitsProofs`.** `IInv == TypeOK /\ FramesOK /\ TranslatedOnce /\ Closed`.
`FramesOK` is the strengthening: a frame has emitted one gate for each call
before its next one and all of these have their circuits. The step that matters
is `Return`: the new circuit could be that of a function whose translation is
still under way further down. It cannot (lemma `FinishedAlone`): that frame waits
for a call with no circuit, yet all the calls of the function have theirs.

- `TypeCorrect`, `CircuitsClosed` (`Closed`), `TranslatedAtMostOnce`
  (`TranslatedOnce`).
- `Implements`: `Spec => ImplementsLibrary`. `Return` maps to `Define` of the
  function just translated, every other action to a stutter.
- `ReachedInvariance`: `Spec => []RInv`, about what the entry point reaches. `RInv`
  says that the stack starts with the entry point and each function on it leads
  to those above; that circuits are of functions the entry point leads to; that
  the circuits can be ranked so that each applies only circuits below it; and
  what the program is made of.
- `Complete` (`ProgramComplete`) and `Bounded` (`DepthBounded`) follow. A complete
  program is not inductive, since it speaks of the end only: during the search it is
  `Closed` and reachability that count, and at the end the circuits are closed
  under calls and hold the callees of the entry point, so they are all that it
  reaches. Without recursion no function is twice on the stack, for it would lead
  to itself; with recursion there is no program, because the circuits of a cycle
  cannot be ranked. The rank is the order of definition: nothing in the state
  records it, so the invariant asserts that there is one.
- `Justified` (`StopsForCause`) is the safety half of `Terminates`. The state in which
  the search stopped must be remembered (`Halted`: an overflow at a call, with the
  stack full; a miss at a call to a function with no body). The callee at the top
  is one that every function on the stack leads to (`CalleeLed`). Without
  recursion it is therefore none of them, nor is any of them twice there, so the
  functions are at least one more than the stack holds (`NoMoreThanFunctions`).

`Reach` is the smallest set closed under calls, by quantification over such
sets, so that the provers can reason about it; `FiniteAssumption` says that a
module has finitely many functions.

**`EnumerationProofs`.** `InOrderEnumerates`: `InOrder` lists a finite set of
positions, each once and in ascending order. On this rests that the formals of a
circuit and the operands of its applications agree in number and order. With
`PickedGrows`, what is picked from a list that has grown by one, calls and
applications can be counted along bodies and code.

**`ModuleTranslationProofs`.** `Translates`: `Spec => []TInv`, for any module. What
is inductive is a description of every frame by its position in its body alone
(`StackOK`): the counter is the number of qubits allocated up to there, `locals`
binds the names of the qubit registers up to there, the code is the translation
of the instructions up to there, the regions of that code are in the global
environment, and the frame above is the callee of the instruction the frame waits
at. A circuit is the same at the end of its body, and any set of circuits has one
that applies none of the set (`CircuitsOK`). `TypeCorrect` and
`Declared` (`RegionsDeclared`) follow: a region, once entered, is only ever
overwritten, and the DECLAREs are made from all of them.

**`SearchProofs`.** `Searches`: `Spec => ImplementsSearch`, the refinement of `Circuits`
by the whole translator, if no function is called like the gate of `Gate`
(`NoGateNamed`): the mapping tells applications of circuits from gates by their names,
as Quil does. The mapping forgets all of a frame but the calls it has passed and
the circuits its code applies. An instruction adds to both or to neither
(`PassedFrame`, `CircuitsAppended`), so reading, allocations, gates and measurements
map to stutters and each other action to its namesake, or to `Fail` if it is an
error. `TInv` supplies the caller of `Return`, which waits at a call of the function that
returns (`CallerFacts`). `Justified` (`AnswerJustified`) draws the
conclusion: `CircuitsProofs` is instantiated by the same mapping, its assumptions
follow from those of `ModuleTranslation` (`FoundFacts`), and its theorems hold of whole
runs. That a program holds the circuits of exactly what the entry point leads to, and
that recursion yields none, is thus proved once, of the search, and not again of
the translator with its names, regions and code.

**`ModuleExecutionProofs`.** Its invariants contain `TInv`: what the program holds
is known from the translation.

- `InStep`: `XSpec => []XInv`. In every call, position in the body and position in
  the code belong together, and the stack of calls is one of calls in bodies.
  A program of circuits has no other trace of the calls it came from.
- `ActsOnTheQubits` (`QubitsApart`), with `QInv == OneAllocates /\ SameQubits`. As long as
  at most one call allocates, the qubit bound to a register is the one with the
  very number in the program, and every pair ever used is of two equal numbers.
  `OneAllocates` counts: at most one of the calls under way has allocated, and it
  has allocated all there are.
- `KeepsOutcomes` (`OutcomesKept`), with `MInv`. A function that is under way
  twice would overwrite its own regions: it cannot be, since the circuits between
  the two calls would each apply one of their set, which no set of circuits does
  (`Grounded`, part of `TInv`).
- `ReturnsOutcome` (`ReturnFaithful`), with `RInv`: until the program has ended nothing has
  written the region of the entry point's return value, nor that of a register it
  returns that is not a measurement's.

**`ControlFlowProofs`.** `Invariance`: `Spec => []IInv`. The places of a function
(labels, instructions, terminators) are ordered by the layout, and for every
place the number of those before it that allocate, and of those that write an
instruction, is the number of its qubit and its position in the code.

- While the translator is under way, code and environment are those of the
  places before `next`: an instruction for each that writes one, at its position, and a
  binding for each allocation without a release laid out behind it (`TransInv`).
- Afterwards `SamePath` alone is not inductive: it says nothing of where Quil
  is while the function runs ahead. `Aimed` does: Quil's next instruction leads
  (`Leads`), over labels and along jumps alone, to the gate or the end that is
  pending or, if none is, to the function's place. `Leads(code, i, j)` says that every
  set of positions closed under these steps that has *i* has *j*; this is
  reachability without recursion. A step of Quil stays on its way, because a gate is
  not passed over; a step of the function prolongs it, over the label of the block
  it enters if that is the next one, or along the jump if it has one. Each of
  the departures is used at the one step that would break this.
- `TakesOnePath` (`SamePath`) and `OneQubitEach` (`OneToOne`) follow, the second because
  the numbers of two allocations differ and every register is allocated in one place.

That Quil, led to its goal, arrives there (`CatchesUp`) is liveness. `Leads`
does not exclude an endless loop; TLC does.

**Names, at the end of `ModuleTranslationProofs`.** For names of any length over any
set of characters:

- `PrefixInjective`: if neither register's name starts with an underscore or has
  two side by side (`Unambiguous`), two prefixed names are equal only if function
  and register are. Otherwise one function's name would be the longer, and
  the separator of the other name would lie inside the register's (lemma
  `NoLongerPrefix`). Without the condition it is false: register `b__c` of `a` and
  register `c` of `a__b`.
- `SanitisedInjective`: sanitising keeps apart names that hold no underscore, or
  no period.

The second gives `NamesDistinct`, the assumption of `EnvironmentProofs` and
`TranslationProofs`, for the registers of one function; both give `NamesApart`, the
premise of `OutcomesKept`, if no register is called `return_value`. They are
conditions on the input, and nothing in the code checks them.

**`TranslationProofs`.** The simulation of the QIR machine by the translator, under
`NamesDistinct`. `Faithful` is `BothSpec => []FaithfulOutput`, `Implements` is
`BothSpec => ImplementsQir` if `Tolerated` is empty.

`FaithfulOutput` alone is not inductive: it says nothing of what a name will yield
when it is used. The inductive invariant is `FollowInv`: as long as nothing departed,
the acts are the trace and `Related` holds, which says for every register what its
entry in the environment has to do with what the machine says it denotes.

- `EntriesMean`, by the LLVM type of the register. A qubit is bound to the qubit it
  denotes, or to an alias of the pointer it was loaded through (`Reads`). A pointer
  is bound to an Index whose base denotes its block and whose index is its offset, to
  an alias of a pointer of equal meaning, or to the data of an alloca. An array or a
  tuple is bound to a list of items that are the cells written so far, in their
  order, with no cell written behind them (`Filled`); a register of qubits to exactly its
  cells.
- `BlocksApart`: a block is filled through one array or tuple only, so a store
  through one pointer does not change what another array's items mean.
- `PointersValid` and `LooseMean`, for registers that have no binding: after a release,
  or because what defines them is ignored.
- `MachineTyped`: the shape of the machine's state; its counter of qubits is the
  translator's.

The proof has three layers. First, under `Related`, each way of finding operands
returns what the registers mean: `CallMeans` for arguments, `ControlsMean` for
an array of controls, `XCtlMeans` and so on, one lemma for each of the ways
listed in section 2. Second, the gate made of the operands acts as the machine performs
it (`GateActs`, `RotationActs`, `GateCtlActs`, ...): here the tables of names of gates
meet what intrinsics are called for, angles their doubles, and measurements their
bases. Third, each effect on the environment keeps
the relation: a register is defined (`Extended`), a cell is written in turn
(`WroteCell`), everything stays (`RelatedStays`). Every departure is used at exactly
one place, the step that would break the relation without it: a store out of turn
breaks `Filled`, a computed qubit breaks `LooseMean`, a misnamed gate
`GateCtlActs`, another basis makes a `Joint` act of a measurement. A step that fails leaves both sides as they were (`StepFails`). TLC
checked `Related` on the instances before it was proved.

`Implements` then needs that every step of the machine in `Qir` is one in `Promise`,
where the trace is the mapped output: the two differ in `trace` alone, which
`Faithful` shows to be equal (`Same`), and a step of `BothNext` takes
an action of `QirMachine`'s `Next` with operands within its bounds (`PromisedDefine`,
`PromisedModify`, `PromisedApply`), the one of the same `instruction`.

**Model-checked only.**

- The liveness properties `Terminates`, `CatchesUp` and `Completes`: out of the provers'
  reach, with fairness and ENABLED.

## 7. Not modelled

- Texts of errors, logging, printing of Quil, the conversion of an error to a
  Python exception: input and output around the translation, without state.
- The tests: they translate known files and look for an error, and keep no state.
- Several blocks with the whole vocabulary of `Environment`, and several bodies
  with several blocks: what passes from one to the next is the environment, which
  the modules for blocks and for bodies carry; what an instruction does with
  it does not depend on the block it is in.
- Labels in a circuit that is applied twice: whether they are told apart is up to
  the Quil that expands the circuit.
- Qubits that functions return, phi and select: the translator ignores them
  (`Ignored` in `Environment`), and the departure *computed qubit* says so.
- Stores of constants other than numbers beyond that they are refused.

## 8. What could follow

Every safety property that a passing run checks, and every refinement, is a
theorem. Beyond the liveness properties, which remain with TLC, the composition of
the three parts could be stated: the whole vocabulary of `Environment` inside the
blocks of `ControlFlow` inside the bodies of `ModuleTranslation`. Their interfaces,
`locals` and the counter in one case, `variables` and `circuit_definitions` in the
other, are what the theorems speak of.

## 9. Running it

    tlc -config Env.cfg MCEnvironment
    tlc -config TrBodies.cfg MCTranslation
    tlc -config Blocks.cfg MCControlFlow
    tlc -config Circuits.cfg Circuits
    tlc -config Module.cfg MCModule
    tlapm EnvironmentProofs.tla
    tlapm CircuitsProofs.tla
    tlapm ControlFlowProofs.tla
    tlapm EnumerationProofs.tla
    tlapm ModuleTranslationProofs.tla
    tlapm SearchProofs.tla
    tlapm ModuleExecutionProofs.tla
    tlapm TranslationProofs.tla

The module, properties and expected outcome of each run are in `PROJECT.json`,
with the map from definitions to source lines.
