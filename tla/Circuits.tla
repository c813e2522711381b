------------------------------ MODULE Circuits ------------------------------
(***************************************************************************)
(* The recursion through the call graph: translate_module translates the   *)
(* body of the entry point; the call of a function without a circuit is    *)
(* the translation of that function's body, whose result becomes its       *)
(* circuit; the call itself becomes a gate. The Rust call stack is the     *)
(* stack of this module; what else a body holds (Environment) shows here   *)
(* only in that its translation may fail.                                  *)
(***************************************************************************)
EXTENDS Naturals, Sequences, FiniteSets

CONSTANTS
    Functions,    \* names that bodies call, other than the intrinsics
    Entry,        \* the entry point
    MaxCalls,     \* bound: calls in a body
    StackLimit    \* how many nested translations the thread's stack can hold

ASSUME EntryAssumption  == Entry \in Functions
ASSUME FiniteAssumption == IsFiniteSet(Functions)
ASSUME LimitsAssumption == MaxCalls \in Nat /\ StackLimit \in Nat \ {0}

VARIABLES
    calls,       \* input: the functions that each function calls, in order
    defined,     \* input: the functions of which the module has the body
    stack,       \* the translations under way, the innermost last
    circuits,    \* GlobalEnvironment.circuit_definitions
    program,     \* the circuits in the order of the output, then its gates
    status       \* "running", "done", a TranslationError, or "overflow"

vars == <<calls, defined, stack, circuits, program, status>>

Bodies == UNION {[1 .. n -> Functions] : n \in 0 .. MaxCalls}

(* A translation of the body of fn that has come to its call number next    *)
(* and emitted these gates, one per call.                                   *)
Frame(fn) == [fn |-> fn, next |-> 1, gates |-> <<>>]
Frames    == [fn : Functions, next : Nat \ {0}, gates : Seq(Functions)]

(* Mutant: the entry point is not looked up. *)
InitUnchecked ==
    /\ defined \in SUBSET Functions
    /\ calls \in [Functions -> Bodies]
    /\ \A f \in Functions \ defined : calls[f] = <<>>
    /\ stack = IF Entry \in defined THEN <<Frame(Entry)>> ELSE <<>>
    /\ circuits = <<>>
    /\ program = <<>>
    /\ status = "running"

Init ==
    /\ defined \in SUBSET Functions
    /\ calls \in [Functions -> Bodies]
    /\ \A f \in Functions \ defined : calls[f] = <<>>
    /\ stack = IF Entry \in defined THEN <<Frame(Entry)>> ELSE <<>>
    /\ circuits = <<>>
    /\ program = <<>>
    /\ status = IF Entry \in defined THEN "running" ELSE "UndefinedEntryPoint"

Top    == stack[Len(stack)]
Below  == SubSeq(stack, 1, Len(stack) - 1)
AtCall == Top.next <= Len(calls[Top.fn])
Callee == calls[Top.fn][Top.next]

(* Mutant: a circuit that is applied already is not applied again. *)
AppliedOnce(frame, f) ==
    [frame EXCEPT !.next = @ + 1,
                  !.gates = IF \E i \in DOMAIN @ : @[i] = f THEN @ ELSE Append(@, f)]

Applied(frame, f) ==
    [fn |-> frame.fn, next |-> frame.next + 1, gates |-> Append(frame.gates, f)]

(* The callee has its circuit: the call is translated to a gate. *)
Apply ==
    /\ status = "running" /\ AtCall
    /\ Callee \in DOMAIN circuits
    /\ stack' = Append(Below, Applied(Top, Callee))
    /\ UNCHANGED <<calls, defined, circuits, program, status>>

(* Mutant: the body is translated whether the callee has a circuit or not. *)
DescendAlways ==
    /\ status = "running" /\ AtCall
    /\ Callee \in defined
    /\ Len(stack) < StackLimit
    /\ stack' = Append(stack, Frame(Callee))
    /\ UNCHANGED <<calls, defined, circuits, program, status>>

(* Mutant: an empty circuit is defined first, then the body is translated. *)
DescendDefined ==
    /\ status = "running" /\ AtCall
    /\ Callee \notin DOMAIN circuits
    /\ Callee \in defined
    /\ Len(stack) < StackLimit
    /\ stack' = Append(stack, Frame(Callee))
    /\ circuits' = [f \in DOMAIN circuits \union {Callee} |->
                       IF f = Callee THEN <<>> ELSE circuits[f]]
    /\ UNCHANGED <<calls, defined, program, status>>

(* The callee has none yet: its body is translated first. *)
Descend ==
    /\ status = "running" /\ AtCall
    /\ Callee \notin DOMAIN circuits
    /\ Callee \in defined
    /\ Len(stack) < StackLimit
    /\ stack' = Append(stack, Frame(Callee))
    /\ UNCHANGED <<calls, defined, circuits, program, status>>

(* Nothing bounds the recursion but the stack of the thread. *)
Overflow ==
    /\ status = "running" /\ AtCall
    /\ Callee \notin DOMAIN circuits
    /\ Callee \in defined
    /\ Len(stack) = StackLimit
    /\ status' = "overflow"
    /\ UNCHANGED <<calls, defined, stack, circuits, program>>

(* Mutant: a function without a circuit counts as missing. *)
MissingCircuit ==
    /\ status = "running" /\ AtCall
    /\ Callee \notin DOMAIN circuits
    /\ status' = "MissingFunctionDefinition"
    /\ UNCHANGED <<calls, defined, stack, circuits, program>>

Missing ==
    /\ status = "running" /\ AtCall
    /\ Callee \notin DOMAIN circuits
    /\ Callee \notin defined
    /\ status' = "MissingFunctionDefinition"
    /\ UNCHANGED <<calls, defined, stack, circuits, program>>

(* Mutant: the new circuit takes the place of the others. *)
ReturnOnly ==
    /\ status = "running" /\ ~AtCall
    /\ Len(stack) > 1
    /\ circuits' = [f \in {Top.fn} |-> Top.gates]
    /\ LET caller == Below[Len(Below)]
       IN  stack' = Append(SubSeq(Below, 1, Len(Below) - 1), Applied(caller, Top.fn))
    /\ UNCHANGED <<calls, defined, program, status>>

(* Mutant: the circuit is not kept, and the call looks for it again. *)
ReturnNothing ==
    /\ status = "running" /\ ~AtCall
    /\ Len(stack) > 1
    /\ stack' = Below
    /\ UNCHANGED <<calls, defined, circuits, program, status>>

(* A body is translated: its circuit is inserted, replacing one of the same *)
(* name, and the call that asked for it is translated to a gate.            *)
Return ==
    /\ status = "running" /\ ~AtCall
    /\ Len(stack) > 1
    /\ circuits' = [f \in DOMAIN circuits \union {Top.fn} |->
                       IF f = Top.fn THEN Top.gates ELSE circuits[f]]
    /\ LET caller == Below[Len(Below)]
       IN  stack' = Append(SubSeq(Below, 1, Len(Below) - 1),
                           Applied(caller, Top.fn))
    /\ UNCHANGED <<calls, defined, program, status>>

(* Some instruction of the innermost body cannot be translated; the error   *)
(* is passed up through every caller.                                       *)
Fail ==
    /\ status = "running"
    /\ status' = "error"
    /\ UNCHANGED <<calls, defined, stack, circuits, program>>

(* The entry point is translated. The definitions leave their HashMap in    *)
(* any order; the gates of the entry point come behind them.                *)
Orders(S) == {s \in [1 .. Cardinality(S) -> S] :
                 \A i, j \in DOMAIN s : s[i] = s[j] => i = j}

Finish ==
    /\ status = "running" /\ ~AtCall
    /\ Len(stack) = 1
    /\ \E order \in Orders(DOMAIN circuits) :
          program' = [i \in DOMAIN order |-> <<order[i], circuits[order[i]]>>]
                        \o <<<<"entry", Top.gates>>>>
    /\ status' = "done"
    /\ UNCHANGED <<calls, defined, stack, circuits>>

Next == Apply \/ Descend \/ Overflow \/ Missing \/ Return \/ Fail \/ Finish

Spec == Init /\ [][Next]_vars

(* The one thread runs on until it ends or fails. A body that fails is not  *)
(* forced to.                                                               *)
FairSpec == Spec /\ WF_vars(Apply \/ Descend \/ Overflow \/ Missing \/ Return \/ Finish)

-----------------------------------------------------------------------------
(* Properties *)

(* The shape of the state. *)
TypeOK ==
    /\ calls \in [Functions -> Seq(Functions)]
    /\ defined \in SUBSET Functions
    /\ stack \in Seq(Frames)
    /\ DOMAIN circuits \subseteq Functions
    /\ \A f \in DOMAIN circuits : circuits[f] \in Seq(Functions)
    /\ status \in {"running", "done", "error", "overflow",
                   "MissingFunctionDefinition", "UndefinedEntryPoint"}
    /\ status = "running" => stack # <<>>

(* Every circuit applies only circuits that are defined too, so the output  *)
(* needs nothing from outside, and holds one gate per call of its function, *)
(* in order.                                                                *)
Closed == \A f \in DOMAIN circuits :
             /\ circuits[f] = calls[f]
             /\ \A i \in DOMAIN calls[f] : calls[f][i] \in DOMAIN circuits

(* No function is translated again once it has a circuit, nor is a circuit  *)
(* defined while another translation of its function is under way: the      *)
(* translations under way are a chain of calls none of which is answered.   *)
TranslatedOnce ==
    \A i \in DOMAIN stack :
        /\ i > 1 => stack[i].fn \notin DOMAIN circuits
        /\ i < Len(stack) => /\ stack[i].next \in DOMAIN calls[stack[i].fn]
                             /\ calls[stack[i].fn][stack[i].next] = stack[i + 1].fn

(* The functions that a call of f leads to: the least set that holds what   *)
(* f calls and what its members call.                                       *)
Callees(f)   == {calls[f][i] : i \in DOMAIN calls[f]}
CallsWithin(S) == \A g \in S : Callees(g) \subseteq S
Reach(f) ==
    {g \in Functions :
        \A S \in SUBSET Functions : Callees(f) \subseteq S /\ CallsWithin(S) => g \in S}

Recursive == \E f \in Reach(Entry) \union {Entry} : f \in Reach(f)

(* The output holds one circuit for each function that the entry point      *)
(* leads to, and no other, then the gates of the entry point.               *)
ProgramComplete ==
    status = "done" =>
        /\ Len(program) = Cardinality(Reach(Entry)) + 1
        /\ {program[i][1] : i \in 1 .. Len(program) - 1} = Reach(Entry)
        /\ program[Len(program)][2] = calls[Entry]

(* Without recursion the call stack is never deeper than there are          *)
(* functions; recursion never yields a program.                             *)
DepthBounded ==
    /\ ~Recursive => Len(stack) <= Cardinality(Functions)
    /\ Recursive => status # "done"

(* A search that ends without a program has its cause in the module: it is  *)
(* recursive, if the stack could hold all of its functions, or lacks a body *)
(* that the entry point needs. No circuit is sought in vain.                *)
StopsForCause ==
    /\ status = "overflow" /\ StackLimit >= Cardinality(Functions) => Recursive
    /\ status = "MissingFunctionDefinition" => ~(Reach(Entry) \subseteq defined)

(* The circuits are built as CircuitLibrary promises. *)
Library == INSTANCE CircuitLibrary
ImplementsLibrary == Library!Spec

(* The translation of a module without recursion ends, and no error but     *)
(* that of an instruction or a missing body prevents its output.            *)
Terminates ==
    /\ <>(status # "running")
    /\ (~Recursive /\ Reach(Entry) \subseteq defined /\ status = "running")
          ~> (status \in {"done", "error"})

(* translate_module: "look up function defition", "define an equivalent     *)
(* circuit in the environment", "recurse": a function that calls itself     *)
(* finds its circuit defined, and the recursion stops.                      *)
RecursionStops == status # "overflow"
=============================================================================
