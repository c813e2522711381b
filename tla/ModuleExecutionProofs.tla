------------------------ MODULE ModuleExecutionProofs ------------------------
(***************************************************************************)
(* Proofs about ModuleExecution, for every module, every spelling of the   *)
(* names and every stack limit: the program acts on the qubits of the      *)
(* module, keeps its outcomes, and gives what it returns.                  *)
(***************************************************************************)
EXTENDS ModuleExecution, ModuleTranslationProofs

-----------------------------------------------------------------------------
(* Where the two machines are: the calls under way, the same on both sides, *)
(* and in each the position in the code that goes with that in the body.    *)

Position(m, frame) ==
    LET fun == m.functions[frame.fn]
    IN  /\ frame.fn \in Functions
        /\ frame.next \in 1 .. Len(fun.body) + 1
        /\ frame.at = Emitted(fun, frame.next) + 1
        /\ Listed(frame.values, Len(fun.params) + frame.next - 1)

FramesOK(m, D, frs) ==
    /\ Listed(frs, Len(frs))
    /\ frs # <<>> => frs[1].fn = Entry
    /\ \A i \in 1 .. Len(frs) : Position(m, frs[i]) /\ (i # 1 => frs[i].fn \in D)
    /\ \A i, j \in 1 .. Len(frs) : j = i + 1 => Waits(m, frs[i], frs[j].fn)

XInv ==
    /\ TInv
    /\ FramesOK(module, DOMAIN circuits, frames)
    /\ phase \in {"waiting", "running", "finished"}
    /\ phase = "waiting" => frames = <<>> /\ memory = <<>> /\ pairs = {}
    /\ phase # "waiting" => status = "done" /\ frames # <<>>

(* How many qubits a call has allocated; at most one call allocates any.    *)
Taken(m, frame) == Allotted(m.functions[frame.fn], frame.next)

OneAllocates ==
    /\ allocated \in Nat /\ allocators \in Nat
    /\ allocators = 0 =>
          allocated = 0 /\ \A i \in 1 .. Len(frames) : Taken(module, frames[i]) = 0
    /\ allocators = 1 =>
          /\ \A i \in 1 .. Len(frames) : Taken(module, frames[i]) \in {0, allocated}
          /\ \A i, j \in 1 .. Len(frames) :
                Taken(module, frames[i]) # 0 /\ Taken(module, frames[j]) # 0 => i = j

(* What a register that holds a qubit of the module stands for in the       *)
(* program is the qubit of the same number.                                 *)
ActualOf(frame, q) == IF "fixed" \in DOMAIN q THEN q.fixed ELSE frame.actual[q.variable]

Same(m, frame) ==
    LET fun == m.functions[frame.fn]
    IN  \A r \in QubitsBefore(fun, frame.next) :
           ActualOf(frame, Stands(frame.fn, fun, r)) = frame.values[r].qubit

SameQubits ==
    (RegistersApart /\ allocators <= 1) =>
        /\ \A i \in 1 .. Len(frames) : Same(module, frames[i])
        /\ \A p \in pairs : p[1] = p[2]

QInv == OneAllocates /\ SameQubits

(* Outcomes are where their registers' regions are. *)
MeasuredOf(fun) == {Len(fun.params) + i : i \in {j \in DOMAIN fun.body : fun.body[j].do = "measure"}}

Remembers(m, mem, frame) ==
    \A r \in MeasuredOf(m.functions[frame.fn]) :
        r <= Len(frame.values) =>
            /\ Region(frame.fn, r) \in DOMAIN mem
            /\ mem[Region(frame.fn, r)] = frame.values[r]

MInv == NamesApart => \A i \in 1 .. Len(frames) : Remembers(module, memory, frames[i])

(* Before the end the region of the entry point's return value is empty,    *)
(* and so is that of a register that is returned without being measured.    *)
Untouched ==
    LET r == Fun(Entry).ret.register
    IN  /\ ReturnLabel(FunctionNames[Entry]) \notin DOMAIN memory
        /\ r \notin Measured(Entry) => Region(Entry, r) \notin DOMAIN memory

RInv == /\ (NamesApart /\ Entry \in Returning /\ phase # "finished") => Untouched
        /\ ReturnFaithful

-----------------------------------------------------------------------------
(* What steps do to the calls: up to the p-th they stay, and that is fr.    *)

Topped(t, s, p, fr) ==
    p \in Nat \ {0} /\ Listed(t, p) /\ Len(t) = p /\ Agree(t, s, p - 1) /\ EndsWith(t, p, fr)

LEMMA CallsListed ==
    ASSUME NEW m, NEW D, NEW frs, FramesOK(m, D, frs), frs # <<>>
    PROVE  /\ Len(frs) \in Nat /\ Len(frs) >= 1 /\ DOMAIN frs = 1 .. Len(frs)
           /\ \E S : frs \in Seq(S)
<1>1. Listed(frs, Len(frs))
  BY DEF FramesOK
<1>2. PICK S : frs \in Seq(S)
  BY <1>1, ListedWith
<1>3. Len(frs) \in Nat /\ Len(frs) # 0 /\ DOMAIN frs = 1 .. Len(frs)
  BY <1>2, LenProperties, EmptySeq
<1> QED
  BY <1>2, <1>3

LEMMA ToppedReplaced ==
    ASSUME NEW m, NEW D, NEW frs, FramesOK(m, D, frs), frs # <<>>, NEW fr
    PROVE  Topped(Append(SubSeq(frs, 1, Len(frs) - 1), fr), frs, Len(frs), fr)
<1>1. Listed(frs, Len(frs))
  BY DEF FramesOK
<1>2. PICK S : frs \in Seq(S) /\ fr \in S
  BY <1>1, ListedWith
<1>3. PICK n \in Nat : n = Len(frs) /\ n >= 1
  BY CallsListed
<1>4. PICK t : t = Append(SubSeq(frs, 1, Len(frs) - 1), fr)
  OBVIOUS
<1>5. /\ t \in Seq(S) /\ Len(t) = n
      /\ \A i \in 1 .. n - 1 : t[i] = frs[i]
      /\ t[n] = fr
  BY <1>2, <1>3, <1>4, TopReplaced
<1>6. Listed(t, n)
  BY <1>5, ListedSeq
<1>7. n \in Nat \ {0}
  BY <1>3
<1>8. Topped(t, frs, n, fr)
  BY <1>5, <1>6, <1>7 DEF Topped, Agree, EndsWith
<1> QED
  BY <1>3, <1>4, <1>8

LEMMA ToppedPushed ==
    ASSUME NEW m, NEW D, NEW frs, FramesOK(m, D, frs), frs # <<>>, NEW fr
    PROVE  Topped(Append(frs, fr), frs, Len(frs) + 1, fr)
<1>1. Listed(frs, Len(frs))
  BY DEF FramesOK
<1>2. PICK S : frs \in Seq(S) /\ fr \in S
  BY <1>1, ListedWith
<1>3. PICK n \in Nat : n = Len(frs) /\ n >= 1
  BY CallsListed
<1>4. PICK t : t = Append(frs, fr)
  OBVIOUS
<1>5. PICK p \in Nat \ {0} : p = n + 1 /\ p - 1 = n
  BY <1>3
<1>6. /\ t \in Seq(S) /\ Len(t) = n + 1
      /\ \A i \in 1 .. n : t[i] = frs[i]
      /\ t[n + 1] = fr
  BY <1>2, <1>3, <1>4, OnePushed
<1>7. Listed(t, p) /\ Len(t) = p
  BY <1>5, <1>6, ListedSeq
<1>8. Topped(t, frs, p, fr)
  BY <1>5, <1>6, <1>7 DEF Topped, Agree, EndsWith
<1> QED
  BY <1>3, <1>4, <1>5, <1>8

LEMMA ToppedPopped ==
    ASSUME NEW m, NEW D, NEW frs, FramesOK(m, D, frs), Len(frs) > 1, NEW fr,
           NEW b, b = SubSeq(frs, 1, Len(frs) - 1)
    PROVE  /\ Topped(Append(SubSeq(b, 1, Len(b) - 1), fr), frs, Len(frs) - 1, fr)
           /\ EndsWith(b, Len(b), frs[Len(frs) - 1])
<1>1. Listed(frs, Len(frs))
  BY DEF FramesOK
<1>2. PICK S : frs \in Seq(S) /\ fr \in S
  BY <1>1, ListedWith
<1>3. PICK n \in Nat : n = Len(frs) /\ n > 1 /\ frs # <<>>
  BY <1>2, LenProperties, EmptySeq
<1>4. PICK t : t = Append(SubSeq(b, 1, Len(b) - 1), fr)
  OBVIOUS
<1>5. PICK p \in Nat \ {0} : p = n - 1
  BY <1>3
<1>6. /\ b \in Seq(S) /\ Len(b) = Len(frs) - 1
      /\ \A i \in 1 .. Len(frs) - 1 : b[i] = frs[i]
  BY <1>2, <1>3, BelowTop
<1>7. /\ b \in Seq(S) /\ Len(b) = p
      /\ \A i \in 1 .. p : b[i] = frs[i]
  BY <1>3, <1>5, <1>6
<1>8. b # <<>>
  BY <1>7, <1>5, EmptySeq
<1>9. /\ t \in Seq(S) /\ Len(t) = Len(b)
      /\ \A i \in 1 .. Len(b) - 1 : t[i] = b[i]
      /\ t[Len(b)] = fr
  BY <1>2, <1>4, <1>7, <1>8, TopReplaced
<1>10. \A i \in 1 .. p - 1 : i \in 1 .. Len(b) - 1 /\ i \in 1 .. p
  BY <1>5, <1>7
<1>11. \A i \in 1 .. p - 1 : t[i] = frs[i]
  BY <1>7, <1>9, <1>10
<1>12. Listed(t, p) /\ Len(t) = p
  BY <1>7, <1>9, ListedSeq
<1>13. Topped(t, frs, p, fr)
  BY <1>7, <1>9, <1>11, <1>12 DEF Topped, Agree, EndsWith
<1>14. b[Len(b)] = frs[p]
  BY <1>5, <1>7
<1>15. p = Len(frs) - 1
  BY <1>3, <1>5
<1> QED
  BY <1>4, <1>13, <1>14, <1>15 DEF EndsWith

(* Positions of a list that is topped. *)
LEMMA ToppedAt ==
    ASSUME NEW t, NEW s, NEW p, NEW fr, Topped(t, s, p, fr), NEW i \in 1 .. p
    PROVE  t[i] = IF i = p THEN fr ELSE s[i]
<1>1. p \in Nat /\ Agree(t, s, p - 1) /\ t[p] = fr
  BY DEF Topped, EndsWith
<1>2. i # p => i \in 1 .. p - 1
  BY <1>1
<1> QED
  BY <1>1, <1>2 DEF Agree

(* The calls stay as they should be if the innermost is. *)
LEMMA FramesKept ==
    ASSUME NEW m, NEW D, NEW s, FramesOK(m, D, s), NEW t, NEW p, NEW fr, Topped(t, s, p, fr),
           p <= Len(s) + 1, Len(s) >= 1, Position(m, fr),
           p <= Len(s) => fr.fn = s[p].fn,
           p = Len(s) + 1 => fr.fn \in D /\ Waits(m, s[Len(s)], fr.fn)
    PROVE  FramesOK(m, D, t) /\ t # <<>>
<1>1. p \in Nat \ {0} /\ Listed(t, p) /\ Len(t) = p
  BY DEF Topped
<1>2. PICK n : n = Len(s)
  OBVIOUS
<1>3. n \in Nat /\ n >= 1 /\ p <= n + 1
  BY <1>2 DEF FramesOK, Listed
<1>4. s # <<>> /\ t # <<>>
  BY <1>1, <1>2, <1>3, EmptySeq
<1>5. /\ s[1].fn = Entry
      /\ \A i \in 1 .. n : Position(m, s[i]) /\ (i # 1 => s[i].fn \in D)
      /\ \A i, j \in 1 .. n : j = i + 1 => Waits(m, s[i], s[j].fn)
  BY <1>2, <1>4 DEF FramesOK
<1>6. \A i \in 1 .. p : t[i] = IF i = p THEN fr ELSE s[i]
  BY ToppedAt
<1>7. \A i \in 1 .. p : i # p => i \in 1 .. n
  BY <1>1, <1>3
<1>8. /\ p \in 1 .. n => fr.fn = s[p].fn
      /\ p \notin 1 .. n => p = n + 1 /\ fr.fn \in D /\ Waits(m, s[n], fr.fn)
  BY <1>1, <1>2, <1>3
<1>9. \A i \in 1 .. p : i \in 1 .. n => t[i].fn = s[i].fn
  BY <1>6, <1>8
<1>10. t[1].fn = Entry
  BY <1>1, <1>3, <1>5, <1>9
<1>11. ASSUME NEW i \in 1 .. p
       PROVE  Position(m, t[i]) /\ (i # 1 => t[i].fn \in D)
  <2>1. CASE i \in 1 .. n
    BY <2>1, <1>5, <1>6, <1>9
  <2>2. CASE i \notin 1 .. n
    BY <2>2, <1>6, <1>7, <1>8
  <2> QED
    BY <2>1, <2>2
<1>12. ASSUME NEW i \in 1 .. p, NEW j \in 1 .. p, j = i + 1
       PROVE  Waits(m, t[i], t[j].fn)
  <2>1. i # p
    BY <1>1, <1>12
  <2>2. t[i] = s[i] /\ i \in 1 .. n
    BY <2>1, <1>6, <1>7
  <2>3. CASE j \in 1 .. n
    BY <2>2, <2>3, <1>5, <1>9, <1>12
  <2>4. CASE j \notin 1 .. n
    <3>1. j = p /\ p = n + 1
      BY <2>4, <1>7, <1>8
    <3>2. i = n
      BY <3>1, <1>3, <1>12
    <3> QED
      BY <2>2, <2>4, <3>1, <3>2, <1>6, <1>8
  <2> QED
    BY <2>3, <2>4
<1> QED
  BY <1>1, <1>4, <1>10, <1>11, <1>12 DEF FramesOK

(* No function is called twice at a time. *)
LEMMA CallsDiffer ==
    ASSUME NEW m \in Modules, NEW D, NEW s, FramesOK(m, D, s), Grounded(m, D), Entry \notin D,
           NEW i \in 1 .. Len(s), NEW j \in 1 .. Len(s), s[i].fn = s[j].fn
    PROVE  i = j
<1>1. PICK n \in Nat : n = Len(s)
  BY DEF FramesOK, Listed
<1>2. s # <<>>
  BY EmptySeq
<1>3. /\ s[1].fn = Entry
      /\ \A k \in 1 .. n : Position(m, s[k]) /\ (k # 1 => s[k].fn \in D)
      /\ \A k, l \in 1 .. n : l = k + 1 => Waits(m, s[k], s[l].fn)
  BY <1>1, <1>2 DEF FramesOK
<1>4. ASSUME NEW k \in 1 .. n, NEW l \in 1 .. n, l = k + 1
      PROVE  s[l].fn \in CalleesOf(m.functions[s[k].fn])
  <2>1. Waits(m, s[k], s[l].fn) /\ Position(m, s[k])
    BY <1>3, <1>4
  <2>2. PICK fun, a : fun = m.functions[s[k].fn] /\ a = s[k].next
    OBVIOUS
  <2>3. /\ a \in 1 .. Len(fun.body) + 1 /\ a <= Len(fun.body)
        /\ fun.body[a].do = "call" /\ fun.body[a].fn = s[l].fn
    BY <2>1, <2>2 DEF Waits, Position
  <2>4. a \in 1 .. Len(fun.body)
    BY <2>3
  <2> QED
    BY <2>2, <2>3, <2>4 DEF CalleesOf
<1>5. ASSUME NEW a \in 1 .. n, NEW b \in 1 .. n, a < b, s[a].fn = s[b].fn
      PROVE  FALSE
  <2>1. b # 1 /\ s[b].fn \in D
    BY <1>1, <1>3, <1>5
  <2>2. a # 1
    BY <2>1, <1>3, <1>5
  <2>3. \A k \in a .. b : k \in 1 .. n /\ k # 1
    BY <2>2, <1>1
  <2>4. PICK S : S = {s[k].fn : k \in a .. b}
    OBVIOUS
  <2>5. S \in SUBSET D
    BY <2>3, <2>4, <1>3
  <2>6. s[a].fn \in S
    BY <2>4, <1>5
  <2>7. PICK f \in S : \A g \in CalleesOf(m.functions[f]) : g \notin S
    BY <2>5, <2>6 DEF Grounded
  <2>8. PICK k \in a .. b : f = s[k].fn
    BY <2>4, <2>7
  <2>9. PICK c : c = IF k = b THEN a ELSE k
    OBVIOUS
  <2>10. c \in a .. b /\ c < b /\ s[c].fn = f
    BY <2>8, <2>9, <1>5
  <2>11. PICK l \in a .. b : l = c + 1
    BY <2>10
  <2>12. s[l].fn \in S
    BY <2>4
  <2>13. s[l].fn \in CalleesOf(m.functions[f])
    BY <2>3, <2>10, <2>11, <1>4
  <2> QED
    BY <2>7, <2>12, <2>13
<1>6. ~(i < j) /\ ~(j < i)
  BY <1>1, <1>5
<1> QED
  BY <1>1, <1>6

-----------------------------------------------------------------------------
(* The innermost call and its code. *)

LEMMA NowFacts ==
    ASSUME XInv, phase # "waiting", NEW fun, fun = module.functions[Now.fn]
    PROVE  /\ module \in Modules /\ status = "done" /\ frames # <<>>
           /\ Len(frames) \in Nat /\ Len(frames) >= 1 /\ DOMAIN frames = 1 .. Len(frames)
           /\ Now = frames[Len(frames)]
           /\ Position(module, Now) /\ fun = Fun(Now.fn)
           /\ Len(frames) # 1 => Now.fn \in DOMAIN circuits
           /\ Len(frames) = 1 => Now.fn = Entry
           /\ program.circuits = circuits
           /\ BodyOK(module, DOMAIN circuits, Now.fn, Code)
<1>1. /\ status = "done" /\ frames # <<>> /\ module \in Modules
      /\ FramesOK(module, DOMAIN circuits, frames)
  BY DEF XInv, TInv
<1>2. Len(frames) \in Nat /\ Len(frames) >= 1 /\ DOMAIN frames = 1 .. Len(frames)
  BY <1>1, CallsListed
<1>3. /\ Position(module, Now)
      /\ Len(frames) # 1 => Now.fn \in DOMAIN circuits
      /\ Len(frames) = 1 => Now.fn = Entry
  BY <1>1, <1>2 DEF FramesOK, Now
<1>4. OutputOK(module, circuits, DOMAIN variables, program)
  BY <1>1 DEF XInv, TInv
<1>5. program.circuits = circuits
  BY <1>4 DEF OutputOK
<1>6. BodyOK(module, DOMAIN circuits, Now.fn, Code)
  <2>1. CASE Len(frames) = 1
    BY <2>1, <1>3, <1>4 DEF OutputOK, Code
  <2>2. CASE Len(frames) # 1
    <3>1. Code = circuits[Now.fn].code
      BY <2>2, <1>5 DEF Code
    <3>2. Built(module, DOMAIN circuits, DOMAIN variables, Now.fn, circuits[Now.fn])
      BY <2>2, <1>3 DEF XInv, TInv, CircuitsOK
    <3> QED
      BY <3>1, <3>2 DEF Built, CircuitOK
  <2> QED
    BY <2>1, <2>2
<1> QED
  BY <1>1, <1>2, <1>3, <1>5, <1>6 DEF Fun, Now

(* What the translation has left behind. *)
LEMMA DoneFacts ==
    ASSUME XInv, phase # "waiting"
    PROVE  /\ Grounded(module, DOMAIN circuits) /\ Entry \notin DOMAIN circuits
           /\ Numbers(module.functions[Entry])
           /\ Entry \in module.defined
<1>1. stack # <<>> /\ StackOK(module, DOMAIN circuits, DOMAIN variables, stack)
  BY DEF XInv, TInv, Prepared
<1>2. stack[1].fn = Entry
  BY <1>1 DEF StackOK
<1>3. 1 \in 1 .. Len(stack)
  BY <1>1, StackTop
<1>4. Underway(module, DOMAIN circuits, DOMAIN variables, stack[1])
  BY <1>1, <1>3 DEF StackOK
<1>5. Entry \notin DOMAIN circuits /\ Entry \in module.defined
  BY <1>2, <1>4 DEF Underway, FrameOK
<1>6. Numbers(module.functions[Entry])
  BY <1>1 DEF XInv, TInv, Prepared
<1> QED
  BY <1>5, <1>6 DEF XInv, TInv, CircuitsOK

(* The next instruction of the program is what the module's became. *)
LEMMA NextBecame ==
    ASSUME XInv, phase # "waiting", NEW fun, fun = module.functions[Now.fn],
           Now.next \in 1 .. Len(fun.body), fun.body[Now.next].do # "alloc"
    PROVE  Becomes(Now.fn, fun, Now.next, NextOp)
<1>1. BodyOK(module, DOMAIN circuits, Now.fn, Code) /\ Position(module, Now)
  BY NowFacts
<1>2. PICK k \in 1 .. Len(fun.body) : k = Now.next
  OBVIOUS
<1>3. Now.at = Emitted(fun, k) + 1
  BY <1>1, <1>2 DEF Position
<1>4. k \in Emitters(fun) /\ k < Len(fun.body) + 1
  BY <1>2 DEF Emitters
<1>5. CodeUpTo(Now.fn, fun, Len(fun.body) + 1, Code)
  BY <1>1 DEF BodyOK
<1>6. Becomes(Now.fn, fun, k, Code[Emitted(fun, k) + 1])
  BY <1>4, <1>5 DEF CodeUpTo
<1> QED
  BY <1>2, <1>3, <1>6 DEF NextOp

LEMMA LastMoves ==
    ASSUME XInv, phase # "waiting", NEW fun, fun = module.functions[Now.fn],
           Now.next > Len(fun.body)
    PROVE  /\ Now.next = Len(fun.body) + 1
           /\ fun.ret.returns = "register" =>
                 /\ NextOp.to = ReturnLabel(FunctionNames[Now.fn])
                 /\ NextOp.from = Region(Now.fn, fun.ret.register)
<1>1. /\ BodyOK(module, DOMAIN circuits, Now.fn, Code) /\ Position(module, Now)
      /\ module \in Modules
  BY NowFacts
<1>2. Len(fun.body) \in Nat
  BY <1>1, BodyTypes DEF Position
<1>3. Now.next \in 1 .. Len(fun.body) + 1
  BY <1>1 DEF Position
<1>4. Now.next = Len(fun.body) + 1
  BY <1>2, <1>3
<1>5. Now.at = Emitted(fun, Len(fun.body) + 1) + 1
  BY <1>1, <1>4 DEF Position
<1>6. ASSUME fun.ret.returns = "register"
      PROVE  NextOp = Move(ReturnLabel(FunctionNames[Now.fn]), Region(Now.fn, fun.ret.register))
  BY <1>1, <1>5, <1>6 DEF BodyOK, Moving, NextOp
<1> QED
  BY <1>4, <1>6 DEF Move

(* An instruction is done in a call: all but allocations take the program a *)
(* step further.                                                            *)
Takes(fun, k, steps) == steps = IF fun.body[k].do = "alloc" THEN 0 ELSE 1

LEMMA PastPosition ==
    ASSUME NEW m \in Modules, NEW frame, Position(m, frame),
           NEW fun, fun = m.functions[frame.fn], frame.next <= Len(fun.body),
           NEW steps, Takes(fun, frame.next, steps),
           NEW v, NEW fr, fr = Past(frame, steps, v)
    PROVE  /\ Position(m, fr) /\ fr.fn = frame.fn /\ fr.next = frame.next + 1
           /\ fr.actual = frame.actual
           /\ Agree(fr.values, frame.values, Len(frame.values))
           /\ EndsWith(fr.values, Len(frame.values) + 1, v)
           /\ Len(frame.values) = Len(fun.params) + frame.next - 1
           /\ Len(fr.values) = Len(frame.values) + 1
           /\ Len(frame.values) \in Nat
<1>1. PICK k, n : k = frame.next /\ n = Len(fun.params) + k - 1
  OBVIOUS
<1>2. /\ frame.fn \in Functions /\ k \in 1 .. Len(fun.body) + 1
      /\ frame.at = Emitted(fun, k) + 1
      /\ Listed(frame.values, n)
  BY <1>1 DEF Position
<1>3. Len(fun.body) \in Nat /\ Len(fun.params) \in Nat
  BY <1>2, BodyTypes
<1>4. k \in 1 .. Len(fun.body)
  BY <1>1, <1>2, <1>3
<1>5. /\ fr.fn = frame.fn /\ fr.next = k + 1 /\ fr.actual = frame.actual
      /\ fr.at = frame.at + steps
      /\ fr.values = Append(frame.values, v)
  BY <1>1 DEF Past
<1>6. fr.at = Emitted(fun, k + 1) + 1
  <2>1. /\ Emitted(fun, k) \in Nat
        /\ fun.body[k].do = "alloc" => Emitted(fun, k + 1) = Emitted(fun, k)
        /\ fun.body[k].do # "alloc" => Emitted(fun, k + 1) = Emitted(fun, k) + 1
    BY <1>3, <1>4, Counts
  <2>2. PICK e \in Nat : e = Emitted(fun, k)
    BY <2>1
  <2>3. fr.at = (e + 1) + steps
    BY <2>2, <1>2, <1>5
  <2>4. Emitted(fun, k + 1) = e + steps /\ steps \in Nat
    BY SMTT(20), <2>1, <2>2, <1>1 DEF Takes
  <2>5. PICK x \in Nat : x = steps
    BY <2>4
  <2>6. (e + 1) + x = (e + x) + 1
    BY <2>2, <2>5
  <2> QED
    BY <2>3, <2>4, <2>5, <2>6
<1>7. /\ Listed(fr.values, n + 1)
      /\ Agree(fr.values, frame.values, n)
      /\ EndsWith(fr.values, n + 1, v)
  BY <1>2, <1>5, ListedAppend
<1>8. Len(frame.values) = n /\ Len(fr.values) = n + 1 /\ n \in Nat
  BY <1>2, <1>7, ListedIs
<1>9. n + 1 = Len(fun.params) + (k + 1) - 1 /\ k + 1 \in 1 .. Len(fun.body) + 1
  <2>1. PICK p \in Nat, j \in Nat : p = Len(fun.params) /\ j = k /\ n = p + j - 1
    BY <1>1, <1>3, <1>4
  <2>2. n + 1 = p + (j + 1) - 1
    BY <2>1
  <2> QED
    BY <2>1, <2>2, <1>3, <1>4
<1>10. Position(m, fr)
  BY <1>2, <1>5, <1>6, <1>7, <1>9 DEF Position
<1> QED
  BY <1>1, <1>5, <1>7, <1>8, <1>10

(* The next instruction done in the innermost call. *)
LEMMA GoesOn ==
    ASSUME XInv, phase # "waiting", NEW fun, fun = module.functions[Now.fn],
           Now.next <= Len(fun.body),
           NEW steps, Takes(fun, Now.next, steps),
           NEW v, Goes(steps, v)
    PROVE  /\ Topped(frames', frames, Len(frames), Past(Now, steps, v))
           /\ FramesOK(module, DOMAIN circuits, frames') /\ frames' # <<>>
<1>1. /\ module \in Modules /\ frames # <<>> /\ Position(module, Now)
      /\ Len(frames) \in Nat /\ Len(frames) >= 1 /\ Now = frames[Len(frames)]
      /\ FramesOK(module, DOMAIN circuits, frames)
  BY NowFacts DEF XInv
<1>2. PICK fr : fr = Past(Now, steps, v)
  OBVIOUS
<1>3. Topped(frames', frames, Len(frames), fr)
  BY <1>1, <1>2, ToppedReplaced DEF Goes, Callers
<1>4. Position(module, fr) /\ fr.fn = Now.fn
  <2>1. PICK frame : frame = Now
    OBVIOUS
  <2>2. /\ Position(module, frame) /\ fun = module.functions[frame.fn]
        /\ frame.next <= Len(fun.body)
        /\ Takes(fun, frame.next, steps)
        /\ fr = Past(frame, steps, v)
    BY <2>1, <1>1, <1>2
  <2>3. Position(module, fr) /\ fr.fn = frame.fn
    BY <2>2, <1>1, PastPosition
  <2> QED
    BY <2>1, <2>3
<1>5. PICK p \in Nat : p = Len(frames)
  BY <1>1
<1>6. p <= p + 1 /\ p # p + 1
  OBVIOUS
<1>7. FramesOK(module, DOMAIN circuits, frames') /\ frames' # <<>>
  BY <1>1, <1>3, <1>4, <1>5, <1>6, FramesKept
<1> QED
  BY <1>2, <1>3, <1>7

(* What the registers of a callee hold, and what its formal qubits stand    *)
(* for.                                                                     *)
PassedValues(m, frame, g) ==
    LET qs   == QubitParams(m.functions[g])
        args == m.functions[frame.fn].body[frame.next].args
    IN  [i \in DOMAIN m.functions[g].params |->
            IF \E k \in DOMAIN qs : qs[k] = i
            THEN frame.values[args[CHOOSE k \in DOMAIN qs : qs[k] = i]]
            ELSE Nothing]

PassedActual(formals, frame, op) ==
    [x \in {formals[k] : k \in DOMAIN formals} |->
        ActualOf(frame, op.qubits[CHOOSE k \in DOMAIN formals : formals[k] = x])]

LEMMA NothingBefore ==
    ASSUME NEW m \in Modules, NEW g \in Functions
    PROVE  Emitted(m.functions[g], 1) = 0 /\ Allotted(m.functions[g], 1) = 0
<1>1. PICK gun : gun = m.functions[g]
  OBVIOUS
<1>2. Len(gun.body) \in Nat
  BY <1>1, BodyTypes
<1>3. \A i \in 1 .. Len(gun.body) : i \in Nat /\ i # 0
  BY <1>2
<1>4. Emitters(gun) \in SUBSET (Nat \ {0}) /\ Allocations(gun) \in SUBSET (Nat \ {0})
  BY <1>3 DEF Emitters, Allocations
<1> QED
  BY <1>1, <1>4, UnderNone DEF Emitted, Allotted

LEMMA CallFacts ==
    ASSUME XInv, phase # "waiting", Now.next <= Len(Fun(Now.fn).body), NextQir.do = "call",
           NEW fun, fun = module.functions[Now.fn], NEW g, g = NextQir.fn
    PROVE  /\ Now.next \in 1 .. Len(fun.body) /\ fun.body[Now.next].do = "call"
           /\ g = fun.body[Now.next].fn
           /\ g \in DOMAIN circuits /\ g \in Functions /\ Waits(module, Now, g)
           /\ Emitted(module.functions[g], 1) = 0 /\ Allotted(module.functions[g], 1) = 0
<1>1. /\ module \in Modules /\ Position(module, Now) /\ fun = Fun(Now.fn)
      /\ BodyOK(module, DOMAIN circuits, Now.fn, Code)
  BY NowFacts
<1>2. PICK k, l : k = Now.next /\ l = Len(fun.body)
  OBVIOUS
<1>3. k \in 1 .. l + 1 /\ Now.fn \in Functions
  BY <1>1, <1>2 DEF Position
<1>4. l \in Nat
  BY <1>1, <1>2, <1>3, BodyTypes
<1>5. k <= l /\ fun.body[k].do = "call" /\ fun.body[k].fn = g
  BY <1>1, <1>2 DEF NextQir
<1>6. k \in 1 .. l /\ k < l + 1
  BY <1>3, <1>4, <1>5
<1>7. g \in DOMAIN circuits
  BY <1>1, <1>2, <1>5, <1>6 DEF BodyOK, Answered
<1>8. g \in Functions
  <2>1. k \in 1 .. Len(fun.body)
    BY <1>2, <1>6
  <2>2. PICK i, f : i = fun.body[k] /\ f = Now.fn /\ f \in Functions
                      /\ fun = module.functions[f]
    BY <1>3
  <2>3. i.do = "call" => i.fn \in Functions
    BY <2>1, <2>2, <1>1, InstructionTypes
  <2> QED
    BY <2>2, <2>3, <1>5
<1>9. Waits(module, Now, g)
  BY <1>2, <1>5 DEF Waits
<1>10. Emitted(module.functions[g], 1) = 0 /\ Allotted(module.functions[g], 1) = 0
  BY <1>1, <1>8, NothingBefore
<1> QED
  BY <1>2, <1>5, <1>6, <1>7, <1>8, <1>9, <1>10

LEMMA FreshPosition ==
    ASSUME NEW m \in Modules, NEW g \in Functions, Emitted(m.functions[g], 1) = 0,
           NEW fr, fr.fn = g, fr.next = 1, fr.at = 1,
           Listed(fr.values, Len(m.functions[g].params))
    PROVE  Position(m, fr)
<1>1. PICK gun : gun = m.functions[g]
  OBVIOUS
<1>2. PICK p \in Nat : p = Len(gun.params)
  BY <1>1, BodyTypes
<1>4. Len(gun.body) \in Nat
  BY <1>1, BodyTypes
<1>5. Listed(fr.values, p)
  BY <1>1, <1>2
<1>6. p + 1 - 1 = p /\ 0 + 1 = 1
  BY <1>2
<1>7. 1 \in 1 .. Len(gun.body) + 1
  BY <1>4
<1> QED
  BY <1>1, <1>2, <1>5, <1>6, <1>7 DEF Position

LEMMA Enters ==
    ASSUME XInv, DoCall, NEW g, g = NextQir.fn, NEW fr,
           fr = Activation(g, PassedValues(module, Now, g),
                           PassedActual(circuits[g].qubits, Now, NextOp))
    PROVE  /\ Topped(frames', frames, Len(frames) + 1, fr)
           /\ FramesOK(module, DOMAIN circuits, frames') /\ frames' # <<>>
           /\ fr.fn = g /\ fr.next = 1 /\ fr.values = PassedValues(module, Now, g)
           /\ fr.actual = PassedActual(circuits[g].qubits, Now, NextOp)
<1>0. phase # "waiting" /\ Now.next <= Len(Fun(Now.fn).body) /\ NextQir.do = "call"
  BY DEF DoCall, Running
<1>1. /\ module \in Modules /\ frames # <<>>
      /\ Len(frames) \in Nat /\ Len(frames) >= 1 /\ Now = frames[Len(frames)]
      /\ FramesOK(module, DOMAIN circuits, frames) /\ program.circuits = circuits
  BY <1>0, NowFacts DEF XInv
<1>2. /\ g \in DOMAIN circuits /\ g \in Functions /\ Waits(module, Now, g)
      /\ Emitted(module.functions[g], 1) = 0
  BY <1>0, CallFacts
<1>3. /\ fr.fn = g /\ fr.next = 1 /\ fr.at = 1
      /\ fr.values = PassedValues(module, Now, g)
      /\ fr.actual = PassedActual(circuits[g].qubits, Now, NextOp)
  BY DEF Activation
<1>4. PICK p \in Nat : p = Len(module.functions[g].params)
  BY <1>1, <1>2, BodyTypes
<1>5. Listed(fr.values, p)
  <2>1. DOMAIN module.functions[g].params = 1 .. p
    BY <1>1, <1>2, <1>4, BodyTypes
  <2> QED
    BY <1>3, <1>4, <2>1 DEF PassedValues, Listed
<1>6. Position(module, fr)
  <2>1. Listed(fr.values, Len(module.functions[g].params))
    BY <1>4, <1>5
  <2> QED
    BY <1>1, <1>2, <1>3, <2>1, FreshPosition
<1>7. frames' = Append(frames, fr)
  <2>1. frames' = Append(frames,
           Activation(NextQir.fn, PassedValues(module, Now, NextQir.fn),
                      PassedActual(program.circuits[NextQir.fn].qubits, Now, NextOp)))
    BY Zenon DEF DoCall, Actual, ActualOf, PassedValues, PassedActual, Fun, NextQir
  <2> QED
    BY <2>1, <1>1
<1>8. Topped(frames', frames, Len(frames) + 1, fr)
  BY <1>1, <1>7, ToppedPushed
<1>9. PICK q \in Nat : q = Len(frames)
  BY <1>1
<1>10. ~(q + 1 <= q) /\ q + 1 <= q + 1
  OBVIOUS
<1>11. FramesOK(module, DOMAIN circuits, frames') /\ frames' # <<>>
  BY <1>1, <1>2, <1>3, <1>6, <1>8, <1>9, <1>10, FramesKept
<1> QED
  BY <1>3, <1>8, <1>11

(* The caller goes on where the callee has ended. *)
LEMMA Leaves ==
    ASSUME XInv, DoReturn, NEW n, n = Len(frames) - 1, NEW caller, caller = frames[n],
           NEW fun, fun = module.functions[caller.fn]
    PROVE  /\ n \in 1 .. Len(frames) /\ Len(frames) = n + 1 /\ n \in Nat
           /\ Topped(frames', frames, n, Past(caller, 1, Value))
           /\ FramesOK(module, DOMAIN circuits, frames') /\ frames' # <<>>
           /\ Position(module, caller)
           /\ caller.next \in 1 .. Len(fun.body) /\ caller.next <= Len(fun.body)
           /\ fun.body[caller.next].do = "call" /\ fun.body[caller.next].fn = Now.fn
<1>0. phase # "waiting"
  BY DEF DoReturn, AtReturn
<1>1. /\ module \in Modules /\ frames # <<>>
      /\ Len(frames) \in Nat /\ Now = frames[Len(frames)]
      /\ FramesOK(module, DOMAIN circuits, frames)
  BY <1>0, NowFacts DEF XInv
<1>2. Len(frames) > 1
  BY DEF DoReturn
<1>3. /\ n \in Nat /\ n + 1 = Len(frames) /\ n >= 1
      /\ n \in 1 .. Len(frames) /\ n + 1 \in 1 .. Len(frames)
      /\ n <= Len(frames) /\ n <= Len(frames) + 1 /\ n # Len(frames) + 1
      /\ Len(frames) >= 1
  BY <1>1, <1>2
<1>4. Position(module, caller) /\ Waits(module, caller, Now.fn)
  BY <1>1, <1>3 DEF FramesOK
<1>5. /\ caller.next <= Len(fun.body) /\ fun.body[caller.next].do = "call"
      /\ fun.body[caller.next].fn = Now.fn
  BY <1>4 DEF Waits
<1>6. caller.fn \in Functions /\ caller.next \in 1 .. Len(fun.body) + 1
  BY <1>4 DEF Position
<1>7. Len(fun.body) \in Nat
  BY <1>1, <1>6, BodyTypes
<1>8. caller.next \in 1 .. Len(fun.body)
  BY SMTT(20), <1>5, <1>6, <1>7
<1>9. PICK fr : fr = Past(caller, 1, Value)
  OBVIOUS
<1>10. Position(module, fr) /\ fr.fn = caller.fn
  <2>1. PICK steps : steps = 1
    OBVIOUS
  <2>2. Takes(fun, caller.next, steps)
    BY <1>5, <2>1 DEF Takes
  <2>3. fr = Past(caller, steps, Value)
    BY <1>9, <2>1
  <2>4. PICK v : v = Value
    OBVIOUS
  <2>5. fr = Past(caller, steps, v)
    BY <2>3, <2>4
  <2> QED
    BY SMTT(20), <1>1, <1>4, <1>5, <2>2, <2>5, PastPosition
<1>11. Topped(frames', frames, n, fr)
  <2>1. PICK b : b = Callers
    OBVIOUS
  <2>2. PICK fr2 : fr2 = Past(b[Len(b)], 1, Value)
    OBVIOUS
  <2>3. frames' = Append(SubSeq(b, 1, Len(b) - 1), fr2)
    BY <2>1, <2>2 DEF DoReturn
  <2>4. /\ Topped(Append(SubSeq(b, 1, Len(b) - 1), fr2), frames, Len(frames) - 1, fr2)
        /\ EndsWith(b, Len(b), frames[Len(frames) - 1])
    BY <1>1, <1>2, <2>1, ToppedPopped DEF Callers
  <2>5. b[Len(b)] = caller
    BY <2>4 DEF EndsWith
  <2> QED
    BY <2>2, <2>3, <2>4, <2>5, <1>9
<1>12. FramesOK(module, DOMAIN circuits, frames') /\ frames' # <<>>
  BY <1>1, <1>3, <1>10, <1>11, FramesKept
<1> QED
  BY <1>3, <1>4, <1>5, <1>8, <1>9, <1>11, <1>12

-----------------------------------------------------------------------------
(* The calls stay as they should be. *)

LEMMA NoCalls ==
    ASSUME NEW m, NEW D
    PROVE  FramesOK(m, D, <<>>)
<1>1. <<>> \in Seq({}) /\ Len(<<>>) = 0
  BY EmptySeq
<1>2. Listed(<<>>, 0)
  BY <1>1, ListedSeq
<1>3. \A i \in 1 .. 0 : FALSE
  OBVIOUS
<1> QED
  BY <1>1, <1>2, <1>3 DEF FramesOK

LEMMA OneCall ==
    ASSUME NEW m, NEW D, NEW fr, Position(m, fr), fr.fn = Entry
    PROVE  FramesOK(m, D, <<fr>>) /\ <<fr>> # <<>>
<1>1. PICK t : t = <<fr>>
  OBVIOUS
<1>2. t \in Seq({fr}) /\ Len(t) = 1 /\ t[1] = fr
  BY <1>1
<1>3. Listed(t, 1) /\ t # <<>>
  <2>1. Listed(t, Len(t))
    BY <1>2, ListedSeq
  <2>2. t # <<>>
    BY <1>2, EmptySeq
  <2> QED
    BY <1>2, <2>1, <2>2
<1>4. \A i \in 1 .. 1 : i = 1
  OBVIOUS
<1>5. ~(1 = 1 + 1)
  OBVIOUS
<1>6. \A i, j \in 1 .. 1 : ~(j = i + 1)
  BY <1>4, <1>5
<1>7. FramesOK(m, D, t)
  BY <1>2, <1>3, <1>4, <1>6 DEF FramesOK
<1> QED
  BY <1>1, <1>3, <1>7

LEMMA TranslateRuns == XInv /\ Translate => XInv'
<1> SUFFICES ASSUME XInv, Translate PROVE XInv'
  OBVIOUS
<1>1. TInv' /\ UNCHANGED xvars
  BY StepTranslates DEF Translate, XInv
<1>2. status # "done"
  BY DEF Translate, Next, Read, FindEntry, PrimeConstants, PrimeParameters, Goto, Allocate, Gate,
         Measure, Call, Descend, Overflow, Missing, ReturnConstant, Return, Finish, At
<1>3. phase = "waiting" /\ frames = <<>> /\ memory = <<>> /\ pairs = {}
  BY <1>2 DEF XInv
<1>4. FramesOK(module, DOMAIN circuits, frames)'
  BY <1>1, <1>3, NoCalls DEF xvars
<1> QED
  BY <1>1, <1>3, <1>4 DEF XInv, xvars

LEMMA StartRuns == XInv /\ Start => XInv'
<1> SUFFICES ASSUME XInv, Start PROVE XInv'
  OBVIOUS
<1>1. TInv' /\ UNCHANGED vars
  BY StepTranslates DEF Start, XInv
<1>2. module \in Modules /\ Entry \in Functions
  BY EntryAssumption DEF XInv, TInv
<1>3. PICK p \in Nat : p = Len(module.functions[Entry].params)
                         /\ DOMAIN module.functions[Entry].params = 1 .. p
  BY <1>2, BodyTypes
<1>4. PICK fr : fr = Activation(Entry, [i \in DOMAIN Fun(Entry).params |-> Nothing], <<>>)
  OBVIOUS
<1>5. /\ fr.fn = Entry /\ fr.next = 1 /\ fr.at = 1
      /\ fr.values = [i \in DOMAIN Fun(Entry).params |-> Nothing]
  BY <1>4 DEF Activation
<1>6. Listed(fr.values, p)
  BY <1>3, <1>5 DEF Fun, Listed
<1>7. Listed(fr.values, Len(module.functions[Entry].params))
  BY <1>3, <1>6
<1>8. Emitted(module.functions[Entry], 1) = 0
  BY <1>2, NothingBefore
<1>9. Position(module, fr)
  BY <1>2, <1>5, <1>7, <1>8, FreshPosition
<1>10. frames' = <<fr>> /\ phase' = "running" /\ status = "done"
  BY <1>4 DEF Start
<1>11. FramesOK(module, DOMAIN circuits, <<fr>>) /\ <<fr>> # <<>>
  BY <1>5, <1>9, OneCall
<1> QED
  BY <1>1, <1>10, <1>11 DEF XInv, vars

LEMMA RunningRuns ==
    ASSUME XInv, phase # "waiting", UNCHANGED vars, phase' \in {"running", "finished"},
           FramesOK(module, DOMAIN circuits, frames'), frames' # <<>>
    PROVE  XInv'
<1>1. TInv'
  BY StepTranslates DEF XInv
<1> QED
  BY <1>1 DEF XInv, vars

LEMMA InstructionRuns == XInv /\ (DoAllocate \/ DoGate \/ DoMeasure) => XInv'
<1> SUFFICES ASSUME XInv, DoAllocate \/ DoGate \/ DoMeasure PROVE XInv'
  OBVIOUS
<1> DEFINE fun == module.functions[Now.fn]
<1>1. /\ phase = "running" /\ phase' = phase /\ UNCHANGED vars
      /\ Now.next <= Len(fun.body)
  BY DEF DoAllocate, DoGate, DoMeasure, Running, Fun
<1>2. \E steps, v : Takes(fun, Now.next, steps) /\ Goes(steps, v)
  BY DEF DoAllocate, DoGate, DoMeasure, Running, Fun, NextQir, Takes
<1> HIDE DEF fun
<1>3. PICK steps, v : Takes(fun, Now.next, steps) /\ Goes(steps, v)
  BY <1>2
<1>4. FramesOK(module, DOMAIN circuits, frames') /\ frames' # <<>>
  BY <1>1, <1>3, GoesOn DEF fun
<1> QED
  BY <1>1, <1>4, RunningRuns

LEMMA CallRuns == XInv /\ DoCall => XInv'
<1> SUFFICES ASSUME XInv, DoCall PROVE XInv'
  OBVIOUS
<1>1. FramesOK(module, DOMAIN circuits, frames') /\ frames' # <<>>
  BY Enters
<1>2. phase = "running" /\ phase' = phase /\ UNCHANGED vars
  BY DEF DoCall, Running
<1> QED
  BY <1>1, <1>2, RunningRuns

LEMMA ReturnRuns == XInv /\ (DoReturn \/ DoExit) => XInv'
<1> SUFFICES ASSUME XInv, DoReturn \/ DoExit PROVE XInv'
  OBVIOUS
<1>1. phase = "running" /\ phase' \in {"running", "finished"} /\ UNCHANGED vars
  BY DEF DoReturn, DoExit, AtReturn
<1>2. CASE DoReturn
  <2>1. FramesOK(module, DOMAIN circuits, frames') /\ frames' # <<>>
    BY <1>2, Leaves
  <2> QED
    BY <1>1, <2>1, RunningRuns
<1>3. CASE DoExit
  <2>1. FramesOK(module, DOMAIN circuits, frames') /\ frames' # <<>>
    BY <1>1, <1>3 DEF DoExit, XInv
  <2> QED
    BY <1>1, <2>1, RunningRuns
<1> QED
  BY <1>2, <1>3

LEMMA StepRuns == XInv /\ [XNext]_all => XInv'
<1> SUFFICES ASSUME XInv, [XNext]_all PROVE XInv'
  OBVIOUS
<1>1. CASE UNCHANGED all
  <2>1. UNCHANGED vars /\ UNCHANGED xvars
    BY <1>1 DEF all
  <2>2. TInv'
    BY <2>1, StepTranslates DEF XInv
  <2> QED
    BY <2>1, <2>2 DEF XInv, vars, xvars
<1> QED
  BY <1>1, TranslateRuns, StartRuns, InstructionRuns, CallRuns, ReturnRuns DEF XNext

LEMMA InitRuns == XInit => XInv
<1> SUFFICES ASSUME XInit PROVE XInv
  OBVIOUS
<1>1. TInv
  BY StartTranslating DEF XInit
<1>2. FramesOK(module, DOMAIN circuits, frames)
  BY NoCalls DEF XInit
<1> QED
  BY <1>1, <1>2 DEF XInit, XInv

(* The two machines that ModuleExecution runs side by side stay in step: in *)
(* every call the position in the code is the one that the translation of   *)
(* the body gave the position in the body, and every call but the first is  *)
(* that of a circuit the program has, made by the instruction that its      *)
(* caller waits at.                                                         *)
THEOREM InStep == XSpec => []XInv
<1>1. XInit => XInv
  BY InitRuns
<1>2. XInv /\ [XNext]_all => XInv'
  BY StepRuns
<1> QED
  BY <1>1, <1>2, PTL DEF XSpec

-----------------------------------------------------------------------------
(* How many qubits the calls have allocated. *)

AllocatesBefore(fun, k) == \E j \in 1 .. k - 1 : fun.body[j].do = "alloc"

LEMMA AllocatedBefore ==
    ASSUME NEW m \in Modules, NEW frame, Position(m, frame), NEW fun, fun = m.functions[frame.fn]
    PROVE  /\ Taken(m, frame) \in Nat
           /\ Taken(m, frame) # 0 <=> AllocatesBefore(fun, frame.next)
<1>1. PICK k, l : k = frame.next /\ l = Len(fun.body)
  OBVIOUS
<1>2. l \in Nat /\ k \in 1 .. l + 1
  BY <1>1, BodyTypes DEF Position
<1>3. k \in Nat /\ 1 \in Nat /\ 1 <= k
  BY <1>2
<1>4. Taken(m, frame) = Allotted(fun, k)
  BY <1>1 DEF Taken
<1>5. Allotted(fun, k) \in Nat
  BY <1>3, CountsGrow
<1>6. ASSUME NEW j \in 1 .. k - 1, fun.body[j].do = "alloc"
      PROVE  Allotted(fun, k) # 0
  <2>1. j \in Nat /\ j < k /\ j \in 1 .. l
    BY <1>2
  <2>2. j \in Allocations(fun)
    BY <1>1, <1>6, <2>1 DEF Allocations
  <2>3. /\ Allotted(fun, j) \in Nat
        /\ Allotted(fun, j) + 1 <= Allotted(fun, k)
    BY <1>3, <2>1, <2>2, CountsGrow
  <2> QED
    BY <1>5, <2>3
<1>7. ASSUME \A j \in 1 .. k - 1 : fun.body[j].do # "alloc"
      PROVE  Allotted(fun, k) = 0
  <2>1. \A j \in 1 .. l : j < k => j \in 1 .. k - 1
    BY <1>2
  <2>2. Under(Allocations(fun), k) = {}
    BY <1>1, <1>7, <2>1 DEF Under, Allocations
  <2> QED
    BY <2>2, FS_EmptySet DEF Allotted
<1> QED
  BY <1>1, <1>4, <1>5, <1>6, <1>7 DEF AllocatesBefore

(* A call that has allocated nothing more, or has just begun. *)
LEMMA AllocatesKept ==
    ASSUME OneAllocates, UNCHANGED <<module, allocated, allocators>>,
           NEW n, n \in Nat, n = Len(frames),
           NEW p, NEW fr, Topped(frames', frames, p, fr), p <= n + 1,
           Taken(module, fr) = 0 \/ (p <= n /\ Taken(module, fr) = Taken(module, frames[p]))
    PROVE  OneAllocates'
<1>1. p \in Nat \ {0} /\ Len(frames') = p
  BY DEF Topped
<1>2. \A i \in 1 .. p : frames'[i] = IF i = p THEN fr ELSE frames[i]
  BY ToppedAt
<1>3. \A i \in 1 .. p : i # p => i \in 1 .. n
  BY <1>1
<1>4. p <= n => p \in 1 .. n
  BY <1>1
<1>5. ASSUME NEW i \in 1 .. p
      PROVE  \/ Taken(module, frames'[i]) = 0
             \/ i \in 1 .. n /\ Taken(module, frames'[i]) = Taken(module, frames[i])
  <2>1. CASE i = p
    BY <2>1, <1>2, <1>4
  <2>2. CASE i # p
    BY <2>2, <1>2, <1>3
  <2> QED
    BY <2>1, <2>2
<1>6. /\ allocators' = 0 =>
           allocated' = 0 /\ \A i \in 1 .. p : Taken(module, frames'[i]) = 0
      /\ allocators' = 1 =>
          /\ \A i \in 1 .. p : Taken(module, frames'[i]) \in {0, allocated'}
          /\ \A i, j \in 1 .. p :
                Taken(module, frames'[i]) # 0 /\ Taken(module, frames'[j]) # 0 => i = j
  BY <1>5 DEF OneAllocates
<1> QED
  BY <1>1, <1>6 DEF OneAllocates

(* What an allocation does, and which number its qubit has.                 *)
LEMMA AllocateCounts ==
    ASSUME XInv, OneAllocates, DoAllocate, NEW fun, fun = module.functions[Now.fn]
    PROVE  /\ OneAllocates'
           /\ allocators' <= 1 => allocators <= 1 /\ Allotted(fun, Now.next) = allocated
<1>0. phase # "waiting" /\ Now.next <= Len(fun.body) /\ fun.body[Now.next].do = "alloc"
  BY DEF DoAllocate, Running, NextQir, Fun
<1>1. /\ module \in Modules /\ Len(frames) \in Nat /\ Len(frames) >= 1
      /\ Now = frames[Len(frames)] /\ Position(module, Now)
  BY <1>0, NowFacts
<1>2. PICK k, n : k = Now.next /\ n = Len(frames)
  OBVIOUS
<1>3. PICK t \in Nat : t = Taken(module, Now) /\ t = Allotted(fun, k)
  BY <1>1, <1>2, AllocatedBefore DEF Taken
<1>4. allocators' = IF t = 0 THEN allocators + 1 ELSE allocators
  <2>1. t # 0 <=> AllocatesBefore(fun, k)
    BY <1>1, <1>2, <1>3, AllocatedBefore
  <2> QED
    BY <2>1, <1>2 DEF DoAllocate, Fun, AllocatesBefore
<1>5. /\ allocators \in Nat /\ allocated \in Nat
      /\ allocators = 0 => allocated = 0 /\ \A i \in 1 .. n : Taken(module, frames[i]) = 0
      /\ allocators = 1 => /\ \A i \in 1 .. n : Taken(module, frames[i]) \in {0, allocated}
                           /\ \A i, j \in 1 .. n :
                                 Taken(module, frames[i]) # 0 /\ Taken(module, frames[j]) # 0 => i = j
  BY <1>2 DEF OneAllocates
<1>6. n \in 1 .. n /\ frames[n] = Now
  BY <1>1, <1>2
<1>7. allocators' <= 1 => allocators <= 1 /\ t = allocated
  <2>1. ASSUME allocators' <= 1 PROVE allocators <= 1 /\ t = allocated
    <3>1. CASE t = 0
      <4>1. allocators = 0
        BY <1>4, <1>5, <2>1, <3>1
      <4> QED
        BY <4>1, <3>1, <1>5
    <3>2. CASE t # 0
      <4>1. allocators <= 1 /\ allocators # 0
        BY <1>3, <1>4, <1>5, <1>6, <2>1, <3>2
      <4>2. allocators = 1
        BY <4>1, <1>5
      <4> QED
        BY <4>1, <4>2, <1>3, <1>5, <1>6, <3>2
    <3> QED
      BY <3>1, <3>2
  <2> QED
    BY <2>1
<1>8. PICK fr : fr = Past(Now, 0, TheQubit(allocated))
  OBVIOUS
<1>9. Topped(frames', frames, n, fr)
  <2>1. Takes(fun, Now.next, 0)
    BY <1>0 DEF Takes
  <2>2. Goes(0, TheQubit(allocated))
    BY DEF DoAllocate
  <2> QED
    BY <1>0, <1>2, <1>8, <2>1, <2>2, GoesOn
<1>10. Taken(module, fr) = t + 1
  <2>1. fr.fn = Now.fn /\ fr.next = k + 1
    BY <1>2, <1>8 DEF Past
  <2>2. Len(fun.body) \in Nat /\ k \in 1 .. Len(fun.body) + 1
    BY <1>1, <1>2, BodyTypes DEF Position
  <2>3. k \in 1 .. Len(fun.body)
    BY <1>0, <1>2, <2>2
  <2>4. Allotted(fun, k + 1) = Allotted(fun, k) + 1
    BY <1>0, <1>2, <2>2, <2>3, Counts
  <2> QED
    BY <2>1, <2>4, <1>3 DEF Taken
<1>11. Len(frames') = n
  BY <1>9 DEF Topped
<1>12. \A i \in 1 .. n : frames'[i] = IF i = n THEN fr ELSE frames[i]
  BY <1>9, ToppedAt
<1>13. allocators' # 0
  <2>1. CASE t = 0
    BY <2>1, <1>4, <1>5
  <2>2. CASE t # 0
    <3>1. Taken(module, frames[n]) # 0
      BY <2>2, <1>3, <1>6
    <3>2. allocators # 0
      BY <3>1, <1>5, <1>6
    <3> QED
      BY <3>2, <2>2, <1>4
  <2> QED
    BY <2>1, <2>2
<1>14. ASSUME allocators' = 1
       PROVE  /\ Taken(module, frames'[n]) = allocated + 1
              /\ \A i \in 1 .. n : i # n => Taken(module, frames'[i]) = 0
  <2>1. t = allocated
    BY <1>7, <1>14
  <2>2. Taken(module, frames'[n]) = allocated + 1
    BY <2>1, <1>6, <1>10, <1>12
  <2>3. ASSUME NEW i \in 1 .. n, i # n PROVE Taken(module, frames[i]) = 0
    <3>1. CASE t = 0
      BY <3>1, <2>3, <1>4, <1>5, <1>14
    <3>2. CASE t # 0
      <4>1. allocators = 1
        BY <3>2, <1>4, <1>14
      <4> QED
        BY <4>1, <3>2, <2>3, <1>3, <1>5, <1>6
    <3> QED
      BY <3>1, <3>2
  <2> QED
    BY <2>2, <2>3, <1>12
<1>15. allocated' = allocated + 1 /\ module' = module /\ allocators' \in Nat
  BY <1>4, <1>5 DEF DoAllocate, vars
<1>16. OneAllocates'
  <2>1. allocators' = 1 =>
          /\ \A i \in 1 .. n : Taken(module', frames'[i]) \in {0, allocated'}
          /\ \A i, j \in 1 .. n :
                Taken(module', frames'[i]) # 0 /\ Taken(module', frames'[j]) # 0 => i = j
    BY <1>14, <1>15
  <2>2. allocated' \in Nat
    BY <1>5, <1>15
  <2> QED
    BY <2>1, <2>2, <1>11, <1>13, <1>15 DEF OneAllocates
<1> QED
  BY <1>2, <1>3, <1>7, <1>16

LEMMA AllocatesElsewhere ==
    ASSUME XInv, OneAllocates, DoGate \/ DoMeasure \/ DoCall \/ DoReturn \/ DoExit \/ Start
    PROVE  OneAllocates'
<1>0. UNCHANGED <<module, allocated, allocators>>
  BY DEF DoGate, DoMeasure, DoCall, DoReturn, DoExit, Start, vars
<1>1. CASE DoGate \/ DoMeasure
  <2>0. PICK fun : fun = module.functions[Now.fn]
    OBVIOUS
  <2>1. /\ phase # "waiting" /\ Now.next <= Len(fun.body) /\ fun.body[Now.next].do # "alloc"
    BY <1>1, <2>0 DEF DoGate, DoMeasure, Running, NextQir, Fun
  <2>2. PICK v : Goes(1, v)
    BY <1>1 DEF DoGate, DoMeasure
  <2>3. /\ module \in Modules /\ Len(frames) \in Nat
        /\ Now = frames[Len(frames)] /\ Position(module, Now)
    BY <2>1, NowFacts
  <2>4. PICK steps, fr : steps = 1 /\ fr = Past(Now, steps, v)
    OBVIOUS
  <2>5. Takes(fun, Now.next, steps) /\ Goes(steps, v)
    BY <2>1, <2>2, <2>4 DEF Takes
  <2>6. Topped(frames', frames, Len(frames), fr)
    BY <2>0, <2>1, <2>4, <2>5, GoesOn
  <2>7. PICK k : k = Now.next
    OBVIOUS
  <2>8. fr.fn = Now.fn /\ fr.next = k + 1
    BY <2>4, <2>7 DEF Past
  <2>9. Len(fun.body) \in Nat /\ k \in 1 .. Len(fun.body) + 1
    BY <2>0, <2>3, <2>7, BodyTypes DEF Position
  <2>10. k \in 1 .. Len(fun.body)
    BY <2>1, <2>7, <2>9
  <2>11. Allotted(fun, k + 1) = Allotted(fun, k)
    BY <2>1, <2>7, <2>9, <2>10, Counts
  <2>12. Taken(module, fr) = Taken(module, Now)
    BY <2>0, <2>7, <2>8, <2>11 DEF Taken
  <2>13. Len(frames) <= Len(frames) + 1 /\ Len(frames) <= Len(frames)
    BY <2>3
  <2> QED
    BY <1>0, <2>3, <2>6, <2>12, <2>13, AllocatesKept
<1>2. CASE DoCall
  <2>0. phase # "waiting" /\ Now.next <= Len(Fun(Now.fn).body) /\ NextQir.do = "call"
    BY <1>2 DEF DoCall, Running
  <2>1. PICK g, fr : g = NextQir.fn /\ fr = Activation(g, PassedValues(module, Now, g),
                           PassedActual(circuits[g].qubits, Now, NextOp))
    OBVIOUS
  <2>2. Topped(frames', frames, Len(frames) + 1, fr) /\ fr.fn = g /\ fr.next = 1
    BY <1>2, <2>1, Enters
  <2>3. PICK fun : fun = module.functions[Now.fn]
    OBVIOUS
  <2>4. Allotted(module.functions[g], 1) = 0
    BY <2>0, <2>1, <2>3, CallFacts
  <2>5. Taken(module, fr) = 0
    BY <2>2, <2>4 DEF Taken
  <2>6. Len(frames) \in Nat
    BY <2>0, NowFacts
  <2>7. Len(frames) + 1 <= Len(frames) + 1
    BY <2>6
  <2> QED
    BY <1>0, <2>2, <2>5, <2>6, <2>7, AllocatesKept
<1>3. CASE DoReturn
  <2>1. PICK n, caller : n = Len(frames) - 1 /\ caller = frames[n]
    OBVIOUS
  <2>2. PICK fun : fun = module.functions[caller.fn]
    OBVIOUS
  <2>3. PICK fr : fr = Past(caller, 1, Value)
    OBVIOUS
  <2>4. /\ n \in Nat /\ Len(frames) = n + 1 /\ Position(module, caller)
        /\ Topped(frames', frames, n, fr)
        /\ caller.next \in 1 .. Len(fun.body) /\ fun.body[caller.next].do = "call"
    BY <1>3, <2>1, <2>2, <2>3, Leaves
  <2>5. PICK k : k = caller.next
    OBVIOUS
  <2>6. fr.fn = caller.fn /\ fr.next = k + 1
    BY <2>3, <2>5 DEF Past
  <2>7. module \in Modules
    BY DEF XInv, TInv
  <2>8. Len(fun.body) \in Nat
    BY <2>2, <2>4, <2>7, BodyTypes DEF Position
  <2>9. Allotted(fun, k + 1) = Allotted(fun, k)
    BY <2>4, <2>5, <2>8, Counts
  <2>10. Taken(module, fr) = Taken(module, caller)
    BY <2>2, <2>5, <2>6, <2>9 DEF Taken
  <2>11. n <= n + 1 + 1 /\ n <= n + 1 /\ Len(frames) \in Nat
    BY <2>4
  <2> QED
    BY <1>0, <2>1, <2>4, <2>10, <2>11, AllocatesKept
<1>4. CASE DoExit
  BY <1>0, <1>4 DEF DoExit, OneAllocates
<1>5. CASE Start
  <2>1. PICK fr : fr = Activation(Entry, [i \in DOMAIN Fun(Entry).params |-> Nothing], <<>>)
    OBVIOUS
  <2>2. fr.fn = Entry /\ fr.next = 1 /\ frames' = <<fr>>
    BY <1>5, <2>1 DEF Start, Activation
  <2>3. Allotted(module.functions[Entry], 1) = 0
    BY NothingBefore, EntryAssumption DEF XInv, TInv
  <2>4. Taken(module, fr) = 0
    BY <2>2, <2>3 DEF Taken
  <2>5. Len(frames') = 1 /\ frames'[1] = fr
    BY <2>2
  <2>6. \A i \in 1 .. 1 : i = 1
    OBVIOUS
  <2>7. \A i \in 1 .. 1 : Taken(module', frames'[i]) = 0
    BY <2>4, <2>5, <2>6, <1>0
  <2> QED
    BY <1>0, <2>5, <2>6, <2>7 DEF OneAllocates
<1> QED
  BY <1>1, <1>2, <1>3, <1>4, <1>5

-----------------------------------------------------------------------------
(* Which qubits the registers of the calls stand for. *)

LEMMA ApartFollows ==
    ASSUME RegistersApart, NEW f \in InProgram
    PROVE  Apart(f, module.functions[f])
  BY DEF RegistersApart, Apart, Fun

LEMMA CallsInProgram ==
    ASSUME XInv, NEW i \in 1 .. Len(frames)
    PROVE  frames[i].fn \in InProgram
<1>1. FramesOK(module, DOMAIN circuits, frames)
  BY DEF XInv
<1>2. frames # <<>>
  BY <1>1, EmptySeq
<1>3. CASE i = 1
  BY <1>1, <1>2, <1>3 DEF FramesOK, InProgram
<1>4. CASE i # 1
  BY <1>1, <1>4 DEF FramesOK, InProgram
<1> QED
  BY <1>3, <1>4

LEMMA ActualStays ==
    ASSUME NEW frame, NEW fr, fr.actual = frame.actual, NEW q
    PROVE  ActualOf(fr, q) = ActualOf(frame, q)
  BY DEF ActualOf

LEMMA ActualFixed ==
    ASSUME NEW frame, NEW i
    PROVE  ActualOf(frame, Fixed(i)) = i
<1>1. "fixed" \in DOMAIN Fixed(i) /\ Fixed(i).fixed = i
  BY DEF Fixed
<1> QED
  BY <1>1 DEF ActualOf

LEMMA ActualVariable ==
    ASSUME NEW frame, NEW n
    PROVE  ActualOf(frame, Variable(n)) = frame.actual[n]
<1>1. "fixed" \notin DOMAIN Variable(n) /\ Variable(n).variable = n
  BY DEF Variable
<1> QED
  BY <1>1 DEF ActualOf

(* A call goes on: an allocation has given the register it defines the next *)
(* number on both sides.                                                    *)
LEMMA SameGoes ==
    ASSUME NEW m \in Modules, NEW frame, Position(m, frame), Same(m, frame),
           NEW fun, fun = m.functions[frame.fn], NEW k, k = frame.next, k <= Len(fun.body),
           NEW v, fun.body[k].do = "alloc" => v.qubit = Allotted(fun, k),
           NEW steps, Takes(fun, k, steps), NEW fr, fr = Past(frame, steps, v)
    PROVE  Same(m, fr)
<1>1. /\ fr.fn = frame.fn /\ fr.next = k + 1 /\ fr.actual = frame.actual
      /\ Agree(fr.values, frame.values, Len(frame.values))
      /\ EndsWith(fr.values, Len(frame.values) + 1, v)
      /\ Len(frame.values) = Len(fun.params) + k - 1
  BY PastPosition
<1>2. /\ Len(fun.params) \in Nat /\ Len(fun.body) \in Nat /\ k \in 1 .. Len(fun.body) + 1
      /\ frame.fn \in Functions
  BY BodyTypes DEF Position
<1>3. k \in 1 .. Len(fun.body)
  BY <1>2
<1>4. PICK p \in Nat : p = Len(fun.params)
  BY <1>2
<1>5. PICK n \in Nat : n = p + k - 1 /\ n + 1 = p + k
  <2>1. PICK j \in Nat : j = k /\ j >= 1
    BY <1>2, <1>3
  <2>2. p + j - 1 \in Nat /\ p + j - 1 + 1 = p + j
    BY <2>1
  <2> QED
    BY <2>1, <2>2
<1>6. Agree(fr.values, frame.values, n) /\ fr.values[n + 1] = v
  BY <1>1, <1>4, <1>5 DEF EndsWith
<1>7. ASSUME NEW r \in QubitsBefore(fun, k)
      PROVE  ActualOf(fr, Stands(frame.fn, fun, r)) = fr.values[r].qubit
  <2>1. r \in 1 .. n
    BY <1>4, <1>5 DEF QubitsBefore
  <2>2. fr.values[r] = frame.values[r]
    BY <2>1, <1>6 DEF Agree
  <2>3. ActualOf(frame, Stands(frame.fn, fun, r)) = frame.values[r].qubit
    BY DEF Same
  <2> QED
    BY <2>2, <2>3, <1>1, ActualStays
<1>8. CASE fun.body[k].do = "alloc"
  <2>1. QubitsBefore(fun, k + 1) = QubitsBefore(fun, k) \union {Len(fun.params) + k}
    BY <1>2, <1>3, <1>8, QubitsGrow
  <2>2. PICK r \in Nat : r = p + k
    BY <1>3, <1>4
  <2>3. ~(r <= p) /\ r - p = k
    BY <1>3, <1>4, <2>2
  <2>4. Stands(frame.fn, fun, r) = Fixed(Allotted(fun, k))
    BY <2>3, <1>4 DEF Stands
  <2>5. ActualOf(fr, Stands(frame.fn, fun, r)) = Allotted(fun, k)
    BY <2>4, ActualFixed
  <2>6. fr.values[r].qubit = Allotted(fun, k)
    BY <1>5, <1>6, <1>8, <2>2
  <2>7. \A s \in QubitsBefore(fun, k + 1) : s \in QubitsBefore(fun, k) \/ s = r
    BY <2>1, <2>2, <1>4
  <2> QED
    BY <2>5, <2>6, <2>7, <1>1, <1>7 DEF Same
<1>9. CASE fun.body[k].do # "alloc"
  <2>1. QubitsBefore(fun, k + 1) = QubitsBefore(fun, k)
    BY <1>2, <1>3, <1>9, QubitsGrow
  <2> QED
    BY <2>1, <1>1, <1>7 DEF Same
<1> QED
  BY <1>8, <1>9

(* A call begins: its formal qubits stand for the qubits it was passed. *)
Distinct(qs) == \A a, b \in DOMAIN qs : qs[a] = qs[b] => a = b

Covers(g, gun, qs) ==
    /\ \A r \in QubitsBefore(gun, 1) :
          /\ \E a \in DOMAIN qs : qs[a] = r
          /\ r \in DOMAIN gun.params /\ r <= Len(gun.params)
          /\ IsQubit(gun, r) /\ r \in DOMAIN RegisterNames[g]
    /\ \A a \in DOMAIN qs : qs[a] \in QubitsBefore(gun, 1)

LEMMA QubitParamsListed ==
    ASSUME NEW m \in Modules, NEW g \in Functions, NEW gun, gun = m.functions[g],
           NEW qs, qs = QubitParams(gun)
    PROVE  Distinct(qs) /\ Covers(g, gun, qs)
<1>1. PICK p \in Nat : p = Len(gun.params)
  BY BodyTypes
<1>2. DOMAIN gun.params = 1 .. p
  BY <1>1, BodyTypes
<1>3. PICK l \in Nat : l = Len(gun.body)
  BY BodyTypes
<1>4. PICK P : P = {i \in DOMAIN gun.params : gun.params[i] = "Qubit*"}
  OBVIOUS
<1>5. P \in SUBSET (1 .. p)
  BY <1>2, <1>4
<1>6. \A r \in 1 .. p : r \in Nat /\ r <= p
  BY <1>1
<1>7. P \in SUBSET Nat /\ IsFiniteSet(P)
  <2>1. IsFiniteSet(1 .. p)
    <3>1. 1 \in Int /\ p \in Int
      BY <1>1
    <3> QED
      BY <3>1, FS_Interval
  <2>2. IsFiniteSet(P)
    BY <2>1, <1>5, FS_Subset
  <2> QED
    BY <2>2, <1>5, <1>6
<1>8. PICK c : c = Cardinality(P)
  OBVIOUS
<1>9. qs = InOrder(P)
  BY <1>4 DEF QubitParams
<1>10. /\ qs \in [1 .. c -> P]
       /\ \A a, b \in 1 .. c : qs[a] = qs[b] => a = b
       /\ \A i \in P : \E n \in 1 .. c : qs[n] = i
  BY <1>7, <1>8, <1>9, InOrderEnumerates
<1>11. DOMAIN qs = 1 .. c /\ \A a \in DOMAIN qs : qs[a] \in P
  BY <1>10
<1>12. QubitsBefore(gun, 1) = P
  BY <1>1, <1>2, <1>3, <1>4, QubitParameters
<1>13. \A r \in P : IsQubit(gun, r) /\ r \in DOMAIN RegisterNames[g]
  <2>1. 1 \in Nat
    OBVIOUS
  <2> QED
    BY <2>1, <1>12, QubitsNamed
<1>14. \A r \in P : r \in DOMAIN gun.params /\ r <= Len(gun.params)
  BY <1>1, <1>2, <1>5, <1>6
<1>15. Distinct(qs)
  BY <1>10, <1>11 DEF Distinct
<1>16. \A r \in P : \E a \in DOMAIN qs : qs[a] = r
  BY <1>10, <1>11
<1> QED
  BY <1>11, <1>12, <1>13, <1>14, <1>15, <1>16 DEF Covers

LEMMA PassedAt ==
    ASSUME NEW m, NEW frame, NEW g, NEW qs, qs = QubitParams(m.functions[g]), Distinct(qs),
           NEW args, args = m.functions[frame.fn].body[frame.next].args,
           NEW a \in DOMAIN qs, qs[a] \in DOMAIN m.functions[g].params
    PROVE  PassedValues(m, frame, g)[qs[a]] = frame.values[args[a]]
<1>1. PICK r : r = qs[a]
  OBVIOUS
<1>2. (CHOOSE b \in DOMAIN qs : qs[b] = r) = a
  BY <1>1 DEF Distinct
<1>3. PassedValues(m, frame, g)[r] =
         IF \E k \in DOMAIN qs : qs[k] = r
         THEN frame.values[args[CHOOSE k \in DOMAIN qs : qs[k] = r]]
         ELSE Nothing
  BY <1>1 DEF PassedValues
<1> QED
  BY <1>1, <1>2, <1>3

LEMMA ActualAt ==
    ASSUME NEW formals, Distinct(formals), NEW a \in DOMAIN formals, NEW frame, NEW op
    PROVE  PassedActual(formals, frame, op)[formals[a]] = ActualOf(frame, op.qubits[a])
<1>1. PICK x : x = formals[a]
  OBVIOUS
<1>2. (CHOOSE b \in DOMAIN formals : formals[b] = x) = a
  BY <1>1 DEF Distinct
<1>3. x \in {formals[k] : k \in DOMAIN formals}
  BY <1>1
<1>4. PassedActual(formals, frame, op)[x] =
         ActualOf(frame, op.qubits[CHOOSE k \in DOMAIN formals : formals[k] = x])
  BY <1>3 DEF PassedActual
<1> QED
  BY <1>1, <1>2, <1>4

(* The formal qubits are the qubit parameters' names. *)
Formals(g, qs, formals) ==
    DOMAIN formals = DOMAIN qs /\ \A i \in DOMAIN qs : formals[i] = NameOf(g, qs[i])

(* A call of g with the instruction op of Quil, and the callee's activation. *)
PassedOn(m, frame, g, op, formals, fr) ==
    LET fun == m.functions[frame.fn]
    IN  /\ frame.fn \in Functions /\ frame.next \in 1 .. Len(fun.body)
        /\ fun.body[frame.next].do = "call" /\ fun.body[frame.next].fn = g
        /\ Apart(frame.fn, fun) /\ Apart(g, m.functions[g])
        /\ CallOf(frame.fn, fun, fun.body[frame.next], op)
        /\ Formals(g, QubitParams(m.functions[g]), formals)
        /\ fr.fn = g /\ fr.next = 1 /\ fr.values = PassedValues(m, frame, g)
        /\ fr.actual = PassedActual(formals, frame, op)

LEMMA SameCall ==
    ASSUME NEW m \in Modules, NEW frame, Same(m, frame), NEW g, NEW op, NEW formals, NEW fr,
           PassedOn(m, frame, g, op, formals, fr)
    PROVE  Same(m, fr)
<1>1. PICK f, fun, k, i :
         /\ f = frame.fn /\ f \in Functions /\ fun = m.functions[f]
         /\ k = frame.next /\ k \in 1 .. Len(fun.body)
         /\ i = fun.body[k] /\ i.do = "call" /\ i.fn = g
  BY DEF PassedOn
<1>2. /\ g \in Functions /\ DOMAIN i.args = DOMAIN QubitParams(m.functions[g])
      /\ \A a \in DOMAIN i.args : i.args[a] \in QubitsBefore(fun, k)
  <2>1. /\ f \in Functions /\ fun = m.functions[f] /\ k \in 1 .. Len(fun.body)
        /\ i = fun.body[k]
    BY <1>1
  <2>2. i.do = "call"
    BY <1>1
  <2>3. i.fn \in Functions
    BY <2>1, <2>2, InstructionTypes
  <2>4. DOMAIN i.args = DOMAIN QubitParams(m.functions[i.fn])
    BY <2>1, <2>2, InstructionTypes
  <2>5. \A a \in DOMAIN i.args : i.args[a] \in QubitsBefore(fun, k)
    BY <2>1, <2>2, InstructionTypes
  <2> QED
    BY <2>3, <2>4, <2>5, <1>1
<1>3. PICK gun, qs : gun = m.functions[g] /\ qs = QubitParams(gun)
  OBVIOUS
<1>4. Distinct(qs) /\ Covers(g, gun, qs)
  BY <1>2, <1>3, QubitParamsListed
<1>5. DOMAIN formals = DOMAIN qs /\ \A a \in DOMAIN qs : formals[a] = NameOf(g, qs[a])
  BY <1>3 DEF Formals, PassedOn
<1>6. Distinct(formals)
  <2>1. ASSUME NEW a \in DOMAIN qs, NEW b \in DOMAIN qs, formals[a] = formals[b]
        PROVE  a = b
    <3>1. PICK r, s : r = qs[a] /\ s = qs[b]
      OBVIOUS
    <3>2. /\ IsQubit(gun, r) /\ r \in DOMAIN RegisterNames[g]
          /\ IsQubit(gun, s) /\ s \in DOMAIN RegisterNames[g]
      BY <3>1, <1>4 DEF Covers
    <3>3. NameOf(g, r) = NameOf(g, s)
      BY <3>1, <2>1, <1>5
    <3>4. r = s
      BY <3>2, <3>3, <1>3 DEF Apart, PassedOn
    <3> QED
      BY <3>1, <3>4, <1>4 DEF Distinct
  <2> QED
    BY <2>1, <1>5 DEF Distinct
<1>7. ASSUME NEW r \in QubitsBefore(gun, 1)
      PROVE  ActualOf(fr, Stands(g, gun, r)) = fr.values[r].qubit
  <2>1. PICK a \in DOMAIN qs : qs[a] = r
    BY <1>4 DEF Covers
  <2>2. PICK args : args = i.args
    OBVIOUS
  <2>3. args = m.functions[frame.fn].body[frame.next].args
    BY <2>2, <1>1
  <2>4. qs[a] \in DOMAIN m.functions[g].params
    BY <2>1, <1>3, <1>4 DEF Covers
  <2>5. PassedValues(m, frame, g)[qs[a]] = frame.values[args[a]]
    <3>1. qs = QubitParams(m.functions[g]) /\ Distinct(qs)
      BY <1>3, <1>4
    <3> QED
      BY SMTT(20), <2>3, <2>4, <3>1, PassedAt
  <2>6. a \in DOMAIN formals
    BY <1>5
  <2>7. PassedActual(formals, frame, op)[formals[a]] = ActualOf(frame, op.qubits[a])
    BY <2>6, <1>6, ActualAt
  <2>8. a \in DOMAIN i.args
    BY <1>2, <1>3
  <2>9. args[a] \in QubitsBefore(fun, k)
    BY <2>2, <2>8, <1>2
  <2>10. op.qubits[a] = Stands(f, fun, args[a])
    <3>1. CallOf(f, fun, i, op) /\ Apart(f, fun)
      BY <1>1 DEF PassedOn
    <3> QED
      BY <3>1, <2>2, <2>8 DEF CallOf
  <2>11. ActualOf(frame, Stands(f, fun, args[a])) = frame.values[args[a]].qubit
    BY <2>9, <1>1 DEF Same
  <2>12. Stands(g, gun, r) = Variable(formals[a])
    BY <2>1, <1>4, <1>5 DEF Stands, Covers
  <2>13. ActualOf(fr, Variable(formals[a])) = fr.actual[formals[a]]
    BY ActualVariable
  <2>14. /\ fr.values = PassedValues(m, frame, g)
         /\ fr.actual = PassedActual(formals, frame, op)
    BY DEF PassedOn
  <2> QED
    BY <2>1, <2>5, <2>7, <2>10, <2>11, <2>12, <2>13, <2>14
<1>8. fr.fn = g /\ fr.next = 1
  BY DEF PassedOn
<1> QED
  BY <1>3, <1>7, <1>8 DEF Same

LEMMA SameKept ==
    ASSUME XInv, SameQubits, UNCHANGED vars, allocators' <= 1 => allocators <= 1,
           NEW n, n \in Nat, n = Len(frames),
           NEW p, NEW fr, Topped(frames', frames, p, fr), p <= n + 1,
           RegistersApart /\ allocators' <= 1 =>
               Same(module, fr) /\ \A q \in pairs' : q \in pairs \/ q[1] = q[2]
    PROVE  SameQubits'
<1>1. RegistersApart' <=> RegistersApart
  BY DEF RegistersApart, InProgram, Fun, vars
<1>2. p \in Nat \ {0} /\ Len(frames') = p
  BY DEF Topped
<1>3. \A i \in 1 .. p : frames'[i] = IF i = p THEN fr ELSE frames[i]
  BY ToppedAt
<1>4. \A i \in 1 .. p : i # p => i \in 1 .. n
  BY <1>2
<1>5. ASSUME RegistersApart, allocators' <= 1
      PROVE  /\ \A i \in 1 .. p : Same(module, frames'[i])
             /\ \A q \in pairs' : q[1] = q[2]
  BY <1>3, <1>4, <1>5 DEF SameQubits
<1>6. module' = module
  BY DEF vars
<1> QED
  BY <1>1, <1>2, <1>5, <1>6 DEF SameQubits

(* The innermost call's registers, under the hypothesis of QubitsApart. *)
LEMMA SameNow ==
    ASSUME XInv, SameQubits, phase # "waiting", RegistersApart, allocators <= 1,
           NEW fun, fun = module.functions[Now.fn]
    PROVE  Same(module, Now) /\ Apart(Now.fn, fun) /\ \A q \in pairs : q[1] = q[2]
<1>1. /\ Len(frames) \in Nat /\ Len(frames) >= 1 /\ Now = frames[Len(frames)]
  BY NowFacts
<1>2. Len(frames) \in 1 .. Len(frames)
  BY <1>1
<1>3. Now.fn \in InProgram
  BY <1>1, <1>2, CallsInProgram
<1> QED
  BY <1>1, <1>2, <1>3, ApartFollows DEF SameQubits

(* The instruction of Quil acts on the qubit that the module's acts on. *)
LEMMA ActsOn ==
    ASSUME XInv, SameQubits, phase # "waiting", RegistersApart, allocators <= 1,
           Now.next <= Len(Fun(Now.fn).body), NextQir.do \in {"gate", "measure"}
    PROVE  /\ NextQir.do = "gate" => Now.values[NextQir.on].qubit = Actual(NextOp.qubits[1])
           /\ NextQir.do = "measure" => Now.values[NextQir.on].qubit = Actual(NextOp.qubit)
<1>1. PICK fun, f, k, i :
         fun = module.functions[Now.fn] /\ f = Now.fn /\ k = Now.next /\ i = fun.body[k]
  OBVIOUS
<1>2. /\ module \in Modules /\ Position(module, Now) /\ fun = Fun(Now.fn) /\ i = NextQir
  BY <1>1, NowFacts DEF NextQir
<1>3. f \in Functions /\ k \in 1 .. Len(fun.body) + 1 /\ k <= Len(fun.body)
  BY <1>1, <1>2 DEF Position
<1>4. Len(fun.body) \in Nat
  BY <1>1, <1>2, <1>3, BodyTypes
<1>5. k \in 1 .. Len(fun.body)
  BY <1>3, <1>4
<1>6. i.on \in QubitsBefore(fun, k)
  <2>1. f \in Functions /\ fun = module.functions[f] /\ i.do \in {"gate", "measure"}
    BY <1>1, <1>2, <1>3
  <2> QED
    BY <2>1, <1>1, <1>2, <1>5, InstructionTypes
<1>7. Same(module, Now) /\ Apart(f, fun)
  BY <1>1, SameNow
<1>8. ActualOf(Now, Stands(f, fun, i.on)) = Now.values[i.on].qubit
  BY <1>1, <1>6, <1>7 DEF Same
<1>9. Becomes(f, fun, k, NextOp)
  <2>1. Now.next \in 1 .. Len(fun.body) /\ fun.body[Now.next].do # "alloc"
    BY <1>1, <1>2, <1>5
  <2> QED
    BY <2>1, <1>1, NextBecame
<1>10. /\ i.do = "gate" => NextOp.qubits[1] = Stands(f, fun, i.on)
       /\ i.do = "measure" => NextOp.qubit = Stands(f, fun, i.on)
  BY <1>1, <1>7, <1>9 DEF Becomes, GateOf, MeasurementOf
<1>11. \A q : Actual(q) = ActualOf(Now, q)
  BY DEF Actual, ActualOf
<1> QED
  BY <1>2, <1>8, <1>10, <1>11

LEMMA InstructionSame ==
    ASSUME XInv, OneAllocates, SameQubits, DoAllocate \/ DoGate \/ DoMeasure
    PROVE  SameQubits'
<1>1. /\ phase # "waiting" /\ Now.next <= Len(Fun(Now.fn).body)
      /\ NextQir.do \in {"alloc", "gate", "measure"} /\ UNCHANGED vars
  BY DEF DoAllocate, DoGate, DoMeasure, Running
<1>2. PICK fun : fun = module.functions[Now.fn]
  OBVIOUS
<1>3. /\ module \in Modules /\ Len(frames) \in Nat /\ Len(frames) >= 1
      /\ Now = frames[Len(frames)] /\ Position(module, Now) /\ fun = Fun(Now.fn)
  BY <1>1, <1>2, NowFacts
<1>4. allocators' <= 1 => allocators <= 1
  <2>1. CASE DoAllocate
    BY <1>2, <2>1, AllocateCounts
  <2>2. CASE DoGate \/ DoMeasure
    BY <2>2 DEF DoGate, DoMeasure
  <2> QED
    BY <2>1, <2>2
<1>5. PICK steps, v : /\ Takes(fun, Now.next, steps) /\ Goes(steps, v)
                      /\ DoAllocate => v = TheQubit(allocated)
  BY <1>2 DEF DoAllocate, DoGate, DoMeasure, Running, NextQir, Fun, Takes
<1>6. PICK fr : fr = Past(Now, steps, v)
  OBVIOUS
<1>7. Topped(frames', frames, Len(frames), fr)
  BY <1>1, <1>2, <1>3, <1>5, <1>6, GoesOn
<1>8. ASSUME RegistersApart, allocators' <= 1
      PROVE  Same(module, fr) /\ \A q \in pairs' : q \in pairs \/ q[1] = q[2]
  <2>1. allocators <= 1
    BY <1>4, <1>8
  <2>2. Same(module, Now)
    BY <1>1, <1>2, <1>8, <2>1, SameNow
  <2>3. fun.body[Now.next].do = "alloc" => v.qubit = Allotted(fun, Now.next)
    <3>1. ASSUME fun.body[Now.next].do = "alloc" PROVE v.qubit = Allotted(fun, Now.next)
      <4>1. DoAllocate
        BY <1>3, <3>1 DEF DoGate, DoMeasure, Running, NextQir
      <4>2. Allotted(fun, Now.next) = allocated
        BY <4>1, <1>2, <1>8, AllocateCounts
      <4>3. v.qubit = allocated
        BY <4>1, <1>5 DEF TheQubit
      <4> QED
        BY <4>2, <4>3
    <3> QED
      BY <3>1
  <2>4. Same(module, fr)
    <3>1. PICK frame, k : frame = Now /\ k = frame.next
      OBVIOUS
    <3>2. /\ Position(module, frame) /\ Same(module, frame) /\ fun = module.functions[frame.fn]
          /\ k <= Len(fun.body) /\ Takes(fun, k, steps) /\ fr = Past(frame, steps, v)
          /\ fun.body[k].do = "alloc" => v.qubit = Allotted(fun, k)
      BY <3>1, <1>1, <1>2, <1>3, <1>5, <1>6, <2>2, <2>3
    <3> QED
      BY <3>1, <3>2, <1>3, SameGoes
  <2>5. CASE DoAllocate
    BY <2>4, <2>5 DEF DoAllocate
  <2>6. CASE DoGate
    <3>1. NextQir.do = "gate"
      BY <2>6 DEF DoGate, Running
    <3>2. Now.values[NextQir.on].qubit = Actual(NextOp.qubits[1])
      BY <3>1, <1>1, <1>8, <2>1, ActsOn
    <3>3. pairs' = pairs \union {<<Now.values[NextQir.on].qubit, Actual(NextOp.qubits[1])>>}
      BY <2>6 DEF DoGate
    <3> QED
      BY <3>2, <3>3, <2>4
  <2>7. CASE DoMeasure
    <3>1. NextQir.do = "measure"
      BY <2>7 DEF DoMeasure, Running
    <3>2. Now.values[NextQir.on].qubit = Actual(NextOp.qubit)
      BY <3>1, <1>1, <1>8, <2>1, ActsOn
    <3>3. pairs' = pairs \union {<<Now.values[NextQir.on].qubit, Actual(NextOp.qubit)>>}
      BY <2>7 DEF DoMeasure
    <3> QED
      BY <3>2, <3>3, <2>4
  <2> QED
    BY <2>5, <2>6, <2>7
<1>9. Len(frames) <= Len(frames) + 1
  BY <1>3
<1> QED
  BY <1>1, <1>3, <1>4, <1>7, <1>8, <1>9, SameKept

LEMMA CallSame == ASSUME XInv, SameQubits, DoCall PROVE SameQubits'
<1>1. /\ phase # "waiting" /\ Now.next <= Len(Fun(Now.fn).body) /\ NextQir.do = "call"
      /\ UNCHANGED <<vars, allocators, pairs>>
  BY DEF DoCall, Running
<1>2. PICK fun, g, fr, formals :
         /\ fun = module.functions[Now.fn] /\ g = NextQir.fn /\ formals = circuits[g].qubits
         /\ fr = Activation(g, PassedValues(module, Now, g), PassedActual(formals, Now, NextOp))
  OBVIOUS
<1>3. /\ Topped(frames', frames, Len(frames) + 1, fr)
      /\ fr.fn = g /\ fr.next = 1 /\ fr.values = PassedValues(module, Now, g)
      /\ fr.actual = PassedActual(formals, Now, NextOp)
  BY <1>2, Enters
<1>4. /\ Now.next \in 1 .. Len(fun.body) /\ fun.body[Now.next].do = "call"
      /\ g = fun.body[Now.next].fn /\ g \in DOMAIN circuits
  BY <1>1, <1>2, CallFacts
<1>5. module \in Modules /\ Len(frames) \in Nat /\ Position(module, Now)
  BY <1>1, NowFacts
<1>6. ASSUME RegistersApart, allocators' <= 1
      PROVE  Same(module, fr) /\ \A q \in pairs' : q \in pairs \/ q[1] = q[2]
  <2>1. Same(module, Now) /\ Apart(Now.fn, fun)
    BY <1>1, <1>2, <1>6, SameNow
  <2>2. Apart(g, module.functions[g])
    BY <1>4, <1>6, ApartFollows DEF InProgram
  <2>3. Formals(g, QubitParams(module.functions[g]), formals)
    <3>1. Built(module, DOMAIN circuits, DOMAIN variables, g, circuits[g])
      BY <1>4 DEF XInv, TInv, CircuitsOK
    <3>2. PICK qs : qs = QubitParams(module.functions[g])
      OBVIOUS
    <3>3. formals = [i \in DOMAIN qs |-> NameOf(g, qs[i])]
      BY <3>1, <3>2, <1>2 DEF Built, CircuitOK
    <3> QED
      BY <3>2, <3>3 DEF Formals
  <2>4. CallOf(Now.fn, fun, fun.body[Now.next], NextOp)
    <3>1. Becomes(Now.fn, fun, Now.next, NextOp)
      BY <1>2, <1>4, NextBecame, <1>1
    <3> QED
      BY <3>1, <1>4 DEF Becomes
  <2>5. PassedOn(module, Now, g, NextOp, formals, fr)
    BY <1>2, <1>3, <1>4, <1>5, <2>1, <2>2, <2>3, <2>4 DEF PassedOn, Position
  <2>6. Same(module, fr)
    BY <1>5, <2>1, <2>5, SameCall
  <2> QED
    BY <1>1, <2>6
<1>7. Len(frames) + 1 <= Len(frames) + 1
  BY <1>5
<1> QED
  BY <1>1, <1>3, <1>5, <1>6, <1>7, SameKept

LEMMA ReturnSame == ASSUME XInv, SameQubits, DoReturn PROVE SameQubits'
<1>1. UNCHANGED <<vars, allocators, pairs>>
  BY DEF DoReturn
<1>2. PICK n, caller : n = Len(frames) - 1 /\ caller = frames[n]
  OBVIOUS
<1>3. PICK fun, steps, v, fr :
         /\ fun = module.functions[caller.fn] /\ steps = 1 /\ v = Value
         /\ fr = Past(caller, steps, v)
  OBVIOUS
<1>4. /\ n \in 1 .. Len(frames) /\ Len(frames) = n + 1 /\ n \in Nat
      /\ Topped(frames', frames, n, fr) /\ Position(module, caller)
      /\ caller.next <= Len(fun.body) /\ fun.body[caller.next].do = "call"
  BY <1>2, <1>3, Leaves
<1>5. module \in Modules
  BY DEF XInv, TInv
<1>6. ASSUME RegistersApart, allocators' <= 1
      PROVE  Same(module, fr) /\ \A q \in pairs' : q \in pairs \/ q[1] = q[2]
  <2>1. Same(module, caller)
    BY <1>1, <1>2, <1>4, <1>6 DEF SameQubits
  <2>2. Takes(fun, caller.next, steps)
    BY <1>3, <1>4 DEF Takes
  <2>3. PICK k : k = caller.next
    OBVIOUS
  <2>4. /\ k <= Len(fun.body) /\ Takes(fun, k, steps)
        /\ fun.body[k].do = "alloc" => v.qubit = Allotted(fun, k)
    BY <2>2, <2>3, <1>4
  <2>5. Same(module, fr)
    BY <1>3, <1>4, <1>5, <2>1, <2>3, <2>4, SameGoes
  <2> QED
    BY <1>1, <2>5
<1>7. n <= Len(frames) + 1 /\ Len(frames) \in Nat
  BY <1>4
<1> QED
  BY <1>1, <1>4, <1>6, <1>7, SameKept

LEMMA StartSame == ASSUME XInv, Start PROVE SameQubits'
<1>1. PICK fr : fr = Activation(Entry, [i \in DOMAIN Fun(Entry).params |-> Nothing], <<>>)
  OBVIOUS
<1>2. fr.fn = Entry /\ fr.next = 1 /\ frames' = <<fr>> /\ pairs' = pairs /\ module' = module
  BY <1>1 DEF Start, Activation, vars
<1>3. phase = "waiting" /\ pairs = {} /\ status = "done" /\ module \in Modules
  BY DEF Start, XInv, TInv
<1>4. PICK fun : fun = module.functions[Entry]
  OBVIOUS
<1>5. Numbers(fun)
  BY <1>3, <1>4 DEF XInv, TInv, Prepared
<1>6. QubitsBefore(fun, 1) = {}
  <2>1. PICK p \in Nat : p = Len(fun.params) /\ DOMAIN fun.params = 1 .. p
    BY <1>3, <1>4, EntryAssumption, BodyTypes
  <2>2. PICK l \in Nat : l = Len(fun.body)
    BY <1>3, <1>4, EntryAssumption, BodyTypes
  <2>3. QubitsBefore(fun, 1) = {j \in DOMAIN fun.params : fun.params[j] = "Qubit*"}
    BY <2>1, <2>2, QubitParameters
  <2> QED
    BY <2>3, <1>5 DEF Numbers
<1>7. Same(module, fr)
  BY <1>2, <1>4, <1>6 DEF Same
<1>8. Len(frames') = 1 /\ frames'[1] = fr
  BY <1>2
<1>9. \A i \in 1 .. 1 : i = 1
  OBVIOUS
<1> QED
  BY <1>2, <1>3, <1>7, <1>8, <1>9 DEF SameQubits

LEMMA StepSame == XInv /\ QInv /\ [XNext]_all => QInv'
<1> SUFFICES ASSUME XInv, QInv, [XNext]_all PROVE QInv'
  OBVIOUS
<1>0. OneAllocates /\ SameQubits
  BY DEF QInv
<1>1. CASE UNCHANGED all
  BY <1>1 DEF QInv, OneAllocates, SameQubits, RegistersApart, InProgram, Fun, all, vars, xvars
<1>2. CASE Translate
  <2>1. status # "done"
    BY <1>2 DEF Translate, Next, Read, FindEntry, PrimeConstants, PrimeParameters, Goto, Allocate,
         Gate, Measure, Call, Descend, Overflow, Missing, ReturnConstant, Return, Finish, At
  <2>2. frames = <<>> /\ pairs = {} /\ UNCHANGED xvars
    BY <1>2, <2>1 DEF Translate, XInv
  <2>3. Len(frames) = 0 /\ \A i \in 1 .. 0 : FALSE
    BY <2>2, EmptySeq
  <2> QED
    BY <1>0, <2>2, <2>3 DEF QInv, OneAllocates, SameQubits, xvars
<1>3. CASE Start
  BY <1>0, <1>3, StartSame, AllocatesElsewhere DEF QInv
<1>4. CASE DoAllocate
  <2>1. PICK fun : fun = module.functions[Now.fn]
    OBVIOUS
  <2> QED
    BY <1>0, <1>4, <2>1, InstructionSame, AllocateCounts DEF QInv
<1>5. CASE DoGate \/ DoMeasure
  BY <1>0, <1>5, InstructionSame, AllocatesElsewhere DEF QInv
<1>6. CASE DoCall
  BY <1>0, <1>6, CallSame, AllocatesElsewhere DEF QInv
<1>7. CASE DoReturn
  BY <1>0, <1>7, ReturnSame, AllocatesElsewhere DEF QInv
<1>8. CASE DoExit
  <2>1. OneAllocates'
    BY <1>0, <1>8, AllocatesElsewhere
  <2>2. SameQubits'
    BY <1>0, <1>8 DEF DoExit, SameQubits, RegistersApart, InProgram, Fun, vars
  <2> QED
    BY <2>1, <2>2 DEF QInv
<1> QED
  BY <1>1, <1>2, <1>3, <1>4, <1>5, <1>6, <1>7, <1>8 DEF XNext

(* QubitsApart: the program that is put out acts on the qubits the module   *)
(* acts on, through every level of calls, in every execution of it.         *)
THEOREM ActsOnTheQubits == XSpec => []QubitsApart
<1>1. XInit => XInv /\ QInv
  <2> SUFFICES ASSUME XInit PROVE XInv /\ QInv
    OBVIOUS
  <2>1. Len(frames) = 0 /\ \A i \in 1 .. 0 : FALSE
    BY EmptySeq DEF XInit
  <2>2. QInv
    BY <2>1 DEF XInit, QInv, OneAllocates, SameQubits
  <2> QED
    BY <2>2, InitRuns
<1>2. XInv /\ QInv /\ [XNext]_all => XInv' /\ QInv'
  BY StepRuns, StepSame
<1>3. QInv => QubitsApart
  BY DEF QInv, SameQubits, QubitsApart
<1> QED
  BY <1>1, <1>2, <1>3, PTL DEF XSpec

-----------------------------------------------------------------------------
(* Where the outcomes are. *)

LEMMA ValuesLength ==
    ASSUME NEW m \in Modules, NEW frame, Position(m, frame), NEW fun, fun = m.functions[frame.fn]
    PROVE  /\ Len(frame.values) = Len(fun.params) + frame.next - 1
           /\ Len(fun.params) \in Nat /\ Len(fun.body) \in Nat
           /\ DOMAIN fun.body = 1 .. Len(fun.body)
           /\ frame.next \in 1 .. Len(fun.body) + 1 /\ frame.fn \in Functions
<1>1. /\ Listed(frame.values, Len(fun.params) + frame.next - 1)
      /\ frame.next \in 1 .. Len(fun.body) + 1 /\ frame.fn \in Functions
  BY DEF Position
<1>2. Len(frame.values) = Len(fun.params) + frame.next - 1
  BY <1>1, ListedIs
<1> QED
  BY <1>1, <1>2, BodyTypes

LEMMA MeasuredIs ==
    ASSUME NEW f
    PROVE  Measured(f) = MeasuredOf(module.functions[f])
  BY DEF Measured, MeasuredOf, Fun

(* Nothing was measured in a call that begins. *)
LEMMA RemembersFresh ==
    ASSUME NEW m \in Modules, NEW fr, Position(m, fr), fr.next = 1, NEW mem
    PROVE  Remembers(m, mem, fr)
<1>1. PICK fun : fun = m.functions[fr.fn]
  OBVIOUS
<1>2. /\ Len(fr.values) = Len(fun.params) + 1 - 1 /\ Len(fun.params) \in Nat
      /\ DOMAIN fun.body = 1 .. Len(fun.body)
  BY <1>1, ValuesLength
<1>3. PICK p \in Nat : p = Len(fun.params) /\ Len(fr.values) = p
  BY <1>2
<1>4. \A i \in DOMAIN fun.body : i \in 1 .. Len(fun.body) /\ ~(p + i <= p)
  BY <1>2, <1>3
<1>5. \A r \in MeasuredOf(fun) : ~(r <= p)
  BY <1>3, <1>4 DEF MeasuredOf
<1> QED
  BY <1>1, <1>3, <1>5 DEF Remembers

(* A region that is none of a call's is written. *)
Misses(m, frame, x) ==
    \A r \in MeasuredOf(m.functions[frame.fn]) :
        r <= Len(frame.values) => Region(frame.fn, r) # x

LEMMA RemembersInserted ==
    ASSUME NEW m, NEW mem, NEW frame, Remembers(m, mem, frame), NEW x, Misses(m, frame, x), NEW v
    PROVE  Remembers(m, Insert(mem, x, v), frame)
  BY DEF Remembers, Misses, Insert

LEMMA OneLess ==
    ASSUME NEW p \in Nat, NEW j \in Nat, j >= 1
    PROVE  p + j - 1 \in Nat /\ p + j - 1 + 1 = p + j
OBVIOUS

(* A call goes on, and has what it measured in the register's region. *)
LEMMA RemembersGoes ==
    ASSUME NEW m \in Modules, NEW mem, NEW frame, Position(m, frame), Remembers(m, mem, frame),
           NEW fun, fun = m.functions[frame.fn], NEW k, k = frame.next, k <= Len(fun.body),
           NEW steps, Takes(fun, k, steps), NEW v, NEW x, x = Region(frame.fn, Len(fun.params) + k),
           fun.body[k].do = "measure" => x \in DOMAIN mem /\ mem[x] = v,
           NEW fr, fr = Past(frame, steps, v)
    PROVE  Remembers(m, mem, fr)
<1>1. /\ fr.fn = frame.fn
      /\ Agree(fr.values, frame.values, Len(frame.values))
      /\ EndsWith(fr.values, Len(frame.values) + 1, v)
      /\ Len(fr.values) = Len(frame.values) + 1
  BY PastPosition
<1>2. /\ Len(frame.values) = Len(fun.params) + k - 1
      /\ Len(fun.params) \in Nat /\ Len(fun.body) \in Nat
      /\ DOMAIN fun.body = 1 .. Len(fun.body) /\ k \in 1 .. Len(fun.body) + 1
  BY ValuesLength
<1>3. PICK p \in Nat, j \in Nat : p = Len(fun.params) /\ j = k /\ j >= 1
  BY <1>2
<1>4. PICK n \in Nat : n = p + j - 1 /\ n + 1 = p + j
  <2>1. p + j - 1 \in Nat /\ p + j - 1 + 1 = p + j
    BY <1>3, OneLess
  <2> QED
    BY <2>1
<1>5. Agree(fr.values, frame.values, n) /\ fr.values[n + 1] = v /\ Len(fr.values) = n + 1
      /\ Len(frame.values) = n
  BY <1>1, <1>2, <1>3, <1>4 DEF EndsWith
<1>6. ASSUME NEW i \in 1 .. Len(fun.body), fun.body[i].do = "measure", p + i <= n + 1
      PROVE  Region(frame.fn, p + i) \in DOMAIN mem /\ mem[Region(frame.fn, p + i)] = fr.values[p + i]
  <2>1. CASE i = k
    <3>1. p + i = n + 1 /\ p + i = Len(fun.params) + k
      BY <1>3, <1>4, <2>1
    <3>2. x = Region(frame.fn, p + i)
      BY <3>1
    <3> QED
      BY <3>1, <3>2, <1>5, <1>6, <2>1
  <2>2. CASE i # k
    <3>1. p + i <= n /\ p + i \in 1 .. n
      <4>1. PICK a \in Nat : a = i /\ a >= 1
        BY <1>2
      <4>2. p + a <= p + j /\ a # j
        BY <4>1, <1>3, <1>4, <1>6, <2>2
      <4>3. p \in Nat /\ j \in Nat /\ a \in Nat /\ a >= 1
        BY <4>1
      <4>4. a <= j
        BY <4>2, <4>3
      <4>5. a + 1 <= j
        BY <4>2, <4>3, <4>4
      <4>6. p + a <= p + j - 1 /\ 1 <= p + a
        BY <4>3, <4>5
      <4>7. p + a <= n /\ 1 <= p + a
        BY <4>6, <1>4
      <4> QED
        BY <4>1, <4>3, <4>7
    <3>2. p + i \in MeasuredOf(fun)
      BY <1>2, <1>3, <1>6 DEF MeasuredOf
    <3>3. /\ Region(frame.fn, p + i) \in DOMAIN mem
          /\ mem[Region(frame.fn, p + i)] = frame.values[p + i]
      BY <3>1, <3>2, <1>5 DEF Remembers
    <3> QED
      BY <3>1, <3>3, <1>5 DEF Agree
  <2> QED
    BY <2>1, <2>2
<1>7. ASSUME NEW r \in MeasuredOf(fun), r <= n + 1
      PROVE  Region(frame.fn, r) \in DOMAIN mem /\ mem[Region(frame.fn, r)] = fr.values[r]
  <2>1. PICK i \in 1 .. Len(fun.body) : fun.body[i].do = "measure" /\ r = p + i
    BY <1>2, <1>3 DEF MeasuredOf
  <2> QED
    BY <2>1, <1>6, <1>7
<1> QED
  BY <1>1, <1>5, <1>7 DEF Remembers

(* The regions of different calls are different. *)
LEMMA RegionMissed ==
    ASSUME XInv, NamesApart, NEW i \in 1 .. Len(frames), NEW f \in InProgram, NEW s \in Measured(f),
           frames[i].fn = f => ~(s <= Len(frames[i].values))
    PROVE  Misses(module, frames[i], Region(f, s))
<1>1. PICK g : g = frames[i].fn
  OBVIOUS
<1>2. g \in InProgram
  BY <1>1, CallsInProgram
<1>3. ASSUME NEW r \in Measured(g), r <= Len(frames[i].values), Region(g, r) = Region(f, s)
      PROVE  FALSE
  <2>1. r \in Results(g) /\ s \in Results(f)
    BY <1>3 DEF Results
  <2>2. g = f /\ r = s
    BY <2>1, <1>2, <1>3 DEF NamesApart
  <2> QED
    BY <2>2, <1>1, <1>3
<1>4. Measured(g) = MeasuredOf(module.functions[frames[i].fn])
  BY <1>1, MeasuredIs
<1> QED
  BY <1>1, <1>3, <1>4 DEF Misses

LEMMA LabelMissed ==
    ASSUME XInv, NamesApart, NEW i \in 1 .. Len(frames), NEW g \in InProgram, g \in Returning
    PROVE  Misses(module, frames[i], ReturnLabel(FunctionNames[g]))
<1>1. PICK f : f = frames[i].fn
  OBVIOUS
<1>2. f \in InProgram
  BY <1>1, CallsInProgram
<1>3. ASSUME NEW r \in Measured(f) PROVE Region(f, r) # ReturnLabel(FunctionNames[g])
  <2>1. r \in Results(f)
    BY DEF Results
  <2> QED
    BY <2>1, <1>2 DEF NamesApart
<1>4. Measured(f) = MeasuredOf(module.functions[frames[i].fn])
  BY <1>1, MeasuredIs
<1> QED
  BY <1>1, <1>3, <1>4 DEF Misses

LEMMA NamesStayApart ==
    ASSUME UNCHANGED vars
    PROVE  /\ NamesApart' <=> NamesApart
           /\ \A f : Measured(f)' = Measured(f)
           /\ Returning' = Returning
  BY DEF NamesApart, InProgram, Measured, Returning, Results, Fun, vars

LEMMA RemembersKept ==
    ASSUME XInv, UNCHANGED vars, NEW n, n \in Nat, n = Len(frames),
           NEW p, NEW fr, Topped(frames', frames, p, fr), p <= n + 1,
           NamesApart =>
               /\ Remembers(module, memory', fr)
               /\ \A i \in 1 .. n : i # p => Remembers(module, memory', frames[i])
    PROVE  MInv'
<1>1. NamesApart' <=> NamesApart
  BY NamesStayApart
<1>2. p \in Nat \ {0} /\ Len(frames') = p
  BY DEF Topped
<1>3. \A i \in 1 .. p : frames'[i] = IF i = p THEN fr ELSE frames[i]
  BY ToppedAt
<1>4. \A i \in 1 .. p : i # p => i \in 1 .. n
  BY <1>2
<1>5. ASSUME NamesApart
      PROVE  \A i \in 1 .. p : Remembers(module, memory', frames'[i])
  BY <1>3, <1>4, <1>5
<1>6. module' = module
  BY DEF vars
<1> QED
  BY <1>1, <1>2, <1>5, <1>6 DEF MInv

(* What a measurement writes, and where. *)
LEMMA MeasureWrites ==
    ASSUME XInv, DoMeasure, NEW fun, fun = module.functions[Now.fn],
           NEW s, s = Len(fun.params) + Now.next
    PROVE  /\ memory' = Insert(memory, Region(Now.fn, s), TheOutcome(outcomes))
           /\ s \in Measured(Now.fn) /\ ~(s <= Len(Now.values))
           /\ Now.fn \in InProgram /\ fun.body[Now.next].do = "measure"
<1>0. phase # "waiting" /\ Now.next <= Len(fun.body) /\ fun.body[Now.next].do = "measure"
  BY DEF DoMeasure, Running, NextQir, Fun
<1>1. /\ module \in Modules /\ Position(module, Now) /\ Now = frames[Len(frames)]
      /\ Len(frames) \in Nat /\ Len(frames) >= 1
  BY <1>0, NowFacts
<1>2. PICK k : k = Now.next
  OBVIOUS
<1>3. /\ Len(Now.values) = Len(fun.params) + k - 1
      /\ Len(fun.params) \in Nat /\ Len(fun.body) \in Nat
      /\ DOMAIN fun.body = 1 .. Len(fun.body) /\ k \in 1 .. Len(fun.body) + 1
  BY <1>1, <1>2, ValuesLength
<1>4. k \in 1 .. Len(fun.body)
  BY <1>0, <1>2, <1>3
<1>5. PICK p \in Nat, j \in Nat : p = Len(fun.params) /\ j = k
  BY <1>3, <1>4
<1>6. ~(p + j <= p + j - 1)
  BY <1>5
<1>7. ~(s <= Len(Now.values))
  BY <1>2, <1>3, <1>5, <1>6
<1>8. s \in MeasuredOf(fun)
  BY <1>0, <1>2, <1>3, <1>4 DEF MeasuredOf
<1>9. s \in Measured(Now.fn)
  BY <1>8, MeasuredIs
<1>10. Now.fn \in InProgram
  <2>1. Len(frames) \in 1 .. Len(frames)
    BY <1>1
  <2> QED
    BY <2>1, <1>1, CallsInProgram
<1>11. NextOp.target = Region(Now.fn, s)
  <2>1. Now.next \in 1 .. Len(fun.body) /\ fun.body[Now.next].do # "alloc"
    BY <1>0, <1>2, <1>4
  <2>2. Becomes(Now.fn, fun, Now.next, NextOp)
    BY <2>1, <1>0, NextBecame
  <2> QED
    BY <2>2, <1>0 DEF Becomes, MeasurementOf
<1>12. memory' = Insert(memory, Region(Now.fn, s), TheOutcome(outcomes))
  BY <1>11 DEF DoMeasure
<1> QED
  BY <1>0, <1>7, <1>9, <1>10, <1>12

(* What the end of a body writes, if anything, and where. *)
LEMMA MoveWrites ==
    ASSUME XInv, AtReturn, NEW fun, fun = module.functions[Now.fn],
           NEW x, x = Region(Now.fn, fun.ret.register)
    PROVE  /\ Now.fn \in InProgram
           /\ \/ MemoryMoved = memory
              \/ /\ Now.fn \in Returning
                 /\ MemoryMoved = Insert(memory, ReturnLabel(FunctionNames[Now.fn]), memory[x])
           /\ Now.fn \in Returning =>
                 MemoryMoved = IF x \in DOMAIN memory
                               THEN Insert(memory, ReturnLabel(FunctionNames[Now.fn]), memory[x])
                               ELSE memory
<1>0. phase # "waiting" /\ Now.next > Len(fun.body)
  BY DEF AtReturn, Fun
<1>1. /\ Now = frames[Len(frames)] /\ Len(frames) \in Nat /\ Len(frames) >= 1
      /\ fun = Fun(Now.fn)
  BY <1>0, NowFacts
<1>2. Now.fn \in InProgram
  <2>1. Len(frames) \in 1 .. Len(frames)
    BY <1>1
  <2> QED
    BY <2>1, <1>1, CallsInProgram
<1>3. fun.ret.returns = "register" =>
        NextOp.to = ReturnLabel(FunctionNames[Now.fn]) /\ NextOp.from = x
  BY <1>0, LastMoves
<1>4. Now.fn \in Returning <=> fun.ret.returns = "register"
  BY <1>1, <1>2 DEF Returning
<1> QED
  BY <1>1, <1>2, <1>3, <1>4 DEF MemoryMoved

LEMMA MeasureRemembers == ASSUME XInv, MInv, DoMeasure PROVE MInv'
<1>1. PICK fun, k, s, x :
         /\ fun = module.functions[Now.fn] /\ k = Now.next
         /\ s = Len(fun.params) + k /\ x = Region(Now.fn, s)
  OBVIOUS
<1>2. phase # "waiting" /\ k <= Len(fun.body) /\ UNCHANGED vars
  BY <1>1 DEF DoMeasure, Running, Fun
<1>3. /\ module \in Modules /\ Now = frames[Len(frames)] /\ Len(frames) \in Nat
      /\ Len(frames) >= 1 /\ Position(module, Now) /\ DOMAIN frames = 1 .. Len(frames)
  BY <1>2, NowFacts
<1>4. PICK v, steps, fr : v = TheOutcome(outcomes) /\ steps = 1 /\ fr = Past(Now, steps, v)
  OBVIOUS
<1>5. /\ memory' = Insert(memory, x, v)
      /\ s \in Measured(Now.fn) /\ ~(s <= Len(Now.values))
      /\ Now.fn \in InProgram /\ fun.body[k].do = "measure"
  BY <1>1, <1>4, MeasureWrites
<1>6. Takes(fun, k, steps)
  BY <1>4, <1>5 DEF Takes
<1>7. Topped(frames', frames, Len(frames), fr)
  <2>1. Goes(steps, v)
    BY <1>4 DEF DoMeasure
  <2> QED
    BY <2>1, <1>1, <1>2, <1>4, <1>6, GoesOn
<1>8. ASSUME NamesApart
      PROVE  /\ Remembers(module, memory', fr)
             /\ \A i \in 1 .. Len(frames) : i # Len(frames) => Remembers(module, memory', frames[i])
  <2>1. ASSUME NEW i \in 1 .. Len(frames) PROVE Remembers(module, memory', frames[i])
    <3>1. frames[i].fn = Now.fn => ~(s <= Len(frames[i].values))
      <4>1. ASSUME frames[i].fn = Now.fn PROVE i = Len(frames)
        <5>1. Grounded(module, DOMAIN circuits) /\ Entry \notin DOMAIN circuits
          BY <1>2, DoneFacts
        <5>2. FramesOK(module, DOMAIN circuits, frames)
          BY DEF XInv
        <5>3. Len(frames) \in 1 .. Len(frames)
          BY <1>3
        <5> QED
          BY <4>1, <5>1, <5>2, <5>3, <1>3, CallsDiffer
      <4> QED
        BY <4>1, <1>3, <1>5
    <3>2. Misses(module, frames[i], x)
      BY <3>1, <1>1, <1>5, <1>8, RegionMissed
    <3>3. Remembers(module, memory, frames[i])
      BY <1>8 DEF MInv
    <3> QED
      BY <3>2, <3>3, <1>5, RemembersInserted
  <2>2. PICK frame, mem : frame = Now /\ mem = memory'
    OBVIOUS
  <2>3. Remembers(module, mem, frame)
    <3>1. Len(frames) \in 1 .. Len(frames)
      BY <1>3
    <3> QED
      BY <3>1, <2>1, <2>2, <1>3
  <2>4. x \in DOMAIN mem /\ mem[x] = v
    BY <2>2, <1>5 DEF Insert
  <2>5. /\ Position(module, frame) /\ fun = module.functions[frame.fn] /\ k = frame.next
        /\ x = Region(frame.fn, Len(fun.params) + k) /\ fr = Past(frame, steps, v)
    BY <2>2, <1>1, <1>3, <1>4
  <2>6. Remembers(module, mem, fr)
    BY <1>2, <1>3, <1>6, <2>3, <2>4, <2>5, RemembersGoes
  <2> QED
    BY <2>1, <2>2, <2>6
<1>9. Len(frames) <= Len(frames) + 1
  BY <1>3
<1> QED
  BY <1>2, <1>3, <1>7, <1>8, <1>9, RemembersKept

LEMMA InstructionRemembers == ASSUME XInv, MInv, DoAllocate \/ DoGate PROVE MInv'
<1>1. PICK fun, k, x :
         /\ fun = module.functions[Now.fn] /\ k = Now.next
         /\ x = Region(Now.fn, Len(fun.params) + k)
  OBVIOUS
<1>2. /\ phase # "waiting" /\ k <= Len(fun.body) /\ UNCHANGED <<vars, memory>>
      /\ fun.body[k].do # "measure"
  BY <1>1 DEF DoAllocate, DoGate, Running, NextQir, Fun
<1>3. /\ module \in Modules /\ Now = frames[Len(frames)] /\ Len(frames) \in Nat
      /\ Len(frames) >= 1 /\ Position(module, Now)
  BY <1>2, NowFacts
<1>4. PICK steps, v : Takes(fun, k, steps) /\ Goes(steps, v)
  BY <1>1 DEF DoAllocate, DoGate, Running, NextQir, Fun, Takes
<1>5. PICK fr : fr = Past(Now, steps, v)
  OBVIOUS
<1>6. Topped(frames', frames, Len(frames), fr)
  BY <1>1, <1>2, <1>4, <1>5, GoesOn
<1>7. ASSUME NamesApart
      PROVE  /\ Remembers(module, memory', fr)
             /\ \A i \in 1 .. Len(frames) : i # Len(frames) => Remembers(module, memory', frames[i])
  <2>1. \A i \in 1 .. Len(frames) : Remembers(module, memory, frames[i])
    BY <1>7 DEF MInv
  <2>2. PICK frame, mem : frame = Now /\ mem = memory
    OBVIOUS
  <2>3. Remembers(module, mem, frame)
    <3>1. Len(frames) \in 1 .. Len(frames)
      BY <1>3
    <3> QED
      BY <3>1, <2>1, <2>2, <1>3
  <2>4. /\ Position(module, frame) /\ fun = module.functions[frame.fn] /\ k = frame.next
        /\ x = Region(frame.fn, Len(fun.params) + k) /\ fr = Past(frame, steps, v)
    BY <2>2, <1>1, <1>3, <1>5
  <2>5. Remembers(module, mem, fr)
    BY <1>2, <1>3, <1>4, <2>3, <2>4, RemembersGoes
  <2> QED
    BY <2>1, <2>2, <2>5, <1>2
<1>8. Len(frames) <= Len(frames) + 1
  BY <1>3
<1> QED
  BY <1>2, <1>3, <1>6, <1>7, <1>8, RemembersKept

LEMMA CallRemembers == ASSUME XInv, MInv, DoCall PROVE MInv'
<1>1. PICK g, fr :
         /\ g = NextQir.fn
         /\ fr = Activation(g, PassedValues(module, Now, g),
                            PassedActual(circuits[g].qubits, Now, NextOp))
  OBVIOUS
<1>2. phase # "waiting" /\ UNCHANGED <<vars, memory>>
  BY DEF DoCall, Running
<1>3. module \in Modules /\ Len(frames) \in Nat
  BY <1>2, NowFacts
<1>4. /\ Topped(frames', frames, Len(frames) + 1, fr)
      /\ FramesOK(module, DOMAIN circuits, frames') /\ fr.next = 1
  BY <1>1, Enters
<1>5. Position(module, fr)
  <2>1. PICK p : p = Len(frames) + 1
    OBVIOUS
  <2>2. p \in Nat \ {0} /\ Len(frames') = p /\ frames'[p] = fr
    BY <2>1, <1>4 DEF Topped, EndsWith
  <2>3. p \in 1 .. p
    BY <2>2
  <2> QED
    BY <2>2, <2>3, <1>4 DEF FramesOK
<1>6. Remembers(module, memory', fr)
  BY <1>3, <1>4, <1>5, RemembersFresh
<1>7. NamesApart => \A i \in 1 .. Len(frames) : Remembers(module, memory', frames[i])
  BY <1>2 DEF MInv
<1>8. Len(frames) + 1 <= Len(frames) + 1
  BY <1>3
<1> QED
  BY <1>2, <1>3, <1>4, <1>6, <1>7, <1>8, RemembersKept

(* The move at the end of a body overwrites no outcome. *)
LEMMA MoveRemembers ==
    ASSUME XInv, MInv, AtReturn, NamesApart, memory' = MemoryMoved, NEW i \in 1 .. Len(frames)
    PROVE  Remembers(module, memory', frames[i])
<1>1. PICK fun, x : fun = module.functions[Now.fn] /\ x = Region(Now.fn, fun.ret.register)
  OBVIOUS
<1>2. /\ Now.fn \in InProgram
      /\ \/ MemoryMoved = memory
         \/ /\ Now.fn \in Returning
            /\ MemoryMoved = Insert(memory, ReturnLabel(FunctionNames[Now.fn]), memory[x])
  BY <1>1, MoveWrites
<1>3. Remembers(module, memory, frames[i])
  BY DEF MInv
<1>4. CASE MemoryMoved = memory
  BY <1>3, <1>4
<1>5. CASE /\ Now.fn \in Returning
           /\ MemoryMoved = Insert(memory, ReturnLabel(FunctionNames[Now.fn]), memory[x])
  <2>1. Misses(module, frames[i], ReturnLabel(FunctionNames[Now.fn]))
    BY <1>2, <1>5, LabelMissed
  <2> QED
    BY <2>1, <1>3, <1>5, RemembersInserted
<1> QED
  BY <1>2, <1>4, <1>5

LEMMA ReturnRemembers == ASSUME XInv, MInv, DoReturn PROVE MInv'
<1>1. AtReturn /\ memory' = MemoryMoved /\ UNCHANGED vars
  BY DEF DoReturn
<1>2. PICK n, caller : n = Len(frames) - 1 /\ caller = frames[n]
  OBVIOUS
<1>3. PICK fun, k, steps, v, fr :
         /\ fun = module.functions[caller.fn] /\ k = caller.next /\ steps = 1 /\ v = Value
         /\ fr = Past(caller, steps, v)
  OBVIOUS
<1>4. /\ n \in 1 .. Len(frames) /\ Len(frames) = n + 1 /\ n \in Nat
      /\ Topped(frames', frames, n, fr) /\ Position(module, caller)
      /\ caller.next <= Len(fun.body) /\ fun.body[caller.next].do = "call"
  BY <1>2, <1>3, Leaves
<1>5. module \in Modules
  BY DEF XInv, TInv
<1>6. ASSUME NamesApart
      PROVE  /\ Remembers(module, memory', fr)
             /\ \A i \in 1 .. Len(frames) : i # n => Remembers(module, memory', frames[i])
  <2>1. \A i \in 1 .. Len(frames) : Remembers(module, memory', frames[i])
    BY <1>1, <1>6, MoveRemembers
  <2>2. PICK mem, x : mem = memory' /\ x = Region(caller.fn, Len(fun.params) + k)
    OBVIOUS
  <2>3. Remembers(module, mem, caller)
    BY <2>1, <2>2, <1>2, <1>4
  <2>4. /\ Takes(fun, k, steps) /\ k <= Len(fun.body)
        /\ fun.body[k].do = "measure" => x \in DOMAIN mem /\ mem[x] = v
    BY <1>3, <1>4 DEF Takes
  <2>5. Remembers(module, mem, fr)
    BY <1>3, <1>4, <1>5, <2>2, <2>3, <2>4, RemembersGoes
  <2> QED
    BY <2>1, <2>2, <2>5
<1>7. n <= Len(frames) + 1 /\ Len(frames) \in Nat
  BY <1>4
<1> QED
  BY <1>1, <1>4, <1>6, <1>7, RemembersKept

LEMMA StartRemembers == ASSUME XInv, Start PROVE MInv'
<1>1. XInv'
  BY StartRuns
<1>2. /\ Len(frames') = 1 /\ frames'[1].next = 1
  BY DEF Start, Activation
<1>3. frames' # <<>>
  BY <1>1 DEF XInv, Start
<1>4. module' \in Modules /\ FramesOK(module', DOMAIN circuits', frames')
  BY <1>1 DEF XInv, TInv
<1>5. 1 \in 1 .. 1 /\ \A i \in 1 .. 1 : i = 1
  OBVIOUS
<1>6. Position(module', frames'[1])
  BY <1>2, <1>4, <1>5 DEF FramesOK
<1>7. Remembers(module', memory', frames'[1])
  BY <1>2, <1>4, <1>6, RemembersFresh
<1> QED
  BY <1>2, <1>5, <1>7 DEF MInv

LEMMA StepRemembers == XInv /\ MInv /\ [XNext]_all => MInv'
<1> SUFFICES ASSUME XInv, MInv, [XNext]_all PROVE MInv'
  OBVIOUS
<1>1. CASE UNCHANGED all
  <2>1. UNCHANGED vars /\ UNCHANGED xvars
    BY <1>1 DEF all
  <2>2. NamesApart' <=> NamesApart
    BY <2>1, NamesStayApart
  <2> QED
    BY <2>1, <2>2 DEF MInv, vars, xvars
<1>2. CASE Translate
  <2>1. status # "done"
    BY <1>2 DEF Translate, Next, Read, FindEntry, PrimeConstants, PrimeParameters, Goto, Allocate,
         Gate, Measure, Call, Descend, Overflow, Missing, ReturnConstant, Return, Finish, At
  <2>2. frames' = <<>>
    BY <1>2, <2>1 DEF Translate, XInv, xvars
  <2>3. Len(frames') = 0 /\ \A i \in 1 .. 0 : FALSE
    BY <2>2, EmptySeq
  <2> QED
    BY <2>3 DEF MInv
<1>3. CASE DoExit
  <2>1. UNCHANGED <<vars, frames>> /\ AtReturn /\ memory' = MemoryMoved
    BY <1>3 DEF DoExit
  <2>2. NamesApart' <=> NamesApart
    BY <2>1, NamesStayApart
  <2>3. NamesApart => \A i \in 1 .. Len(frames) : Remembers(module, memory', frames[i])
    BY <2>1, MoveRemembers
  <2> QED
    BY <2>1, <2>2, <2>3 DEF MInv, vars
<1> QED
  BY <1>1, <1>2, <1>3, StartRemembers, InstructionRemembers, MeasureRemembers, CallRemembers,
     ReturnRemembers DEF XNext

LEMMA MemoryFollows == XInv /\ MInv => OutcomesKept
<1> SUFFICES ASSUME XInv, MInv, NamesApart,
                    NEW i \in DOMAIN frames, NEW r \in Measured(frames[i].fn),
                    r <= Len(frames[i].values)
             PROVE  /\ Region(frames[i].fn, r) \in DOMAIN memory
                    /\ memory[Region(frames[i].fn, r)] = frames[i].values[r]
  BY DEF OutcomesKept
<1>1. DOMAIN frames = 1 .. Len(frames)
  <2>1. Listed(frames, Len(frames))
    BY DEF XInv, FramesOK
  <2> QED
    BY <2>1, ListedIs
<1>2. Remembers(module, memory, frames[i])
  BY <1>1 DEF MInv
<1>3. r \in MeasuredOf(module.functions[frames[i].fn])
  BY MeasuredIs
<1> QED
  BY <1>2, <1>3 DEF Remembers

(* OutcomesKept: unless names collide, a register that holds an outcome     *)
(* finds it in its memory region as long as its function runs, whatever the *)
(* circuits that the program applies in between measure and move.           *)
THEOREM KeepsOutcomes == XSpec => []OutcomesKept
<1>1. XInit => XInv /\ MInv
  <2> SUFFICES ASSUME XInit PROVE XInv /\ MInv
    OBVIOUS
  <2>1. Len(frames) = 0 /\ \A i \in 1 .. 0 : FALSE
    BY EmptySeq DEF XInit
  <2>2. MInv
    BY <2>1 DEF MInv
  <2> QED
    BY <2>2, InitRuns
<1>2. XInv /\ MInv /\ [XNext]_all => XInv' /\ MInv'
  BY StepRuns, StepRemembers
<1>3. XInv /\ MInv => OutcomesKept
  BY MemoryFollows
<1> QED
  BY <1>1, <1>2, <1>3, PTL DEF XSpec

-----------------------------------------------------------------------------
(* What the program has in the end. *)

EntryRegister == Fun(Entry).ret.register
EntryLabel    == ReturnLabel(FunctionNames[Entry])

LEMMA EntryNames ==
    ASSUME NamesApart, Entry \in Returning
    PROVE  /\ \A f \in InProgram : \A r \in Results(f) : Region(f, r) # EntryLabel
           /\ EntryRegister \in Results(Entry)
           /\ Region(Entry, EntryRegister) # EntryLabel
<1>1. Entry \in InProgram
  BY DEF InProgram
<1>2. EntryRegister \in Results(Entry)
  BY DEF Results, EntryRegister
<1>3. ASSUME NEW f \in InProgram, NEW r \in Results(f) PROVE Region(f, r) # EntryLabel
  BY <1>1 DEF NamesApart, EntryLabel
<1> QED
  BY <1>1, <1>2, <1>3

(* A region is written that is none of those of the entry point's return.   *)
LEMMA UntouchedInserted ==
    ASSUME Untouched, NEW x, x # EntryLabel,
           EntryRegister \notin Measured(Entry) => x # Region(Entry, EntryRegister),
           NEW v, memory' = Insert(memory, x, v), UNCHANGED vars
    PROVE  Untouched'
<1>1. /\ EntryLabel \notin DOMAIN memory
      /\ EntryRegister \notin Measured(Entry) => Region(Entry, EntryRegister) \notin DOMAIN memory
  BY DEF Untouched, EntryLabel, EntryRegister
<1>2. DOMAIN memory' = DOMAIN memory \union {x}
  BY DEF Insert
<1>3. /\ EntryLabel \notin DOMAIN memory'
      /\ EntryRegister \notin Measured(Entry) => Region(Entry, EntryRegister) \notin DOMAIN memory'
  BY <1>1, <1>2
<1>4. Measured(Entry)' = Measured(Entry) /\ Fun(Entry)' = Fun(Entry)
  BY NamesStayApart DEF Fun, vars
<1> QED
  BY <1>3, <1>4 DEF Untouched, EntryLabel, EntryRegister

LEMMA UntouchedByMeasure ==
    ASSUME XInv, NamesApart, Entry \in Returning, Untouched, DoMeasure
    PROVE  Untouched'
<1>1. PICK fun, s, x :
         /\ fun = module.functions[Now.fn]
         /\ s = Len(fun.params) + Now.next /\ x = Region(Now.fn, s)
  OBVIOUS
<1>2. /\ memory' = Insert(memory, x, TheOutcome(outcomes))
      /\ s \in Measured(Now.fn) /\ Now.fn \in InProgram
  BY <1>1, MeasureWrites
<1>3. s \in Results(Now.fn)
  BY <1>2 DEF Results
<1>4. x # EntryLabel
  BY <1>1, <1>2, <1>3, EntryNames
<1>5. ASSUME EntryRegister \notin Measured(Entry), x = Region(Entry, EntryRegister)
      PROVE  FALSE
  <2>1. Entry \in InProgram /\ EntryRegister \in Results(Entry)
    BY EntryNames DEF InProgram
  <2>2. Now.fn = Entry /\ s = EntryRegister
    BY <1>1, <1>2, <1>3, <1>5, <2>1 DEF NamesApart
  <2> QED
    BY <2>2, <1>2, <1>5
<1>6. UNCHANGED vars
  BY DEF DoMeasure
<1> QED
  BY <1>2, <1>4, <1>5, <1>6, UntouchedInserted

LEMMA UntouchedByReturn ==
    ASSUME XInv, NamesApart, Entry \in Returning, Untouched, DoReturn
    PROVE  Untouched'
<1>1. AtReturn /\ memory' = MemoryMoved /\ UNCHANGED vars /\ Len(frames) > 1
  BY DEF DoReturn
<1>2. PICK fun, x, y : /\ fun = module.functions[Now.fn] /\ x = Region(Now.fn, fun.ret.register)
                       /\ y = ReturnLabel(FunctionNames[Now.fn])
  OBVIOUS
<1>3. /\ Now.fn \in InProgram
      /\ \/ MemoryMoved = memory
         \/ Now.fn \in Returning /\ MemoryMoved = Insert(memory, y, memory[x])
  BY <1>1, <1>2, MoveWrites
<1>4. Now.fn # Entry /\ Now.fn \in Functions
  <2>1. phase # "waiting"
    BY <1>1 DEF AtReturn
  <2>2. Entry \notin DOMAIN circuits
    BY <2>1, DoneFacts
  <2>3. Len(frames) # 1
    BY <1>1, <2>1, NowFacts
  <2>4. Now.fn \in DOMAIN circuits /\ Position(module, Now)
    BY <1>2, <2>1, <2>3, NowFacts
  <2> QED
    BY <2>2, <2>4 DEF Position
<1>5. CASE MemoryMoved = memory
  BY <1>1, <1>5, NamesStayApart DEF Untouched, Fun, vars
<1>6. CASE Now.fn \in Returning /\ MemoryMoved = Insert(memory, y, memory[x])
  <2>1. y # EntryLabel
    <3>1. FunctionNames[Now.fn] \in Names /\ FunctionNames[Entry] \in Names
      BY <1>4, NamesAssumption, EntryAssumption
    <3>2. FunctionNames[Now.fn] # FunctionNames[Entry]
      BY <1>4, NamesAssumption, EntryAssumption
    <3> QED
      BY <3>1, <3>2, <1>2, ReturnLabelInjective DEF EntryLabel
  <2>2. y # Region(Entry, EntryRegister)
    <3>1. Entry \in InProgram /\ EntryRegister \in Results(Entry)
      BY EntryNames DEF InProgram
    <3> QED
      BY <3>1, <1>2, <1>3, <1>6 DEF NamesApart
  <2> QED
    BY <1>1, <1>6, <2>1, <2>2, UntouchedInserted
<1> QED
  BY <1>3, <1>5, <1>6

(* The end: the outcome is moved if there is one. *)
LEMMA ExitFaithful ==
    ASSUME XInv, MInv, NamesApart, Entry \in Returning, Untouched, DoExit
    PROVE  IF EntryRegister \in Measured(Entry)
           THEN EntryLabel \in DOMAIN memory' /\ memory'[EntryLabel] = answer'
           ELSE EntryLabel \notin DOMAIN memory'
<1>1. /\ AtReturn /\ memory' = MemoryMoved /\ Len(frames) = 1 /\ answer' = Value
      /\ phase # "waiting"
  BY DEF DoExit, AtReturn
<1>2. PICK fun, r, x :
         /\ fun = module.functions[Now.fn] /\ r = fun.ret.register /\ x = Region(Now.fn, r)
  OBVIOUS
<1>3. /\ module \in Modules /\ Position(module, Now) /\ Now = frames[1]
      /\ fun = Fun(Now.fn) /\ Now.fn = Entry
  BY <1>1, <1>2, NowFacts
<1>4. r = EntryRegister /\ fun.ret.returns = "register"
  BY <1>2, <1>3 DEF EntryRegister, Returning
<1>5. memory' = IF x \in DOMAIN memory THEN Insert(memory, EntryLabel, memory[x]) ELSE memory
  <2>1. Now.fn \in Returning => MemoryMoved = IF x \in DOMAIN memory
              THEN Insert(memory, ReturnLabel(FunctionNames[Now.fn]), memory[x]) ELSE memory
    BY <1>1, <1>2, MoveWrites
  <2> QED
    BY <2>1, <1>1, <1>3 DEF EntryLabel
<1>6. answer' = Now.values[r]
  BY <1>1, <1>2, <1>3, <1>4 DEF Value
<1>7. CASE EntryRegister \in Measured(Entry)
  <2>1. r \in MeasuredOf(fun)
    BY <1>2, <1>3, <1>4, <1>7, MeasuredIs
  <2>2. r <= Len(Now.values)
    <3>1. /\ Len(Now.values) = Len(fun.params) + Now.next - 1
          /\ Len(fun.params) \in Nat /\ Len(fun.body) \in Nat
          /\ DOMAIN fun.body = 1 .. Len(fun.body)
      BY <1>2, <1>3, ValuesLength
    <3>2. Now.next = Len(fun.body) + 1
      BY <1>1, <1>2, <1>3, LastMoves DEF AtReturn
    <3>3. PICK p \in Nat, l \in Nat : p = Len(fun.params) /\ l = Len(fun.body)
      BY <3>1
    <3>4. PICK i \in 1 .. l : r = p + i
      BY <2>1, <3>1, <3>3 DEF MeasuredOf
    <3>5. p + i <= p + (l + 1) - 1
      BY <3>3
    <3> QED
      BY <3>1, <3>2, <3>3, <3>4, <3>5
  <2>3. Remembers(module, memory, Now)
    <3>1. 1 \in 1 .. 1
      OBVIOUS
    <3> QED
      BY <3>1, <1>1, <1>3 DEF MInv
  <2>4. x \in DOMAIN memory /\ memory[x] = Now.values[r]
    BY <1>2, <2>1, <2>2, <2>3 DEF Remembers
  <2> QED
    BY <1>5, <1>6, <1>7, <2>4 DEF Insert
<1>8. CASE EntryRegister \notin Measured(Entry)
  <2>1. x \notin DOMAIN memory /\ EntryLabel \notin DOMAIN memory
    BY <1>2, <1>3, <1>4, <1>8 DEF Untouched, EntryRegister, EntryLabel
  <2> QED
    BY <1>5, <1>8, <2>1
<1> QED
  BY <1>7, <1>8

LEMMA NotFinished == phase # "finished" => ReturnFaithful
  BY DEF ReturnFaithful

LEMMA StepReturns == XInv /\ MInv /\ RInv /\ [XNext]_all => RInv'
<1> SUFFICES ASSUME XInv, MInv, RInv, [XNext]_all PROVE RInv'
  OBVIOUS
<1>1. CASE UNCHANGED all
  <2>1. UNCHANGED vars /\ UNCHANGED xvars
    BY <1>1 DEF all
  <2>2. /\ NamesApart' <=> NamesApart
        /\ Measured(Entry)' = Measured(Entry) /\ Returning' = Returning
    BY <2>1, NamesStayApart
  <2> QED
    BY <2>1, <2>2 DEF RInv, Untouched, ReturnFaithful, Fun, vars, xvars
<1>2. CASE Translate \/ Start
  <2>1. memory' = <<>> /\ phase' # "finished"
    <3>1. CASE Translate
      <4>1. status # "done"
        BY <3>1 DEF Translate, Next, Read, FindEntry, PrimeConstants, PrimeParameters, Goto,
             Allocate, Gate, Measure, Call, Descend, Overflow, Missing, ReturnConstant, Return,
             Finish, At
      <4> QED
        BY <3>1, <4>1 DEF Translate, XInv, xvars
    <3>2. CASE Start
      BY <3>2 DEF Start, XInv
    <3> QED
      BY <1>2, <3>1, <3>2
  <2>2. DOMAIN memory' = {}
    BY <2>1
  <2>3. Untouched'
    BY <2>2 DEF Untouched
  <2>4. ReturnFaithful'
    BY <2>1 DEF ReturnFaithful
  <2> QED
    BY <2>3, <2>4 DEF RInv
<1>3. CASE DoAllocate \/ DoGate \/ DoMeasure \/ DoCall \/ DoReturn
  <2>1. UNCHANGED vars /\ phase # "finished" /\ phase' # "finished"
    BY <1>3 DEF DoAllocate, DoGate, DoMeasure, DoCall, DoReturn, Running, AtReturn
  <2>2. ReturnFaithful'
    BY <2>1 DEF ReturnFaithful
  <2>3. (NamesApart' <=> NamesApart) /\ Returning' = Returning
    BY <2>1, NamesStayApart
  <2>4. ASSUME NamesApart, Entry \in Returning PROVE Untouched'
    <3>1. Untouched
      BY <2>1, <2>4 DEF RInv
    <3>2. CASE DoAllocate \/ DoGate \/ DoCall
      <4>1. memory' = memory
        BY <3>2 DEF DoAllocate, DoGate, DoCall
      <4>2. Measured(Entry)' = Measured(Entry)
        BY <2>1, NamesStayApart
      <4> QED
        BY <2>1, <3>1, <4>1, <4>2 DEF Untouched, Fun, vars
    <3>3. CASE DoMeasure
      BY <2>4, <3>1, <3>3, UntouchedByMeasure
    <3>4. CASE DoReturn
      BY <2>4, <3>1, <3>4, UntouchedByReturn
    <3> QED
      BY <1>3, <3>2, <3>3, <3>4
  <2> QED
    BY <2>2, <2>3, <2>4 DEF RInv
<1>4. CASE DoExit
  <2>1. UNCHANGED vars /\ phase # "finished" /\ phase' = "finished"
    BY <1>4 DEF DoExit, AtReturn
  <2>2. /\ NamesApart' <=> NamesApart
        /\ Measured(Entry)' = Measured(Entry) /\ Returning' = Returning
    BY <2>1, NamesStayApart
  <2>3. ASSUME NamesApart, Entry \in Returning
        PROVE  IF EntryRegister \in Measured(Entry)
               THEN EntryLabel \in DOMAIN memory' /\ memory'[EntryLabel] = answer'
               ELSE EntryLabel \notin DOMAIN memory'
    BY <1>4, <2>1, <2>3, ExitFaithful DEF RInv
  <2>4. EntryRegister' = EntryRegister
    BY <2>1 DEF EntryRegister, Fun, vars
  <2>5. ReturnFaithful'
    BY <2>2, <2>3, <2>4 DEF ReturnFaithful, EntryRegister, EntryLabel
  <2> QED
    BY <2>1, <2>5 DEF RInv
<1> QED
  BY <1>1, <1>2, <1>3, <1>4 DEF XNext

(* ReturnFaithful: unless names collide, a program whose module returns the *)
(* outcome of a measurement of the entry point has that outcome in the      *)
(* region of the return value when it ends, and otherwise nothing.          *)
THEOREM ReturnsOutcome == XSpec => []ReturnFaithful
<1>1. XInit => XInv /\ MInv /\ RInv
  <2> SUFFICES ASSUME XInit PROVE XInv /\ MInv /\ RInv
    OBVIOUS
  <2>1. Len(frames) = 0 /\ \A i \in 1 .. 0 : FALSE
    BY EmptySeq DEF XInit
  <2>2. MInv
    BY <2>1 DEF MInv
  <2>3. DOMAIN memory = {} /\ phase = "waiting"
    BY DEF XInit
  <2>4. RInv
    BY <2>3 DEF RInv, Untouched, ReturnFaithful
  <2> QED
    BY <2>2, <2>4, InitRuns
<1>2. XInv /\ MInv /\ RInv /\ [XNext]_all => XInv' /\ MInv' /\ RInv'
  BY StepRuns, StepRemembers, StepReturns
<1>3. RInv => ReturnFaithful
  BY DEF RInv
<1> QED
  BY <1>1, <1>2, <1>3, PTL DEF XSpec
=============================================================================
