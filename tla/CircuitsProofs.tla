--------------------------- MODULE CircuitsProofs ---------------------------
(***************************************************************************)
(* Proofs about Circuits, for every call graph and every stack limit:      *)
(* circuits are closed and built once, and the search implements the       *)
(* CircuitLibrary.                                                         *)
(***************************************************************************)
EXTENDS Circuits, EnumerationProofs

-----------------------------------------------------------------------------
(* The invariant. A translation under way has emitted one gate for each     *)
(* call before its next one, and the circuits of all these are defined.     *)

FrameOK(frame) ==
    /\ frame.next \in 1 .. Len(calls[frame.fn]) + 1
    /\ Len(frame.gates) = frame.next - 1
    /\ \A j \in 1 .. frame.next - 1 : /\ frame.gates[j] = calls[frame.fn][j]
                                      /\ calls[frame.fn][j] \in DOMAIN circuits

FramesOK == \A i \in DOMAIN stack : FrameOK(stack[i])

IInv == TypeOK /\ FramesOK /\ TranslatedOnce /\ Closed
-----------------------------------------------------------------------------
(* What the state looks like where the innermost body is translated. *)

LEMMA FrameTypes ==
    ASSUME NEW f \in Functions
    PROVE  Frame(f) \in Frames
<1>1. <<>> \in Seq(Functions)
  BY EmptySeq
<1> QED
  BY <1>1 DEF Frame, Frames

LEMMA AppliedTypes ==
    ASSUME NEW frame \in Frames, NEW f \in Functions
    PROVE  Applied(frame, f) \in Frames
<1>1. frame.gates \in Seq(Functions) /\ frame.fn \in Functions /\ frame.next \in Nat \ {0}
  BY DEF Frames
<1>2. Append(frame.gates, f) \in Seq(Functions)
  BY <1>1, AppendProperties
<1> QED
  BY <1>1, <1>2 DEF Applied, Frames

LEMMA TopTypes ==
    ASSUME TypeOK, status = "running"
    PROVE  /\ stack \in Seq(Frames) /\ stack # <<>>
           /\ Len(stack) \in Nat \ {0} /\ DOMAIN stack = 1 .. Len(stack)
           /\ Top \in Frames /\ Top.fn \in Functions /\ Top.next \in Nat \ {0}
           /\ Top.gates \in Seq(Functions)
           /\ calls[Top.fn] \in Seq(Functions)
           /\ DOMAIN calls[Top.fn] = 1 .. Len(calls[Top.fn])
           /\ Len(calls[Top.fn]) \in Nat
           /\ AtCall => Top.next \in DOMAIN calls[Top.fn] /\ Callee \in Functions
<1>1. stack \in Seq(Frames) /\ stack # <<>>
  BY DEF TypeOK
<1>2. Len(stack) \in Nat \ {0} /\ DOMAIN stack = 1 .. Len(stack) /\ stack[Len(stack)] \in Frames
  BY <1>1, BelowTop, LenProperties
<1>3. /\ Top \in Frames /\ Top.fn \in Functions /\ Top.next \in Nat \ {0}
      /\ Top.gates \in Seq(Functions)
  BY <1>2 DEF Top, Frames
<1>4. calls[Top.fn] \in Seq(Functions)
  BY <1>3 DEF TypeOK
<1>5. /\ DOMAIN calls[Top.fn] = 1 .. Len(calls[Top.fn])
      /\ Len(calls[Top.fn]) \in Nat
      /\ \A j \in 1 .. Len(calls[Top.fn]) : calls[Top.fn][j] \in Functions
  BY <1>4, LenProperties
<1>6. AtCall => Top.next \in DOMAIN calls[Top.fn] /\ Callee \in Functions
  BY <1>3, <1>5 DEF AtCall, Callee
<1> QED
  BY <1>1, <1>2, <1>3, <1>4, <1>5, <1>6

(* A gate is emitted for the next call. *)
LEMMA AppliedOK ==
    ASSUME NEW frame \in Frames, FrameOK(frame),
           calls[frame.fn] \in Seq(Functions),
           frame.next \in DOMAIN calls[frame.fn],
           NEW c, c = calls[frame.fn][frame.next],
           NEW fr, fr = Applied(frame, c)
    PROVE  /\ fr.fn = frame.fn
           /\ fr.next \in 1 .. Len(calls[fr.fn]) + 1
           /\ Len(fr.gates) = fr.next - 1
           /\ \A j \in 1 .. fr.next - 1 : /\ fr.gates[j] = calls[fr.fn][j]
                                          /\ j = frame.next \/ calls[fr.fn][j] \in DOMAIN circuits
<1>1. fr.fn = frame.fn /\ fr.next = frame.next + 1 /\ fr.gates = Append(frame.gates, c)
  BY DEF Applied
<1>2. frame.gates \in Seq(Functions) /\ frame.next \in Nat \ {0}
  BY DEF Frames
<1>3. /\ DOMAIN calls[frame.fn] = 1 .. Len(calls[frame.fn])
      /\ Len(calls[frame.fn]) \in Nat
      /\ c \in Functions
  BY LenProperties
<1>4. frame.next <= Len(calls[frame.fn]) /\ Len(frame.gates) = frame.next - 1
  BY <1>2, <1>3 DEF FrameOK
<1>5. /\ Len(fr.gates) = Len(frame.gates) + 1
      /\ \A j \in 1 .. Len(frame.gates) : fr.gates[j] = frame.gates[j]
      /\ fr.gates[Len(frame.gates) + 1] = c
  BY SMTT(20), <1>1, <1>2, <1>3, OnePushed
<1>6. ASSUME NEW j \in 1 .. fr.next - 1
      PROVE  /\ fr.gates[j] = calls[fr.fn][j]
             /\ j = frame.next \/ calls[fr.fn][j] \in DOMAIN circuits
  <2>1. CASE j \in 1 .. frame.next - 1
    BY <2>1, <1>1, <1>2, <1>4, <1>5 DEF FrameOK
  <2>2. CASE j = frame.next
    BY SMTT(20), <2>2, <1>1, <1>2, <1>4, <1>5
  <2>3. j \in 1 .. frame.next - 1 \/ j = frame.next
    <3>1. fr.next = frame.next + 1 /\ frame.next \in Nat
      BY <1>1, <1>2
    <3> QED
      BY <3>1
  <2> QED
    BY <2>1, <2>2, <2>3
<1>7. fr.next \in 1 .. Len(calls[fr.fn]) + 1 /\ Len(fr.gates) = fr.next - 1
  BY SMTT(20), <1>1, <1>2, <1>3, <1>4, <1>5
<1> QED
  BY <1>1, <1>6, <1>7

(* A body is translated when each of its calls has become a gate. *)
LEMMA Finished ==
    ASSUME IInv, status = "running", ~AtCall
    PROVE  /\ Top.gates = calls[Top.fn]
           /\ \A j \in DOMAIN calls[Top.fn] : calls[Top.fn][j] \in DOMAIN circuits
<1>1. /\ Top \in Frames /\ Top.next \in Nat \ {0} /\ Top.gates \in Seq(Functions)
      /\ calls[Top.fn] \in Seq(Functions) /\ Len(calls[Top.fn]) \in Nat
      /\ DOMAIN calls[Top.fn] = 1 .. Len(calls[Top.fn])
      /\ Len(stack) \in DOMAIN stack
  BY TopTypes DEF IInv
<1>2. FrameOK(Top)
  BY <1>1 DEF IInv, FramesOK, Top
<1>3. Top.next = Len(calls[Top.fn]) + 1
  BY <1>1, <1>2 DEF FrameOK, AtCall
<1>4. /\ Len(Top.gates) = Len(calls[Top.fn])
      /\ \A j \in 1 .. Len(calls[Top.fn]) : /\ Top.gates[j] = calls[Top.fn][j]
                                            /\ calls[Top.fn][j] \in DOMAIN circuits
  BY <1>1, <1>2, <1>3 DEF FrameOK
<1>5. Top.gates = calls[Top.fn]
  BY <1>1, <1>4, SeqEqual
<1> QED
  BY <1>1, <1>4, <1>5

(* No other translation of the same function is under way then: it would    *)
(* wait for a call, which has its circuit if all the calls of the function  *)
(* have theirs.                                                             *)
LEMMA FinishedAlone ==
    ASSUME IInv, status = "running", ~AtCall,
           NEW i \in 1 .. Len(stack) - 1
    PROVE  stack[i].fn # Top.fn
<1>1. Len(stack) \in Nat \ {0} /\ DOMAIN stack = 1 .. Len(stack)
  BY TopTypes DEF IInv
<1>2. /\ stack[i].next \in DOMAIN calls[stack[i].fn]
      /\ calls[stack[i].fn][stack[i].next] = stack[i + 1].fn
      /\ stack[i + 1].fn \notin DOMAIN circuits
  BY <1>1 DEF IInv, TranslatedOnce
<1> QED
  BY <1>2, Finished
-----------------------------------------------------------------------------
(* The invariant holds at first and is kept by every step. *)

LEMMA Start == Init => IInv
<1> SUFFICES ASSUME Init PROVE IInv
  OBVIOUS
<1>1. calls \in [Functions -> Seq(Functions)]
  <2>1. Bodies \subseteq Seq(Functions)
    <3> SUFFICES ASSUME NEW b \in Bodies PROVE b \in Seq(Functions)
      OBVIOUS
    <3>1. PICK n \in 0 .. MaxCalls : b \in [1 .. n -> Functions]
      BY DEF Bodies
    <3> QED
      BY <3>1, LimitsAssumption
  <2> QED
    BY <2>1 DEF Init
<1>2. DOMAIN circuits = {}
  BY DEF Init
<1>3. CASE Entry \in defined
  <2>1. stack = <<Frame(Entry)>> /\ status = "running"
    BY <1>3 DEF Init
  <2>2. Frame(Entry) \in Frames
    BY FrameTypes, EntryAssumption
  <2>3. stack \in Seq(Frames) /\ stack # <<>> /\ DOMAIN stack = {1} /\ Len(stack) = 1
    BY <2>1, <2>2
  <2>4. TypeOK
    BY <1>1, <1>2, <2>1, <2>3 DEF TypeOK, Init
  <2>5. FramesOK
    <3>1. Frame(Entry).fn = Entry /\ Frame(Entry).next = 1 /\ Frame(Entry).gates = <<>>
      BY DEF Frame
    <3>2. Len(calls[Entry]) \in Nat
      BY <1>1, EntryAssumption, LenProperties
    <3>3. Len(Frame(Entry).gates) = 0
      BY <3>1, EmptySeq
    <3>4. FrameOK(Frame(Entry))
      BY <3>1, <3>2, <3>3 DEF FrameOK
    <3> QED
      BY <2>1, <2>3, <3>4 DEF FramesOK
  <2>6. TranslatedOnce
    BY <2>3 DEF TranslatedOnce
  <2>7. Closed
    BY <1>2 DEF Closed
  <2> QED
    BY <2>4, <2>5, <2>6, <2>7 DEF IInv
<1>4. CASE Entry \notin defined
  <2>1. stack = <<>> /\ status = "UndefinedEntryPoint"
    BY <1>4 DEF Init
  <2>2. stack \in Seq(Frames) /\ DOMAIN stack = {}
    BY <2>1, EmptySeq
  <2>3. TypeOK
    BY <1>1, <1>2, <2>1, <2>2 DEF TypeOK, Init
  <2> QED
    BY <1>2, <2>2, <2>3 DEF IInv, FramesOK, TranslatedOnce, Closed
<1> QED
  BY <1>3, <1>4

LEMMA ApplyKeeps == IInv /\ Apply => IInv'
<1> SUFFICES ASSUME IInv, Apply PROVE IInv'
  OBVIOUS
<1> DEFINE n == Len(stack)
           frame == Applied(Top, Callee)
<1>1. /\ status = "running" /\ AtCall /\ Callee \in DOMAIN circuits
      /\ stack' = Append(SubSeq(stack, 1, Len(stack) - 1), frame)
      /\ UNCHANGED <<calls, defined, circuits, program, status>>
  BY DEF Apply, Below
<1>2. /\ stack \in Seq(Frames) /\ stack # <<>> /\ n \in Nat \ {0}
      /\ DOMAIN stack = 1 .. n
      /\ Top \in Frames /\ Callee \in Functions
      /\ calls[Top.fn] \in Seq(Functions) /\ Top.next \in DOMAIN calls[Top.fn]
  BY <1>1, TopTypes DEF IInv
<1>3. frame \in Frames
  BY <1>2, AppliedTypes
<1> HIDE DEF n, frame
<1>0. n = Len(stack) /\ n \in Nat \ {0}
  BY <1>2 DEF n
<1>4. /\ stack' \in Seq(Frames) /\ DOMAIN stack' = 1 .. n /\ Len(stack') = n
      /\ \A i \in 1 .. n - 1 : stack'[i] = stack[i]
      /\ stack'[n] = frame
      /\ stack' # <<>>
  BY <1>0, <1>1, <1>2, <1>3, TopReplaced
<1>6. FrameOK(Top)
  BY <1>2 DEF IInv, FramesOK, Top
<1>7. /\ frame.fn = Top.fn
      /\ frame.next \in 1 .. Len(calls[frame.fn]) + 1
      /\ Len(frame.gates) = frame.next - 1
      /\ \A j \in 1 .. frame.next - 1 : /\ frame.gates[j] = calls[frame.fn][j]
                                        /\ calls[frame.fn][j] \in DOMAIN circuits
  <2>1. frame = Applied(Top, Callee) /\ Callee = calls[Top.fn][Top.next]
    BY DEF frame, Callee
  <2>2. /\ frame.fn = Top.fn
        /\ frame.next \in 1 .. Len(calls[frame.fn]) + 1
        /\ Len(frame.gates) = frame.next - 1
        /\ \A j \in 1 .. frame.next - 1 :
              /\ frame.gates[j] = calls[frame.fn][j]
              /\ j = Top.next \/ calls[frame.fn][j] \in DOMAIN circuits
    BY SMTT(20), <2>1, <1>2, <1>6, AppliedOK
  <2> QED
    BY <2>1, <2>2, <1>1
<1>8. TypeOK'
  BY <1>1, <1>4 DEF IInv, TypeOK
<1>9. FramesOK'
  <2> SUFFICES ASSUME NEW i \in 1 .. n PROVE FrameOK(stack[i])'
    BY <1>4 DEF FramesOK
  <2>1. CASE i = n
    BY <2>1, <1>1, <1>4, <1>7 DEF FrameOK
  <2>2. CASE i \in 1 .. n - 1
    <3>1. stack'[i] = stack[i] /\ FrameOK(stack[i])
      BY <2>2, <1>2, <1>4 DEF IInv, FramesOK
    <3> QED
      BY <3>1, <1>1 DEF FrameOK
  <2> QED
    BY <2>1, <2>2, <1>0
<1>10. TranslatedOnce'
  <2>1. \A i \in 1 .. n : stack'[i].fn = stack[i].fn
    BY <1>0, <1>4, <1>7 DEF Top
  <2> SUFFICES ASSUME NEW i \in 1 .. n
               PROVE  /\ i > 1 => stack'[i].fn \notin DOMAIN circuits
                      /\ i < n => /\ stack'[i].next \in DOMAIN calls[stack'[i].fn]
                                  /\ calls[stack'[i].fn][stack'[i].next] = stack'[i + 1].fn
    BY <1>1, <1>4, <1>0 DEF TranslatedOnce
  <2>2. i > 1 => stack[i].fn \notin DOMAIN circuits
    BY <1>2, <1>0 DEF IInv, TranslatedOnce
  <2>3. CASE i < n
    <3>1. stack'[i] = stack[i] /\ i + 1 \in 1 .. n
      BY <2>3, <1>0, <1>4
    <3>2. /\ stack[i].next \in DOMAIN calls[stack[i].fn]
          /\ calls[stack[i].fn][stack[i].next] = stack[i + 1].fn
      BY <2>3, <1>0, <1>2 DEF IInv, TranslatedOnce
    <3> QED
      BY <3>1, <3>2, <2>1, <2>2
  <2> QED
    BY <2>1, <2>2, <2>3
<1>11. Closed'
  BY <1>1 DEF IInv, Closed
<1> QED
  BY <1>8, <1>9, <1>10, <1>11 DEF IInv
LEMMA DescendKeeps == IInv /\ Descend => IInv'
<1> SUFFICES ASSUME IInv, Descend PROVE IInv'
  OBVIOUS
<1> DEFINE n == Len(stack)
           frame == Frame(Callee)
<1>1. /\ status = "running" /\ AtCall /\ Callee \notin DOMAIN circuits
      /\ stack' = Append(stack, frame)
      /\ UNCHANGED <<calls, defined, circuits, program, status>>
  BY DEF Descend
<1>2. /\ stack \in Seq(Frames) /\ n \in Nat \ {0} /\ DOMAIN stack = 1 .. n
      /\ Callee \in Functions /\ Top.next \in DOMAIN calls[Top.fn]
  BY <1>1, TopTypes DEF IInv
<1>3. /\ frame \in Frames
      /\ frame.fn = Callee /\ frame.next = 1 /\ frame.gates = <<>>
  BY <1>2, FrameTypes DEF Frame
<1> HIDE DEF n, frame
<1>4. n = Len(stack) /\ n \in Nat \ {0}
  BY <1>2 DEF n
<1>5. /\ stack' \in Seq(Frames) /\ stack' # <<>>
      /\ Len(stack') = n + 1 /\ DOMAIN stack' = 1 .. n + 1
      /\ \A i \in 1 .. n : stack'[i] = stack[i]
      /\ stack'[n + 1] = frame
  BY <1>1, <1>2, <1>3, <1>4, OnePushed
<1>6. TypeOK'
  BY <1>1, <1>5 DEF IInv, TypeOK
<1>7. FramesOK'
  <2> SUFFICES ASSUME NEW i \in 1 .. n + 1 PROVE FrameOK(stack[i])'
    BY <1>5 DEF FramesOK
  <2>1. CASE i = n + 1
    <3>1. Len(calls[Callee]) \in Nat
      BY <1>2, LenProperties DEF IInv, TypeOK
    <3>2. Len(frame.gates) = 0
      BY <1>3, EmptySeq
    <3> QED
      BY <2>1, <3>1, <3>2, <1>1, <1>3, <1>5 DEF FrameOK
  <2>2. CASE i \in 1 .. n
    <3>1. stack'[i] = stack[i] /\ FrameOK(stack[i])
      BY <2>2, <1>2, <1>5 DEF IInv, FramesOK
    <3> QED
      BY <3>1, <1>1 DEF FrameOK
  <2> QED
    BY <2>1, <2>2, <1>4
<1>8. TranslatedOnce'
  <2> SUFFICES ASSUME NEW i \in 1 .. n + 1
               PROVE  /\ i > 1 => stack'[i].fn \notin DOMAIN circuits
                      /\ i < n + 1 =>
                            /\ stack'[i].next \in DOMAIN calls[stack'[i].fn]
                            /\ calls[stack'[i].fn][stack'[i].next] = stack'[i + 1].fn
    BY <1>1, <1>4, <1>5 DEF TranslatedOnce
  <2>1. CASE i = n + 1
    BY <2>1, <1>1, <1>3, <1>4, <1>5
  <2>2. CASE i = n
    <3>1. stack'[i] = Top /\ stack'[i + 1] = frame
      BY <2>2, <1>4, <1>5 DEF Top
    <3>2. i > 1 => stack[i].fn \notin DOMAIN circuits
      BY <1>2, <2>2, <1>4 DEF IInv, TranslatedOnce
    <3>3. stack[i] = Top
      BY <2>2, <1>4 DEF Top
    <3> QED
      BY <3>1, <3>2, <3>3, <1>2, <1>3 DEF Callee
  <2>3. CASE i \in 1 .. n - 1
    <3>1. stack'[i] = stack[i] /\ stack'[i + 1] = stack[i + 1]
      BY <2>3, <1>4, <1>5
    <3>2. /\ i > 1 => stack[i].fn \notin DOMAIN circuits
          /\ stack[i].next \in DOMAIN calls[stack[i].fn]
          /\ calls[stack[i].fn][stack[i].next] = stack[i + 1].fn
      BY <2>3, <1>2, <1>4 DEF IInv, TranslatedOnce
    <3> QED
      BY <3>1, <3>2
  <2> QED
    BY <2>1, <2>2, <2>3, <1>4
<1>9. Closed'
  BY <1>1 DEF IInv, Closed
<1> QED
  BY <1>6, <1>7, <1>8, <1>9 DEF IInv
LEMMA ReturnKeeps == IInv /\ Return => IInv'
<1> SUFFICES ASSUME IInv, Return PROVE IInv'
  OBVIOUS
<1> DEFINE n == Len(stack)
           D == DOMAIN circuits \union {Top.fn}
           caller == Below[Len(Below)]
           frame == Applied(caller, Top.fn)
<1>1. /\ status = "running" /\ ~AtCall /\ n > 1
      /\ circuits' = [f \in D |-> IF f = Top.fn THEN Top.gates ELSE circuits[f]]
      /\ stack' = Append(SubSeq(Below, 1, Len(Below) - 1), frame)
      /\ UNCHANGED <<calls, defined, program, status>>
  BY DEF Return
<1>2. /\ stack \in Seq(Frames) /\ stack # <<>> /\ n \in Nat \ {0}
      /\ DOMAIN stack = 1 .. n
      /\ Top \in Frames /\ Top.fn \in Functions /\ Top.gates \in Seq(Functions)
  BY <1>1, TopTypes DEF IInv
<1>3. /\ Below \in Seq(Frames) /\ Len(Below) = n - 1
      /\ \A i \in 1 .. n - 1 : Below[i] = stack[i]
  BY <1>2, BelowTop DEF Below
<1>4. Below # <<>>
  BY <1>1, <1>2, <1>3, EmptySeq
<1>5. caller = stack[n - 1] /\ n - 1 \in 1 .. n - 1
  BY <1>1, <1>2, <1>3
<1>6. caller \in Frames /\ FrameOK(caller)
  <2>1. n - 1 \in DOMAIN stack
    BY <1>2, <1>5
  <2>2. FrameOK(stack[n - 1])
    BY <2>1 DEF IInv, FramesOK
  <2>3. stack[n - 1] \in Frames
    BY <1>2, <2>1
  <2> QED
    BY <2>2, <2>3, <1>5
<1>7. caller.next \in DOMAIN calls[caller.fn] /\ calls[caller.fn][caller.next] = Top.fn
  <2>1. n - 1 \in DOMAIN stack /\ n - 1 < n /\ (n - 1) + 1 = n
    BY <1>2, <1>5
  <2>2. /\ stack[n - 1].next \in DOMAIN calls[stack[n - 1].fn]
        /\ calls[stack[n - 1].fn][stack[n - 1].next] = stack[n].fn
    BY <2>1 DEF IInv, TranslatedOnce
  <2> QED
    BY <2>2, <1>5 DEF Top
<1>8. frame \in Frames
  BY <1>2, <1>6, AppliedTypes
<1>9. DOMAIN circuits' = D /\ DOMAIN circuits \subseteq D /\ D \subseteq Functions
  BY <1>1, <1>2 DEF IInv, TypeOK
<1>10. \A f \in D : circuits'[f] = IF f = Top.fn THEN Top.gates ELSE circuits[f]
  BY <1>1
<1>11. calls[caller.fn] \in Seq(Functions)
  BY <1>6 DEF Frames, IInv, TypeOK
<1> HIDE DEF n, D, caller, frame
<1>12. /\ frame.fn = caller.fn
       /\ frame.next \in 1 .. Len(calls[frame.fn]) + 1
       /\ Len(frame.gates) = frame.next - 1
       /\ \A j \in 1 .. frame.next - 1 : /\ frame.gates[j] = calls[frame.fn][j]
                                         /\ calls[frame.fn][j] \in D
  <2>1. frame = Applied(caller, Top.fn)
    BY DEF frame
  <2>2. /\ frame.fn = caller.fn
        /\ frame.next \in 1 .. Len(calls[frame.fn]) + 1
        /\ Len(frame.gates) = frame.next - 1
        /\ \A j \in 1 .. frame.next - 1 :
              /\ frame.gates[j] = calls[frame.fn][j]
              /\ j = caller.next \/ calls[frame.fn][j] \in DOMAIN circuits
    BY <2>1, <1>6, <1>7, <1>11, AppliedOK
  <2> QED
    BY <2>2, <1>7 DEF D
<1>13. n = Len(stack) /\ n \in Nat /\ n > 1
  BY <1>1, <1>2 DEF n
<1>14. /\ stack' \in Seq(Frames) /\ stack' # <<>>
       /\ Len(stack') = n - 1 /\ DOMAIN stack' = 1 .. n - 1
       /\ \A i \in 1 .. n - 2 : stack'[i] = stack[i]
       /\ stack'[n - 1] = frame
  <2>1. /\ stack' \in Seq(Frames) /\ stack' # <<>>
        /\ Len(stack') = Len(Below) /\ DOMAIN stack' = 1 .. Len(Below)
        /\ \A i \in 1 .. Len(Below) - 1 : stack'[i] = Below[i]
        /\ stack'[Len(Below)] = frame
    BY <1>1, <1>3, <1>4, <1>8, TopReplaced
  <2> QED
    BY <2>1, <1>3, <1>13
<1>15. /\ Top.gates = calls[Top.fn]
       /\ \A j \in DOMAIN calls[Top.fn] : calls[Top.fn][j] \in DOMAIN circuits
  BY <1>1, Finished
<1>16. TypeOK'
  <2>1. \A f \in D : circuits'[f] \in Seq(Functions)
    <3> SUFFICES ASSUME NEW f \in D PROVE circuits'[f] \in Seq(Functions)
      OBVIOUS
    <3>1. CASE f = Top.fn
      BY <3>1, <1>2, <1>10
    <3>2. CASE f # Top.fn
      BY <3>2, <1>10 DEF IInv, TypeOK, D
    <3> QED
      BY <3>1, <3>2
  <2> QED
    BY <2>1, <1>1, <1>9, <1>14 DEF IInv, TypeOK
<1>17. FramesOK'
  <2> SUFFICES ASSUME NEW i \in 1 .. n - 1 PROVE FrameOK(stack[i])'
    BY <1>14 DEF FramesOK
  <2>1. CASE i = n - 1
    BY <2>1, <1>1, <1>9, <1>12, <1>14 DEF FrameOK
  <2>2. CASE i \in 1 .. n - 2
    <3>1. stack'[i] = stack[i] /\ i \in DOMAIN stack
      BY <2>2, <1>2, <1>13, <1>14
    <3>2. FrameOK(stack[i])
      BY <3>1 DEF IInv, FramesOK
    <3> QED
      BY <3>1, <3>2, <1>1, <1>9 DEF FrameOK
  <2> QED
    BY <2>1, <2>2, <1>13
<1>18. TranslatedOnce'
  <2> SUFFICES ASSUME NEW i \in 1 .. n - 1
               PROVE  /\ i > 1 => stack'[i].fn \notin D
                      /\ i < n - 1 =>
                            /\ stack'[i].next \in DOMAIN calls[stack'[i].fn]
                            /\ calls[stack'[i].fn][stack'[i].next] = stack'[i + 1].fn
    BY <1>1, <1>9, <1>14 DEF TranslatedOnce
  <2>1. \A k \in 1 .. n - 1 : stack'[k].fn = stack[k].fn
    <3> SUFFICES ASSUME NEW k \in 1 .. n - 1 PROVE stack'[k].fn = stack[k].fn
      OBVIOUS
    <3>1. CASE k = n - 1
      BY <3>1, <1>5, <1>12, <1>14
    <3>2. CASE k \in 1 .. n - 2
      BY <3>2, <1>14
    <3> QED
      BY <3>1, <3>2, <1>13
  <2>2. i \in DOMAIN stack /\ i + 1 \in 1 .. n /\ i < Len(stack)
    BY <1>2, <1>13
  <2>3. i > 1 => stack[i].fn \notin DOMAIN circuits
    BY <2>2 DEF IInv, TranslatedOnce
  <2>4. stack[i].fn # Top.fn
    BY <1>1, <1>13, FinishedAlone
  <2>5. CASE i < n - 1
    <3>1. stack'[i] = stack[i] /\ stack'[i + 1].fn = stack[i + 1].fn
      BY <2>1, <2>5, <1>13, <1>14
    <3>2. /\ stack[i].next \in DOMAIN calls[stack[i].fn]
          /\ calls[stack[i].fn][stack[i].next] = stack[i + 1].fn
      BY <2>2 DEF IInv, TranslatedOnce
    <3> QED
      BY <3>1, <3>2, <2>3, <2>4 DEF D
  <2> QED
    BY <2>1, <2>3, <2>4, <2>5 DEF D
<1>19. Closed'
  <2> SUFFICES ASSUME NEW f \in D
               PROVE  /\ circuits'[f] = calls[f]
                      /\ \A j \in DOMAIN calls[f] : calls[f][j] \in D
    BY <1>1, <1>9 DEF Closed
  <2>1. CASE f = Top.fn
    BY <2>1, <1>9, <1>10, <1>15
  <2>2. CASE f # Top.fn
    BY <2>2, <1>9, <1>10 DEF IInv, Closed, D
  <2> QED
    BY <2>1, <2>2
<1> QED
  BY <1>16, <1>17, <1>18, <1>19 DEF IInv
LEMMA StatusOnlyKeeps ==
    ASSUME IInv, UNCHANGED <<calls, defined, stack, circuits>>,
           status' \in {"running", "done", "error", "overflow",
                       "MissingFunctionDefinition", "UndefinedEntryPoint"},
           status' = "running" => status = "running"
    PROVE  IInv'
<1>1. TypeOK'
  BY DEF IInv, TypeOK
<1>2. FramesOK'
  BY DEF IInv, FramesOK, FrameOK
<1>3. TranslatedOnce' /\ Closed'
  BY DEF IInv, TranslatedOnce, Closed
<1> QED
  BY <1>1, <1>2, <1>3 DEF IInv

LEMMA StepKeeps == IInv /\ [Next]_vars => IInv'
<1> SUFFICES ASSUME IInv, [Next]_vars PROVE IInv'
  OBVIOUS
<1>1. CASE Apply
  BY <1>1, ApplyKeeps
<1>2. CASE Descend
  BY <1>2, DescendKeeps
<1>3. CASE Return
  BY <1>3, ReturnKeeps
<1>4. CASE Overflow
  BY <1>4, StatusOnlyKeeps DEF Overflow
<1>5. CASE Missing
  BY <1>5, StatusOnlyKeeps DEF Missing
<1>6. CASE Fail
  BY <1>6, StatusOnlyKeeps DEF Fail
<1>7. CASE Finish
  BY <1>7, StatusOnlyKeeps DEF Finish
<1>8. CASE UNCHANGED vars
  <2>1. /\ UNCHANGED <<calls, defined, stack, circuits>>
        /\ status' = status
    BY <1>8 DEF vars
  <2> QED
    BY <2>1, StatusOnlyKeeps DEF IInv, TypeOK
<1> QED
  BY <1>1, <1>2, <1>3, <1>4, <1>5, <1>6, <1>7, <1>8 DEF Next

(* IInv is an invariant of the search, whatever the call graph: the         *)
(* invariant behind the theorems below.                                     *)
THEOREM Invariance == Spec => []IInv
<1>1. Init => IInv
  BY Start
<1>2. IInv /\ [Next]_vars => IInv'
  BY StepKeeps
<1> QED
  BY <1>1, <1>2, PTL DEF Spec

-----------------------------------------------------------------------------
(* What the invariant says of the circuits and of the call stack. *)

(* The search keeps the shape of its state (global.rs: the values of        *)
(* circuit_definitions are the translated bodies of functions).             *)
THEOREM TypeCorrect == Spec => []TypeOK
<1>1. IInv => TypeOK
  BY DEF IInv
<1> QED
  BY <1>1, Invariance, PTL

(* Whatever the call graph and however the search ends, every circuit that  *)
(* was defined holds one gate per call of its function and applies only     *)
(* circuits that are defined: no output refers to a missing DEFCIRCUIT.     *)
THEOREM CircuitsClosed == Spec => []Closed
<1>1. IInv => Closed
  BY DEF IInv
<1> QED
  BY <1>1, Invariance, PTL

(* No function is translated again once it has a circuit, and the           *)
(* translations under way are a chain of calls, none answered yet.          *)
THEOREM TranslatedAtMostOnce == Spec => []TranslatedOnce
<1>1. IInv => TranslatedOnce
  BY DEF IInv
<1> QED
  BY <1>1, Invariance, PTL

-----------------------------------------------------------------------------
(* The search implements the library of circuits. *)

LEMMA ReturnDefines == IInv /\ Return => Library!Define(Top.fn) /\ Top.fn \in Functions
<1> SUFFICES ASSUME IInv, Return
             PROVE  Library!Define(Top.fn) /\ Top.fn \in Functions
  OBVIOUS
<1>1. /\ status = "running" /\ ~AtCall /\ Len(stack) > 1 /\ calls' = calls
      /\ circuits' = [f \in DOMAIN circuits \union {Top.fn} |->
                         IF f = Top.fn THEN Top.gates ELSE circuits[f]]
  BY DEF Return
<1>2. Top.fn \in Functions /\ Len(stack) \in DOMAIN stack
  BY <1>1, TopTypes DEF IInv
<1>3. Top.fn \notin DOMAIN circuits
  BY <1>1, <1>2 DEF IInv, TranslatedOnce, Top
<1>4. /\ Top.gates = calls[Top.fn]
      /\ \A j \in DOMAIN calls[Top.fn] : calls[Top.fn][j] \in DOMAIN circuits
  BY <1>1, Finished
<1>5. Library!CalleesOf(Top.fn) \subseteq DOMAIN circuits
  BY <1>4 DEF Library!CalleesOf
<1>6. circuits' = [g \in DOMAIN circuits \union {Top.fn} |->
                      IF g = Top.fn THEN calls[Top.fn] ELSE circuits[g]]
  BY <1>1, <1>4
<1> QED
  BY <1>1, <1>2, <1>3, <1>5, <1>6 DEF Library!Define

(* The recursion of translate_module defines circuits as CircuitLibrary     *)
(* promises: one at a time, each once and for good, with the gates of its   *)
(* function, and never before the circuits that it applies (the look-up of  *)
(* function.rs:506 and the insertion of function.rs:511 are not one step:   *)
(* a whole translation lies between them).                                  *)
THEOREM Implements == Spec => ImplementsLibrary
<1>1. Init => Library!Init
  BY DEF Init, Library!Init
<1>2. IInv /\ [Next]_vars => [Library!Next]_<<calls, circuits>>
  <2> SUFFICES ASSUME IInv, [Next]_vars
               PROVE  Library!Next \/ UNCHANGED <<calls, circuits>>
    OBVIOUS
  <2>1. CASE Return
    BY <2>1, ReturnDefines DEF Library!Next
  <2>2. CASE Apply \/ Descend
    BY <2>2 DEF Apply, Descend
  <2>3. CASE Overflow \/ Missing \/ Fail \/ Finish
    BY <2>3 DEF Overflow, Missing, Fail, Finish
  <2>4. CASE UNCHANGED vars
    BY <2>4 DEF vars
  <2> QED
    BY <2>1, <2>2, <2>3, <2>4 DEF Next
<1> QED
  BY <1>1, <1>2, Invariance, PTL DEF Spec, ImplementsLibrary, Library!Spec

-----------------------------------------------------------------------------
(* What a call leads to. *)

LEMMA ReachCalls ==
    ASSUME calls \in [Functions -> Seq(Functions)], NEW f \in Functions
    PROVE  Callees(f) \subseteq Reach(f) /\ Reach(f) \subseteq Functions
<1>1. Callees(f) \subseteq Functions
  <2>1. calls[f] \in Seq(Functions)
    OBVIOUS
  <2>2. \A i \in DOMAIN calls[f] : calls[f][i] \in Functions
    BY <2>1, LenProperties
  <2> QED
    BY <2>2 DEF Callees
<1> QED
  BY <1>1 DEF Reach

LEMMA ReachGoesOn ==
    ASSUME calls \in [Functions -> Seq(Functions)],
           NEW f \in Functions, NEW g \in Reach(f)
    PROVE  Reach(g) \subseteq Reach(f)
<1> SUFFICES ASSUME NEW h \in Reach(g),
                    NEW S \in SUBSET Functions, Callees(f) \subseteq S, CallsWithin(S)
             PROVE  h \in S
  BY DEF Reach
<1>1. g \in S
  BY DEF Reach
<1>2. Callees(g) \subseteq S
  BY <1>1 DEF CallsWithin
<1> QED
  BY <1>2 DEF Reach

LEMMA ReachLeast ==
    ASSUME NEW f \in Functions, NEW S \in SUBSET Functions,
           Callees(f) \subseteq S, CallsWithin(S)
    PROVE  Reach(f) \subseteq S
BY DEF Reach

-----------------------------------------------------------------------------
(* The invariant about what is reached. The translations under way start    *)
(* with the entry point and each leads to those above it; the circuits can  *)
(* be ranked so that each applies only circuits below it.                   *)

Rooted == stack # <<>> => stack[1].fn = Entry

Led == \A i, j \in DOMAIN stack : i < j => stack[j].fn \in Reach(stack[i].fn)

Wanted == DOMAIN circuits \subseteq Reach(Entry)

Ranks(rank, n) == /\ \A f \in DOMAIN circuits : rank[f] \in 0 .. n - 1
                  /\ \A f \in DOMAIN circuits : \A g \in Callees(f) : rank[g] < rank[f]

Ranked == \E n \in Nat : \E rank \in [DOMAIN circuits -> Nat] : Ranks(rank, n)

Assembled ==
    status = "done" =>
        /\ Callees(Entry) \subseteq DOMAIN circuits
        /\ \E order \in Orders(DOMAIN circuits) :
              program = [i \in DOMAIN order |-> <<order[i], circuits[order[i]]>>]
                           \o <<<<"entry", calls[Entry]>>>>

RInv == Rooted /\ Led /\ Wanted /\ Ranked /\ IsFiniteSet(DOMAIN circuits) /\ Assembled

-----------------------------------------------------------------------------
(* What the steps do to the functions whose translation is under way. *)

SameFns(n) == \A i \in 1 .. n : stack'[i].fn = stack[i].fn

LEMMA ApplyShape ==
    ASSUME TypeOK, Apply
    PROVE  /\ Len(stack) \in Nat \ {0} /\ DOMAIN stack = 1 .. Len(stack)
           /\ DOMAIN stack' = 1 .. Len(stack) /\ stack' # <<>>
           /\ SameFns(Len(stack))
<1> DEFINE frame == Applied(Top, Callee)
           n == Len(stack)
<1>1. /\ status = "running" /\ AtCall
      /\ stack' = Append(SubSeq(stack, 1, Len(stack) - 1), frame)
  BY DEF Apply, Below
<1>2. /\ stack \in Seq(Frames) /\ stack # <<>> /\ Top \in Frames /\ Callee \in Functions
      /\ n \in Nat \ {0} /\ DOMAIN stack = 1 .. n
  BY <1>1, TopTypes
<1>3. frame \in Frames
  BY <1>2, AppliedTypes
<1>7. frame.fn = stack[n].fn
  BY DEF Applied, Top
<1> HIDE DEF frame, n
<1>4. n = Len(stack)
  BY DEF n
<1>5. /\ DOMAIN stack' = 1 .. n /\ stack' # <<>>
      /\ \A i \in 1 .. n - 1 : stack'[i] = stack[i]
      /\ stack'[n] = frame
  BY <1>4, <1>1, <1>2, <1>3, TopReplaced
<1>6. SameFns(n)
  <2>1. \A i \in 1 .. n : i = n \/ i \in 1 .. n - 1
    BY <1>2
  <2> QED
    BY <2>1, <1>7, <1>5 DEF SameFns
<1> QED
  BY <1>2, <1>4, <1>5, <1>6

LEMMA DescendShape ==
    ASSUME TypeOK, Descend
    PROVE  /\ Len(stack) \in Nat \ {0} /\ DOMAIN stack = 1 .. Len(stack)
           /\ DOMAIN stack' = 1 .. Len(stack) + 1 /\ stack' # <<>>
           /\ SameFns(Len(stack))
           /\ stack'[Len(stack) + 1].fn \in Callees(Top.fn)
<1>1. /\ status = "running" /\ AtCall
      /\ stack' = Append(stack, Frame(Callee))
  BY DEF Descend
<1>2. /\ stack \in Seq(Frames) /\ stack # <<>> /\ Callee \in Functions
      /\ Len(stack) \in Nat \ {0} /\ DOMAIN stack = 1 .. Len(stack)
      /\ Top.next \in DOMAIN calls[Top.fn]
  BY <1>1, TopTypes
<1>3. Frame(Callee) \in Frames
  BY <1>2, FrameTypes
<1>4. /\ DOMAIN stack' = 1 .. Len(stack) + 1 /\ stack' # <<>>
      /\ \A i \in 1 .. Len(stack) : stack'[i] = stack[i]
      /\ stack'[Len(stack) + 1] = Frame(Callee)
  BY <1>1, <1>2, <1>3, OnePushed
<1>5. Frame(Callee).fn \in Callees(Top.fn)
  BY <1>2 DEF Frame, Callee, Callees
<1> QED
  BY <1>2, <1>4, <1>5 DEF SameFns

LEMMA ReturnShape ==
    ASSUME TypeOK, Return
    PROVE  /\ Len(stack) \in Nat /\ Len(stack) > 1 /\ DOMAIN stack = 1 .. Len(stack)
           /\ DOMAIN stack' = 1 .. Len(stack) - 1 /\ stack' # <<>>
           /\ SameFns(Len(stack) - 1)
<1> DEFINE caller == Below[Len(Below)]
<1>1. /\ status = "running" /\ Len(stack) > 1
      /\ stack' = Append(SubSeq(Below, 1, Len(Below) - 1), Applied(caller, Top.fn))
  BY DEF Return
<1>2. /\ stack \in Seq(Frames) /\ stack # <<>> /\ Top.fn \in Functions
      /\ Len(stack) \in Nat \ {0} /\ DOMAIN stack = 1 .. Len(stack)
  BY <1>1, TopTypes
<1>3. /\ Below \in Seq(Frames) /\ Len(Below) = Len(stack) - 1
      /\ \A i \in 1 .. Len(stack) - 1 : Below[i] = stack[i]
  BY <1>2, BelowTop DEF Below
<1>4. Below # <<>>
  BY <1>1, <1>2, <1>3, EmptySeq
<1>5. caller \in Frames /\ caller = stack[Len(stack) - 1]
  BY <1>1, <1>2, <1>3
<1>6. Applied(caller, Top.fn) \in Frames /\ Applied(caller, Top.fn).fn = caller.fn
  BY <1>2, <1>5, AppliedTypes DEF Applied
<1>7. /\ DOMAIN stack' = 1 .. Len(Below) /\ stack' # <<>>
      /\ \A i \in 1 .. Len(Below) - 1 : stack'[i] = Below[i]
      /\ stack'[Len(Below)] = Applied(caller, Top.fn)
  BY <1>1, <1>3, <1>4, <1>6, TopReplaced
<1> HIDE DEF caller
<1>8. SameFns(Len(stack) - 1)
  <2> SUFFICES ASSUME NEW i \in 1 .. Len(stack) - 1 PROVE stack'[i].fn = stack[i].fn
    BY DEF SameFns
  <2>1. CASE i = Len(stack) - 1
    <3>1. stack'[i].fn = Applied(caller, Top.fn).fn
      BY <2>1, <1>3, <1>7
    <3>2. stack[i].fn = caller.fn
      BY <2>1, <1>5
    <3> QED
      BY <3>1, <3>2, <1>6
  <2>2. CASE i \in 1 .. Len(stack) - 2
    BY <2>2, <1>2, <1>3, <1>7
  <2>3. i = Len(stack) - 1 \/ i \in 1 .. Len(stack) - 2
    <3> DEFINE n == Len(stack)
    <3>1. n \in Nat
      BY <1>2
    <3> HIDE DEF n
    <3>2. \A j \in 1 .. n - 1 : j = n - 1 \/ j \in 1 .. n - 2
      BY <3>1
    <3> QED
      BY <3>2 DEF n
  <2> QED
    BY <2>1, <2>2, <2>3
<1> QED
  BY <1>1, <1>2, <1>3, <1>7, <1>8

-----------------------------------------------------------------------------
(* The second invariant holds at first and is kept by every step. *)

LEMMA StartReached == Init => RInv
<1> SUFFICES ASSUME Init PROVE RInv
  OBVIOUS
<1>1. circuits = <<>> /\ status # "done"
  BY DEF Init
<1>2. DOMAIN circuits = {}
  BY <1>1
<1>3. Rooted
  <2>1. CASE Entry \in defined
    <3>1. stack = <<Frame(Entry)>>
      BY <2>1 DEF Init
    <3> QED
      BY <3>1 DEF Rooted, Frame
  <2>2. CASE Entry \notin defined
    BY <2>2 DEF Init, Rooted
  <2> QED
    BY <2>1, <2>2
<1>4. Led
  <2>1. DOMAIN stack \subseteq {1}
    <3>1. stack = <<Frame(Entry)>> \/ stack = <<>>
      BY DEF Init
    <3> QED
      BY <3>1
  <2> QED
    BY <2>1 DEF Led
<1>5. Ranked
  <2>1. circuits \in [DOMAIN circuits -> Nat] /\ Ranks(circuits, 0)
    BY <1>1, <1>2 DEF Ranks
  <2> QED
    BY <2>1 DEF Ranked
<1>6. IsFiniteSet(DOMAIN circuits)
  BY <1>2, FS_EmptySet
<1> QED
  BY <1>1, <1>2, <1>3, <1>4, <1>5, <1>6 DEF RInv, Wanted, Assembled

(* No step changes the input, and so what a call leads to. *)
LEMMA SameReach ==
    ASSUME UNCHANGED calls
    PROVE  /\ \A f : Callees(f)' = Callees(f)
           /\ \A f : Reach(f)' = Reach(f)
BY DEF Callees, Reach, CallsWithin

(* A step that leaves the circuits and the functions of the stack. *)
LEMMA QuietKeepsReached ==
    ASSUME RInv, UNCHANGED <<calls, circuits>>, status' # "done",
           DOMAIN stack' = DOMAIN stack, stack' # <<>> => stack # <<>> /\ 1 \in DOMAIN stack,
           \A i \in DOMAIN stack : stack'[i].fn = stack[i].fn
    PROVE  RInv'
<1>1. /\ \A f : Callees(f)' = Callees(f)
      /\ \A f : Reach(f)' = Reach(f)
  BY SameReach
<1>2. Rooted'
  BY DEF RInv, Rooted
<1>3. Led'
  BY <1>1 DEF RInv, Led
<1>4. Wanted'
  BY <1>1 DEF RInv, Wanted
<1>5. Ranked'
  BY <1>1 DEF RInv, Ranked, Ranks
<1> QED
  BY <1>2, <1>3, <1>4, <1>5 DEF RInv, Assembled

LEMMA DescendKeepsReached == IInv /\ RInv /\ Descend => RInv'
<1> SUFFICES ASSUME IInv, RInv, Descend PROVE RInv'
  OBVIOUS
<1> DEFINE n == Len(stack)
<1>1. /\ n \in Nat \ {0} /\ DOMAIN stack = 1 .. n
      /\ DOMAIN stack' = 1 .. n + 1 /\ stack' # <<>>
      /\ SameFns(n)
      /\ stack'[n + 1].fn \in Callees(Top.fn)
  BY DescendShape DEF IInv
<1>2. status = "running" /\ UNCHANGED <<calls, circuits, status>>
  BY DEF Descend
<1>3. /\ \A f : Callees(f)' = Callees(f)
      /\ \A f : Reach(f)' = Reach(f)
  BY <1>2, SameReach
<1>4. stack # <<>> /\ Top.fn = stack[n].fn
  BY <1>2 DEF Top, IInv, TypeOK
<1>5. calls \in [Functions -> Seq(Functions)] /\ \A i \in 1 .. n : stack[i].fn \in Functions
  <2>1. stack \in Seq(Frames) /\ calls \in [Functions -> Seq(Functions)]
    BY DEF IInv, TypeOK
  <2>2. \A i \in 1 .. n : stack[i] \in Frames
    BY <2>1, <1>1
  <2> QED
    BY <2>1, <2>2 DEF Frames
<1> HIDE DEF n
<1>6. Rooted'
  BY <1>1, <1>4 DEF RInv, Rooted, SameFns
<1>7. Led'
  <2> SUFFICES ASSUME NEW i \in 1 .. n + 1, NEW j \in 1 .. n + 1, i < j
               PROVE  stack'[j].fn \in Reach(stack'[i].fn)
    BY <1>1, <1>3 DEF Led
  <2>1. i \in 1 .. n /\ stack'[i].fn = stack[i].fn
    BY <1>1 DEF SameFns
  <2>2. CASE j \in 1 .. n
    BY <1>1, <2>1, <2>2 DEF RInv, Led, SameFns
  <2>3. CASE j = n + 1
    <3>1. Callees(Top.fn) \subseteq Reach(Top.fn)
      BY <1>1, <1>4, <1>5, ReachCalls
    <3>2. CASE i = n
      BY <3>1, <3>2, <2>1, <2>3, <1>1, <1>4
    <3>3. CASE i < n
      <4>1. Top.fn \in Reach(stack[i].fn)
        BY <3>3, <2>1, <1>1, <1>4 DEF RInv, Led
      <4>2. Reach(Top.fn) \subseteq Reach(stack[i].fn)
        BY <4>1, <2>1, <1>5, ReachGoesOn
      <4> QED
        BY <4>2, <3>1, <2>1, <2>3, <1>1
    <3> QED
      BY <3>2, <3>3, <2>1, <1>1
  <2> QED
    BY <2>2, <2>3, <1>1
<1>8. Wanted' /\ Ranked' /\ IsFiniteSet(DOMAIN circuits)'
  BY <1>2, <1>3 DEF RInv, Wanted, Ranked, Ranks
<1> QED
  BY <1>2, <1>6, <1>7, <1>8 DEF RInv, Assembled

(* The new circuit ranks above all others. *)
LEMMA ReturnKeepsReached == IInv /\ RInv /\ Return => RInv'
<1> SUFFICES ASSUME IInv, RInv, Return PROVE RInv'
  OBVIOUS
<1> DEFINE n == Len(stack)
           D == DOMAIN circuits
           f0 == Top.fn
<1>1. /\ n \in Nat /\ n > 1 /\ DOMAIN stack = 1 .. n
      /\ DOMAIN stack' = 1 .. n - 1 /\ stack' # <<>>
      /\ SameFns(n - 1)
  BY ReturnShape DEF IInv
<1>2. /\ status = "running" /\ ~AtCall /\ UNCHANGED <<calls, status>>
      /\ DOMAIN circuits' = D \union {f0}
  BY DEF Return
<1>3. /\ \A f : Callees(f)' = Callees(f)
      /\ \A f : Reach(f)' = Reach(f)
  BY <1>2, SameReach
<1>4. stack # <<>> /\ f0 = stack[n].fn
  BY <1>2 DEF Top, IInv, TypeOK
<1>5. f0 \notin D
  BY <1>1, <1>4 DEF IInv, TranslatedOnce
<1>6. Callees(f0) \subseteq D
  BY <1>2, Finished DEF Callees
<1>7. \A g \in D : Callees(g) \subseteq D
  BY DEF IInv, Closed, Callees
<1> HIDE DEF n, f0
<1>8. Rooted'
  BY <1>1, <1>4 DEF RInv, Rooted, SameFns
<1>9. Led'
  <2> SUFFICES ASSUME NEW i \in 1 .. n - 1, NEW j \in 1 .. n - 1, i < j
               PROVE  stack'[j].fn \in Reach(stack'[i].fn)
    BY <1>1, <1>3 DEF Led
  <2>1. i \in 1 .. n /\ j \in 1 .. n
    BY <1>1
  <2> QED
    BY <2>1, <1>1 DEF RInv, Led, SameFns
<1>10. Wanted'
  <2>1. 1 \in DOMAIN stack /\ n \in DOMAIN stack /\ 1 < n
    BY <1>1
  <2>2. f0 \in Reach(Entry)
    BY <2>1, <1>4 DEF RInv, Led, Rooted
  <2> QED
    BY <2>2, <1>2, <1>3 DEF RInv, Wanted
<1>11. Ranked'
  <2>1. PICK m \in Nat : \E rank \in [D -> Nat] : Ranks(rank, m)
    BY DEF RInv, Ranked
  <2>2. PICK rank \in [D -> Nat] : Ranks(rank, m)
    BY <2>1
  <2>3. PICK new \in [D \union {f0} -> Nat] : new[f0] = m /\ \A f \in D : new[f] = rank[f]
    <3> DEFINE r == [f \in D \union {f0} |-> IF f = f0 THEN m ELSE rank[f]]
    <3>1. r \in [D \union {f0} -> Nat] /\ r[f0] = m /\ \A f \in D : r[f] = rank[f]
      BY <1>5, <2>1, <2>2
    <3> QED
      BY <3>1
  <2>6. \A f \in D \union {f0} : new[f] \in 0 .. (m + 1) - 1
    BY <2>1, <2>2, <2>3 DEF Ranks
  <2>7. ASSUME NEW f \in D \union {f0}, NEW g \in Callees(f)
        PROVE  new[g] < new[f]
    <3>1. CASE f = f0
      <4>1. g \in D
        BY <3>1, <1>6
      <4> QED
        BY <3>1, <4>1, <2>1, <2>2, <2>3 DEF Ranks
    <3>2. CASE f \in D
      <4>1. g \in D /\ rank[g] < rank[f]
        BY <3>2, <1>7, <2>2 DEF Ranks
      <4> QED
        BY <3>2, <4>1, <2>3
    <3> QED
      BY <3>1, <3>2
  <2>8. new \in [DOMAIN circuits' -> Nat] /\ m + 1 \in Nat
    BY <2>1, <2>3, <1>2
  <2>9. Ranks(new, m + 1)'
    BY <2>6, <2>7, <1>2, <1>3 DEF Ranks
  <2> QED
    BY <2>8, <2>9 DEF Ranked
<1>12. IsFiniteSet(DOMAIN circuits)'
  BY <1>2, FS_AddElement DEF RInv
<1> QED
  BY <1>2, <1>8, <1>9, <1>10, <1>11, <1>12 DEF RInv, Assembled

LEMMA FinishKeepsReached == IInv /\ RInv /\ Finish => RInv'
<1> SUFFICES ASSUME IInv, RInv, Finish PROVE RInv'
  OBVIOUS
<1>1. /\ status = "running" /\ ~AtCall /\ Len(stack) = 1
      /\ UNCHANGED <<calls, stack, circuits>>
      /\ \E order \in Orders(DOMAIN circuits) :
            program' = [i \in DOMAIN order |-> <<order[i], circuits[order[i]]>>]
                          \o <<<<"entry", Top.gates>>>>
  BY DEF Finish
<1>2. /\ \A f : Callees(f)' = Callees(f)
      /\ \A f : Reach(f)' = Reach(f)
  BY <1>1, SameReach
<1>3. Top.fn = Entry
  BY <1>1 DEF RInv, Rooted, Top, IInv, TypeOK
<1>4. Top.gates = calls[Entry] /\ Callees(Entry) \subseteq DOMAIN circuits
  BY <1>1, <1>3, Finished DEF Callees
<1>5. Assembled'
  BY <1>1, <1>2, <1>4 DEF Assembled, Orders
<1>6. Rooted' /\ Led' /\ Wanted' /\ Ranked' /\ IsFiniteSet(DOMAIN circuits)'
  BY <1>1, <1>2 DEF RInv, Rooted, Led, Wanted, Ranked, Ranks
<1> QED
  BY <1>5, <1>6 DEF RInv

LEMMA StepKeepsReached == IInv /\ RInv /\ [Next]_vars => RInv'
<1> SUFFICES ASSUME IInv, RInv, [Next]_vars PROVE RInv'
  OBVIOUS
<1>1. CASE Apply
  <2>1. /\ UNCHANGED <<calls, circuits>> /\ status' = "running"
    BY <1>1 DEF Apply
  <2>2. /\ DOMAIN stack' = DOMAIN stack /\ 1 \in DOMAIN stack /\ stack # <<>>
        /\ \A i \in DOMAIN stack : stack'[i].fn = stack[i].fn
    <3>1. /\ Len(stack) \in Nat \ {0} /\ DOMAIN stack = 1 .. Len(stack)
          /\ DOMAIN stack' = 1 .. Len(stack) /\ SameFns(Len(stack))
      BY <1>1, ApplyShape DEF IInv
    <3>2. stack # <<>>
      BY <1>1 DEF Apply, IInv, TypeOK
    <3> QED
      BY <3>1, <3>2 DEF SameFns
  <2> QED
    BY <2>1, <2>2, QuietKeepsReached
<1>2. CASE Descend
  BY <1>2, DescendKeepsReached
<1>3. CASE Overflow \/ Missing \/ Fail
  <2>1. /\ UNCHANGED <<calls, circuits, stack>> /\ status = "running"
        /\ status' \in {"overflow", "MissingFunctionDefinition", "error"}
    BY <1>3 DEF Overflow, Missing, Fail
  <2>2. stack # <<>> /\ 1 \in DOMAIN stack
    <3>1. Len(stack) \in Nat \ {0} /\ DOMAIN stack = 1 .. Len(stack) /\ stack # <<>>
      BY <2>1, TopTypes DEF IInv
    <3> QED
      BY <3>1
  <2>3. status' # "done"
    BY <2>1
  <2> QED
    BY <2>1, <2>2, <2>3, QuietKeepsReached
<1>4. CASE Return
  BY <1>4, ReturnKeepsReached
<1>5. CASE Finish
  BY <1>5, FinishKeepsReached
<1>6. CASE UNCHANGED vars
  <2>1. UNCHANGED <<calls, stack, circuits, program, status>>
    BY <1>6 DEF vars
  <2>2. /\ \A f : Callees(f)' = Callees(f)
        /\ \A f : Reach(f)' = Reach(f)
    BY <2>1, SameReach
  <2> QED
    BY <2>1, <2>2 DEF RInv, Rooted, Led, Wanted, Ranked, Ranks, Assembled, Orders
<1> QED
  BY <1>1, <1>2, <1>3, <1>4, <1>5, <1>6 DEF Next

(* The search stays on the calls that the entry point leads to, each        *)
(* function under way leads to those above it, and the circuits can be      *)
(* ranked so that each applies only circuits of lower rank.                 *)
THEOREM ReachedInvariance == Spec => []RInv
<1>1. Init => RInv
  BY StartReached
<1>2. IInv /\ RInv /\ [Next]_vars => RInv'
  BY StepKeepsReached
<1> QED
  BY <1>1, <1>2, Invariance, PTL DEF Spec

-----------------------------------------------------------------------------
(* The output. *)

(* A ranking leaves no circuit that leads to itself. *)
LEMMA RankedNotReached ==
    ASSUME IInv, Ranked, NEW f \in DOMAIN circuits
    PROVE  f \notin Reach(f)
<1>1. PICK n \in Nat : \E r \in [DOMAIN circuits -> Nat] : Ranks(r, n)
  BY DEF Ranked
<1>2. PICK rank \in [DOMAIN circuits -> Nat] : Ranks(rank, n)
  BY <1>1
<1> DEFINE S == {g \in DOMAIN circuits : rank[g] < rank[f]}
<1>3. DOMAIN circuits \subseteq Functions
  BY DEF IInv, TypeOK
<1>4. \A g \in DOMAIN circuits : Callees(g) \subseteq DOMAIN circuits
  BY DEF IInv, Closed, Callees
<1>5. Callees(f) \subseteq S
  BY <1>2, <1>4 DEF Ranks
<1>6. CallsWithin(S)
  <2> SUFFICES ASSUME NEW g \in S, NEW h \in Callees(g) PROVE h \in S
    BY DEF CallsWithin
  <2>1. h \in DOMAIN circuits /\ rank[h] < rank[g] /\ rank[g] < rank[f]
    BY <1>2, <1>4 DEF Ranks
  <2>2. rank[h] \in Nat /\ rank[g] \in Nat /\ rank[f] \in Nat
    BY <2>1, <1>2
  <2> QED
    BY <2>1, <2>2
<1>7. S \in SUBSET Functions /\ f \in Functions /\ f \notin S
  <2>1. rank[f] \in Nat
    BY <1>2
  <2> QED
    BY <1>3, <2>1
<1> HIDE DEF S
<1>8. Reach(f) \subseteq S
  BY <1>5, <1>6, <1>7, ReachLeast
<1> QED
  BY <1>7, <1>8

(* At the end there is a circuit for each function that the entry point     *)
(* leads to.                                                                *)
LEMMA ReachedAtEnd ==
    ASSUME IInv, RInv, status = "done"
    PROVE  DOMAIN circuits = Reach(Entry)
<1>1. DOMAIN circuits \in SUBSET Functions /\ Callees(Entry) \subseteq DOMAIN circuits
  BY DEF IInv, TypeOK, RInv, Assembled
<1>2. CallsWithin(DOMAIN circuits)
  BY DEF IInv, Closed, CallsWithin, Callees
<1>3. Reach(Entry) \subseteq DOMAIN circuits
  BY <1>1, <1>2, EntryAssumption, ReachLeast
<1> QED
  BY <1>3 DEF RInv, Wanted

(* Orders hold each member of the set once and leave none out. *)
LEMMA OrdersComplete ==
    ASSUME NEW S, IsFiniteSet(S), NEW s \in Orders(S)
    PROVE  /\ Cardinality(S) \in Nat
           /\ s \in [1 .. Cardinality(S) -> S]
           /\ {s[i] : i \in 1 .. Cardinality(S)} = S
<1> DEFINE n == Cardinality(S)
<1>1. n \in Nat
  BY FS_CardinalityType
<1>2. s \in [1 .. n -> S] /\ \A i, j \in 1 .. n : s[i] = s[j] => i = j
  BY DEF Orders
<1> DEFINE R == {s[i] : i \in 1 .. n}
<1>3. R \subseteq S
  BY <1>2
<1>4. IsFiniteSet(1 .. n) /\ Cardinality(1 .. n) = n
  BY <1>1, FS_Interval
<1>5. s \in Bijection(1 .. n, R)
  <2>1. s \in [1 .. n -> R]
    BY <1>2
  <2> QED
    BY <1>2, <2>1 DEF Bijection, Injection, Surjection, IsInjective
<1>6. ExistsBijection(1 .. n, R)
  BY <1>5 DEF ExistsBijection
<1> HIDE DEF R
<1>7. IsFiniteSet(R) /\ Cardinality(R) = n
  BY <1>4, <1>6, FS_Bijection
<1>8. R = S
  BY <1>3, <1>7, FS_Subset
<1> QED
  BY <1>1, <1>2, <1>8 DEF R

(* The definitions in front and the entry point's gates at the end. *)
LEMMA DefinitionsThenGates ==
    ASSUME NEW n \in Nat, NEW d, d = [i \in 1 .. n |-> d[i]],
           NEW e, NEW p, p = d \o <<e>>
    PROVE  /\ Len(p) = n + 1
           /\ \A i \in 1 .. n : p[i] = d[i]
           /\ p[n + 1] = e
<1> DEFINE S == {d[i] : i \in 1 .. n} \union {e}
<1>1. d \in [1 .. n -> S]
  OBVIOUS
<1>0. e \in S
  OBVIOUS
<1> HIDE DEF S
<1>2. d \in Seq(S) /\ Len(d) = n
  BY <1>1
<1>3. <<e>> \in Seq(S) /\ Len(<<e>>) = 1 /\ <<e>>[1] = e
  BY <1>0
<1>4. /\ Len(p) = n + 1
      /\ \A i \in 1 .. Len(p) : p[i] = IF i <= n THEN d[i] ELSE <<e>>[i - n]
  BY <1>2, <1>3, ConcatProperties
<1>5. n + 1 \in 1 .. Len(p) /\ ~(n + 1 <= n) /\ (n + 1) - n = 1
  BY <1>4
<1>6. p[n + 1] = e
  BY <1>3, <1>4, <1>5
<1>7. \A i \in 1 .. n : p[i] = d[i]
  BY <1>4
<1> QED
  BY <1>4, <1>6, <1>7

(* The program that translate_module returns defines one circuit for each   *)
(* function that the entry point leads to, and no other, each once, and     *)
(* ends with the gates of the entry point.                                  *)
THEOREM Complete == Spec => []ProgramComplete
<1>1. IInv /\ RInv => ProgramComplete
  <2> SUFFICES ASSUME IInv, RInv, status = "done"
               PROVE  /\ Len(program) = Cardinality(Reach(Entry)) + 1
                      /\ {program[i][1] : i \in 1 .. Len(program) - 1} = Reach(Entry)
                      /\ program[Len(program)][2] = calls[Entry]
    BY DEF ProgramComplete
  <2> DEFINE D == DOMAIN circuits
             n == Cardinality(D)
  <2>1. D = Reach(Entry)
    BY ReachedAtEnd
  <2>2. PICK order \in Orders(D) :
           program = [i \in DOMAIN order |-> <<order[i], circuits[order[i]]>>]
                        \o <<<<"entry", calls[Entry]>>>>
    BY DEF RInv, Assembled
  <2>3. n \in Nat /\ order \in [1 .. n -> D] /\ {order[i] : i \in 1 .. n} = D
    BY OrdersComplete DEF RInv
  <2> HIDE DEF D, n
  <2>4. PICK d : d = [i \in 1 .. n |-> <<order[i], circuits[order[i]]>>]
    OBVIOUS
  <2>5. PICK e : e = <<"entry", calls[Entry]>>
    OBVIOUS
  <2>6. program = d \o <<e>> /\ d = [i \in 1 .. n |-> d[i]]
    BY <2>2, <2>3, <2>4, <2>5
  <2>7. /\ Len(program) = n + 1
        /\ \A i \in 1 .. n : program[i] = d[i]
        /\ program[n + 1] = e
    BY <2>3, <2>6, DefinitionsThenGates
  <2>8. \A i \in 1 .. n : program[i][1] = order[i]
    BY <2>4, <2>7
  <2>9. 1 .. Len(program) - 1 = 1 .. n
    BY <2>3, <2>7
  <2>10. {program[i][1] : i \in 1 .. Len(program) - 1} = D
    BY <2>3, <2>8, <2>9
  <2>11. program[Len(program)][2] = calls[Entry]
    BY <2>5, <2>7
  <2> QED
    BY <2>1, <2>7, <2>10, <2>11 DEF n, D
<1> QED
  BY <1>1, Invariance, ReachedInvariance, PTL

(* Each function under way leads to those above it; so, without recursion,  *)
(* no two of them are the same.                                             *)
LEMMA UnderWayLed ==
    ASSUME IInv, RInv
    PROVE  /\ Len(stack) \in Nat /\ DOMAIN stack = 1 .. Len(stack)
           /\ \A i \in 1 .. Len(stack) : /\ stack[i].fn \in Functions
                                        /\ stack[i].fn \in Reach(Entry) \union {Entry}
<1> DEFINE n == Len(stack)
<1>1. /\ n \in Nat /\ DOMAIN stack = 1 .. n
      /\ \A i \in 1 .. n : stack[i].fn \in Functions
  <2>1. stack \in Seq(Frames)
    BY DEF IInv, TypeOK
  <2>2. n \in Nat /\ DOMAIN stack = 1 .. n /\ \A i \in 1 .. n : stack[i] \in Frames
    BY <2>1, LenProperties
  <2> QED
    BY <2>2 DEF Frames
<1> HIDE DEF n
<1>2. ASSUME NEW i \in 1 .. n PROVE stack[i].fn \in Reach(Entry) \union {Entry}
  <2>1. 1 \in 1 .. n /\ stack[1].fn = Entry
    <3>1. stack # <<>>
      BY <1>1, EmptySeq DEF n
    <3> QED
      BY <1>1, <3>1 DEF RInv, Rooted
  <2>2. i = 1 \/ 1 < i
    BY <1>1
  <2> QED
    BY <2>1, <2>2, <1>1 DEF RInv, Led
<1> QED
  BY <1>1, <1>2 DEF n

LEMMA UnderWayOnce ==
    ASSUME IInv, RInv, ~Recursive
    PROVE  \A i, j \in 1 .. Len(stack) : stack[i].fn = stack[j].fn => i = j
<1> DEFINE n == Len(stack)
<1>1. n \in Nat /\ DOMAIN stack = 1 .. n
  BY UnderWayLed
<1>2. \A i, j \in 1 .. n : i < j => stack[i].fn # stack[j].fn
  <2> SUFFICES ASSUME NEW i \in 1 .. n, NEW j \in 1 .. n, i < j,
                      stack[i].fn = stack[j].fn
               PROVE  FALSE
    OBVIOUS
  <2>1. stack[i].fn \in Reach(stack[i].fn)
    BY <1>1 DEF RInv, Led
  <2> QED
    BY <2>1, UnderWayLed DEF Recursive
<1>3. \A i, j \in 1 .. n : i < j \/ j < i \/ i = j
  BY <1>1
<1> QED
  BY <1>2, <1>3

LEMMA NoMoreThanFunctions ==
    ASSUME NEW n \in Nat, NEW fns \in [1 .. n -> Functions],
           \A i, j \in 1 .. n : fns[i] = fns[j] => i = j
    PROVE  n <= Cardinality(Functions)
<1>1. fns \in Injection(1 .. n, Functions)
  BY DEF Injection, IsInjective
<1>2. Cardinality(1 .. n) = n
  BY FS_Interval
<1>3. Cardinality(1 .. n) <= Cardinality(Functions)
  BY <1>1, FiniteAssumption, FS_Injection
<1> QED
  BY <1>2, <1>3

(* Without recursion the translations under way are of different functions, *)
(* so the Rust call stack is never deeper than there are functions; with    *)
(* recursion, be it of the entry point or of anything it leads to, no       *)
(* program is ever returned.                                                *)
THEOREM Bounded == Spec => []DepthBounded
<1>1. ASSUME IInv, RInv, ~Recursive PROVE Len(stack) <= Cardinality(Functions)
  <2>1. Len(stack) \in Nat /\ \A i \in 1 .. Len(stack) : stack[i].fn \in Functions
    BY <1>1, UnderWayLed
  <2>2. \A i, j \in 1 .. Len(stack) : stack[i].fn = stack[j].fn => i = j
    BY <1>1, UnderWayOnce
  <2>3. PICK fns : fns = [i \in 1 .. Len(stack) |-> stack[i].fn]
    OBVIOUS
  <2>4. /\ fns \in [1 .. Len(stack) -> Functions]
        /\ \A i, j \in 1 .. Len(stack) : fns[i] = fns[j] => i = j
    BY <2>1, <2>2, <2>3
  <2> QED
    BY <2>1, <2>4, NoMoreThanFunctions
<1>2. ASSUME IInv, RInv, status = "done" PROVE ~Recursive
  <2>1. DOMAIN circuits = Reach(Entry)
    BY <1>2, ReachedAtEnd
  <2>2. \A f \in Reach(Entry) : f \notin Reach(f)
    BY <1>2, <2>1, RankedNotReached DEF RInv
  <2> QED
    BY <2>2 DEF Recursive
<1>3. IInv /\ RInv => DepthBounded
  BY <1>1, <1>2 DEF DepthBounded
<1> QED
  BY <1>3, Invariance, ReachedInvariance, PTL

-----------------------------------------------------------------------------
(* Why a search ends without a program. It stops at a call: with the stack  *)
(* full, or with no body for the callee.                                    *)
Halted ==
    /\ status = "overflow" => stack # <<>> /\ AtCall /\ Len(stack) = StackLimit
    /\ status = "MissingFunctionDefinition" => stack # <<>> /\ AtCall /\ Callee \notin defined

LEMMA StepKeepsHalted == TypeOK /\ Halted /\ [Next]_vars => Halted'
<1> SUFFICES ASSUME TypeOK, Halted, [Next]_vars PROVE Halted'
  OBVIOUS
<1>1. CASE status' \notin {"overflow", "MissingFunctionDefinition"}
  BY <1>1 DEF Halted
<1>2. CASE Overflow \/ Missing
  <2>1. status = "running" /\ stack # <<>> /\ AtCall /\ UNCHANGED <<calls, defined, stack>>
    BY <1>2 DEF TypeOK, Overflow, Missing
  <2>2. AtCall' /\ Callee' = Callee /\ stack' # <<>>
    BY <2>1 DEF AtCall, Callee, Top
  <2>3. CASE Overflow
    <3>1. status' = "overflow" /\ Len(stack') = StackLimit
      BY <2>3 DEF Overflow
    <3> QED
      BY <2>2, <3>1 DEF Halted
  <2>4. CASE Missing
    <3>1. status' = "MissingFunctionDefinition" /\ Callee' \notin defined'
      BY <2>1, <2>2, <2>4 DEF Missing
    <3> QED
      BY <2>2, <3>1 DEF Halted
  <2> QED
    BY <1>2, <2>3, <2>4
<1>3. CASE UNCHANGED vars
  <2>1. UNCHANGED <<calls, defined, stack, status>>
    BY <1>3 DEF vars
  <2>2. (AtCall' <=> AtCall) /\ Callee' = Callee
    BY <2>1 DEF AtCall, Callee, Top
  <2> QED
    BY <2>1, <2>2 DEF Halted
<1>4. CASE Apply \/ Descend \/ Return \/ Fail \/ Finish
  BY <1>1, <1>4 DEF Apply, Descend, Return, Fail, Finish
<1> QED
  BY <1>2, <1>3, <1>4 DEF Next

LEMMA CalleeLed ==
    ASSUME IInv, RInv, stack # <<>>, AtCall
    PROVE  /\ Callee \in Functions /\ Callee \in Reach(Entry)
           /\ \A i \in 1 .. Len(stack) : Callee \in Reach(stack[i].fn)
<1> DEFINE n == Len(stack)
<1>1. /\ n \in Nat \ {0} /\ DOMAIN stack = 1 .. n
      /\ stack[n] \in Frames /\ calls \in [Functions -> Seq(Functions)]
  <2>1. stack \in Seq(Frames) /\ calls \in [Functions -> Seq(Functions)]
    BY DEF IInv, TypeOK
  <2>2. n \in Nat /\ DOMAIN stack = 1 .. n /\ \A i \in 1 .. n : stack[i] \in Frames
    BY <2>1, LenProperties
  <2>3. n # 0
    BY <2>1, EmptySeq
  <2> QED
    BY <2>1, <2>2, <2>3
<1>2. Callee \in Callees(Top.fn) /\ Top.fn \in Functions /\ Top = stack[n]
  <2>1. Top.fn \in Functions /\ Top.next \in Nat \ {0} /\ calls[Top.fn] \in Seq(Functions)
    BY <1>1 DEF Top, Frames
  <2>2. Top.next \in DOMAIN calls[Top.fn]
    BY <2>1, LenProperties DEF AtCall
  <2> QED
    BY <2>1, <2>2 DEF Callees, Callee, Top
<1>3. Callee \in Reach(Top.fn) /\ Reach(Top.fn) \subseteq Functions
  BY <1>1, <1>2, ReachCalls
<1>0. n \in Nat /\ DOMAIN stack = 1 .. n
  BY <1>1
<1> HIDE DEF n
<1>4. ASSUME NEW i \in 1 .. n PROVE Callee \in Reach(stack[i].fn)
  <2>1. CASE i = n
    BY <1>2, <1>3, <2>1
  <2>2. CASE i # n
    <3>1. i \in DOMAIN stack /\ n \in DOMAIN stack /\ i < n
      BY <1>0, <2>2
    <3>2. stack[n].fn \in Reach(stack[i].fn)
      BY Zenon, <3>1 DEF RInv, Led
    <3>3. stack[i].fn \in Functions
      BY UnderWayLed DEF n
    <3> QED
      BY <1>1, <1>2, <1>3, <3>2, <3>3, ReachGoesOn
  <2> QED
    BY <2>1, <2>2
<1>5. stack[1].fn = Entry /\ 1 \in 1 .. n
  BY <1>1 DEF RInv, Rooted, n
<1> QED
  BY <1>2, <1>3, <1>4, <1>5 DEF n

(* A translation overflows the stack of its thread only if there is         *)
(* recursion or the stack cannot hold as many translations as there are     *)
(* functions; it misses a body only if the entry point leads to a function  *)
(* that has none (function.rs:506-513: the look-up, the recursion and the   *)
(* insertion of the circuit).                                               *)
THEOREM Justified == Spec => []StopsForCause
<1>1. ASSUME IInv, RInv, Halted, status = "overflow", StackLimit >= Cardinality(Functions)
      PROVE  Recursive
  <2> SUFFICES ASSUME ~Recursive PROVE FALSE
    OBVIOUS
  <2> DEFINE n == Len(stack)
  <2>1. stack # <<>> /\ AtCall /\ n = StackLimit
    BY <1>1 DEF Halted
  <2>2. n \in Nat /\ \A i \in 1 .. n : /\ stack[i].fn \in Functions
                                     /\ stack[i].fn \in Reach(Entry) \union {Entry}
    BY <1>1, UnderWayLed
  <2>3. Callee \in Functions /\ \A i \in 1 .. n : Callee \in Reach(stack[i].fn)
    BY <1>1, <2>1, CalleeLed
  <2>4. \A i \in 1 .. n : stack[i].fn # Callee
    BY <2>2, <2>3 DEF Recursive
  <2>5. \A i, j \in 1 .. n : stack[i].fn = stack[j].fn => i = j
    BY <1>1, UnderWayOnce
  <2>6. PICK fns : fns = [i \in 1 .. n + 1 |-> IF i = n + 1 THEN Callee ELSE stack[i].fn]
    OBVIOUS
  <2> HIDE DEF n
  <2>7. /\ n + 1 \in Nat /\ fns \in [1 .. n + 1 -> Functions]
        /\ \A i, j \in 1 .. n + 1 : fns[i] = fns[j] => i = j
    BY <2>2, <2>3, <2>4, <2>5, <2>6
  <2>8. n + 1 <= Cardinality(Functions)
    BY <2>7, NoMoreThanFunctions
  <2>9. Cardinality(Functions) \in Nat
    BY FiniteAssumption, FS_CardinalityType
  <2> QED
    BY <1>1, <2>1, <2>2, <2>8, <2>9
<1>2. ASSUME IInv, RInv, Halted, status = "MissingFunctionDefinition"
      PROVE  ~(Reach(Entry) \subseteq defined)
  BY <1>2, CalleeLed DEF Halted
<1>3. IInv /\ RInv /\ Halted => StopsForCause
  BY <1>1, <1>2 DEF StopsForCause
<1>4. Init => Halted
  BY DEF Init, Halted
<1>5. IInv /\ Halted /\ [Next]_vars => Halted'
  BY StepKeepsHalted DEF IInv
<1> QED
  BY <1>3, <1>4, <1>5, Invariance, ReachedInvariance, PTL DEF Spec
=============================================================================
