---------------------------- MODULE TimerProofs ----------------------------
(***************************************************************************)
(* Proofs about TimerHeap and TimerQueue, for every set of fds, of expiry  *)
(* times and of delays.                                                    *)
(*                                                                         *)
(* Structure is what the asserts of the code need: positions in range and  *)
(* ref_ inverse to heap_.  It is inductive by itself and does not depend   *)
(* on the clock.  The order of the heap (SiftOrder) is inductive relative  *)
(* to it when the clock is never set back.  The steps of TimerQueue are    *)
(* steps of the heap, so both hold under handleTimeout too, and make it an *)
(* implementation of Timers.                                               *)
(***************************************************************************)
EXTENDS TimerQueue, TLAPS, WellFoundedInduction

Structure == TypeOK /\ RefIsInverse /\ SiftBounds

(* Swapping two positions keeps heap_ and ref_ typed and inverse.          *)
LEMMA SwapKeepsStructure ==
  ASSUME TypeOK, RefIsInverse,
         NEW a \in Positions, NEW b \in Positions, a # b,
         SwapNode(a, b), size' = size
  PROVE  /\ heap' \in [Positions -> Timer]
         /\ DOMAIN ref' = DOMAIN ref
         /\ ref' \in [DOMAIN ref -> Positions]
         /\ RefIsInverse'
         /\ \A k \in Positions : heap'[k] = IF k = a THEN heap[b]
                                            ELSE IF k = b THEN heap[a]
                                            ELSE heap[k]
<1> USE DEF TypeOK, RefIsInverse, SwapNode, Positions, Timer
<1>1. heap[a] \in Timer /\ heap[b] \in Timer /\ heap[a].fd # heap[b].fd
  OBVIOUS
<1>2. heap[a].fd \in DOMAIN ref /\ heap[b].fd \in DOMAIN ref
  OBVIOUS
<1>3. \A k \in Positions : heap'[k] = IF k = a THEN heap[b]
                                      ELSE IF k = b THEN heap[a] ELSE heap[k]
  OBVIOUS
<1>4. heap' \in [Positions -> Timer]
  BY <1>1
<1>5. DOMAIN ref' = DOMAIN ref /\ ref' \in [DOMAIN ref -> Positions]
  BY <1>2
<1>6. \A f \in DOMAIN ref : ref'[f] = IF f = heap[a].fd THEN b
                                      ELSE IF f = heap[b].fd THEN a ELSE ref[f]
  BY <1>1, <1>2
<1>7. RefIsInverse'
  <2>1. ASSUME NEW k \in Positions
        PROVE  heap'[k].fd \in DOMAIN ref /\ ref'[heap'[k].fd] = k
    <3>1. CASE k = a
      BY <1>1, <1>2, <1>3, <1>6, <3>1
    <3>2. CASE k = b
      BY <1>1, <1>2, <1>3, <1>6, <3>2
    <3>3. CASE k # a /\ k # b
      <4>1. /\ heap'[k] = heap[k] /\ heap[k].fd \in DOMAIN ref
            /\ ref[heap[k].fd] = k
        BY <1>3, <3>3
      <4>2. heap[k].fd # heap[a].fd /\ heap[k].fd # heap[b].fd
        BY <3>3
      <4> QED BY <1>6, <4>1, <4>2, Zenon
    <3> QED BY <3>1, <3>2, <3>3
  <2>2. ASSUME NEW f \in DOMAIN ref
        PROVE  heap'[ref'[f]].fd = f
    <3>1. CASE f = heap[a].fd
      BY <1>3, <1>6, <3>1
    <3>2. CASE f = heap[b].fd
      BY <1>1, <1>3, <1>6, <3>2
    <3>3. CASE f # heap[a].fd /\ f # heap[b].fd
      <4>1. ref[f] \in Positions /\ heap[ref[f]].fd = f
        OBVIOUS
      <4>2. ref[f] # a /\ ref[f] # b
        BY <3>3, <4>1
      <4>3. ref'[f] = ref[f]
        BY <1>6, <3>3
      <4>4. heap'[ref[f]] = heap[ref[f]]
        BY <1>3, <4>1, <4>2
      <4> QED BY <4>1, <4>3, <4>4
    <3> QED BY <3>1, <3>2, <3>3
  <2> QED BY <1>5, <2>1, <2>2
<1> QED BY <1>3, <1>4, <1>5, <1>7

(* So does replacing the timer of one position by another of the same fd.  *)
LEMMA ReplaceKeepsStructure ==
  ASSUME TypeOK, RefIsInverse,
         NEW p \in Positions, NEW u \in Timer, u.fd = heap[p].fd,
         heap' = [heap EXCEPT ![p] = u], ref' = ref, size' = size
  PROVE  /\ heap' \in [Positions -> Timer]
         /\ RefIsInverse'
         /\ \A k \in Positions : heap'[k] = IF k = p THEN u ELSE heap[k]
<1>1. heap' \in [Positions -> Timer]
  BY DEF TypeOK
<1>2. \A k \in Positions : heap'[k] = IF k = p THEN u ELSE heap[k]
  BY DEF TypeOK
<1>3. Positions' = Positions
  BY DEF Positions
<1>4. \A k \in Positions : heap'[k].fd = heap[k].fd
  BY <1>2
<1>5. \A f \in DOMAIN ref : ref[f] \in Positions
  BY DEF TypeOK
<1> QED BY <1>1, <1>2, <1>3, <1>4, <1>5 DEF RefIsInverse

LEMMA InitStructure == Init => Structure
<1> SUFFICES ASSUME Init PROVE Structure
  OBVIOUS
<1>1. Positions = {}
  BY DEF Init, Positions
<1>2. TypeOK
  BY <1>1 DEF Init, TypeOK
<1>3. RefIsInverse
  BY <1>1 DEF Init, RefIsInverse
<1> QED BY <1>2, <1>3 DEF Init, Structure, SiftBounds

LEMMA NextStructure == Structure /\ [Next]_vars => Structure'
<1> SUFFICES ASSUME Structure, [Next]_vars PROVE Structure'
  OBVIOUS
<1> USE DEF Structure
<1>1. ASSUME NEW t \in Input, PushNew(t) PROVE Structure'
  <2>1. size \in Nat /\ ~deleting /\ Positions' = 0 .. size
    BY <1>1 DEF PushNew, TypeOK, SiftBounds, Positions
  <2>2. t \in Timer
    BY ConstantsAssumption DEF Timer, Input
  <2>3. heap' \in [Positions' -> Timer]
    BY <1>1, <2>1, <2>2 DEF PushNew, TypeOK, Positions
  <2>4. DOMAIN ref' \subseteq Fds /\ ref' \in [DOMAIN ref' -> Positions']
    BY <1>1, <2>1, <2>2 DEF PushNew, TypeOK, Positions, Timer
  <2>5. TypeOK'
    <3>1. /\ size' = size + 1 /\ pc' = "up" /\ i' = size /\ start' = 0
          /\ limit' = 0
      BY <1>1 DEF PushNew, CallSiftUp
    <3>2. thenUp' \in BOOLEAN /\ deleting' \in BOOLEAN
      BY <1>1, Zenon DEF PushNew, CallSiftUp, TypeOK
    <3> QED BY <2>1, <2>3, <2>4, <3>1, <3>2 DEF TypeOK
  <2>6. RefIsInverse'
    BY <1>1, <2>1 DEF PushNew, RefIsInverse, TypeOK, Positions
  <2>7. SiftBounds'
    BY <1>1, <2>1 DEF PushNew, CallSiftUp, SiftBounds, Kept
  <2> QED BY <2>5, <2>6, <2>7
<1>2. ASSUME NEW t \in Input, PushExisting(t) PROVE Structure'
  <2>1. PICK p \in Positions : p = ref[t.fd] /\ heap[p].fd = t.fd
    BY <1>2 DEF PushExisting, TypeOK, RefIsInverse
  <2>2. t \in Timer
    BY ConstantsAssumption DEF Timer, Input
  <2>3. heap' = [heap EXCEPT ![p] = t] /\ ref' = ref /\ size' = size
    BY <1>2, <2>1 DEF PushExisting
  <2>4. heap' \in [Positions -> Timer] /\ RefIsInverse'
    BY <2>1, <2>2, <2>3, ReplaceKeepsStructure
  <2>5. TypeOK'
    BY <1>2, <2>1, <2>3, <2>4 DEF PushExisting, CallSiftDown, TypeOK, Positions
  <2>6. SiftBounds'
    BY <1>2, <2>1 DEF PushExisting, CallSiftDown, SiftBounds, TypeOK, Positions, Kept
  <2> QED BY <2>4, <2>5, <2>6
<1>3. ASSUME NEW t \in Input, Adjust(t) PROVE Structure'
  <2>1. PICK p \in Positions : p = ref[t.fd]
    BY <1>3 DEF Adjust, TypeOK
  <2>2. PICK u \in Timer : u.fd = heap[p].fd /\ heap' = [heap EXCEPT ![p] = u]
    BY <1>3, <2>1, ConstantsAssumption DEF Adjust, TypeOK, Timer, Input
  <2>3. /\ ref' = ref /\ size' = size /\ deleting' = deleting
        /\ pc' = "down" /\ i' = p /\ start' = p /\ limit' = size
        /\ thenUp' = FALSE
    BY <1>3, <2>1 DEF Adjust, CallSiftDown
  <2>4. heap' \in [Positions -> Timer] /\ RefIsInverse'
    BY <2>1, <2>2, <2>3, ReplaceKeepsStructure
  <2>5. TypeOK'
    <3>1. thenUp' \in BOOLEAN /\ deleting' \in BOOLEAN
      BY <2>3 DEF TypeOK
    <3>2. p \in Nat /\ size \in Nat /\ Positions' = Positions
      BY <2>1, <2>3 DEF TypeOK, Positions
    <3> QED BY <2>3, <2>4, <3>1, <3>2 DEF TypeOK
  <2>6. SiftBounds'
    BY <1>3, <2>1, <2>3 DEF Adjust, SiftBounds, TypeOK, Positions, Kept
  <2> QED BY <2>4, <2>5, <2>6
<1>4. ASSUME NEW k \in Positions, pc = "idle", Del(k) PROVE Structure'
  <2>1. CASE k < size - 1
    <3>1. SwapNode(k, size - 1) /\ CallSiftDown(k, size - 1, TRUE)
      BY <1>4, <2>1 DEF Del
    <3>2. deleting' = TRUE /\ size' = size
      BY <1>4 DEF Del
    <3>3. k \in Positions /\ (size - 1) \in Positions /\ k # size - 1
      BY <2>1 DEF Positions, TypeOK
    <3>4. /\ heap' \in [Positions -> Timer]
          /\ DOMAIN ref' = DOMAIN ref
          /\ ref' \in [DOMAIN ref -> Positions]
          /\ RefIsInverse'
      BY <3>1, <3>2, <3>3, SwapKeepsStructure
    <3>5. TypeOK'
      BY <3>1, <3>2, <3>3, <3>4 DEF TypeOK, CallSiftDown, Positions
    <3> QED
      BY <2>1, <3>1, <3>2, <3>4, <3>5 DEF SiftBounds, CallSiftDown, Kept, TypeOK, Positions
  <2>2. CASE ~(k < size - 1)
    BY <1>4, <2>2 DEF Del, TypeOK, RefIsInverse, SiftBounds, Positions, Kept
  <2> QED BY <2>1, <2>2
<1>5. ASSUME NEW f \in Fds, Remove(f) PROVE Structure'
  BY <1>4, <1>5 DEF Remove, TypeOK
<1>6. CASE Pop
  <2>1. 0 \in Positions
    BY <1>6 DEF Pop, Positions, TypeOK
  <2> QED BY <1>4, <1>6, <2>1 DEF Pop
<1>7. CASE Clear
  BY <1>7 DEF Clear, control, TypeOK, RefIsInverse, SiftBounds, Positions, Kept
<1>8. CASE SiftDownSwap
  <2>1. i \in Positions /\ Child \in Positions /\ i # Child /\ Child < Kept /\ i < Child
    BY <1>8 DEF SiftDownSwap, Child, SiftBounds, Positions, TypeOK, Kept
  <2>2. SwapNode(i, Child) /\ size' = size
    BY <1>8 DEF SiftDownSwap
  <2>3. /\ heap' \in [Positions -> Timer]
        /\ DOMAIN ref' = DOMAIN ref
        /\ ref' \in [DOMAIN ref -> Positions]
        /\ RefIsInverse'
    BY <2>1, <2>2, SwapKeepsStructure
  <2>4. TypeOK'
    BY <1>8, <2>1, <2>3 DEF SiftDownSwap, TypeOK, Positions
  <2>5. SiftBounds'
    BY <1>8, <2>1 DEF SiftDownSwap, SiftBounds, TypeOK, Kept, Positions
  <2> QED BY <2>3, <2>4, <2>5
<1>9. CASE SiftDownExit
  <2>1. UNCHANGED <<heap, ref, size, deleting>> /\ Positions' = Positions
    BY <1>9 DEF SiftDownExit, Sifted, Positions
  <2>2. i' \in Nat /\ start' \in Nat /\ limit' \in Nat
    BY <1>9 DEF SiftDownExit, Sifted, CallSiftUp, TypeOK
  <2>7. thenUp' \in BOOLEAN
    BY <1>9, Zenon DEF SiftDownExit, Sifted, CallSiftUp
  <2>3. pc' \in {"idle", "up", "erase"}
    BY <1>9 DEF SiftDownExit, Sifted, CallSiftUp
  <2>4. TypeOK'
    BY <2>1, <2>2, <2>3, <2>7 DEF TypeOK
  <2>5. RefIsInverse'
    BY <2>1 DEF RefIsInverse
  <2>6. SiftBounds'
    BY <1>9, <2>1 DEF SiftDownExit, Sifted, CallSiftUp, SiftBounds, TypeOK, Kept
  <2> QED BY <2>4, <2>5, <2>6
<1>10. CASE SiftUpSwap
  <2>1. i \in Positions /\ Parent(i) \in Positions /\ Parent(i) < i /\ i < Kept
    BY <1>10 DEF SiftUpSwap, Parent, SiftBounds, Positions, TypeOK, Kept
  <2>2. SwapNode(i, Parent(i)) /\ size' = size
    BY <1>10 DEF SiftUpSwap
  <2>3. /\ heap' \in [Positions -> Timer]
        /\ DOMAIN ref' = DOMAIN ref
        /\ ref' \in [DOMAIN ref -> Positions]
        /\ RefIsInverse'
    <3>1. i # Parent(i)
      BY <2>1 DEF Positions, TypeOK
    <3> QED BY <2>1, <2>2, <3>1, SwapKeepsStructure
  <2>4. TypeOK'
    BY <1>10, <2>1, <2>3 DEF SiftUpSwap, TypeOK, Positions
  <2>5. SiftBounds'
    BY <1>10, <2>1 DEF SiftUpSwap, SiftBounds, TypeOK, Kept, Positions
  <2> QED BY <2>3, <2>4, <2>5
<1>11. CASE SiftUpExit
  BY <1>11 DEF SiftUpExit, Sifted, TypeOK, RefIsInverse, SiftBounds,
     Positions, Kept
<1>12. CASE Erase
  <2> DEFINE last == heap[size - 1].fd
  <2>1. size > 0 /\ (size - 1) \in Positions /\ size \in Nat
    BY <1>12 DEF Erase, SiftBounds, TypeOK, Positions
  <2>2. last \in DOMAIN ref /\ ref[last] = size - 1
    BY <2>1 DEF RefIsInverse
  <2>3. /\ size' = size - 1
        /\ DOMAIN ref' = DOMAIN ref \ {last}
        /\ \A f \in DOMAIN ref \ {last} : ref'[f] = ref[f]
        /\ heap' = [k \in 0 .. (size - 2) |-> heap[k]]
    BY <1>12 DEF Erase
  <2>4. Positions' = 0 .. (size - 2) /\ Positions' \subseteq Positions
    BY <2>1, <2>3 DEF Positions
  <2>5. \A f \in DOMAIN ref \ {last} : ref[f] \in 0 .. (size - 2)
    BY <2>1, <2>2 DEF RefIsInverse, TypeOK, Positions
  <2>6. \A k \in 0 .. (size - 2) : heap[k].fd \in DOMAIN ref \ {last}
    <3> TAKE k \in 0 .. (size - 2)
    <3>1. k \in Positions /\ k # size - 1
      BY <2>1 DEF Positions
    <3>2. heap[k].fd \in DOMAIN ref /\ ref[heap[k].fd] = k
      BY <3>1 DEF RefIsInverse
    <3> QED BY <2>2, <3>1, <3>2
  <2>7. RefIsInverse'
    BY <2>3, <2>4, <2>5, <2>6 DEF RefIsInverse
  <2>8. ref' \in [DOMAIN ref' -> Positions'] /\ DOMAIN ref' \subseteq Fds
    <3>1. ref' = [f \in DOMAIN ref \ {last} |-> ref[f]]
      BY <1>12 DEF Erase
    <3> QED BY <2>4, <2>5, <3>1 DEF TypeOK
  <2>9. TypeOK'
    <3>1. heap' \in [Positions' -> Timer]
      BY <2>3, <2>4 DEF TypeOK
    <3>2. size' \in Nat
      BY <2>1, <2>3
    <3> QED BY <1>12, <2>8, <3>1, <3>2 DEF Erase, TypeOK
  <2>10. SiftBounds'
    BY <1>12 DEF Erase, SiftBounds
  <2> QED BY <2>7, <2>9, <2>10
<1>13. CASE UNCHANGED vars
  BY <1>13 DEF vars, TypeOK, RefIsInverse, SiftBounds, Positions, Kept
<1> QED
  BY <1>1, <1>2, <1>3, <1>5, <1>6, <1>7, <1>8, <1>9, <1>10, <1>11, <1>12, <1>13
     DEF Next, Call, Step

(* No position of the sifting loops leaves the vector and ref_ is the      *)
(* inverse of heap_ in every reachable state, whatever the callers push,   *)
(* adjust, remove or pop and however the clock moves.                      *)
THEOREM StructureAlways == Spec => [](TypeOK /\ RefIsInverse)
<1>1. Init => Structure
  BY InitStructure
<1>2. Structure /\ [Next]_vars => Structure'
  BY NextStructure
<1>3. Structure => TypeOK /\ RefIsInverse
  BY DEF Structure
<1> QED BY <1>1, <1>2, <1>3, PTL DEF Spec
-----------------------------------------------------------------------------
(* Facts about positions that the arguments about the order share.         *)
LEMMA ParentFacts ==
  ASSUME NEW k \in Nat
  PROVE  /\ k > 0 => Parent(k) \in Nat /\ Parent(k) < k
         /\ k = 0 => Parent(k) = -1
         /\ \A j \in Nat : k > 0 => (Parent(k) = j <=> k = 2*j + 1 \/ k = 2*j + 2)
BY DEF Parent

LEMMA InitOrder == Init => SiftOrder
BY DEF Init, SiftOrder, Kept, OrderedAround

(* The replaced node of PushExisting and the node that takes the place of  *)
(* a deleted one: order holds away from p, whatever its new expiry is.     *)
LEMMA OrderAwayFrom ==
  ASSUME Structure, SiftOrder, pc = "idle", NEW p \in Positions,
         NEW n \in Nat, n <= size, p < n, i' = p, Kept' = n,
         \A k \in 0 .. (n - 1) : k # p => heap'[k] = heap[k]
  PROVE  OrderedAround'
<1>1. /\ size \in Nat /\ p \in Nat /\ \A k \in 1 .. (size - 1) : InOrder(k)
      /\ \A k \in Positions : heap[k].expire \in Nat
  BY DEF Structure, SiftOrder, SiftBounds, Kept, TypeOK, Timer, Positions
<1>2. ASSUME NEW k \in 1 .. (n - 1), k # p, Parent(k) # p
      PROVE  heap'[Parent(k)].expire <= heap'[k].expire
  <2>1. Parent(k) \in 0 .. (n - 1) /\ k \in 0 .. (n - 1) /\ InOrder(k)
    BY <1>1, ParentFacts
  <2> QED BY <1>2, <2>1 DEF InOrder
<1>3. ASSUME NEW k \in 1 .. (n - 1), Parent(k) = p, p > 0
      PROVE  heap'[Parent(p)].expire <= heap'[k].expire
  <2>1. /\ Parent(p) \in 0 .. (n - 1) /\ Parent(p) # p
        /\ k \in 0 .. (n - 1) /\ k # p
    BY <1>1, <1>3, ParentFacts
  <2>2. Parent(p) \in Positions /\ k \in Positions
    BY <1>1, <2>1 DEF Positions
  <2>3. InOrder(k) /\ InOrder(p)
    BY <1>1, <1>3, <2>2 DEF Positions
  <2> QED BY <1>1, <1>3, <2>1, <2>2, <2>3 DEF InOrder
<1> QED BY <1>2, <1>3 DEF OrderedAround, InOrder, Parent
(* Every step keeps the order, when an adjustment never brings a timer     *)
(* forward in time.                                                        *)
LEMMA NextOrder ==
  ASSUME ~ClockMayStepBack, Structure, Structure', SiftOrder, [Next]_vars
  PROVE  SiftOrder'
<1> DEFINE E(k) == heap[k].expire
<1>1. /\ size \in Nat /\ i \in Nat /\ Kept \in Int /\ Kept <= size
      /\ \A k \in Positions : E(k) \in Nat
  BY DEF Structure, TypeOK, Timer, Kept
<1>2. ASSUME NEW t \in Input, PushNew(t) PROVE SiftOrder'
  <2>1. /\ \A k \in 0 .. (size - 1) : heap'[k] = heap[k]
        /\ i' = size /\ pc' = "up" /\ Kept' = size + 1
        /\ \A k \in 1 .. (size - 1) : InOrder(k)
    BY <1>1, <1>2 DEF PushNew, CallSiftUp, Structure, SiftBounds, Kept, SiftOrder
  <2>2. ASSUME NEW k \in 1 .. size, k # size
        PROVE  heap'[Parent(k)].expire <= heap'[k].expire /\ Parent(k) # size
    <3>1. Parent(k) \in 0 .. (size - 1) /\ k \in 1 .. (size - 1)
      BY <1>1, <2>2, ParentFacts
    <3> QED BY <1>1, <2>1, <3>1 DEF InOrder
  <2>3. Parent(size) # size
    BY <1>1 DEF Parent
  <2> QED BY <1>1, <2>1, <2>2, <2>3 DEF SiftOrder, OrderedAround, InOrder, Parent
<1>3. ASSUME NEW t \in Input, PushExisting(t) PROVE SiftOrder'
  <2>1. PICK p \in Positions : p = ref[t.fd]
    BY <1>3 DEF PushExisting, Structure, TypeOK
  <2>2. /\ heap' = [heap EXCEPT ![p] = t] /\ pc = "idle" /\ pc' = "down" /\ thenUp' = TRUE
        /\ i' = p /\ start' = p /\ Kept' = size
    BY <1>1, <1>3, <2>1
       DEF PushExisting, CallSiftDown, Structure, SiftBounds, Kept
  <2>3. \A k \in 0 .. (size - 1) : k # p => heap'[k] = heap[k]
    BY <2>2 DEF Structure, TypeOK, Positions
  <2>4. OrderedAround'
    BY <1>1, <2>2, <2>3, OrderAwayFrom DEF Positions
  <2> QED BY <2>1, <2>2, <2>4 DEF SiftOrder, Positions
<1>4. ASSUME NEW t \in Input, Adjust(t) PROVE SiftOrder'
  <2>1. PICK p \in Positions : p = ref[t.fd]
    BY <1>4 DEF Adjust, Structure, TypeOK
  <2>2. /\ pc = "idle" /\ pc' = "down"
        /\ i' = p /\ start' = p /\ Kept' = size
        /\ heap[p].expire <= t.expire
    BY <1>1, <1>4, <2>1 DEF Adjust, CallSiftDown, Structure, SiftBounds, Kept
  <2>3. /\ \A k \in 0 .. (size - 1) : k # p => heap'[k] = heap[k]
        /\ heap'[p].expire = t.expire
    BY <1>4, <2>1 DEF Adjust, Structure, TypeOK, Positions
  <2>4. OrderedAround'
    BY <1>1, <2>2, <2>3, OrderAwayFrom DEF Positions
  <2>5. p > 0 => heap'[Parent(p)].expire <= heap'[p].expire
    <3> SUFFICES ASSUME p > 0
                 PROVE  heap'[Parent(p)].expire <= heap'[p].expire
      OBVIOUS
    <3>1. /\ Parent(p) \in 0 .. (size - 1) /\ Parent(p) # p
          /\ Parent(p) \in Positions /\ p \in 1 .. (size - 1)
      BY <1>1, ParentFacts DEF Positions
    <3>2. E(Parent(p)) <= E(p)
      BY <1>1, <2>2, <3>1 DEF SiftOrder, Structure, SiftBounds, Kept, InOrder
    <3>3. t.expire \in Nat
      BY ConstantsAssumption DEF Input
    <3> QED BY <1>1, <2>2, <2>3, <3>1, <3>2, <3>3
  <2> QED BY <2>2, <2>4, <2>5 DEF SiftOrder, InOrder, Parent
<1>5. ASSUME NEW q \in Positions, pc = "idle", Del(q) PROVE SiftOrder'
  <2>1. Kept' = size - 1 /\ Kept = size /\ size' = size
    BY <1>1, <1>5 DEF Del, Kept, Structure, SiftBounds
  <2>2. CASE q < size - 1
    <3>1. /\ heap' = [heap EXCEPT ![q] = heap[size - 1], ![size - 1] = heap[q]]
          /\ pc' = "down" /\ i' = q /\ start' = q /\ thenUp' = TRUE
      BY <1>5, <2>2 DEF Del, SwapNode, CallSiftDown
    <3>2. \A k \in 0 .. (size - 2) : k # q => heap'[k] = heap[k]
      BY <1>1, <3>1 DEF Structure, TypeOK, Positions
    <3>3. OrderedAround'
      <4>1. (size - 1) \in Nat /\ size - 1 <= size
        BY <1>1, <2>2 DEF Positions
      <4>2. \A k \in 0 .. ((size - 1) - 1) : k # q => heap'[k] = heap[k]
        BY <1>1, <3>2
      <4> QED BY <1>5, <2>1, <2>2, <3>1, <4>1, <4>2, OrderAwayFrom
    <3> QED BY <3>1, <3>3 DEF SiftOrder, Positions
  <2>3. CASE ~(q < size - 1)
    <3>1. pc' = "erase" /\ heap' = heap
      BY <1>5, <2>3 DEF Del
    <3>2. \A k \in 1 .. (size - 2) : InOrder(k)
      BY <1>1, <1>5, <2>1 DEF SiftOrder
    <3> QED BY <1>1, <2>1, <3>1, <3>2 DEF SiftOrder, InOrder, Parent
  <2> QED BY <2>2, <2>3
<1>6. ASSUME NEW f \in Fds, Remove(f) PROVE SiftOrder'
  BY <1>5, <1>6 DEF Remove, Structure, TypeOK
<1>7. CASE Pop
  <2>1. 0 \in Positions
    BY <1>1, <1>7 DEF Pop, Positions
  <2> QED BY <1>5, <1>7, <2>1 DEF Pop
<1>8. CASE Clear
  BY <1>8 DEF Clear, control, SiftOrder, Kept, Structure, SiftBounds
<1>9. CASE SiftDownSwap
  <2>1. PICK c \in Nat : c = Child
    BY <1>1, <1>9 DEF Child
  <2>2. /\ pc = "down" /\ pc' = "down" /\ i' = c /\ Kept' = Kept /\ limit = Kept
        /\ heap' = [heap EXCEPT ![i] = heap[c], ![c] = heap[i]]
        /\ ~ (E(i) < E(c)) /\ OrderedAround
    BY <1>9, <2>1
       DEF SiftDownSwap, SwapNode, Less, Structure, SiftBounds, SiftOrder, Kept
  <2>3. /\ c \in {2*i + 1, 2*i + 2} /\ c < Kept /\ i < c /\ i < Kept
        /\ Parent(c) = i
    BY <1>1, <1>9, <2>1, <2>2 DEF SiftDownSwap, Child, Parent
  <2>4. /\ i \in Positions /\ c \in Positions
        /\ \A k \in Positions : heap'[k] = IF k = i THEN heap[c]
                                           ELSE IF k = c THEN heap[i] ELSE heap[k]
    BY <1>1, <2>2, <2>3 DEF Structure, TypeOK, Positions
  <2>5. \A k \in {2*i + 1, 2*i + 2} : k < Kept => E(c) <= E(k)
    BY <1>1, <2>1, <2>2, <2>4 DEF Child, Less, Positions
  <2>6. ASSUME NEW k \in 1 .. (Kept - 1), k # c, Parent(k) # c
        PROVE  heap'[Parent(k)].expire <= heap'[k].expire
    <3>1. Parent(k) \in Positions /\ k \in Positions /\ k > 0 /\ Parent(k) < k
      BY <1>1, ParentFacts DEF Positions
    <3>2. CASE k = i
      <4>1. E(Parent(i)) <= E(c)
        BY <1>1, <2>2, <2>3, <3>1, <3>2 DEF OrderedAround
      <4>2. Parent(k) # i /\ Parent(k) # c
        BY <1>1, <2>3, <3>1, <3>2 DEF Positions
      <4> QED BY <2>3, <2>4, <3>1, <3>2, <4>1, <4>2
    <3>3. CASE Parent(k) = i
      <4>1. k \in {2*i + 1, 2*i + 2}
        BY <1>1, <3>1, <3>3, ParentFacts
      <4>2. k # i
        BY <3>1, <3>3
      <4> QED BY <1>1, <2>4, <2>5, <2>6, <3>1, <3>3, <4>1, <4>2
    <3>4. CASE k # i /\ Parent(k) # i
      <4>1. InOrder(k)
        BY <2>2, <3>4 DEF OrderedAround
      <4> QED BY <2>4, <2>6, <3>1, <3>4, <4>1 DEF InOrder
    <3> QED BY <3>2, <3>3, <3>4
  <2>7. ASSUME NEW k \in 1 .. (Kept - 1), Parent(k) = c
        PROVE  heap'[Parent(c)].expire <= heap'[k].expire
    <3>1. k \in Positions /\ k # i /\ k # c
      BY <1>1, <2>3, <2>7, ParentFacts DEF Positions
    <3>2. E(c) <= E(k)
      BY <2>2, <2>3, <2>7, <3>1 DEF OrderedAround, InOrder
    <3> QED BY <2>3, <2>4, <3>1, <3>2
  <2>8. heap'[Parent(c)].expire <= heap'[c].expire
    <3>1. heap'[i] = heap[c] /\ heap'[c] = heap[i]
      BY <1>1, <2>3, <2>4
    <3>2. E(c) <= E(i)
      BY <1>1, <2>2, <2>4
    <3> QED BY <2>3, <3>1, <3>2
  <2> QED BY <2>2, <2>6, <2>7, <2>8 DEF SiftOrder, OrderedAround, InOrder, Parent
<1>10. CASE SiftDownExit
  <2>1. /\ pc = "down" /\ heap' = heap /\ Kept' = Kept /\ limit = Kept
        /\ OrderedAround /\ i < Kept /\ start <= i /\ start \in Nat
    BY <1>10 DEF SiftDownExit, Sifted, CallSiftUp, Structure, SiftBounds,
       TypeOK, SiftOrder, Kept
  <2>2. ASSUME NEW k \in 1 .. (Kept - 1), Parent(k) = i
        PROVE  InOrder(k)
    <3>1. k \in {2*i + 1, 2*i + 2} /\ k < Kept /\ 2*i + 1 < limit
      BY <1>1, <2>1, <2>2, ParentFacts
    <3>2. Less(i, Child)
      BY <1>10, <3>1 DEF SiftDownExit
    <3>3. /\ i \in Positions /\ 2*i + 1 \in Positions
          /\ 2*i + 2 < limit => 2*i + 2 \in Positions
      BY <1>1, <2>1, <3>1 DEF Positions
    <3>4. E(i) <= E(k)
      BY <1>1, <2>1, <3>1, <3>2, <3>3 DEF Child, Less
    <3> QED BY <2>2, <3>4 DEF InOrder
  <2>3. CASE thenUp /\ i <= start
    <3>1. pc' = "up" /\ i' = i
      BY <1>1, <1>10, <2>1, <2>3 DEF SiftDownExit, CallSiftUp
    <3> QED BY <2>1, <2>2, <3>1 DEF SiftOrder, OrderedAround, InOrder, Parent
  <2>4. CASE ~(thenUp /\ i <= start)
    <3>1. pc' \in {"idle", "erase"}
      BY <1>10, <2>4 DEF SiftDownExit, Sifted
    <3>2. i > 0 => InOrder(i)
      BY <1>1, <2>1, <2>4 DEF SiftOrder
    <3>3. \A k \in 1 .. (Kept - 1) : InOrder(k)
      BY <1>1, <2>1, <2>2, <3>2 DEF OrderedAround
    <3> QED BY <2>1, <3>1, <3>3 DEF SiftOrder, InOrder, Parent
  <2> QED BY <2>3, <2>4
<1>11. CASE SiftUpSwap
  <2>1. PICK p \in Nat : p = Parent(i) /\ p < i
    BY <1>1, <1>11, ParentFacts DEF SiftUpSwap
  <2>2. /\ pc = "up" /\ pc' = "up" /\ i' = p /\ Kept' = Kept /\ i < Kept
        /\ heap' = [heap EXCEPT ![i] = heap[p], ![p] = heap[i]]
        /\ ~ (E(p) < E(i)) /\ OrderedAround
        /\ \A k \in 1 .. (Kept - 1) : Parent(k) = i => InOrder(k)
    BY <1>11, <2>1
       DEF SiftUpSwap, SwapNode, Less, Structure, SiftBounds, SiftOrder, Kept
  <2>3. /\ i \in Positions /\ p \in Positions
        /\ \A k \in Positions : heap'[k] = IF k = i THEN heap[p]
                                           ELSE IF k = p THEN heap[i] ELSE heap[k]
    BY <1>1, <2>1, <2>2 DEF Structure, TypeOK, Positions
  <2>4. ASSUME NEW k \in 1 .. (Kept - 1)
        PROVE  /\ Parent(k) \in Positions /\ k \in Positions
               /\ Parent(k) < k /\ Parent(k) \in Nat
    BY <1>1, ParentFacts DEF Positions
  <2>5. ASSUME NEW k \in 1 .. (Kept - 1), k # p, Parent(k) # p
        PROVE  heap'[Parent(k)].expire <= heap'[k].expire
    <3>1. k # i
      BY <2>1, <2>5
    <3>2. CASE Parent(k) = i
      <4>1. E(p) <= E(k)
        BY <1>1, <2>1, <2>2, <3>2 DEF OrderedAround
      <4> QED BY <2>3, <2>4, <2>5, <3>1, <3>2, <4>1
    <3>3. CASE Parent(k) # i
      <4>1. InOrder(k)
        BY <2>2, <3>1, <3>3 DEF OrderedAround
      <4> QED BY <2>3, <2>4, <2>5, <3>1, <3>3, <4>1 DEF InOrder
    <3> QED BY <3>2, <3>3
  <2>6. ASSUME NEW k \in 1 .. (Kept - 1), Parent(k) = p
        PROVE  /\ heap'[p].expire <= heap'[k].expire
               /\ p > 0 => heap'[Parent(p)].expire <= heap'[k].expire
    <3>1. k # p /\ k \in Positions
      BY <2>4, <2>6
    <3>2. k # i => E(p) <= E(k)
      <4>1. p # i
        BY <2>1
      <4> QED BY <2>2, <2>6, <4>1 DEF OrderedAround, InOrder
    <3>3. p > 0 => E(Parent(p)) <= E(p) /\ Parent(p) \in Positions
                   /\ Parent(p) # p /\ Parent(p) # i
      <4> SUFFICES ASSUME p > 0
                   PROVE  E(Parent(p)) <= E(p) /\ Parent(p) \in Positions
                          /\ Parent(p) # p /\ Parent(p) # i
        OBVIOUS
      <4>1. p \in 1 .. (Kept - 1)
        BY <1>1, <2>1, <2>2
      <4>2. Parent(p) \in Positions /\ Parent(p) < p /\ Parent(p) \in Nat
        BY <2>4, <4>1
      <4>3. Parent(p) # p /\ Parent(p) # i /\ p # i
        BY <1>1, <2>1, <4>2
      <4>4. InOrder(p)
        BY <2>2, <4>1, <4>3 DEF OrderedAround
      <4> QED BY <4>2, <4>3, <4>4 DEF InOrder
    <3>4. heap'[p] = heap[i] /\ heap'[k] = IF k = i THEN heap[p] ELSE heap[k]
      BY <2>1, <2>3, <3>1
    <3>5. p > 0 => heap'[Parent(p)] = heap[Parent(p)]
      BY <2>3, <3>3
    <3>6. E(i) <= E(p)
      BY <1>1, <2>2, <2>3
    <3>7. E(k) \in Nat /\ E(p) \in Nat /\ E(i) \in Nat
          /\ (p > 0 => E(Parent(p)) \in Nat)
      BY <1>1, <2>3, <3>1, <3>3
    <3>8. heap'[p].expire <= heap'[k].expire
      BY <3>2, <3>4, <3>6, <3>7
    <3>9. p > 0 => heap'[Parent(p)].expire <= heap'[k].expire
      BY <3>2, <3>3, <3>4, <3>5, <3>7
    <3> QED BY <3>8, <3>9
  <2> QED BY <2>2, <2>5, <2>6 DEF SiftOrder, OrderedAround, InOrder, Parent
<1>12. CASE SiftUpExit
  <2>1. /\ pc = "up" /\ pc' \in {"idle", "erase"} /\ heap' = heap /\ Kept' = Kept
        /\ OrderedAround /\ i < Kept
        /\ \A k \in 1 .. (Kept - 1) : Parent(k) = i => InOrder(k)
    BY <1>12 DEF SiftUpExit, Sifted, Structure, SiftBounds, SiftOrder, Kept
  <2>2. i > 0 => InOrder(i)
    <3> SUFFICES ASSUME i > 0 PROVE InOrder(i)
      OBVIOUS
    <3>1. Parent(i) \in Positions /\ i \in Positions /\ Parent(i) >= 0
      BY <1>1, <2>1, ParentFacts DEF Positions
    <3>2. E(Parent(i)) < E(i)
      BY <1>12, <3>1 DEF SiftUpExit, Less
    <3>3. E(Parent(i)) \in Nat /\ E(i) \in Nat
      BY <1>1, <3>1
    <3>4. E(Parent(i)) <= E(i)
      BY <3>2, <3>3
    <3> QED BY <3>4 DEF InOrder
  <2>3. \A k \in 1 .. (Kept - 1) : InOrder(k)
    BY <1>1, <2>1, <2>2 DEF OrderedAround
  <2> QED BY <2>1, <2>3 DEF SiftOrder, InOrder, Parent
<1>13. CASE Erase
  <2>1. /\ Kept = size - 1 /\ Kept' = size - 1 /\ pc = "erase" /\ pc' = "idle"
        /\ \A k \in 0 .. (size - 2) : heap'[k] = heap[k]
    BY <1>13 DEF Erase, Structure, SiftBounds, Kept
  <2>2. ASSUME NEW k \in 1 .. (size - 2)
        PROVE  heap'[Parent(k)].expire <= heap'[k].expire
    <3>1. Parent(k) \in 0 .. (size - 2) /\ k \in 0 .. (size - 2)
      BY <1>1, ParentFacts
    <3>2. InOrder(k)
      BY <1>1, <2>1 DEF SiftOrder
    <3> QED BY <2>1, <3>1, <3>2 DEF InOrder
  <2> QED BY <1>1, <2>1, <2>2 DEF SiftOrder, InOrder, Parent
<1>14. CASE UNCHANGED vars
  BY <1>14 DEF vars, SiftOrder, OrderedAround, InOrder, Kept, Parent
<1> QED
  BY <1>2, <1>3, <1>4, <1>6, <1>7, <1>8, <1>9, <1>10, <1>11, <1>12, <1>13, <1>14
     DEF Next, Call, Step
-----------------------------------------------------------------------------
(* What is left of an operation: the way down to limit and, should the     *)
(* node not have moved, back up from start; then the erasing.              *)
Work ==
  CASE pc = "down" -> (limit - i) + start + 3
    [] pc = "up" -> i + 2
    [] pc = "erase" -> 1
    [] pc = "idle" -> 0

SiftingProgresses == [][pc # "idle" => Work' \in Nat /\ Work' < Work]_vars

(* Every operation on the heap ends, whatever its size: each iteration of  *)
(* siftdown_ and siftup_ (TimerHeap.cpp:13-54) leaves less to do, also     *)
(* when equal expiries are swapped and when siftup_ follows siftdown_.     *)
THEOREM SiftingEnds == Spec => SiftingProgresses
<1>1. Structure /\ [Next]_vars => [pc # "idle" => Work' \in Nat /\ Work' < Work]_vars
  <2> SUFFICES ASSUME Structure, Next, pc # "idle"
               PROVE  Work' \in Nat /\ Work' < Work
    BY DEF vars
  <2>0. /\ i \in Nat /\ start \in Nat /\ limit \in Nat
        /\ pc = "down" => limit = Kept /\ i < Kept
        /\ Kept \in Nat
    BY DEF Structure, TypeOK, SiftBounds, Kept
  <2>1. Step
    BY DEF Next, Call, PushNew, PushExisting, Adjust, Remove, Pop, Clear
  <2>2. CASE SiftDownSwap
    <3>1. /\ pc = "down" /\ pc' = "down" /\ i' = Child
          /\ UNCHANGED <<start, limit>> /\ i < Child /\ Child < limit /\ Child \in Nat
      BY <2>0, <2>2 DEF SiftDownSwap, Child
    <3> HIDE DEF Child
    <3> QED BY <2>0, <3>1 DEF Work
  <2>3. CASE SiftUpSwap
    <3>1. /\ pc = "up" /\ pc' = "up" /\ i' = Parent(i)
          /\ Parent(i) < i /\ Parent(i) \in Nat
      BY <2>0, <2>3 DEF SiftUpSwap, Parent
    <3> QED BY <2>0, <3>1 DEF Work
  <2>4. CASE SiftDownExit
    <3>1. pc = "down" /\ i < limit
      BY <2>0, <2>4 DEF SiftDownExit
    <3>2. (pc' = "up" /\ i' = start) \/ pc' \in {"idle", "erase"}
      BY <2>4 DEF SiftDownExit, CallSiftUp, Sifted
    <3> QED BY <2>0, <3>1, <3>2 DEF Work
  <2>5. CASE SiftUpExit
    <3>1. pc = "up" /\ pc' \in {"idle", "erase"}
      BY <2>5 DEF SiftUpExit, Sifted
    <3> QED BY <2>0, <3>1 DEF Work
  <2>6. CASE Erase
    BY <2>6 DEF Erase, Work
  <2> QED BY <2>1, <2>2, <2>3, <2>4, <2>5, <2>6 DEF Step
<1>2. Init => Structure
  BY InitStructure
<1>3. Structure /\ [Next]_vars => Structure'
  BY NextStructure
<1> QED BY <1>1, <1>2, <1>3, PTL DEF Spec, SiftingProgresses

-----------------------------------------------------------------------------
(* The natural numbers are well-founded: a non-empty set of them has a     *)
(* least element.                                                          *)
LEMMA WellFoundedNat ==
  \E R : IsWellFoundedOn(R, Nat) /\ \A x, y \in Nat : y < x => <<y, x>> \in R
<1>1. IsWellFoundedOn(OpToRel(<, Nat), Nat)
  BY NatLessThanWellFounded
<1>2. \A x, y \in Nat : y < x => <<y, x>> \in OpToRel(<, Nat)
  BY DEF OpToRel
<1> QED BY <1>1, <1>2, Zenon

LEMMA LeastElement ==
  ASSUME NEW T \in SUBSET Nat, T # {}
  PROVE  \E x \in T : \A y \in T : x <= y
<1>1. PICK R : IsWellFoundedOn(R, Nat) /\ \A x, y \in Nat : y < x => <<y, x>> \in R
  BY WellFoundedNat
<1>2. PICK x \in T : \A y \in T : ~ (<<y, x>> \in R)
  BY <1>1, WFMin
<1>3. \A y \in T : x <= y
  <2> TAKE y \in T
  <2>1. ~ (y < x)
    BY <1>1, <1>2
  <2> QED BY <2>1
<1> QED BY <1>3

(* An ordered heap has its minimum at the root: otherwise take the first   *)
(* position that is before the root; its parent is not, and precedes it.   *)
LEMMA OrderGivesMinimum == Structure /\ SiftOrder => RootIsMinimum
<1> SUFFICES ASSUME Structure, SiftOrder, pc = "idle",
                    NEW q \in Positions, ~(heap[0].expire <= heap[q].expire)
             PROVE  FALSE
  BY DEF RootIsMinimum
<1> DEFINE Early == {k \in Positions : ~(heap[0].expire <= heap[k].expire)}
<1>1. /\ size \in Nat /\ \A k \in 1 .. (size - 1) : InOrder(k)
      /\ \A k \in Positions : heap[k].expire \in Nat
  BY DEF Structure, SiftBounds, SiftOrder, Kept, TypeOK, Timer
<1>2. Early \in SUBSET Nat /\ q \in Early
  BY DEF Positions
<1>3. PICK x \in Early : \A y \in Early : x <= y
  BY <1>2, LeastElement
<1>4. x \in Positions /\ x # 0 /\ 0 \in Positions
  BY <1>1, <1>3 DEF Positions
<1>5. Parent(x) \in Positions /\ Parent(x) < x /\ x \in 1 .. (size - 1)
  BY <1>1, <1>4, ParentFacts DEF Positions
<1>6. heap[Parent(x)].expire <= heap[x].expire
  BY <1>1, <1>5 DEF InOrder
<1>7. heap[0].expire <= heap[Parent(x)].expire
  BY <1>3, <1>5 DEF Positions
<1>8. /\ heap[0].expire \in Nat /\ heap[x].expire \in Nat
      /\ heap[Parent(x)].expire \in Nat
  BY <1>1, <1>4, <1>5
<1>9. heap[0].expire <= heap[x].expire
  BY <1>6, <1>7, <1>8
<1> QED BY <1>3, <1>9

(* Between operations top() is a timer that no other precedes, for every   *)
(* sequence of calls, as long as the clock is never set back.              *)
THEOREM RootMinimumAlways ==
  ASSUME ~ClockMayStepBack
  PROVE  Spec => []RootIsMinimum
<1> DEFINE Ordered == Structure /\ SiftOrder
<1>1. Init => Ordered
  BY InitStructure, InitOrder
<1>2. Ordered /\ [Next]_vars => Ordered'
  <2> SUFFICES ASSUME Ordered, [Next]_vars PROVE Ordered'
    OBVIOUS
  <2>1. Structure'
    BY NextStructure
  <2> QED BY <2>1, NextOrder
<1>3. Ordered => RootIsMinimum
  BY OrderGivesMinimum
<1> HIDE DEF Ordered
<1> QED BY <1>1, <1>2, <1>3, PTL DEF Spec

-----------------------------------------------------------------------------
(* TimerQueue.                                                             *)
QOrdered ==
  /\ Structure
  /\ SiftOrder
  /\ now \in 0 .. MaxNow /\ deadline \in Nat

LEMMA QInitOrdered == QInit => QOrdered
BY InitStructure, InitOrder, DelayAssumption DEF QInit, QOrdered

(* A step of the queue is a step of the heap or leaves the heap alone.     *)
LEMMA QNextIsHeapStep ==
  ASSUME now \in 0 .. MaxNow, [QNext]_allVars
  PROVE  [Next]_vars
<1>1. ASSUME NEW f \in Fds PROVE Armed(f) \in Input
  BY DelayAssumption DEF Armed, Input
<1>2. ASSUME NEW f \in Fds, Push(f) PROVE Next
  BY <1>1, <1>2 DEF Push, Next, Call
<1>3. ASSUME NEW f \in Fds, AdjustTimer(f) PROVE Next
  BY <1>1, <1>3 DEF AdjustTimer, Next, Call
<1>4. ASSUME NEW f \in Fds, RemoveTimer(f) PROVE Next
  BY <1>4 DEF RemoveTimer, Next, Call
<1>5. FireTop => Next
  BY DEF FireTop, Next, Call
<1>6. HeapStep => Next
  BY DEF HeapStep, Next
<1>7. HandleTimeout \/ TimeoutReturns \/ Tick => UNCHANGED vars
  BY DEF HandleTimeout, TimeoutReturns, Tick
<1>8. UNCHANGED allVars => UNCHANGED vars
  BY DEF allVars
<1> QED BY <1>2, <1>3, <1>4, <1>5, <1>6, <1>7, <1>8 DEF QNext

LEMMA QNextOrdered ==
  ASSUME ~ClockMayStepBack, QOrdered, [QNext]_allVars
  PROVE  QOrdered'
<1>1. [Next]_vars
  BY QNextIsHeapStep DEF QOrdered
<1>2. Structure' /\ SiftOrder'
  BY <1>1, NextStructure, NextOrder DEF QOrdered
<1>3. now' \in 0 .. MaxNow /\ deadline' \in Nat
  BY DelayAssumption DEF QOrdered, QNext, allVars, queueVars, Push, AdjustTimer,
     RemoveTimer, HandleTimeout, FireTop, TimeoutReturns, HeapStep, Tick
<1> QED BY <1>2, <1>3 DEF QOrdered

(* handleTimeout looks at the root only and leaves no timer behind that    *)
(* was due when it started, for every number of timers, every delay and    *)
(* every interleaving of the clock, as long as the clock is not set back.  *)
THEOREM TimeoutsLeaveNoneBehind ==
  ASSUME ~ClockMayStepBack
  PROVE  QSpec => NoneLeftBehind
<1> DEFINE Step2 == inTimeout /\ ~inTimeout' =>
                      \A k \in Positions : heap[k].expire > deadline
<1>1. QInit => QOrdered
  BY QInitOrdered
<1>2. QOrdered /\ [QNext]_allVars => QOrdered'
  BY QNextOrdered
<1>3. QOrdered /\ [QNext]_allVars => [Step2]_allVars
  <2> SUFFICES ASSUME QOrdered, QNext, inTimeout, ~inTimeout'
               PROVE  \A k \in Positions : heap[k].expire > deadline
    BY DEF allVars, queueVars
  <2>1. TimeoutReturns
    BY DEF QNext, queueVars, Push, AdjustTimer, RemoveTimer, HandleTimeout,
       FireTop, HeapStep, Tick
  <2>2. RootIsMinimum /\ pc = "idle"
    BY <2>1, OrderGivesMinimum DEF QOrdered, TimeoutReturns
  <2> TAKE k \in Positions
  <2>3. /\ heap[0].expire > deadline /\ heap[0].expire <= heap[k].expire
        /\ deadline \in Nat
    BY <2>1, <2>2 DEF TimeoutReturns, RootIsMinimum, QOrdered, Structure, TypeOK,
       Positions
  <2>4. 0 \in Positions
    BY DEF Positions, QOrdered, Structure, TypeOK
  <2>5. heap[0].expire \in Nat /\ heap[k].expire \in Nat
    BY <2>4 DEF QOrdered, Structure, TypeOK, Timer
  <2> QED BY <2>3, <2>5
<1> QED BY <1>1, <1>2, <1>3, PTL DEF QSpec, NoneLeftBehind

(* The heap that handleTimeout uses is ordered whenever it looks at it.    *)
THEOREM QueueKeepsMinimum ==
  ASSUME ~ClockMayStepBack
  PROVE  QSpec => [](TypeOK /\ RefIsInverse /\ RootIsMinimum)
<1>1. QInit => QOrdered
  BY QInitOrdered
<1>2. QOrdered /\ [QNext]_allVars => QOrdered'
  BY QNextOrdered
<1>3. QOrdered => TypeOK /\ RefIsInverse /\ RootIsMinimum
  BY OrderGivesMinimum DEF QOrdered, Structure
<1> QED BY <1>1, <1>2, <1>3, PTL DEF QSpec
-----------------------------------------------------------------------------
(* The refinement of Timers.  Live is the domain of Due: the fds whose     *)
(* node is not the one that is being deleted.                              *)
Live == {f \in DOMAIN ref : ref[f] < Kept}
DueOfLive == [f \in Live |-> heap[ref[f]].expire]

DueMatches == Kept \in Nat /\ Kept <= size /\ Due = DueOfLive

LEMMA DueIsOfLive == Structure => DueMatches
<1> SUFFICES ASSUME Structure PROVE DueMatches
  OBVIOUS
<1>1. size \in Nat /\ Kept \in Nat /\ Kept <= size
  BY DEF Structure, TypeOK, SiftBounds, Kept
<1> DEFINE D == {heap[k].fd : k \in 0 .. (Kept - 1)}
<1>2. \A k \in 0 .. (Kept - 1) : heap[k].fd \in DOMAIN ref /\ ref[heap[k].fd] = k
  BY <1>1 DEF Structure, RefIsInverse, Positions
<1>3. \A f \in DOMAIN ref : heap[ref[f]].fd = f /\ ref[f] \in Nat
  BY DEF Structure, RefIsInverse, TypeOK, Positions
<1>4. \A k \in 0 .. (Kept - 1) : heap[k].fd \in Live
  BY <1>1, <1>2 DEF Live
<1>5. \A f \in Live : ref[f] \in 0 .. (Kept - 1) /\ heap[ref[f]].fd = f
  BY <1>1, <1>3 DEF Live
<1>6. D = Live
  <2>1. D \subseteq Live
    BY <1>4
  <2>2. Live \subseteq D
    BY <1>5
  <2> QED BY <2>1, <2>2
<1>7. Due = [f \in D |-> heap[ref[f]].expire]
  BY DEF Due
<1> QED BY <1>1, <1>6, <1>7 DEF DueOfLive, DueMatches

LEMMA DueIsOfLiveNext == Structure' => DueMatches'
BY DueIsOfLive, PTL

(* A step that keeps the node of every live fd keeps Due.                  *)
LEMMA SameNodes ==
  ASSUME Structure, Structure', Live' = Live,
         \A f \in Live : heap'[ref'[f]].expire = heap[ref[f]].expire
  PROVE  Due' = Due
<1>1. DueOfLive' = [f \in Live' |-> heap'[ref'[f]].expire]
  BY DEF DueOfLive
<1>2. DueOfLive = [f \in Live |-> heap[ref[f]].expire]
  BY DEF DueOfLive
<1>3. DueOfLive' = DueOfLive
  BY <1>1, <1>2
<1> QED BY <1>3, DueIsOfLive, DueIsOfLiveNext DEF DueMatches

(* A swap moves two nodes and what ref_ says of them.                      *)
LEMMA SwapKeepsNodes ==
  ASSUME Structure, NEW a \in Positions, NEW b \in Positions, a # b,
         SwapNode(a, b)
  PROVE  /\ DOMAIN ref' = DOMAIN ref
         /\ \A f \in DOMAIN ref :
              /\ heap'[ref'[f]] = heap[ref[f]]
              /\ ref'[f] = IF ref[f] = a THEN b ELSE IF ref[f] = b THEN a ELSE ref[f]
<1> USE DEF Structure, TypeOK, RefIsInverse
<1>1. /\ heap[a].fd \in DOMAIN ref /\ ref[heap[a].fd] = a
      /\ heap[b].fd \in DOMAIN ref /\ ref[heap[b].fd] = b
  OBVIOUS
<1>2. DOMAIN ref' = DOMAIN ref
  BY DEF SwapNode
<1>3. \A f \in DOMAIN ref :
        ref'[f] = IF f = heap[a].fd THEN b ELSE IF f = heap[b].fd THEN a ELSE ref[f]
  BY <1>1 DEF SwapNode
<1>4. \A f \in DOMAIN ref :
        (ref[f] = a <=> f = heap[a].fd) /\ (ref[f] = b <=> f = heap[b].fd)
  BY <1>1
<1>5. \A k \in Positions : heap'[k] = IF k = a THEN heap[b]
                                      ELSE IF k = b THEN heap[a] ELSE heap[k]
  BY DEF SwapNode
<1>6. \A f \in DOMAIN ref : ref[f] \in Positions
  OBVIOUS
<1>7. ASSUME NEW f \in DOMAIN ref
      PROVE  /\ heap'[ref'[f]] = heap[ref[f]]
             /\ ref'[f] = IF ref[f] = a THEN b ELSE IF ref[f] = b THEN a ELSE ref[f]
  <2>1. CASE ref[f] = a
    BY <1>3, <1>4, <1>5, <2>1
  <2>2. CASE ref[f] = b
    BY <1>3, <1>4, <1>5, <2>2
  <2>3. CASE ref[f] # a /\ ref[f] # b
    BY <1>3, <1>4, <1>5, <1>6, <2>3
  <2> QED BY <2>1, <2>2, <2>3
<1> QED BY <1>2, <1>7

(* The sifting and the erasing are invisible.                              *)
LEMMA StepKeepsDue == ASSUME Structure, Structure', Step PROVE Due' = Due
<1>0. /\ size \in Nat /\ Kept \in Nat /\ Kept <= size
      /\ \A f \in DOMAIN ref : ref[f] \in Positions
  BY DueIsOfLive DEF Structure, TypeOK, DueMatches
<1>1. ASSUME NEW a \in Positions, NEW b \in Positions, a # b, a < Kept, b < Kept,
             SwapNode(a, b), UNCHANGED <<size, deleting>>
      PROVE  Due' = Due
  <2>1. /\ DOMAIN ref' = DOMAIN ref
        /\ \A f \in DOMAIN ref :
             /\ heap'[ref'[f]] = heap[ref[f]]
             /\ ref'[f] = IF ref[f] = a THEN b ELSE IF ref[f] = b THEN a ELSE ref[f]
    BY <1>1, SwapKeepsNodes
  <2>2. Kept' = Kept
    BY <1>1 DEF Kept
  <2>3. \A f \in DOMAIN ref : ref'[f] < Kept <=> ref[f] < Kept
    BY <1>1, <2>1
  <2>4. Live' = Live
    BY <2>1, <2>2, <2>3 DEF Live
  <2>5. \A f \in Live : heap'[ref'[f]].expire = heap[ref[f]].expire
    BY <2>1 DEF Live
  <2> QED BY <2>4, <2>5, SameNodes
<1>2. CASE SiftDownSwap
  <2>1. i \in Positions /\ Child \in Positions /\ i < Kept /\ Child < Kept /\ i # Child
    BY <1>2 DEF Structure, SiftDownSwap, Child, SiftBounds, Positions, TypeOK, Kept
  <2>2. SwapNode(i, Child) /\ UNCHANGED <<size, deleting>>
    BY <1>2 DEF SiftDownSwap
  <2> HIDE DEF Child
  <2> QED BY <1>1, <2>1, <2>2
<1>3. CASE SiftUpSwap
  <2>1. /\ i \in Positions /\ Parent(i) \in Positions /\ i < Kept /\ Parent(i) < Kept
        /\ i # Parent(i)
    BY <1>3 DEF Structure, SiftUpSwap, Parent, SiftBounds, Positions, TypeOK, Kept
  <2>2. SwapNode(i, Parent(i)) /\ UNCHANGED <<size, deleting>>
    BY <1>3 DEF SiftUpSwap
  <2> QED BY <1>1, <2>1, <2>2
<1>4. CASE SiftDownExit \/ SiftUpExit
  <2>1. UNCHANGED <<heap, ref, size, deleting>>
    BY <1>4 DEF SiftDownExit, SiftUpExit, Sifted
  <2> QED BY <2>1 DEF Due, Kept
<1>5. CASE Erase
  <2> DEFINE last == heap[size - 1].fd
  <2>1. deleting /\ size > 0 /\ Kept = size - 1 /\ Kept' = size - 1 /\ size - 1 \in Positions
    BY <1>0, <1>5 DEF Erase, Structure, SiftBounds, Kept, Positions
  <2>2. last \in DOMAIN ref /\ ref[last] = size - 1
    BY <2>1 DEF Structure, RefIsInverse
  <2>3. /\ DOMAIN ref' = DOMAIN ref \ {last}
        /\ \A f \in DOMAIN ref \ {last} : ref'[f] = ref[f]
        /\ \A k \in 0 .. (size - 2) : heap'[k] = heap[k]
    BY <1>5 DEF Erase
  <2>4. \A f \in DOMAIN ref : ref[f] < size - 1 <=> f # last
    BY <1>0, <2>1, <2>2 DEF Structure, RefIsInverse, Positions
  <2>5. Live = DOMAIN ref \ {last}
    BY <2>1, <2>4 DEF Live
  <2>6. Live' = DOMAIN ref \ {last}
    BY <2>1, <2>3, <2>4 DEF Live
  <2>7. \A f \in Live : heap'[ref'[f]].expire = heap[ref[f]].expire
    <3> TAKE f \in Live
    <3>1. ref'[f] = ref[f] /\ ref[f] \in 0 .. (size - 2)
      BY <1>0, <2>1, <2>3, <2>4, <2>5 DEF Positions
    <3> QED BY <2>3, <3>1
  <2> QED BY <2>5, <2>6, <2>7, SameNodes
<1> QED BY <1>2, <1>3, <1>4, <1>5 DEF Step

(* push and adjust set the timer of their own fd and no other.             *)
LEMMA SetsDue ==
  ASSUME Structure, Structure', NEW t \in Input,
         PushNew(t) \/ PushExisting(t) \/ Adjust(t)
  PROVE  Due' = [g \in DOMAIN Due \cup {t.fd} |-> IF g = t.fd THEN t.expire ELSE Due[g]]
<1> USE DEF Structure
<1>0. /\ pc = "idle" /\ ~deleting /\ size \in Nat /\ deleting' = deleting
      /\ \A f \in DOMAIN ref : ref[f] \in Positions /\ heap[ref[f]].fd = f
      /\ \A k \in Positions : heap[k].fd \in DOMAIN ref /\ ref[heap[k].fd] = k
      /\ heap \in [Positions -> Timer]
  BY DEF PushNew, PushExisting, Adjust, SiftBounds, TypeOK, RefIsInverse
<1>1. Live = DOMAIN ref /\ Live' = DOMAIN ref'
  <2>1. Kept = size /\ Kept' = size'
    BY <1>0 DEF Kept
  <2>2. \A f \in DOMAIN ref' : ref'[f] < size'
    BY DEF TypeOK, Positions
  <2>3. \A f \in DOMAIN ref : ref[f] < size
    BY <1>0 DEF Positions
  <2>4. Live = {f \in DOMAIN ref : ref[f] < size}
        /\ Live' = {f \in DOMAIN ref' : ref'[f] < size'}
    BY <2>1 DEF Live
  <2> QED BY <2>2, <2>3, <2>4, Zenon
<1>2. /\ Due = [f \in DOMAIN ref |-> heap[ref[f]].expire]
      /\ Due' = [f \in DOMAIN ref' |-> heap'[ref'[f]].expire]
  BY <1>1, DueIsOfLive, DueIsOfLiveNext DEF DueMatches, DueOfLive
<1>3. /\ DOMAIN ref' = DOMAIN ref \cup {t.fd}
      /\ \A f \in DOMAIN ref' :
           heap'[ref'[f]].expire = IF f = t.fd THEN t.expire ELSE heap[ref[f]].expire
  <2>1. CASE PushNew(t)
    <3>1. /\ t.fd \notin DOMAIN ref /\ DOMAIN ref' = DOMAIN ref \cup {t.fd}
          /\ \A f \in DOMAIN ref' : ref'[f] = IF f = t.fd THEN size ELSE ref[f]
          /\ \A k \in 0 .. size : heap'[k] = IF k = size THEN t ELSE heap[k]
      BY <2>1 DEF PushNew
    <3>2. \A f \in DOMAIN ref : ref[f] \in 0 .. size /\ ref[f] # size
      BY <1>0 DEF Positions
    <3>3. size \in 0 .. size
      BY <1>0
    <3> QED BY <3>1, <3>2, <3>3
  <2>2. CASE PushExisting(t)
    <3>1. /\ t.fd \in DOMAIN ref /\ ref' = ref
          /\ heap' = [heap EXCEPT ![ref[t.fd]] = t]
      BY <2>2 DEF PushExisting
    <3>2. \A k \in Positions : heap'[k] = IF k = ref[t.fd] THEN t ELSE heap[k]
      BY <1>0, <3>1
    <3>3. \A f \in DOMAIN ref : ref[f] = ref[t.fd] <=> f = t.fd
      BY <1>0, <3>1
    <3>4. \A f \in DOMAIN ref : heap'[ref[f]] = IF f = t.fd THEN t ELSE heap[ref[f]]
      BY <1>0, <3>2, <3>3, Zenon
    <3> QED BY <3>1, <3>4
  <2>3. CASE Adjust(t)
    <3> DEFINE u == [fd |-> heap[ref[t.fd]].fd, expire |-> t.expire]
    <3>1. /\ t.fd \in DOMAIN ref /\ ref' = ref
          /\ heap' = [heap EXCEPT ![ref[t.fd]] = u]
      BY <2>3 DEF Adjust
    <3>2. u.expire = t.expire
      OBVIOUS
    <3> HIDE DEF u
    <3>3. \A k \in Positions : heap'[k] = IF k = ref[t.fd] THEN u ELSE heap[k]
      BY <1>0, <3>1
    <3>4. \A f \in DOMAIN ref : ref[f] = ref[t.fd] <=> f = t.fd
      BY <1>0, <3>1
    <3>5. \A f \in DOMAIN ref : heap'[ref[f]] = IF f = t.fd THEN u ELSE heap[ref[f]]
      BY <1>0, <3>3, <3>4, Zenon
    <3> QED BY <3>1, <3>2, <3>5
  <2> QED BY <2>1, <2>2, <2>3
<1> DEFINE e == [g \in DOMAIN Due \cup {t.fd} |-> IF g = t.fd THEN t.expire ELSE Due[g]]
<1>4. e = [g \in DOMAIN ref \cup {t.fd} |->
             IF g = t.fd THEN t.expire ELSE heap[ref[g]].expire]
  BY <1>2
<1>5. Due' = [g \in DOMAIN ref \cup {t.fd} |->
               IF g = t.fd THEN t.expire ELSE heap[ref[g]].expire]
  BY <1>2, <1>3
<1> QED BY <1>4, <1>5

(* del_ drops the timer at k from the start, and no other.                 *)
LEMMA DelDropsDue ==
  ASSUME Structure, Structure', pc = "idle", NEW k \in Positions, Del(k)
  PROVE  /\ DOMAIN Due = DOMAIN ref
         /\ \A f \in DOMAIN ref : Due[f] = heap[ref[f]].expire
         /\ heap[k].fd \in DOMAIN ref /\ ref[heap[k].fd] = k
         /\ Due' = [g \in DOMAIN Due \ {heap[k].fd} |-> Due[g]]
<1> USE DEF Structure
<1>0. /\ ~deleting /\ deleting' = TRUE /\ size \in Nat /\ size > 0 /\ size' = size
      /\ \A f \in DOMAIN ref : ref[f] \in Positions /\ heap[ref[f]].fd = f
      /\ heap[k].fd \in DOMAIN ref /\ ref[heap[k].fd] = k
  BY DEF Del, SiftBounds, TypeOK, RefIsInverse, Positions
<1>1. Kept = size /\ Kept' = size - 1
  BY <1>0 DEF Kept
<1>2. Live = DOMAIN ref
  <2>1. \A f \in DOMAIN ref : ref[f] < size
    BY <1>0 DEF Positions
  <2>2. Live = {f \in DOMAIN ref : ref[f] < size}
    BY <1>1 DEF Live
  <2> QED BY <2>1, <2>2, Zenon
<1>3. /\ DOMAIN Due = DOMAIN ref
      /\ \A f \in DOMAIN ref : Due[f] = heap[ref[f]].expire
  BY <1>2, DueIsOfLive DEF DueMatches, DueOfLive
<1>4. /\ DOMAIN ref' = DOMAIN ref
      /\ \A f \in DOMAIN ref : heap'[ref'[f]] = heap[ref[f]]
      /\ \A f \in DOMAIN ref : ref'[f] < size - 1 <=> f # heap[k].fd
  <2>1. \A f \in DOMAIN ref : ref[f] = k <=> f = heap[k].fd
    BY <1>0
  <2>2. CASE k < size - 1
    <3>1. SwapNode(k, size - 1) /\ size - 1 \in Positions /\ k # size - 1
      BY <1>0, <2>2 DEF Del, Positions
    <3>2. /\ DOMAIN ref' = DOMAIN ref
          /\ \A f \in DOMAIN ref :
               /\ heap'[ref'[f]] = heap[ref[f]]
               /\ ref'[f] = IF ref[f] = k THEN size - 1
                            ELSE IF ref[f] = size - 1 THEN k ELSE ref[f]
      BY <3>1, SwapKeepsNodes
    <3>3. ASSUME NEW f \in DOMAIN ref
          PROVE  ref'[f] < size - 1 <=> f # heap[k].fd
      BY <1>0, <2>1, <2>2, <3>2 DEF Positions
    <3> QED BY <3>2, <3>3
  <2>3. CASE ~(k < size - 1)
    <3>1. heap' = heap /\ ref' = ref /\ k = size - 1
      BY <1>0, <2>3 DEF Del, Positions
    <3> QED BY <1>0, <2>1, <3>1 DEF Positions
  <2> QED BY <2>2, <2>3
<1>5. Live' = DOMAIN ref \ {heap[k].fd}
  BY <1>1, <1>4 DEF Live
<1>6. Due' = [f \in Live' |-> heap'[ref'[f]].expire]
  BY DueIsOfLiveNext DEF DueMatches, DueOfLive
<1>7. Due' = [g \in DOMAIN ref \ {heap[k].fd} |-> heap[ref[g]].expire]
  BY <1>4, <1>5, <1>6
<1>8. [g \in DOMAIN Due \ {heap[k].fd} |-> Due[g]]
        = [g \in DOMAIN ref \ {heap[k].fd} |-> heap[ref[g]].expire]
  BY <1>3
<1> QED BY <1>0, <1>3, <1>7, <1>8

(* Between operations Due is what the nodes say.                           *)
LEMMA DueWhenIdle ==
  ASSUME Structure, pc = "idle"
  PROVE  /\ DOMAIN Due = DOMAIN ref
         /\ \A f \in DOMAIN ref : /\ Due[f] = heap[ref[f]].expire
                                  /\ ref[f] \in Positions /\ heap[ref[f]].fd = f
<1>1. /\ Kept = size /\ size \in Nat
      /\ \A f \in DOMAIN ref : ref[f] \in Positions /\ heap[ref[f]].fd = f
  BY DEF Structure, SiftBounds, Kept, TypeOK, RefIsInverse
<1>2. Live = DOMAIN ref
  BY <1>1 DEF Live, Positions
<1> QED BY <1>1, <1>2, DueIsOfLive DEF DueMatches, DueOfLive

LEMMA QInitRefines == QInit => Abs!Init
<1> SUFFICES ASSUME QInit PROVE Abs!Init
  OBVIOUS
<1>1. 0 .. (Kept - 1) = {}
  BY DEF QInit, Init, Kept
<1>2. Due = [f \in {} |-> 0]
  BY <1>1 DEF Due
<1> QED BY <1>2 DEF QInit, Abs!Init

LEMMA QNextRefines ==
  ASSUME QOrdered, QOrdered', [QNext]_allVars
  PROVE  [Abs!Next]_<<Due, inTimeout, deadline, fired>>
<1>0. Structure /\ Structure' /\ RootIsMinimum
  BY OrderGivesMinimum DEF QOrdered
<1>a. now \in 0 .. MaxNow /\ deadline \in Nat
  BY DEF QOrdered
<1>1. ASSUME NEW f \in Fds, Push(f) \/ AdjustTimer(f) PROVE Abs!Next
  <2>1. Armed(f) \in Input /\ Armed(f).fd = f
    BY <1>a, DelayAssumption DEF Armed, Input
  <2>2. /\ PushNew(Armed(f)) \/ PushExisting(Armed(f)) \/ Adjust(Armed(f))
        /\ ~inTimeout /\ UNCHANGED <<inTimeout, deadline, fired>>
    BY <1>1 DEF Push, AdjustTimer, queueVars
  <2> DEFINE e == Armed(f).expire
  <2>3. Due' = [g \in DOMAIN Due \cup {f} |-> IF g = f THEN e ELSE Due[g]]
    <3>1. \A t \in Input :
            PushNew(t) \/ PushExisting(t) \/ Adjust(t)
              => Due' = [g \in DOMAIN Due \cup {t.fd} |->
                           IF g = t.fd THEN t.expire ELSE Due[g]]
      BY <1>0, SetsDue
    <3> HIDE DEF e
    <3> QED BY <2>1, <2>2, <3>1 DEF e
  <2> HIDE DEF e
  <2>4. f \in DOMAIN Due' /\ Due'[f] = e
    BY <2>3
  <2>5. Abs!Set(f, Due'[f])
    BY <2>2, <2>3, <2>4 DEF Abs!Set
  <2> QED BY <2>4, <2>5 DEF Abs!Next
<1>2. ASSUME NEW f \in Fds, RemoveTimer(f) PROVE Abs!Next
  <2>1. /\ ~inTimeout /\ UNCHANGED <<inTimeout, deadline, fired>>
        /\ pc = "idle" /\ f \in DOMAIN ref /\ Del(ref[f])
    BY <1>2 DEF RemoveTimer, Remove, queueVars
  <2>2. ref[f] \in Positions /\ heap[ref[f]].fd = f
    BY <1>0, <2>1 DEF Structure, TypeOK, RefIsInverse
  <2>3. f \in DOMAIN Due /\ Due' = [g \in DOMAIN Due \ {f} |-> Due[g]]
    BY <1>0, <2>1, <2>2, DelDropsDue
  <2>4. Abs!Cancel(f)
    BY <2>1, <2>3 DEF Abs!Cancel, Abs!Drop
  <2> QED BY <2>4 DEF Abs!Next
<1>3. CASE HandleTimeout
  <2>1. Due' = Due
    BY <1>3 DEF HandleTimeout, vars, Due, Kept
  <2>2. Abs!Begin(deadline')
    BY <1>3, <2>1 DEF HandleTimeout, Abs!Begin
  <2> QED BY <2>2 DEF Abs!Next
<1>4. CASE FireTop
  <2> DEFINE f == heap[0].fd
  <2>1. /\ inTimeout /\ pc = "idle" /\ size > 0 /\ heap[0].expire <= deadline
        /\ fired' = heap[0] /\ Del(0) /\ UNCHANGED <<inTimeout, deadline>>
    BY <1>4 DEF FireTop, Pop
  <2>2. 0 \in Positions /\ heap[0] \in Timer
    BY <1>0, <2>1 DEF Structure, TypeOK, Positions
  <2>3. /\ f \in DOMAIN ref /\ ref[f] = 0 /\ DOMAIN Due = DOMAIN ref
        /\ \A g \in DOMAIN ref : Due[g] = heap[ref[g]].expire
        /\ Due' = [g \in DOMAIN Due \ {f} |-> Due[g]]
    BY <1>0, <2>1, <2>2, DelDropsDue
  <2>4. \A g \in DOMAIN Due : Due[f] <= Due[g]
    BY <1>0, <2>1, <2>3 DEF RootIsMinimum, Structure, TypeOK
  <2>5. heap[0] = [fd |-> f, expire |-> Due[f]]
    BY <2>2, <2>3 DEF Timer
  <2>6. Abs!Fire(f)
    BY <2>1, <2>3, <2>4, <2>5 DEF Abs!Fire, Abs!Drop
  <2>7. f \in Fds
    BY <2>2 DEF Timer
  <2> QED BY <2>6, <2>7 DEF Abs!Next
<1>5. CASE TimeoutReturns
  <2>1. /\ inTimeout /\ pc = "idle" /\ inTimeout' = FALSE /\ Due' = Due
        /\ UNCHANGED <<deadline, fired>>
        /\ size > 0 => heap[0].expire > deadline
    BY <1>5 DEF TimeoutReturns, vars, Due, Kept
  <2>2. ASSUME NEW f \in DOMAIN Due PROVE Due[f] > deadline
    <3>1. Due[f] = heap[ref[f]].expire /\ ref[f] \in Positions
      BY <1>0, <2>1, DueWhenIdle
    <3>2. size > 0 /\ 0 \in Positions
      BY <1>0, <3>1 DEF Positions, Structure, TypeOK
    <3>3. heap[0].expire <= heap[ref[f]].expire
      BY <1>0, <2>1, <3>1 DEF RootIsMinimum
    <3>4. heap[0].expire \in Nat /\ heap[ref[f]].expire \in Nat
      BY <1>0, <3>1, <3>2 DEF Structure, TypeOK, Timer
    <3> QED BY <1>a, <2>1, <3>1, <3>2, <3>3, <3>4
  <2>3. Abs!Return
    BY <2>1, <2>2 DEF Abs!Return
  <2> QED BY <2>3 DEF Abs!Next
<1>6. CASE HeapStep
  <2>1. Due' = Due
    BY <1>0, <1>6, StepKeepsDue DEF HeapStep
  <2> QED BY <1>6, <2>1 DEF HeapStep, queueVars
<1>7. CASE Tick \/ UNCHANGED allVars
  <2>1. UNCHANGED <<heap, size, ref, deleting, inTimeout, deadline, fired>>
    BY <1>7 DEF Tick, allVars, vars, queueVars
  <2> QED BY <2>1 DEF Due, Kept
<1> QED
  BY <1>1, <1>2, <1>3, <1>4, <1>5, <1>6, <1>7 DEF QNext

(* The heap and handleTimeout implement the abstract timers, for any fds,  *)
(* delays and number of timers, as long as the clock is not set back:      *)
(* sifting is invisible, an operation changes the timer of its own fd      *)
(* only, callbacks run earliest first, and handleTimeout returns when no   *)
(* timer is due by its deadline.                                           *)
THEOREM TimersImplemented ==
  ASSUME ~ClockMayStepBack
  PROVE  QSpec => ImplementsTimers
<1>1. QInit => QOrdered
  BY QInitOrdered
<1>2. QOrdered /\ [QNext]_allVars => QOrdered'
  BY QNextOrdered
<1>3. QInit => Abs!Init
  BY QInitRefines
<1>4. QOrdered /\ QOrdered' /\ [QNext]_allVars
        => [Abs!Next]_<<Due, inTimeout, deadline, fired>>
  BY QNextRefines
<1> QED BY <1>1, <1>2, <1>3, <1>4, PTL DEF QSpec, ImplementsTimers, Abs!Spec

=============================================================================
