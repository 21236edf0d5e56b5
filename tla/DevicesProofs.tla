---------------------------- MODULE DevicesProofs ----------------------------
(***************************************************************************)
(* Theorems about Devices, for any number of devices, any device file, any *)
(* vector priorities and any machine program.                              *)
(*                                                                         *)
(* Whatever an action does to the processor it does by an interrupt, by a  *)
(* return, or by changing PC in the current routine or a bit of PSW.  So   *)
(* the invariants are stated for a processor state m, and each lemma says  *)
(* that one of these operations keeps them.                                *)
(***************************************************************************)
EXTENDS Devices, SequenceTheorems, WellFoundedInduction, TLAPS

Frames == [PC : Addresses, LR : Addresses, PSW : PSWs]

Cpus == [PC : Addresses, LR : Addresses, PSW : PSWs, stack : Seq(Frames),
         queue : [Dev -> INT_OFF..7]]

\* The routines on the stack from the main program up; the last is m itself.
Depth(m)    == Len(m.stack) + 1
Link(m, i)  == IF i <= Len(m.stack) THEN m.stack[i].LR ELSE m.LR
At(m, i)    == IF i <= Len(m.stack) THEN m.stack[i].PC ELSE m.PC
Level(m, i) == IF i <= Len(m.stack) THEN m.stack[i].PSW ELSE m.PSW

Linked(m) ==
  \A i \in 1..Depth(m) :
    IF i = 1 THEN Link(m, i) = MAIN /\ At(m, i) = MAIN
             ELSE Link(m, i) = RETURN /\ At(m, i) # MAIN

Nested(m) ==
  \A i \in 2..Depth(m) :
    /\ Level(m, i).PRIORITY > Level(m, i - 1).PRIORITY
    /\ Level(m, i).prev_PRIORITY = Level(m, i - 1).PRIORITY

Outranked(m) == \A d \in Dev : m.queue[d] <= m.PSW.PRIORITY

-----------------------------------------------------------------------------
\* Last returns an element of its argument: a set of devices has a largest one.
LEMMA LastDevice ==
  ASSUME NEW S \in SUBSET Dev, S # {}
  PROVE  Last(S) \in S
  <1> DEFINE T == {N - d : d \in S}
             R == {p \in Nat \X Nat : p[1] < p[2]}
  <1>1. N \in Nat /\ \A d \in S : d \in Int /\ N - d \in Nat
    BY DeviceAssumption DEF Dev
  <1>2. T \subseteq Nat /\ T # {}
    BY <1>1
  <1>3. IsWellFoundedOn(R, Nat)
    BY NatLessThanWellFounded DEF OpToRel
  <1>4. PICK x \in T : \A y \in T : ~(<<y, x>> \in R)
    <2> HIDE DEF T, R
    <2> QED BY <1>2, <1>3, WFMin
  <1>5. PICK d \in S : x = N - d
    OBVIOUS
  <1>6. \A e \in S : e <= d
    <2>1. SUFFICES ASSUME NEW e \in S
                   PROVE  e <= d
      OBVIOUS
    <2>2. N - e \in T /\ N - e \in Nat /\ x \in Nat
      BY <1>1, <1>2, <2>1
    <2>3. ~(N - e < x)
      BY <1>4, <2>2
    <2> QED
      BY <1>1, <1>5, <2>3
  <1> QED
    BY <1>6 DEF Last

-----------------------------------------------------------------------------
\* Entering a routine pushes one frame, and the new top is the routine.
Entered(m, d) ==
  [m EXCEPT
     !.stack = Append(@, [PC |-> m.PC, PSW |-> m.PSW, LR |-> m.LR]),
     !.PSW = [PRIORITY |-> VectorPriority[d], prev_PRIORITY |-> m.PSW.PRIORITY, SLP |-> 0],
     !.PC = d,
     !.LR = RETURN]

Queued(m, d) == [m EXCEPT !.queue[d] = VectorPriority[d]]

LEMMA Fields ==
  ASSUME NEW m \in Cpus
  PROVE  /\ m.PC \in Addresses /\ m.LR \in Addresses /\ m.PSW \in PSWs
         /\ m.stack \in Seq(Frames) /\ Len(m.stack) \in Nat
         /\ m.queue \in [Dev -> INT_OFF..7]
         /\ m.PSW.PRIORITY \in 0..7 /\ m.PSW.prev_PRIORITY \in 0..7 /\ m.PSW.SLP \in 0..1
  <1>1. /\ m.PC \in Addresses /\ m.LR \in Addresses /\ m.PSW \in PSWs
        /\ m.stack \in Seq(Frames) /\ m.queue \in [Dev -> INT_OFF..7]
    BY DEF Cpus
  <1>2. m.PSW.PRIORITY \in 0..7 /\ m.PSW.prev_PRIORITY \in 0..7 /\ m.PSW.SLP \in 0..1
    BY <1>1 DEF PSWs
  <1> QED
    BY <1>1, <1>2, LenProperties

LEMMA Entering ==
  ASSUME NEW m \in Cpus, NEW d \in Dev
  PROVE  /\ Entered(m, d) \in Cpus
         /\ Linked(m) => Linked(Entered(m, d))
         /\ Nested(m) /\ m.PSW.PRIORITY < VectorPriority[d] => Nested(Entered(m, d))
  <1> DEFINE frame == [PC |-> m.PC, PSW |-> m.PSW, LR |-> m.LR]
             n == Entered(m, d)
  <1>1. frame \in Frames /\ m.stack \in Seq(Frames) /\ Len(m.stack) \in Nat
    BY DEF Cpus, Frames
  <1>2. /\ n.stack = Append(m.stack, frame)
        /\ n.PSW = [PRIORITY |-> VectorPriority[d], prev_PRIORITY |-> m.PSW.PRIORITY, SLP |-> 0]
        /\ n.PC = d /\ n.LR = RETURN /\ n.queue = m.queue
    BY DEF Entered, Cpus
  <1>3. /\ n.stack \in Seq(Frames)
        /\ Len(n.stack) = Len(m.stack) + 1
        /\ \A i \in 1..Len(m.stack) : n.stack[i] = m.stack[i]
        /\ n.stack[Len(m.stack) + 1] = frame
    BY <1>1, <1>2, AppendProperties
  <1>4. n.PSW \in PSWs /\ d \in Addresses /\ RETURN \in Addresses
    BY <1>2, DeviceAssumption, Fields DEF PSWs, Addresses
  <1>5. n \in Cpus
    <2>1. Append(m.stack, frame) \in Seq(Frames)
      BY <1>1, AppendProperties
    <2>2. [PRIORITY |-> VectorPriority[d], prev_PRIORITY |-> m.PSW.PRIORITY, SLP |-> 0] \in PSWs
      BY <1>2, <1>4
    <2> QED
      BY <1>4, <2>1, <2>2 DEF Cpus, Entered
  <1>6. \A i \in 1..Depth(m) : /\ Link(n, i) = Link(m, i)
                               /\ At(n, i) = At(m, i)
                               /\ Level(n, i) = Level(m, i)
    BY <1>1, <1>3 DEF Depth, Link, At, Level
  <1>7. /\ Depth(n) = Depth(m) + 1
        /\ Link(n, Depth(n)) = RETURN /\ At(n, Depth(n)) = d /\ Level(n, Depth(n)) = n.PSW
        /\ Depth(m) \in Nat \ {0}
    BY <1>1, <1>2, <1>3 DEF Depth, Link, At, Level
  <1>8. ASSUME Linked(m)
        PROVE  Linked(n)
    <2>1. d # MAIN
      BY DEF MAIN, Dev
    <2> HIDE DEF n
    <2> QED
      BY <1>6, <1>7, <1>8, <2>1 DEF Linked
  <1>9. ASSUME Nested(m), m.PSW.PRIORITY < VectorPriority[d]
        PROVE  Nested(n)
    <2>1. Level(m, Depth(m)) = m.PSW
      BY <1>1 DEF Level, Depth
    <2>2. VectorPriority[d] \in 0..7 /\ m.PSW.PRIORITY \in 0..7
      BY DeviceAssumption, Fields
    <2>3. n.PSW.PRIORITY > m.PSW.PRIORITY /\ n.PSW.prev_PRIORITY = m.PSW.PRIORITY
      BY <1>2, <1>9, <2>2
    <2> HIDE DEF n
    <2>4. SUFFICES ASSUME NEW i \in 2..Depth(n)
                   PROVE  /\ Level(n, i).PRIORITY > Level(n, i - 1).PRIORITY
                          /\ Level(n, i).prev_PRIORITY = Level(n, i - 1).PRIORITY
      BY DEF Nested
    <2>5. CASE i = Depth(n)
      <3>1. i - 1 = Depth(m) /\ Depth(m) \in 1..Depth(m)
        BY <1>7, <2>5
      <3> QED
        BY <1>6, <1>7, <2>1, <2>3, <2>5, <3>1
    <2>6. CASE i # Depth(n)
      <3>1. i \in 2..Depth(m) /\ i \in 1..Depth(m) /\ i - 1 \in 1..Depth(m)
        BY <1>7, <2>6
      <3> QED
        BY <1>6, <1>9, <3>1 DEF Nested
    <2> QED
      BY <2>5, <2>6
  <1> QED
    BY <1>5, <1>8, <1>9

\* The queue has no part in the invariants.
LEMMA Queueing ==
  ASSUME NEW m \in Cpus, NEW d \in Dev, NEW p \in INT_OFF..7
  PROVE  LET n == [m EXCEPT !.queue[d] = p]
         IN  /\ n \in Cpus
             /\ n.queue = [m.queue EXCEPT ![d] = p]
             /\ n.PC = m.PC /\ n.PSW = m.PSW
             /\ Linked(m) => Linked(n)
             /\ Nested(m) => Nested(n)
  <1> DEFINE n == [m EXCEPT !.queue[d] = p]
  <1>1. /\ n.queue = [m.queue EXCEPT ![d] = p]
        /\ n.PC = m.PC /\ n.LR = m.LR /\ n.PSW = m.PSW /\ n.stack = m.stack
    BY DEF Cpus
  <1>2. [m.queue EXCEPT ![d] = p] \in [Dev -> INT_OFF..7]
    BY Fields
  <1>3. n \in Cpus
    BY <1>2 DEF Cpus
  <1>4. Linked(m) => Linked(n)
    BY <1>1 DEF Linked, Depth, Link, At
  <1>5. Nested(m) => Nested(n)
    BY <1>1 DEF Nested, Depth, Level
  <1> QED
    BY <1>1, <1>3, <1>4, <1>5

\* An interrupt is queued or entered, and is never forgotten.
LEMMA Handling ==
  ASSUME NEW m \in Cpus, NEW d \in Dev
  PROVE  LET n == interrupt_handling_process(m, d)
         IN  /\ n \in Cpus
             /\ Linked(m) => Linked(n)
             /\ Nested(m) => Nested(n)
             /\ Outranked(m) => Outranked(n)
             /\ \A e \in Dev \ {d} : n.queue[e] = m.queue[e]
             /\ n.queue[d] # INT_OFF \/ (n.PC = d /\ n.queue[d] = m.queue[d])
  <1>1. VectorPriority[d] \in 0..7 /\ VectorPriority[d] \in INT_OFF..7 /\ m.PSW.PRIORITY \in Int
    BY DeviceAssumption DEF INT_OFF, Cpus, PSWs
  <1>2. CASE VectorPriority[d] <= m.PSW.PRIORITY
    <2>1. interrupt_handling_process(m, d) = Queued(m, d)
      BY <1>2 DEF interrupt_handling_process, Queued
    <2>2. Queued(m, d).queue = [m.queue EXCEPT ![d] = VectorPriority[d]]
      BY <1>1, Queueing DEF Queued
    <2>3. m.queue \in [Dev -> INT_OFF..7] /\ VectorPriority[d] # INT_OFF
      BY <1>1 DEF Cpus, INT_OFF
    <2>4. /\ Queued(m, d) \in Cpus
          /\ Linked(m) => Linked(Queued(m, d))
          /\ Nested(m) => Nested(Queued(m, d))
          /\ Queued(m, d).PSW = m.PSW
      BY <1>1, Queueing DEF Queued
    <2>5. Outranked(m) => Outranked(Queued(m, d))
      BY <1>2, <2>2, <2>3, <2>4 DEF Outranked
    <2> QED
      BY <2>1, <2>2, <2>3, <2>4, <2>5
  <1>3. CASE ~(VectorPriority[d] <= m.PSW.PRIORITY)
    <2>1. interrupt_handling_process(m, d) = Entered(m, d)
      BY <1>3 DEF interrupt_handling_process, Entered
    <2>2. Entered(m, d).queue = m.queue /\ Entered(m, d).PC = d
      BY DEF Entered, Cpus
    <2>3. m.PSW.PRIORITY < VectorPriority[d]
      BY <1>1, <1>3
    <2>4. Outranked(m) => Outranked(Entered(m, d))
      <3>1. Entered(m, d).PSW.PRIORITY = VectorPriority[d]
        BY DEF Entered, Cpus
      <3>2. \A e \in Dev : m.queue[e] \in Int
        BY Fields DEF INT_OFF
      <3> QED
        BY <1>1, <2>2, <2>3, <3>1, <3>2 DEF Outranked
    <2> QED
      BY <2>1, <2>2, <2>3, <2>4, Entering
  <1> QED
    BY <1>2, <1>3

\* A return pulls a frame: the routine below is the top again.
LEMMA Pulling ==
  ASSUME NEW m \in Cpus, Linked(m), m.PC # MAIN
  PROVE  /\ PullFrame(m) \in Cpus
         /\ Linked(PullFrame(m))
         /\ Nested(m) => Nested(PullFrame(m))
         /\ Nested(m) /\ Waiting(m) = {} => Outranked(PullFrame(m))
         /\ PullFrame(m).queue = m.queue
  <1> DEFINE frame == m.stack[Len(m.stack)]
             n == PullFrame(m)
  <1>1. m.stack \in Seq(Frames) /\ Len(m.stack) \in Nat
    BY Fields
  <1>2. Len(m.stack) > 0
    BY <1>1 DEF Linked, Depth, At
  <1>3. frame \in Frames
    BY <1>1, <1>2, ElementOfSeq
  <1>4. frame.PC \in Addresses /\ frame.LR \in Addresses /\ frame.PSW \in PSWs
    BY <1>3 DEF Frames
  <1>5. /\ SubSeq(m.stack, 1, Len(m.stack) - 1) \in Seq(Frames)
        /\ Len(SubSeq(m.stack, 1, Len(m.stack) - 1)) = Len(m.stack) - 1
        /\ \A i \in 1..(Len(m.stack) - 1) :
             SubSeq(m.stack, 1, Len(m.stack) - 1)[i] = m.stack[i]
    <2>1. \A i \in 1..(Len(m.stack) - 1) : m.stack[i] \in Frames
      BY <1>1, ElementOfSeq
    <2>2. 1 \in Int /\ Len(m.stack) - 1 \in Int
      BY <1>1
    <2>3. /\ SubSeq(m.stack, 1, Len(m.stack) - 1) \in Seq(Frames)
          /\ Len(SubSeq(m.stack, 1, Len(m.stack) - 1))
               = IF 1 <= Len(m.stack) - 1 THEN (Len(m.stack) - 1) - 1 + 1 ELSE 0
          /\ \A i \in 1..((Len(m.stack) - 1) - 1 + 1) :
               SubSeq(m.stack, 1, Len(m.stack) - 1)[i] = m.stack[1 + i - 1]
      BY <2>1, <2>2, SubSeqProperties
    <2> QED
      BY <1>1, <1>2, <2>3
  <1>6. [frame.PSW EXCEPT !.SLP = 0] \in PSWs
    BY <1>4 DEF PSWs
  <1>7. n \in Cpus
    BY <1>4, <1>5, <1>6 DEF Cpus, PullFrame
  <1>8. /\ n.stack = SubSeq(m.stack, 1, Len(m.stack) - 1)
        /\ n.LR = frame.LR /\ n.PC = frame.PC /\ n.queue = m.queue
        /\ n.PSW = [frame.PSW EXCEPT !.SLP = 0]
    BY DEF PullFrame, Cpus
  <1>9. n.PSW.PRIORITY = frame.PSW.PRIORITY /\ n.PSW.prev_PRIORITY = frame.PSW.prev_PRIORITY
    BY <1>4, <1>8 DEF PSWs
  <1> HIDE DEF n, frame
  <1>10. Depth(n) = Len(m.stack) /\ Depth(m) = Depth(n) + 1
    BY <1>1, <1>5, <1>8 DEF Depth
  <1>11. \A i \in 1..Depth(n) :
           /\ Link(n, i) = Link(m, i)
           /\ At(n, i) = At(m, i)
           /\ Level(n, i).PRIORITY = Level(m, i).PRIORITY
           /\ Level(n, i).prev_PRIORITY = Level(m, i).prev_PRIORITY
    <2>1. SUFFICES ASSUME NEW i \in 1..Depth(n)
                   PROVE  /\ Link(n, i) = Link(m, i)
                          /\ At(n, i) = At(m, i)
                          /\ Level(n, i).PRIORITY = Level(m, i).PRIORITY
                          /\ Level(n, i).prev_PRIORITY = Level(m, i).prev_PRIORITY
      OBVIOUS
    <2>2. CASE i = Len(m.stack)
      BY <1>1, <1>2, <1>5, <1>8, <1>9, <2>2 DEF Link, At, Level, frame
    <2>3. CASE i # Len(m.stack)
      BY <1>1, <1>5, <1>8, <1>10, <2>1, <2>3 DEF Link, At, Level
    <2> QED
      BY <2>2, <2>3
  <1>12. Linked(n)
    BY <1>1, <1>10, <1>11 DEF Linked
  <1>13. ASSUME Nested(m)
         PROVE  Nested(n)
    <2>1. SUFFICES ASSUME NEW i \in 2..Depth(n)
                   PROVE  /\ Level(n, i).PRIORITY > Level(n, i - 1).PRIORITY
                          /\ Level(n, i).prev_PRIORITY = Level(n, i - 1).PRIORITY
      BY DEF Nested
    <2>2. i \in 2..Depth(m) /\ i \in 1..Depth(n) /\ i - 1 \in 1..Depth(n)
      BY <1>1, <1>10
    <2> QED
      BY <1>11, <1>13, <2>2 DEF Nested
  <1>14. ASSUME Nested(m), Waiting(m) = {}
         PROVE  Outranked(n)
    <2>1. Depth(m) \in 2..Depth(m) /\ Depth(n) = Depth(m) - 1 /\ Depth(m) > Len(m.stack)
      BY <1>1, <1>2, <1>10 DEF Depth
    <2>2. Level(m, Depth(m)).prev_PRIORITY = Level(m, Depth(m) - 1).PRIORITY
      BY <1>14, <2>1 DEF Nested
    <2>3. Level(m, Depth(m)) = m.PSW /\ Level(m, Depth(m) - 1) = frame.PSW
      BY <1>1, <1>2, <2>1 DEF Level, Depth, frame
    <2>4. n.PSW.PRIORITY = m.PSW.prev_PRIORITY
      BY <1>9, <2>2, <2>3
    <2>5. \A d \in Dev : m.queue[d] \in Int /\ ~(m.queue[d] > m.PSW.prev_PRIORITY)
      BY <1>14, Fields DEF Waiting, INT_OFF
    <2>6. m.PSW.prev_PRIORITY \in Int
      BY Fields
    <2> QED
      BY <1>8, <2>4, <2>5, <2>6 DEF Outranked
  <1> QED
    BY <1>7, <1>8, <1>12, <1>13, <1>14 DEF n

\* Returning keeps the invariants, and enters every routine whose interrupt it
\* takes out of the queue.
LEMMA Returning ==
  ASSUME NEW m \in Cpus, Linked(m), m.PC # MAIN
  PROVE  LET n == interrupt_return_process(m)
         IN  /\ n \in Cpus
             /\ Linked(n)
             /\ Nested(m) => Nested(n)
             /\ Nested(m) /\ Outranked(m) => Outranked(n)
             /\ \A d \in Dev : m.queue[d] # INT_OFF /\ n.queue[d] = INT_OFF => n.PC = d
  <1>1. CASE Waiting(m) = {}
    <2>1. interrupt_return_process(m) = PullFrame(m)
      BY <1>1 DEF interrupt_return_process
    <2> QED
      BY <1>1, <2>1, Pulling
  <1>2. CASE Waiting(m) # {}
    <2> DEFINE d == Last(Waiting(m))
               k == [m EXCEPT !.queue[d] = INT_OFF]
               n == interrupt_handling_process(k, d)
    <2>1. interrupt_return_process(m) = n
      BY <1>2 DEF interrupt_return_process
    <2>2. d \in Dev
      BY <1>2, LastDevice DEF Waiting
    <2>3. INT_OFF \in INT_OFF..7
      BY DEF INT_OFF
    <2> HIDE DEF d
    <2>4. /\ k \in Cpus
          /\ k.queue = [m.queue EXCEPT ![d] = INT_OFF]
          /\ k.PSW = m.PSW
          /\ Linked(k)
          /\ Nested(m) => Nested(k)
      BY <2>2, <2>3, Queueing
    <2> HIDE DEF k
    <2>8. Outranked(m) => Outranked(k)
      <3>1. INT_OFF <= m.PSW.PRIORITY
        BY Fields DEF INT_OFF
      <3> QED
        BY <2>4, <3>1, Fields DEF Outranked
    <2>5. /\ n \in Cpus
          /\ Linked(n)
          /\ Nested(m) => Nested(n)
          /\ Outranked(m) => Outranked(n)
          /\ \A e \in Dev \ {d} : n.queue[e] = k.queue[e]
          /\ n.queue[d] # INT_OFF \/ n.PC = d
      BY <2>2, <2>4, <2>8, Handling
    <2>6. \A e \in Dev \ {d} : k.queue[e] = m.queue[e]
      BY <2>4, Fields
    <2> HIDE DEF n
    <2>7. \A e \in Dev : m.queue[e] # INT_OFF /\ n.queue[e] = INT_OFF => n.PC = e
      BY <2>5, <2>6
    <2> QED
      BY <2>1, <2>5, <2>7
  <1> QED
    BY <1>1, <1>2

\* Moving PC to another place that is not in the main program keeps the
\* invariants, when some routine has been entered.
LEMMA Moving ==
  ASSUME NEW m \in Cpus, NEW a \in Addresses,
         a = m.PC \/ (a # MAIN /\ (m.PC # MAIN \/ m.LR = RETURN))
  PROVE  LET n == [m EXCEPT !.PC = a]
         IN  /\ n \in Cpus
             /\ n.queue = m.queue /\ n.PC = a /\ n.PSW = m.PSW
             /\ Linked(m) => Linked(n)
             /\ Nested(m) => Nested(n)
  <1> DEFINE n == [m EXCEPT !.PC = a]
  <1>1. n \in Cpus
    BY DEF Cpus
  <1>2. /\ n.PC = a /\ n.LR = m.LR /\ n.PSW = m.PSW /\ n.stack = m.stack
        /\ n.queue = m.queue
    BY DEF Cpus
  <1>3. Len(m.stack) \in Nat
    BY Fields
  <1> HIDE DEF n
  <1>4. ASSUME Linked(m)
        PROVE  Linked(n)
    <2>1. CASE a = m.PC
      BY <1>2, <1>4, <2>1 DEF Linked, Depth, Link, At
    <2>2. CASE a # MAIN /\ (m.PC # MAIN \/ m.LR = RETURN)
      <3>1. m.stack = n.stack /\ Len(m.stack) > 0
        BY <1>2, <1>3, <1>4, <2>2 DEF Linked, Depth, Link, At, MAIN, RETURN
      <3> QED
        BY <1>2, <1>3, <1>4, <2>2, <3>1 DEF Linked, Depth, Link, At
    <2> QED
      BY <2>1, <2>2
  <1>5. Nested(m) => Nested(n)
    BY <1>2 DEF Nested, Depth, Level
  <1> QED
    BY <1>1, <1>2, <1>4, <1>5 DEF n

\* Changing PSW leaves the frames alone; leaving the priorities alone too keeps
\* the order of the routines.
LEMMA Flagging ==
  ASSUME NEW m \in Cpus, NEW n \in Cpus,
         n.PC = m.PC, n.LR = m.LR, n.stack = m.stack, n.queue = m.queue
  PROVE  /\ Linked(m) => Linked(n)
         /\ /\ n.PSW.PRIORITY = m.PSW.PRIORITY
            /\ n.PSW.prev_PRIORITY = m.PSW.prev_PRIORITY
            /\ Nested(m)
            => Nested(n)
  <1>1. Linked(m) => Linked(n)
    BY DEF Linked, Depth, Link, At
  <1>2. ASSUME n.PSW.PRIORITY = m.PSW.PRIORITY, n.PSW.prev_PRIORITY = m.PSW.prev_PRIORITY,
               Nested(m)
        PROVE  Nested(n)
    <2>1. Depth(n) = Depth(m)
      BY DEF Depth
    <2>2. \A i \in 1..Depth(m) : /\ Level(n, i).PRIORITY = Level(m, i).PRIORITY
                                 /\ Level(n, i).prev_PRIORITY = Level(m, i).prev_PRIORITY
      BY <1>2 DEF Level
    <2>3. \A i \in 2..Depth(m) : i \in 1..Depth(m) /\ i - 1 \in 1..Depth(m)
      BY Fields DEF Depth
    <2> QED
      BY <1>2, <2>1, <2>2, <2>3 DEF Nested
  <1> QED
    BY <1>1, <1>2

-----------------------------------------------------------------------------
\* What every step owes the invariants and the queue, from m to n.
Keeps(m, n) ==
  /\ n \in Cpus
  /\ Linked(n)
  /\ Priorities = {} /\ Nested(m) => Nested(n)
  /\ Priorities = {} /\ "close_program" \notin Services /\ Nested(m) /\ Outranked(m)
       => Outranked(n)
  /\ \A d \in Dev :
       m.queue[d] # INT_OFF /\ n.queue[d] = INT_OFF => n.PC = d \/ device_init

LEMMA InterruptKeeps ==
  ASSUME cpu \in Cpus, Linked(cpu), NEW d \in Dev, NEW asked \in BOOLEAN,
         cpu' = IF asked THEN interrupt_handling_process(cpu, d) ELSE cpu
  PROVE  Keeps(cpu, cpu')
  <1>1. CASE asked
    <2> DEFINE n == interrupt_handling_process(cpu, d)
    <2>1. /\ n \in Cpus
          /\ Linked(n)
          /\ Nested(cpu) => Nested(n)
          /\ Outranked(cpu) => Outranked(n)
          /\ \A e \in Dev \ {d} : n.queue[e] = cpu.queue[e]
          /\ n.queue[d] # INT_OFF \/ (n.PC = d /\ n.queue[d] = cpu.queue[d])
      BY Handling
    <2>2. cpu' = n
      BY <1>1
    <2> HIDE DEF n
    <2> QED
      BY <2>1, <2>2 DEF Keeps
  <1>2. CASE ~asked
    BY <1>2 DEF Keeps
  <1> QED
    BY <1>1, <1>2

LEMMA CpuStep ==
  ASSUME TypeOK, Linked(cpu), [Next]_vars
  PROVE  Keeps(cpu, cpu')
  <1>0. cpu \in Cpus
    BY DEF TypeOK, Cpus, Frames
  <1>1. ASSUME cpu' = cpu
        PROVE  Keeps(cpu, cpu')
    BY <1>0, <1>1 DEF Keeps
  <1>2. CASE fetch_returns
    <2> DEFINE m == interrupt_return_process(cpu)
               a == IF m.PC = RETURN THEN ODD ELSE m.PC
               n == [m EXCEPT !.PC = a]
    <2>1. cpu.PC = RETURN /\ cpu' = n
      BY <1>2 DEF fetch_returns
    <2>2. cpu.PC # MAIN
      BY <2>1 DEF MAIN, RETURN
    <2>3. /\ m \in Cpus
          /\ Linked(m)
          /\ Nested(cpu) => Nested(m)
          /\ Nested(cpu) /\ Outranked(cpu) => Outranked(m)
          /\ \A d \in Dev : cpu.queue[d] # INT_OFF /\ m.queue[d] = INT_OFF => m.PC = d
      BY <1>0, <2>2, Returning
    <2> HIDE DEF m
    <2>4. a \in Addresses /\ (a = m.PC \/ (a # MAIN /\ (m.PC # MAIN \/ m.LR = RETURN)))
      BY <2>3, Fields DEF Addresses, MAIN, RETURN, ODD
    <2>5. /\ n \in Cpus
          /\ n.queue = m.queue /\ n.PC = a /\ n.PSW = m.PSW
          /\ Linked(n)
          /\ Nested(m) => Nested(n)
      <3> HIDE DEF a
      <3> QED
        BY <2>3, <2>4, Moving
    <2>6. \A d \in Dev : m.PC = d => a = d
      BY DEF Dev, RETURN
    <2>7. Outranked(m) => Outranked(n)
      BY <2>5 DEF Outranked
    <2> HIDE DEF n, a
    <2> QED
      BY <2>1, <2>3, <2>5, <2>6, <2>7 DEF Keeps
  <1>3. CASE return
    <2>1. cpu.LR = RETURN /\ cpu' = [cpu EXCEPT !.PC = RETURN]
      BY <1>3 DEF return
    <2>2. RETURN \in Addresses /\ RETURN # MAIN
      BY DEF Addresses, RETURN, MAIN
    <2> QED
      BY <1>0, <2>1, <2>2, Moving DEF Keeps, Outranked
  <1>4. ASSUME NEW n \in Cpus, n.PC = cpu.PC, n.LR = cpu.LR, n.stack = cpu.stack,
               n.queue = cpu.queue, cpu' = n,
               \/ /\ n.PSW.PRIORITY = cpu.PSW.PRIORITY
                  /\ n.PSW.prev_PRIORITY = cpu.PSW.prev_PRIORITY
               \/ Priorities # {}
        PROVE  Keeps(cpu, cpu')
    BY <1>0, <1>4, Flagging DEF Keeps, Outranked
  <1>5. CASE sleep
    <2> DEFINE n == [cpu EXCEPT !.PSW.SLP = 1]
    <2>1. cpu' = n
      BY <1>5 DEF sleep
    <2>2. [cpu.PSW EXCEPT !.SLP = 1] \in PSWs
      BY <1>0, Fields DEF PSWs
    <2>3. n \in Cpus
      BY <1>0, <2>2 DEF Cpus
    <2>4. /\ n.PC = cpu.PC /\ n.LR = cpu.LR /\ n.stack = cpu.stack /\ n.queue = cpu.queue
          /\ n.PSW = [cpu.PSW EXCEPT !.SLP = 1]
      BY <1>0 DEF Cpus
    <2>5. n.PSW.PRIORITY = cpu.PSW.PRIORITY /\ n.PSW.prev_PRIORITY = cpu.PSW.prev_PRIORITY
      BY <1>0, <2>4, Fields DEF PSWs
    <2> HIDE DEF n
    <2> QED
      BY <1>4, <2>1, <2>3, <2>4, <2>5
  <1>6. ASSUME NEW p \in Priorities, set_priority(p)
        PROVE  Keeps(cpu, cpu')
    <2> DEFINE n == [cpu EXCEPT !.PSW.PRIORITY = p]
    <2>1. cpu' = n
      BY <1>6 DEF set_priority
    <2>2. p \in 0..7 /\ [cpu.PSW EXCEPT !.PRIORITY = p] \in PSWs
      BY <1>0, <1>6, Fields, DeviceAssumption DEF PSWs
    <2>3. n \in Cpus
      BY <1>0, <2>2 DEF Cpus
    <2>4. n.PC = cpu.PC /\ n.LR = cpu.LR /\ n.stack = cpu.stack /\ n.queue = cpu.queue
      BY <1>0 DEF Cpus
    <2>5. Priorities # {}
      BY <1>6
    <2> HIDE DEF n
    <2> QED
      BY <1>4, <2>1, <2>3, <2>4, <2>5
  <1>7. CASE input_device_data_process
    <2>1. input_dev_queue.dev \in Dev
      BY DEF TypeOK
    <2>2. CASE port[input_dev_queue.dev].I_O = INPUT
      <3>1. Interrupt(input_dev_queue.dev, port[input_dev_queue.dev].IE)
        BY <1>7, <2>2 DEF input_device_data_process
      <3> DEFINE asked == port[input_dev_queue.dev].IE = 1
      <3>2. cpu' = IF asked THEN interrupt_handling_process(cpu, input_dev_queue.dev) ELSE cpu
        BY <3>1 DEF Interrupt
      <3>3. asked \in BOOLEAN
        OBVIOUS
      <3> HIDE DEF asked
      <3> QED
        BY <1>0, <2>1, <3>2, <3>3, InterruptKeeps
    <2>3. CASE port[input_dev_queue.dev].I_O # INPUT
      <3>1. cpu' = cpu
        BY <1>7, <2>3 DEF input_device_data_process
      <3> QED
        BY <1>1, <3>1
    <2> QED
      BY <2>2, <2>3
  <1>8. CASE output_device_data_process
    <2> DEFINE asked == time_left[stage] - run_clk <= 0 /\ port[stage].IE = 1
    <2>1. stage \in Dev /\ cpu' = IF asked THEN interrupt_handling_process(cpu, stage) ELSE cpu
      BY <1>8 DEF output_device_data_process
    <2>2. asked \in BOOLEAN
      OBVIOUS
    <2> HIDE DEF asked
    <2> QED
      BY <1>0, <2>1, <2>2, InterruptKeeps
  <1>9. CASE device_init
    <2> DEFINE q == [d \in Dev |-> INT_OFF]
               n == [cpu EXCEPT !.queue = q]
    <2>1. cpu' = n
      BY <1>9 DEF device_init
    <2>2. q \in [Dev -> INT_OFF..7]
      BY DEF INT_OFF
    <2> HIDE DEF q
    <2>3. /\ n \in Cpus
          /\ n.PC = cpu.PC /\ n.LR = cpu.LR /\ n.stack = cpu.stack /\ n.PSW = cpu.PSW
          /\ n.queue = q
      BY <1>0, <2>2 DEF Cpus
    <2> HIDE DEF n
    <2>4. Linked(n) /\ (Nested(cpu) => Nested(n))
      BY <2>3 DEF Linked, Nested, Depth, Link, At, Level
    <2>5. Outranked(n)
      <3>1. \A d \in Dev : q[d] = INT_OFF
        BY DEF q
      <3>2. INT_OFF <= cpu.PSW.PRIORITY
        BY <1>0, Fields DEF INT_OFF
      <3> QED
        BY <2>3, <3>1, <3>2 DEF Outranked
    <2> QED
      BY <1>9, <2>1, <2>3, <2>4, <2>5 DEF Keeps
  <1>10. CASE asleep \/ fetch \/ fetch_fails \/ compute
    BY <1>1, <1>10 DEF asleep, fetch, fetch_fails, compute
  <1>11. ASSUME NEW d \in Dev, poll(d) \/ write(d) \/ \E byte \in Controls[d] : control(d, byte)
         PROVE  Keeps(cpu, cpu')
    BY <1>1, <1>11 DEF poll, write, control
  <1>12. CASE read_record \/ inputs_done \/ output_idle \/ edited
    BY <1>1, <1>12 DEF read_record, inputs_done, output_idle, edited, change_mem_content
  <1>13. CASE UNCHANGED vars
    BY <1>1, <1>13 DEF vars
  <1>14. CASE close_program
    <2> DEFINE psw == [PRIORITY |-> 0, prev_PRIORITY |-> 0, SLP |-> 0]
               n == [cpu EXCEPT !.PC = MAIN, !.LR = MAIN, !.stack = << >>, !.PSW = psw]
    <2>1. cpu' = n /\ "close_program" \in Services
      BY <1>14 DEF close_program
    <2>2. psw \in PSWs /\ MAIN \in Addresses /\ << >> \in Seq(Frames) /\ Len(<< >>) = 0
      BY EmptySeq DEF PSWs, Addresses
    <2> HIDE DEF psw
    <2>3. /\ n \in Cpus
          /\ n.PC = MAIN /\ n.LR = MAIN /\ n.stack = << >> /\ n.queue = cpu.queue
      BY <1>0, <2>2 DEF Cpus
    <2> HIDE DEF n
    <2>4. Depth(n) = 1
      BY <2>2, <2>3 DEF Depth
    <2>5. Linked(n) /\ Nested(n)
      BY <2>2, <2>3, <2>4 DEF Linked, Nested, Link, At
    <2> QED
      BY <2>1, <2>3, <2>5 DEF Keeps
  <1> QED
    BY <1>2, <1>3, <1>5, <1>6, <1>7, <1>8, <1>9, <1>10, <1>11, <1>12, <1>13, <1>14
       DEF Next, CPU_cycle, device_management

-----------------------------------------------------------------------------
(***************************************************************************)
(* The types of the rest of the state.                                     *)
(***************************************************************************)

RestOK ==
  /\ stage \in FETCH..(N - 1)
  /\ port \in [Dev -> ControlByte]
  /\ time_left \in [Dev -> Int]
  /\ \A d \in Dev : time_left[d] <= ProcTime[d]
  /\ input_dev_queue \in [data_avail : 0..1, clk : 0..MaxClk, dev : Dev]
  /\ position \in 0..Len(Records)
  /\ input_file_EOF \in 0..1
  /\ sys_clk \in 0..MaxClk
  /\ run_clk \in Nat

\* The ticks are never negative, and the system clock stays below its bound.
LEMMA Ticking ==
  ASSUME RestOK, NEW n \in Nat
  PROVE  /\ Tick(n) => sys_clk' \in 0..MaxClk /\ run_clk' \in Nat
         /\ (IF sys_clk + n < MaxClk THEN sys_clk + n ELSE MaxClk) \in 0..MaxClk
         /\ run_clk + n \in Nat
  BY DeviceAssumption DEF RestOK, Tick

LEMMA FrameTicking ==
  ASSUME NEW m, NEW n
  PROVE  FrameTicks(m, n) \in Nat
  BY DEF FrameTicks, MEMORY_ACCESS_CLK_INC

\* Changes of one port, and of the time left of one device.
LEMMA StatusType ==
  ASSUME NEW p \in [Dev -> ControlByte], NEW d \in Dev, NEW v \in 0..1, NEW b \in 0..1
  PROVE  [p EXCEPT ![d].OV = v, ![d].DBA = b] \in [Dev -> ControlByte]
  BY DEF ControlByte

LEMMA ControlType ==
  ASSUME NEW p \in [Dev -> ControlByte], NEW d \in Dev, NEW byte \in Controls[d]
  PROVE  /\ byte \in ControlByte /\ StartOutput(byte) \in ControlByte
         /\ [p EXCEPT ![d] = byte] \in [Dev -> ControlByte]
         /\ [p EXCEPT ![d] = StartOutput(byte)] \in [Dev -> ControlByte]
  <1>1. byte \in ControlByte
    BY DeviceAssumption
  <1>2. StartOutput(byte) \in ControlByte
    BY <1>1 DEF StartOutput, ControlByte
  <1> QED
    BY <1>1, <1>2

LEMMA TimeType ==
  ASSUME NEW t \in [Dev -> Int], \A d \in Dev : t[d] <= ProcTime[d],
         NEW d \in Dev, NEW n \in Int, n <= ProcTime[d]
  PROVE  /\ [t EXCEPT ![d] = n] \in [Dev -> Int]
         /\ \A e \in Dev : [t EXCEPT ![d] = n][e] <= ProcTime[e]
  OBVIOUS

LEMMA StageType ==
  ASSUME RestOK
  PROVE  /\ FETCH \in FETCH..(N - 1) /\ EXECUTE \in FETCH..(N - 1)
         /\ INPUTS \in FETCH..(N - 1) /\ INPUTS + 1 \in FETCH..(N - 1)
         /\ stage \in Dev => NextStage \in FETCH..(N - 1)
  BY DeviceAssumption DEF RestOK, FETCH, EXECUTE, INPUTS, Dev, NextStage

LEMMA CycleType ==
  ASSUME RestOK, CPU_cycle
  PROVE  RestOK'
  <1>0. port \in [Dev -> ControlByte]
    BY DEF RestOK
  <1> USE DEF NORMAL_OP_CLK_INC, MEMORY_ACCESS_CLK_INC
  <1>1. CASE asleep
    BY <1>1, StageType DEF asleep, RestOK, devices, file, clocks
  <1>2. CASE fetch
    <2>1. 4 \in Nat /\ Tick(4) /\ stage' = EXECUTE /\ UNCHANGED <<cpu, devices, file>>
      BY <1>2 DEF fetch
    <2>2. sys_clk' \in 0..MaxClk /\ run_clk' \in Nat
      BY <2>1, Ticking
    <2> QED
      BY <2>1, <2>2, StageType DEF RestOK, devices, file
  <1>3. CASE fetch_fails
    BY <1>3, StageType, Ticking DEF fetch_fails, RestOK, devices, file
  <1>4. CASE fetch_returns
    <2> DEFINE m == interrupt_return_process(cpu)
               n == FrameTicks(cpu, m) + MEMORY_ACCESS_CLK_INC + NORMAL_OP_CLK_INC
    <2>1. Tick(n) /\ stage' = EXECUTE /\ UNCHANGED <<time_left, file>>
      BY <1>4 DEF fetch_returns
    <2>2. n \in Nat
      BY FrameTicking
    <2>3. port' \in [Dev -> ControlByte]
      <3>1. \/ port' = port
            \/ \E d \in Dev : port' = [port EXCEPT ![d].DBA = 0]
        BY <1>4 DEF fetch_returns
      <3>2. \A d \in Dev : [port EXCEPT ![d].DBA = 0] \in [Dev -> ControlByte]
        BY <1>0 DEF ControlByte
      <3> QED
        BY <3>1, <3>2 DEF RestOK
    <2> HIDE DEF n
    <2>4. sys_clk' \in 0..MaxClk /\ run_clk' \in Nat
      BY <2>1, <2>2, Ticking
    <2> QED
      BY <2>1, <2>3, <2>4, StageType DEF RestOK, file
  <1>5. ASSUME NEW n \in Nat, Execute(n)
        PROVE  stage' \in FETCH..(N - 1) /\ sys_clk' \in 0..MaxClk /\ run_clk' \in Nat
    BY <1>5, StageType, Ticking DEF Execute
  <1>6. CASE compute
    BY <1>5, <1>6 DEF compute, RestOK, devices, file
  <1>7. CASE return
    BY <1>5, <1>7 DEF return, RestOK, devices, file
  <1>8. CASE sleep
    BY <1>5, <1>8 DEF sleep, RestOK, devices, file
  <1>9. ASSUME NEW d \in Dev, poll(d)
        PROVE  RestOK'
    <2>1. [port EXCEPT ![d].DBA = 0] \in [Dev -> ControlByte]
      BY <1>0 DEF ControlByte
    <2>2. port' \in [Dev -> ControlByte]
      BY <1>9, <2>1 DEF poll, RestOK
    <2> QED
      BY <1>5, <1>9, <2>2 DEF poll, RestOK, file
  <1>10. ASSUME NEW d \in Dev, write(d)
         PROVE  RestOK'
    <2>1. Execute(1) /\ UNCHANGED file
      BY <1>10 DEF write
    <2>2. CASE port[d].I_O = OUTPUT
      <3>1. port' = [port EXCEPT ![d].DBA = 0] /\ time_left' = [time_left EXCEPT ![d] = ProcTime[d]]
        BY <1>10, <2>2 DEF write, StartOutput
      <3>2. port' \in [Dev -> ControlByte]
        BY <1>0, <3>1 DEF ControlByte
      <3>3. ProcTime[d] \in Int /\ ProcTime[d] <= ProcTime[d]
        BY DeviceAssumption
      <3>4. time_left' \in [Dev -> Int] /\ \A e \in Dev : time_left'[e] <= ProcTime[e]
        BY <3>1, <3>3, TimeType DEF RestOK
      <3> QED
        BY <1>5, <2>1, <3>2, <3>4 DEF RestOK, file
    <2>3. CASE port[d].I_O # OUTPUT
      BY <1>5, <1>10, <2>1, <2>3 DEF write, RestOK, file, devices
    <2> QED
      BY <2>2, <2>3
  <1>11. ASSUME NEW d \in Dev, NEW byte \in Controls[d], control(d, byte)
         PROVE  RestOK'
    <2>1. port' \in [Dev -> ControlByte]
      BY <1>0, <1>11, ControlType DEF control
    <2>2. ProcTime[d] \in Int /\ ProcTime[d] <= ProcTime[d]
      BY DeviceAssumption
    <2>3. time_left' \in [Dev -> Int] /\ \A e \in Dev : time_left'[e] <= ProcTime[e]
      BY <1>11, <2>2, TimeType DEF control, RestOK
    <2> QED
      BY <1>5, <1>11, <2>1, <2>3 DEF control, RestOK, file
  <1>12. ASSUME NEW p \in Priorities, set_priority(p)
         PROVE  RestOK'
    BY <1>5, <1>12 DEF set_priority, RestOK, devices, file
  <1> QED
    BY <1>1, <1>2, <1>3, <1>4, <1>6, <1>7, <1>8, <1>9, <1>10, <1>11, <1>12 DEF CPU_cycle

LEMMA ManagementType ==
  ASSUME RestOK, device_management \/ device_init \/ close_program \/ edited
  PROVE  RestOK'
  <1>0. port \in [Dev -> ControlByte]
    BY DEF RestOK
  <1>1. CASE input_device_data_process
    <2> DEFINE d == input_dev_queue.dev
    <2>1. d \in Dev
      BY DEF RestOK
    <2>2. input_dev_queue' \in [data_avail : 0..1, clk : 0..MaxClk, dev : Dev]
      BY <1>1 DEF input_device_data_process, RestOK
    <2>3. port' \in [Dev -> ControlByte] /\ sys_clk' \in 0..MaxClk /\ run_clk' \in Nat
      <3>1. CASE port[d].I_O = INPUT
        <4>1. /\ port' = [port EXCEPT ![d].DBA = 1,
                                      ![d].OV = IF port[d].DBA = 0 THEN @ ELSE 1]
              /\ Interrupt(d, port[d].IE)
          BY <1>1, <3>1 DEF input_device_data_process
        <4>2. port' = [port EXCEPT ![d].DBA = 1,
                                   ![d].OV = IF port[d].DBA = 0 THEN port[d].OV ELSE 1]
          BY <2>1, <4>1 DEF RestOK, ControlByte
        <4>3. (IF port[d].DBA = 0 THEN port[d].OV ELSE 1) \in 0..1
          BY <1>0, <2>1 DEF ControlByte
        <4>4. port' \in [Dev -> ControlByte]
          BY <1>0, <2>1, <4>2, <4>3 DEF ControlByte
        <4>5. sys_clk' \in 0..MaxClk /\ run_clk' \in Nat
          BY <4>1, FrameTicking, Ticking DEF Interrupt
        <4> QED
          BY <4>4, <4>5
      <3>2. CASE port[d].I_O # INPUT
        BY <1>1, <3>2 DEF input_device_data_process, RestOK, clocks
      <3> QED
        BY <3>1, <3>2
    <2> QED
      BY <1>1, <2>2, <2>3 DEF input_device_data_process, RestOK
  <1>2. CASE read_record
    <2>1. Records \in Seq([clk : 0..MaxClk, dev : Dev]) /\ Len(Records) \in Nat
      BY DeviceAssumption, LenProperties
    <2>2. CASE position < Len(Records)
      <3>1. position + 1 \in 1..Len(Records) /\ position + 1 \in 0..Len(Records)
        BY <2>1, <2>2 DEF RestOK
      <3>2. Records[position + 1] \in [clk : 0..MaxClk, dev : Dev]
        BY <2>1, <3>1, ElementOfSeq
      <3> QED
        BY <1>2, <2>2, <3>1, <3>2 DEF read_record, RestOK, devices, clocks
    <2>3. CASE ~(position < Len(Records))
      <3>1. input_dev_queue' \in [data_avail : 0..1, clk : 0..MaxClk, dev : Dev]
        BY <1>2, <2>3 DEF read_record, RestOK
      <3> QED
        BY <1>2, <2>3, <3>1 DEF read_record, RestOK, devices, clocks
    <2> QED
      BY <2>2, <2>3
  <1>3. CASE inputs_done
    BY <1>3, StageType DEF inputs_done, RestOK, devices, file, clocks
  <1>4. CASE output_device_data_process
    <2> DEFINE done == time_left[stage] - run_clk <= 0
               m    == IF done /\ port[stage].IE = 1
                       THEN interrupt_handling_process(cpu, stage) ELSE cpu
    <2>1. /\ stage \in Dev
          /\ time_left' = [time_left EXCEPT ![stage] = @ - run_clk]
          /\ port' = [port EXCEPT ![stage].OV = 0, ![stage].DBA = IF done THEN 1 ELSE @]
          /\ sys_clk' = IF sys_clk + FrameTicks(cpu, m) < MaxClk
                        THEN sys_clk + FrameTicks(cpu, m) ELSE MaxClk
          /\ run_clk' = IF stage = N - 1 THEN 0 ELSE run_clk + FrameTicks(cpu, m)
          /\ stage' = NextStage
          /\ UNCHANGED file
      BY <1>4 DEF output_device_data_process
    <2>2. port' = [port EXCEPT ![stage].OV = 0,
                               ![stage].DBA = IF done THEN 1 ELSE port[stage].DBA]
      BY <2>1 DEF RestOK, ControlByte
    <2>3. (IF done THEN 1 ELSE port[stage].DBA) \in 0..1
      BY <1>0, <2>1 DEF ControlByte
    <2>4. port' \in [Dev -> ControlByte]
      <3> DEFINE b == IF done THEN 1 ELSE port[stage].DBA
      <3>1. stage \in Dev /\ b \in 0..1
        BY <2>1, <2>3
      <3>2. port' = [port EXCEPT ![stage].OV = 0, ![stage].DBA = b]
        BY <2>2
      <3> HIDE DEF b
      <3>3. 0 \in 0..1
        OBVIOUS
      <3>4. [port EXCEPT ![stage].OV = 0, ![stage].DBA = b] \in [Dev -> ControlByte]
        BY <1>0, <3>1, <3>3, StatusType, Zenon
      <3> QED
        BY <3>2, <3>4
    <2>5. FrameTicks(cpu, m) \in Nat
      BY FrameTicking
    <2>6. sys_clk' \in 0..MaxClk /\ run_clk' \in Nat
      <3> HIDE DEF m
      <3> QED
        BY <2>1, <2>5, Ticking
    <2>7. time_left' \in [Dev -> Int] /\ \A d \in Dev : time_left'[d] <= ProcTime[d]
      <3>1. /\ time_left \in [Dev -> Int] /\ run_clk \in Nat
            /\ time_left[stage] \in Int /\ time_left[stage] <= ProcTime[stage]
        BY <2>1 DEF RestOK
      <3>0. ProcTime[stage] \in Int
        BY <2>1, DeviceAssumption
      <3>2. time_left[stage] - run_clk \in Int /\ time_left[stage] - run_clk <= ProcTime[stage]
        BY <3>0, <3>1
      <3> QED
        BY <2>1, <3>1, <3>2, TimeType DEF RestOK
    <2> QED
      BY <2>1, <2>4, <2>6, <2>7, StageType DEF RestOK, file
  <1>5. CASE output_idle
    BY <1>5, StageType DEF output_idle, RestOK, devices, file
  <1>6. CASE device_init
    <2>1. \A d \in Dev : [port[d] EXCEPT !.I_O = Kind[d]] \in ControlByte
      <3>1. \A d \in Dev : Kind[d] \in {OUTPUT, INPUT}
        BY DeviceAssumption
      <3> QED
        BY <1>0, <3>1 DEF ControlByte
    <2>2. port' \in [Dev -> ControlByte]
      BY <1>6, <2>1 DEF device_init
    <2>3. input_dev_queue' \in [data_avail : 0..1, clk : 0..MaxClk, dev : Dev]
      <3>1. /\ input_dev_queue \in [data_avail : 0..1, clk : 0..MaxClk, dev : Dev]
            /\ input_dev_queue' = [input_dev_queue EXCEPT !.data_avail = 0]
        BY <1>6 DEF device_init, RestOK
      <3> QED
        BY <3>1
    <2>4. 0 \in 0..Len(Records)
      BY DeviceAssumption, LenProperties
    <2> QED
      BY <1>6, <2>2, <2>3, <2>4 DEF device_init, RestOK, clocks
  <1>7. CASE close_program
    <2>1. port' \in [Dev -> ControlByte]
      BY <1>7, DeviceAssumption DEF close_program
    <2>2. 0 \in 0..MaxClk
      BY DeviceAssumption
    <2> QED
      BY <1>7, <2>1, <2>2 DEF close_program, RestOK, file
  <1>8. CASE edited
    <2>1. PICK d \in Dev, byte \in Images : change_mem_content(d, byte)
      BY <1>8 DEF edited
    <2>2. port' \in [Dev -> ControlByte]
      BY <1>0, <2>1, DeviceAssumption DEF change_mem_content
    <2> QED
      BY <2>1, <2>2 DEF change_mem_content, RestOK, file, clocks
  <1> QED
    BY <1>1, <1>2, <1>3, <1>4, <1>5, <1>6, <1>7, <1>8 DEF device_management

-----------------------------------------------------------------------------
(***************************************************************************)
(* The theorems.                                                           *)
(***************************************************************************)

\* The two invariants need each other: only a processor whose frames are a stack
\* pulls a frame that is there, and only typed frames stay a stack.
Invariant == RestOK /\ cpu \in Cpus /\ Linked(cpu)

LEMMA InvariantParts ==
  /\ Invariant => TypeOK /\ StackDiscipline
  /\ TypeOK /\ StackDiscipline => Invariant
  BY DEF Invariant, RestOK, ControlByte, Cpus, Frames, TypeOK, StackDiscipline, Linked, Depth, Link, At

LEMMA InvariantInit ==
  ASSUME Init
  PROVE  Invariant /\ Nested(cpu)
  <1>1. port \in [Dev -> ControlByte]
    <2>1. PICK image \in [Dev -> Images] :
            port = [d \in Dev |-> [image[d] EXCEPT !.I_O = Kind[d]]]
      BY DEF Init
    <2>2. \A d \in Dev : image[d] \in ControlByte /\ Kind[d] \in {OUTPUT, INPUT}
      BY DeviceAssumption
    <2> QED
      BY <2>1, <2>2 DEF ControlByte
  <1>2. /\ 0 \in 0..MaxClk /\ 0 \in 0..Len(Records) /\ 0 \in Dev /\ FETCH \in FETCH..(N - 1)
        /\ \A d \in Dev : 0 <= ProcTime[d]
    BY DeviceAssumption, LenProperties DEF Dev, FETCH
  <1>3. RestOK
    BY <1>1, <1>2 DEF Init, RestOK
  <1>4. cpu \in Cpus
    BY EmptySeq DEF Init, Cpus, PSWs, Addresses, INT_OFF
  <1>5. Depth(cpu) = 1 /\ cpu.PC = MAIN /\ cpu.LR = MAIN /\ Len(cpu.stack) = 0
    BY DEF Init, Depth
  <1>6. Linked(cpu) /\ Nested(cpu)
    BY <1>5 DEF Linked, Nested, Link, At
  <1> QED
    BY <1>3, <1>4, <1>6 DEF Invariant

LEMMA InvariantStep ==
  ASSUME Invariant, [Next]_vars
  PROVE  Invariant' /\ Keeps(cpu, cpu')
  <1>1. Keeps(cpu, cpu')
    BY InvariantParts, CpuStep DEF Invariant
  <1>2. RestOK'
    <2>1. CASE UNCHANGED vars
      BY <2>1 DEF vars, Invariant, RestOK
    <2> QED
      BY <2>1, CycleType, ManagementType DEF Next, Invariant
  <1> QED
    BY <1>1, <1>2 DEF Invariant, Keeps

\* The inductive invariant: types, and the frames of interrupt_handling_process
\* and interrupt_return_process as a stack.
THEOREM InvariantHolds == Spec => []Invariant
  <1>1. Init => Invariant
    BY InvariantInit
  <1>2. Invariant /\ [Next]_vars => Invariant'
    BY InvariantStep
  <1> QED
    BY <1>1, <1>2, PTL DEF Spec

\* Registers, ports, the queue and the clocks keep their types, and no device has
\* more time left than its processing time (CPU_operations.cpp, Device_Handling.cpp).
THEOREM TypeCorrect == Spec => []TypeOK
  <1>1. Invariant => TypeOK
    BY InvariantParts
  <1> QED
    BY <1>1, InvariantHolds, PTL

\* The interrupt frames are a stack on top of the main program, whatever devices,
\* routines, queued interrupts and returns do (interrupt_handling_process,
\* interrupt_return_process).
THEOREM StackCorrect == Spec => []StackDiscipline
  <1>1. Invariant => StackDiscipline
    BY InvariantParts
  <1> QED
    BY <1>1, InvariantHolds, PTL

\* For programs that leave PRIORITY alone, only a lower priority is interrupted,
\* and prev_PRIORITY agrees with the PSW on the stack (interrupt_handling_process).
THEOREM NestingCorrect ==
  ASSUME Priorities = {}
  PROVE  Spec => []NestingOrder
  <1>1. Nested(cpu) => NestingOrder
    BY DEF Nested, NestingOrder, Depth, Level
  <1>2. Init => Nested(cpu)
    BY InvariantInit
  <1>3. Invariant /\ Nested(cpu) /\ [Next]_vars => Nested(cpu)'
    BY InvariantStep DEF Keeps
  <1> QED
    BY <1>1, <1>2, <1>3, InvariantHolds, PTL DEF Spec

\* For programs that leave PRIORITY alone and are not closed, what waits in the
\* queue does not outrank what runs: the comparison with prev_PRIORITY in
\* interrupt_return_process lets no routine end while it does.
THEOREM QueueOutrankedCorrect ==
  ASSUME Priorities = {}, "close_program" \notin Services
  PROVE  Spec => []QueueOutranked
  <1>1. Outranked(cpu) => QueueOutranked
    BY DEF Outranked, QueueOutranked
  <1>2. Init => Nested(cpu) /\ Outranked(cpu)
    <2>1. Init => Outranked(cpu)
      BY DEF Init, Outranked, INT_OFF
    <2> QED
      BY <2>1, InvariantInit
  <1>3. Invariant /\ Nested(cpu) /\ Outranked(cpu) /\ [Next]_vars
          => Nested(cpu)' /\ Outranked(cpu)'
    BY InvariantStep DEF Keeps
  <1> QED
    BY <1>1, <1>2, <1>3, InvariantHolds, PTL DEF Spec

-----------------------------------------------------------------------------
\* What a step may do to a port, as long as the user does not change it.  An OUTPUT
\* port is announced as finished only at the end of a transfer; and a port turns
\* only to the direction that the device file or a control byte gives it.
Follows(d) ==
  /\ port[d].I_O = OUTPUT =>
       \/ port'[d].DBA = 0 \/ time_left'[d] <= 0
       \/ port'[d].DBA = port[d].DBA /\ time_left'[d] <= time_left[d]
  /\ \/ port'[d].I_O \in {port[d].I_O, Kind[d]}
     \/ \E byte \in Controls[d] : port'[d].I_O = byte.I_O

\* One port changes, and no other: what is left to say is what becomes of it.
LEMMA OnePort ==
  ASSUME RestOK, NEW d \in Dev, NEW e \in Dev, NEW x, NEW t,
         port' = [port EXCEPT ![e] = x], time_left' = [time_left EXCEPT ![e] = t]
  PROVE  /\ d # e => Follows(d)
         /\ d = e => port'[d] = x /\ time_left'[d] = t
  <1>1. port \in [Dev -> ControlByte] /\ time_left \in [Dev -> Int]
    BY DEF RestOK
  <1>2. d # e => port'[d] = port[d] /\ time_left'[d] = time_left[d] /\ time_left[d] \in Int
    BY <1>1
  <1> QED
    BY <1>1, <1>2 DEF Follows

\* The changes that keep the time left.
LEMMA SamePort ==
  ASSUME RestOK, NEW d \in Dev, UNCHANGED devices
  PROVE  Follows(d)
  <1>1. port'[d] = port[d] /\ time_left'[d] = time_left[d] /\ time_left[d] \in Int
    BY DEF RestOK, devices
  <1> QED
    BY <1>1 DEF Follows

LEMMA ClearedPort ==
  ASSUME RestOK, NEW d \in Dev, NEW e \in Dev,
         port' = [port EXCEPT ![e].DBA = 0], UNCHANGED time_left
  PROVE  Follows(d)
  <1>1. port \in [Dev -> ControlByte] /\ time_left[d] \in Int
    BY DEF RestOK
  <1>2. port'[d].I_O = port[d].I_O /\ port'[d].DBA \in {0, port[d].DBA}
    BY <1>1 DEF ControlByte
  <1> QED
    BY <1>1, <1>2 DEF Follows

LEMMA PortStep ==
  ASSUME RestOK, [Next]_vars, NEW d \in Dev
  PROVE  Follows(d) \/ close_program \/ edited
  <1>0. /\ port \in [Dev -> ControlByte] /\ time_left \in [Dev -> Int]
        /\ run_clk \in Nat /\ OUTPUT # INPUT
    BY DEF RestOK, OUTPUT, INPUT
  <1>1. CASE fetch_returns
    BY <1>1, SamePort, ClearedPort DEF fetch_returns, devices
  <1>2. ASSUME NEW e \in Dev, poll(e)
        PROVE  Follows(d)
    BY <1>2, SamePort, ClearedPort DEF poll, devices
  <1>3. ASSUME NEW e \in Dev, write(e)
        PROVE  Follows(d)
    <2>1. CASE port[e].I_O = OUTPUT
      <3> DEFINE x == [port[e] EXCEPT !.DBA = 0]
      <3>1. port' = [port EXCEPT ![e] = x] /\ time_left' = [time_left EXCEPT ![e] = ProcTime[e]]
        BY <1>3, <2>1 DEF write, StartOutput
      <3>2. x.DBA = 0 /\ x.I_O = port[e].I_O
        BY <1>0 DEF ControlByte
      <3> HIDE DEF x
      <3>3. d = e => port'[d] = x
        BY <3>1, OnePort
      <3> QED
        BY <3>1, <3>2, <3>3, OnePort DEF Follows
    <2>2. CASE port[e].I_O # OUTPUT
      BY <1>3, <2>2, SamePort DEF write
    <2> QED
      BY <2>1, <2>2
  <1>4. ASSUME NEW e \in Dev, NEW byte \in Controls[e], control(e, byte)
        PROVE  Follows(d)
    <2>1. byte \in ControlByte
      BY <1>0, ControlType
    <2>2. CASE port[e].I_O = OUTPUT
      <3>1. /\ port' = [port EXCEPT ![e] = StartOutput(byte)]
            /\ time_left' = [time_left EXCEPT ![e] = ProcTime[e]]
        BY <1>4, <2>2 DEF control
      <3>2. StartOutput(byte).DBA = 0 /\ StartOutput(byte).I_O = byte.I_O
        BY <2>1 DEF StartOutput, ControlByte
      <3>3. d = e => port'[d] = StartOutput(byte)
        BY <3>1, OnePort
      <3> QED
        BY <3>1, <3>2, <3>3, OnePort DEF Follows
    <2>3. CASE port[e].I_O # OUTPUT
      <3>1. port' = [port EXCEPT ![e] = byte] /\ time_left' = [time_left EXCEPT ![e] = time_left[e]]
        BY <1>0, <1>4, <2>3 DEF control
      <3>2. d = e => port'[d] = byte
        BY <3>1, OnePort
      <3> QED
        BY <2>3, <3>1, <3>2, OnePort DEF Follows
    <2> QED
      BY <2>2, <2>3
  <1>5. CASE input_device_data_process
    <2> DEFINE e == input_dev_queue.dev
               x == [[port[e] EXCEPT !.DBA = 1]
                       EXCEPT !.OV = IF port[e].DBA = 0 THEN port[e].OV ELSE 1]
    <2>1. e \in Dev
      BY DEF RestOK
    <2>2. CASE port[e].I_O = INPUT
      <3>1. /\ port' = [port EXCEPT ![e].DBA = 1,
                                    ![e].OV = IF port[e].DBA = 0 THEN @ ELSE 1]
            /\ UNCHANGED time_left
        BY <1>5, <2>2 DEF input_device_data_process
      <3>2. port' = [port EXCEPT ![e] = x] /\ time_left' = [time_left EXCEPT ![e] = time_left[e]]
        BY <1>0, <2>1, <3>1 DEF ControlByte
      <3>3. x.I_O = port[e].I_O
        BY <1>0, <2>1 DEF ControlByte
      <3> HIDE DEF e, x
      <3>4. d = e => port'[d].I_O = port[d].I_O /\ port[d].I_O = INPUT
        BY <2>1, <2>2, <3>2, <3>3, OnePort
      <3> QED
        BY <1>0, <2>1, <3>2, <3>4, OnePort DEF Follows
    <2>3. CASE port[e].I_O # INPUT
      BY <1>5, <2>3, SamePort DEF input_device_data_process, devices
    <2> QED
      BY <2>2, <2>3
  <1>6. CASE output_device_data_process
    <2> DEFINE done == time_left[stage] - run_clk <= 0
               b == IF done THEN 1 ELSE port[stage].DBA
               x == [[port[stage] EXCEPT !.OV = 0] EXCEPT !.DBA = b]
               t == time_left[stage] - run_clk
    <2>1. /\ stage \in Dev
          /\ time_left' = [time_left EXCEPT ![stage] = t]
          /\ port' = [port EXCEPT ![stage].OV = 0, ![stage].DBA = IF done THEN 1 ELSE @]
      BY <1>0, <1>6 DEF output_device_data_process
    <2>2. port' = [port EXCEPT ![stage] = x]
      BY <1>0, <2>1 DEF ControlByte
    <2>3. x.DBA = b /\ x.I_O = port[stage].I_O
      BY <1>0, <2>1 DEF ControlByte
    <2>4. t \in Int /\ t <= time_left[stage] /\ (t <= 0 \/ b = port[stage].DBA)
      BY <1>0, <2>1
    <2> HIDE DEF x, b, t
    <2>5. d = stage => port'[d] = x /\ time_left'[d] = t
      BY <1>0, <2>1, <2>2
    <2>6. CASE d = stage
      BY <2>3, <2>4, <2>5, <2>6 DEF Follows
    <2>7. CASE d # stage
      <3>1. port'[d] = port[d] /\ time_left'[d] = time_left[d]
        BY <1>0, <2>1, <2>2, <2>7
      <3> QED
        BY <1>0, <3>1 DEF Follows
    <2> QED
      BY <2>6, <2>7
  <1>7. CASE device_init
    <2>1. /\ port'[d].I_O = Kind[d] /\ port'[d].DBA = port[d].DBA
          /\ time_left'[d] = time_left[d] /\ time_left[d] \in Int
      BY <1>0, <1>7 DEF device_init, ControlByte
    <2> QED
      BY <2>1 DEF Follows
  <1>8. CASE asleep \/ fetch \/ fetch_fails \/ compute \/ return \/ sleep
    BY <1>8, SamePort DEF asleep, fetch, fetch_fails, compute, return, sleep, devices
  <1>9. ASSUME NEW p \in Priorities, set_priority(p)
        PROVE  Follows(d)
    BY <1>9, SamePort DEF set_priority
  <1>10. CASE read_record \/ inputs_done \/ output_idle \/ UNCHANGED vars
    BY <1>10, SamePort DEF read_record, inputs_done, output_idle, vars, devices
  <1> QED
    BY <1>1, <1>2, <1>3, <1>4, <1>5, <1>6, <1>7, <1>8, <1>9, <1>10
       DEF Next, CPU_cycle, device_management

LEMMA AnnouncedStep ==
  ASSUME RestOK, [Next]_vars, NEW d \in Dev, Busy(d)', port'[d].DBA = 1
  PROVE  (Busy(d) /\ port[d].DBA = 1) \/ port[d].I_O = INPUT \/ close_program \/ edited
  <1>1. port \in [Dev -> ControlByte] /\ time_left[d] \in Int /\ time_left'[d] \in Int
    <2>1. RestOK'
      BY CycleType, ManagementType DEF Next, vars, RestOK
    <2> QED
      BY <2>1 DEF RestOK
  <1>2. port[d].I_O \in {OUTPUT, INPUT}
    BY <1>1 DEF ControlByte
  <1> QED
    BY <1>1, <1>2, PortStep DEF Follows, Busy

\* Where a program keeps the direction of its ports, one that the device file has
\* as OUTPUT stays one; an INPUT port may be OUTPUT after its program was closed.
Quiet ==
  \A d \in Dev : /\ Busy(d) => port[d].DBA = 0
                 /\ Kind[d] = OUTPUT => port[d].I_O = OUTPUT

LEMMA QuietStep ==
  ASSUME RestOK, DirectionKept, Quiet, [Next]_vars
  PROVE  Quiet'
  <1>1. CASE close_program
    <2>1. \A d \in Dev : port'[d].I_O = OUTPUT /\ port'[d].DBA = 0
      BY <1>1 DEF close_program, DirectionKept
    <2> QED
      BY <2>1 DEF Quiet
  <1>2. CASE edited
    <2>1. PICK e \in Dev, byte \in Images : change_mem_content(e, byte)
      BY <1>2 DEF edited
    <2>2. byte.I_O = OUTPUT /\ byte.DBA = 0
      BY DEF DirectionKept
    <2>3. \A d \in Dev : /\ port'[d] = IF d = e THEN byte ELSE port[d]
                         /\ time_left'[d] = time_left[d]
      BY <2>1 DEF change_mem_content, RestOK
    <2> QED
      BY <2>2, <2>3 DEF Quiet, Busy
  <1>3. CASE ~close_program /\ ~edited
    <2>1. SUFFICES ASSUME NEW d \in Dev
                   PROVE  /\ Busy(d)' => port'[d].DBA = 0
                          /\ Kind[d] = OUTPUT => port'[d].I_O = OUTPUT
      BY DEF Quiet
    <2>2. port[d] \in ControlByte /\ port'[d] \in ControlByte /\ OUTPUT # INPUT
      <3>1. RestOK'
        BY CycleType, ManagementType DEF Next, vars, RestOK
      <3> QED
        BY <3>1 DEF RestOK, OUTPUT, INPUT
    <2>3. port[d].I_O \in {OUTPUT, INPUT} /\ port'[d].DBA \in 0..1 /\ Kind[d] \in {OUTPUT, INPUT}
      BY <2>2, DeviceAssumption DEF ControlByte
    <2>4. port'[d].I_O \in {port[d].I_O, Kind[d]}
      BY <1>3, PortStep DEF Follows, DirectionKept
    <2>5. CASE port[d].I_O = OUTPUT
      <3>1. ~(Busy(d)' /\ port'[d].DBA = 1)
        BY <1>3, <2>2, <2>5, AnnouncedStep DEF Quiet
      <3> QED
        BY <2>3, <2>4, <2>5, <3>1
    <2>6. CASE port[d].I_O = INPUT
      <3>1. Kind[d] = INPUT
        BY <2>2, <2>3, <2>6 DEF Quiet
      <3> QED
        BY <2>2, <2>4, <2>6, <3>1 DEF Busy
    <2> QED
      BY <2>3, <2>5, <2>6
  <1> QED
    BY <1>1, <1>2, <1>3

\* A program that leaves the direction of its ports alone never finds a busy output
\* announced as ready, whatever else it writes to the ports, in any mixture with
\* records, reloads and closed programs (device_memory_access,
\* output_device_data_process).
THEOREM BusyOutputCorrect == Spec => []BusyOutputNotReady
  <1>1. Init => Quiet
    <2>1. SUFFICES ASSUME Init, NEW d \in Dev
                   PROVE  time_left[d] = 0 /\ port[d].I_O = Kind[d]
      BY DEF Quiet, Busy
    <2>2. PICK image \in [Dev -> Images] :
            port = [e \in Dev |-> [image[e] EXCEPT !.I_O = Kind[e]]]
      BY <2>1 DEF Init
    <2>3. image[d] \in ControlByte
      BY DeviceAssumption
    <2> QED
      BY <2>1, <2>2, <2>3 DEF Init, ControlByte
  <1>2. CASE DirectionKept
    <2>1. Quiet => BusyOutputNotReady
      BY DEF Quiet, BusyOutputNotReady
    <2>2. Invariant /\ Quiet /\ [Next]_vars => Quiet'
      BY <1>2, QuietStep DEF Invariant
    <2> QED
      BY <1>1, <2>1, <2>2, InvariantHolds, PTL DEF Spec
  <1>3. CASE ~DirectionKept
    <2>1. BusyOutputNotReady
      BY <1>3 DEF BusyOutputNotReady
    <2> QED
      BY <2>1, PTL
  <1> QED
    BY <1>2, <1>3

\* Any program, one that turns its ports round included, finds a busy output
\* announced as ready only where an INPUT port has been made an OUTPUT port
\* again, or where the user has changed it (device_memory_access,
\* output_device_data_process, close_program, change_mem_content).
THEOREM AnnouncedCorrect == Spec => AnnouncedByTurning
  <1>1. Invariant /\ [Next]_vars =>
          [\A d \in Dev : Busy(d)' /\ port'[d].DBA = 1 =>
             \/ Busy(d) /\ port[d].DBA = 1
             \/ port[d].I_O = INPUT
             \/ close_program \/ edited]_vars
    BY AnnouncedStep DEF Invariant
  <1> QED
    BY <1>1, InvariantHolds, PTL DEF Spec, AnnouncedByTurning

\* A queued interrupt leaves the queue only for its routine, or when the device
\* file is loaded again (interrupt_return_process clears its slot first).
THEOREM QueueCorrect == Spec => QueueKeepsInterrupts
  <1>1. Invariant /\ [Next]_vars =>
          [\A d \in Dev :
             cpu.queue[d] # INT_OFF /\ cpu'.queue[d] = INT_OFF =>
               cpu'.PC = d \/ device_init]_vars
    BY InvariantStep DEF Keeps
  <1> QED
    BY <1>1, InvariantHolds, PTL DEF Spec, QueueKeepsInterrupts
=============================================================================
