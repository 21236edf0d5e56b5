-------------------------- MODULE ProcessorProofs --------------------------
(***************************************************************************)
(* Theorems about Processor, for all contents of registers and memory: PSW *)
(* survives being packed into a word and unpacked, and what an interrupt   *)
(* saves its return restores.                                              *)
(***************************************************************************)
EXTENDS Processor, TLAPS

\* Where push puts its word, n pushes after m.
Slot(m, n) == WORD_ADDR_CONV(Wrap(m.REG[SP] - n * WORD_STEP))

FrameCells(m) == {Slot(m, 1), Slot(m, 2), Slot(m, 3)}

LEMMA Low == ASSUME NEW a \in Nat, NEW x \in Nat
             PROVE /\ x < 2 => (x + 2 * a) % 2 = x
                   /\ x < 2 => (x + 2 * a) \div 2 = a
                   /\ x < 4 => (x + 4 * a) \div 4 = a
                   /\ x < 8 => (x + 8 * a) \div 8 = a /\ (x + 8 * a) % 8 = x
                   /\ x < 16 => (x + 16 * a) \div 16 = a
                   /\ x < 32 => (x + 32 * a) \div 32 = a /\ (x + 32 * a) % 32 = x
                   /\ x < 256 => (x + 256 * a) \div 256 = a
                   /\ x < 8192 => (x + 8192 * a) \div 8192 = a
  BY SMTT(30)

\* PSW is the same after a push and a pull: no field reaches into the next.
THEOREM PSWRoundTrip ==
  ASSUME NEW f \in Flags, NEW md \in Modes
  PROVE  FlagsOf(PSWWord(f, md)) = f /\ ModeOf(PSWWord(f, md)) = md
  <1> DEFINE w == PSWWord(f, md)
             C == f.C
             Z == f.Z
             G == f.N
             V == f.V
             S == md.SLP
             P == md.PRIORITY
             R == md.res
             Q == md.prev_PRIORITY
  <1>1. /\ C \in Nat /\ C < 2 /\ Z \in Nat /\ Z < 2 /\ G \in Nat /\ G < 2 /\ V \in Nat /\ V < 2
        /\ f = [C |-> C, Z |-> Z, N |-> G, V |-> V]
    BY DEF Flags
  <1>2. /\ S \in Nat /\ S < 2 /\ P \in Nat /\ P < 8 /\ R \in Nat /\ R < 32 /\ Q \in Nat /\ Q < 8
        /\ md = [SLP |-> S, PRIORITY |-> P, res |-> R, prev_PRIORITY |-> Q]
    BY DEF Modes
  <1>3. w = C + 2 * Z + 4 * G + 8 * S + 16 * V + 32 * P + 256 * R + 8192 * Q
    BY DEF PSWWord
  <1> HIDE DEF w, C, Z, G, V, S, P, R, Q
  <1>4. w % 2 = C
    <2>1. w = C + 2 * (Z + 2 * G + 4 * S + 8 * V + 16 * P + 128 * R + 4096 * Q)
      BY <1>1, <1>2, <1>3
    <2> QED BY <1>1, <1>2, <2>1, Low
  <1>5. w \div 2 = Z + 2 * (G + 2 * S + 4 * V + 8 * P + 64 * R + 2048 * Q)
    <2>1. w = C + 2 * (Z + 2 * (G + 2 * S + 4 * V + 8 * P + 64 * R + 2048 * Q))
      BY <1>1, <1>2, <1>3
    <2> QED BY <1>1, <1>2, <2>1, Low
  <1>6. w \div 4 = G + 2 * (S + 2 * V + 4 * P + 32 * R + 1024 * Q)
    <2>1. w = (C + 2 * Z) + 4 * (G + 2 * (S + 2 * V + 4 * P + 32 * R + 1024 * Q))
      BY <1>1, <1>2, <1>3
    <2> QED BY <1>1, <1>2, <2>1, Low
  <1>7. w \div 8 = S + 2 * (V + 2 * P + 16 * R + 512 * Q)
    <2>1. w = (C + 2 * Z + 4 * G) + 8 * (S + 2 * (V + 2 * P + 16 * R + 512 * Q))
      BY <1>1, <1>2, <1>3
    <2> QED BY <1>1, <1>2, <2>1, Low
  <1>8. w \div 16 = V + 2 * (P + 8 * R + 256 * Q)
    <2>1. w = (C + 2 * Z + 4 * G + 8 * S) + 16 * (V + 2 * (P + 8 * R + 256 * Q))
      BY <1>1, <1>2, <1>3
    <2> QED BY <1>1, <1>2, <2>1, Low
  <1>9. w \div 32 = P + 8 * (R + 32 * Q)
    <2>1. w = (C + 2 * Z + 4 * G + 8 * S + 16 * V) + 32 * (P + 8 * (R + 32 * Q))
      BY <1>1, <1>2, <1>3
    <2> QED BY <1>1, <1>2, <2>1, Low
  <1>10. w \div 256 = R + 32 * Q
    <2>1. w = (C + 2 * Z + 4 * G + 8 * S + 16 * V + 32 * P) + 256 * (R + 32 * Q)
      BY <1>1, <1>2, <1>3
    <2> QED BY <1>1, <1>2, <2>1, Low
  <1>11. w \div 8192 = Q
    <2>1. w = (C + 2 * Z + 4 * G + 8 * S + 16 * V + 32 * P + 256 * R) + 8192 * Q
      BY <1>1, <1>2, <1>3
    <2> QED BY <1>1, <1>2, <2>1, Low
  <1>12. /\ (w \div 2) % 2 = Z /\ (w \div 4) % 2 = G /\ (w \div 16) % 2 = V
         /\ (w \div 8) % 2 = S /\ (w \div 32) % 8 = P /\ (w \div 256) % 32 = R
    BY <1>1, <1>2, <1>5, <1>6, <1>7, <1>8, <1>9, <1>10, Low
  <1> QED
    BY <1>1, <1>2, <1>4, <1>11, <1>12 DEF FlagsOf, ModeOf, w

-----------------------------------------------------------------------------
\* The three words of a frame lie in three cells, at the ends of memory as well.
LEMMA FrameSlots ==
  ASSUME NEW x \in Nat
  PROVE  /\ Wrap(Wrap(x - 2) - 2) = Wrap(x - 4)
         /\ Wrap(Wrap(x - 4) - 2) = Wrap(x - 6)
         /\ Wrap(Wrap(x - 6) + 2) = Wrap(x - 4)
         /\ Wrap(Wrap(x - 4) + 2) = Wrap(x - 2)
         /\ x < 65536 => Wrap(Wrap(x - 2) + 2) = x
         /\ Wrap(x - 2) \div 2 # Wrap(x - 4) \div 2
         /\ Wrap(x - 2) \div 2 # Wrap(x - 6) \div 2
         /\ Wrap(x - 4) \div 2 # Wrap(x - 6) \div 2
  BY SMTT(60) DEF Wrap

LEMMA WordRange ==
  ASSUME NEW x \in WordValues
  PROVE  x \in Nat /\ x < 65536
  <1>1. LAST_BYTE \in Nat /\ LAST_BYTE < 65536
    BY DEF LAST_BYTE
  <1> QED BY <1>1 DEF WordValues

LEMMA RegisterNumbers ==
  /\ SP \in Registers /\ PC \in Registers /\ LR \in Registers
  /\ SP # PC /\ SP # LR /\ LR # PC /\ WORD # BYTE
  BY DEF SP, PC, LR, Registers, WORD, BYTE

\* A record with the fields of a machine, whatever they hold.
Shaped(m) ==
  /\ m \in [REG : {m.REG}, PSW : {m.PSW}, mode : {m.mode}, high : {m.high},
            MAR : {m.MAR}, IX : {m.IX}, mem : {m.mem}, queue : {m.queue}]
  /\ m.REG = [r \in Registers |-> m.REG[r]]
  /\ m.mem = [w \in Cells |-> m.mem[w]]

LEMMA MachineShaped ==
  ASSUME NEW m \in Machines
  PROVE  Shaped(m)
  BY DEF Machines, Shaped

\* A push moves SP, writes one cell and leaves the rest.
LEMMA PushFields ==
  ASSUME NEW m, NEW v, Shaped(m), Slot(m, 1) \in Cells
  PROVE  LET n == push(m, v)
         IN  /\ n.REG = [m.REG EXCEPT ![SP] = Wrap(m.REG[SP] - 2)]
             /\ n.mem = [m.mem EXCEPT ![Slot(m, 1)] = v]
             /\ n.PSW = m.PSW /\ n.mode = m.mode
             /\ Shaped(n)
  <1> DEFINE sp == Wrap(m.REG[SP] - WORD_STEP)
             reg == [m.REG EXCEPT ![SP] = sp]
             mem == [m.mem EXCEPT ![WORD_ADDR_CONV(sp)] = v]
             n == push(m, v)
  <1>1. n = [[m EXCEPT !.REG = reg] EXCEPT !.MAR = sp, !.mem = mem]
    BY DEF push, BusWrite
  <1>2. sp = Wrap(m.REG[SP] - 2) /\ WORD_ADDR_CONV(sp) = Slot(m, 1)
    BY DEF Slot, WORD_STEP
  <1>3. reg = [r \in Registers |-> reg[r]] /\ mem = [w \in Cells |-> mem[w]]
    BY DEF Shaped
  <1> HIDE DEF sp, reg, mem, n
  <1>4. m \in [REG : {m.REG}, PSW : {m.PSW}, mode : {m.mode}, high : {m.high},
              MAR : {m.MAR}, IX : {m.IX}, mem : {m.mem}, queue : {m.queue}]
    BY DEF Shaped
  <1>5. n.REG = reg /\ n.mem = mem /\ n.PSW = m.PSW /\ n.mode = m.mode
    BY <1>1, <1>4
  <1>6. n \in [REG : {n.REG}, PSW : {n.PSW}, mode : {n.mode}, high : {n.high},
              MAR : {n.MAR}, IX : {n.IX}, mem : {n.mem}, queue : {n.queue}]
    BY <1>1, <1>4
  <1>7. Shaped(n)
    BY <1>3, <1>5, <1>6 DEF Shaped
  <1> QED BY <1>2, <1>5, <1>7 DEF reg, mem, n

\* What lies in memory after an entry, and where SP is.
LEMMA FrameFields ==
  ASSUME NEW m \in Machines, FrameCells(m) \subseteq Cells
  PROVE  LET f == PushFrame(m)
         IN  /\ f.REG[SP] = Wrap(m.REG[SP] - 6)
             /\ f.mem[Slot(m, 1)] = m.REG[PC]
             /\ f.mem[Slot(m, 2)] = PSWWord(m.PSW, m.mode)
             /\ f.mem[Slot(m, 3)] = m.REG[LR]
             /\ \A w \in Cells \ FrameCells(m) : f.mem[w] = m.mem[w]
  <1> DEFINE sp == m.REG[SP]
             a == push(m, m.REG[PC])
             b == push(a, PSWWord(m.PSW, m.mode))
             f == push(b, m.REG[LR])
  <1>1. sp \in Nat /\ sp < 65536
    BY WordRange, RegisterNumbers DEF Machines
  <1>2. /\ Slot(m, 1) = Wrap(sp - 2) \div 2
        /\ Slot(m, 2) = Wrap(sp - 4) \div 2
        /\ Slot(m, 3) = Wrap(sp - 6) \div 2
    BY <1>1 DEF Slot, WORD_STEP, WORD_ADDR_CONV
  <1>3. /\ Slot(m, 1) # Slot(m, 2) /\ Slot(m, 1) # Slot(m, 3) /\ Slot(m, 2) # Slot(m, 3)
        /\ Slot(m, 1) \in Cells /\ Slot(m, 2) \in Cells /\ Slot(m, 3) \in Cells
    BY <1>1, <1>2, FrameSlots DEF FrameCells
  <1>4. Shaped(m)
    BY MachineShaped
  <1> HIDE DEF sp, a, b, f
  <1>5. /\ a.REG = [m.REG EXCEPT ![SP] = Wrap(sp - 2)]
        /\ a.mem = [m.mem EXCEPT ![Slot(m, 1)] = m.REG[PC]]
        /\ Shaped(a)
    BY <1>3, <1>4, PushFields DEF a, sp
  <1>6. a.REG[SP] = Wrap(sp - 2) /\ Slot(a, 1) = Slot(m, 2)
    <2>1. a.REG[SP] = Wrap(sp - 2)
      BY <1>4, <1>5, RegisterNumbers DEF Shaped
    <2> QED BY <1>1, <1>2, <2>1, FrameSlots DEF Slot, WORD_STEP, WORD_ADDR_CONV
  <1>7. /\ b.REG = [a.REG EXCEPT ![SP] = Wrap(a.REG[SP] - 2)]
        /\ b.mem = [a.mem EXCEPT ![Slot(a, 1)] = PSWWord(m.PSW, m.mode)]
        /\ Shaped(b)
    BY <1>3, <1>5, <1>6, PushFields DEF b
  <1>8. b.REG[SP] = Wrap(sp - 4) /\ Slot(b, 1) = Slot(m, 3)
    <2>1. b.REG[SP] = Wrap(sp - 4)
      BY <1>1, <1>5, <1>6, <1>7, RegisterNumbers, FrameSlots DEF Shaped
    <2> QED BY <1>1, <1>2, <2>1, FrameSlots DEF Slot, WORD_STEP, WORD_ADDR_CONV
  <1>9. /\ f.REG = [b.REG EXCEPT ![SP] = Wrap(b.REG[SP] - 2)]
        /\ f.mem = [b.mem EXCEPT ![Slot(b, 1)] = m.REG[LR]]
        /\ Shaped(f)
    BY <1>3, <1>7, <1>8, PushFields DEF f
  <1>10. f.REG[SP] = Wrap(sp - 6)
    BY <1>1, <1>7, <1>8, <1>9, RegisterNumbers, FrameSlots DEF Shaped
  <1>11. f.mem = [[[m.mem EXCEPT ![Slot(m, 1)] = m.REG[PC]]
                     EXCEPT ![Slot(m, 2)] = PSWWord(m.PSW, m.mode)]
                     EXCEPT ![Slot(m, 3)] = m.REG[LR]]
    BY <1>5, <1>6, <1>7, <1>8, <1>9
  <1>12. f = PushFrame(m)
    BY DEF f, b, a, PushFrame
  <1>13. m.mem \in [Cells -> WordValues]
    BY DEF Machines
  <1> DEFINE x == Slot(m, 1)
             y == Slot(m, 2)
             z == Slot(m, 3)
             v == PSWWord(m.PSW, m.mode)
  <1>14. /\ x # y /\ x # z /\ y # z /\ x \in Cells /\ y \in Cells /\ z \in Cells
         /\ f.mem = [[[m.mem EXCEPT ![x] = m.REG[PC]] EXCEPT ![y] = v] EXCEPT ![z] = m.REG[LR]]
         /\ FrameCells(m) = {x, y, z}
    BY <1>3, <1>11 DEF FrameCells
  <1> HIDE DEF x, y, z, v
  <1>15. /\ f.mem[x] = m.REG[PC] /\ f.mem[y] = v /\ f.mem[z] = m.REG[LR]
         /\ \A w \in Cells \ {x, y, z} : f.mem[w] = m.mem[w]
    BY <1>13, <1>14
  <1> QED BY <1>10, <1>12, <1>14, <1>15 DEF sp, x, y, z, v

\* A pull moves SP, sets one register and leaves memory alone.
LEMMA PullFields ==
  ASSUME NEW m, NEW r \in Registers, r # SP, Shaped(m)
  PROVE  LET n == PullRegister(m, r)
         IN  /\ n.REG = [m.REG EXCEPT ![SP] = Wrap(m.REG[SP] + 2), ![r] = Top(m)]
             /\ n.mem = m.mem /\ n.PSW = m.PSW /\ n.mode = m.mode
             /\ Shaped(n)
  <1> DEFINE sp == Wrap(m.REG[SP] + WORD_STEP)
             low == [m.REG EXCEPT ![SP] = sp]
             reg == [low EXCEPT ![r] = Top(m)]
             n == PullRegister(m, r)
  <1>1. n = [[m EXCEPT !.MAR = m.REG[SP], !.REG = low] EXCEPT !.REG = reg]
    BY DEF PullRegister, Popped, Shaped
  <1>2. sp = Wrap(m.REG[SP] + 2)
    BY DEF WORD_STEP
  <1>3. reg = [q \in Registers |-> reg[q]] /\ m.mem = [w \in Cells |-> m.mem[w]]
    BY DEF Shaped
  <1> HIDE DEF sp, low, reg, n
  <1>4. m \in [REG : {m.REG}, PSW : {m.PSW}, mode : {m.mode}, high : {m.high},
              MAR : {m.MAR}, IX : {m.IX}, mem : {m.mem}, queue : {m.queue}]
    BY DEF Shaped
  <1>5. n.REG = reg /\ n.mem = m.mem /\ n.PSW = m.PSW /\ n.mode = m.mode
    BY <1>1, <1>4
  <1>6. n \in [REG : {n.REG}, PSW : {n.PSW}, mode : {n.mode}, high : {n.high},
              MAR : {n.MAR}, IX : {n.IX}, mem : {n.mem}, queue : {n.queue}]
    BY <1>1, <1>4
  <1>7. Shaped(n)
    BY <1>3, <1>5, <1>6 DEF Shaped
  <1> QED BY <1>2, <1>5, <1>7 DEF reg, low, n

\* Pulling PSW moves SP and sets the flags and the mode, asleep or not as it was pushed: awake.
LEMMA PullPSWFields ==
  ASSUME NEW m, Shaped(m)
  PROVE  LET n == PullPSW(m)
         IN  /\ n.REG = [m.REG EXCEPT ![SP] = Wrap(m.REG[SP] + 2)]
             /\ n.mem = m.mem
             /\ n.PSW = FlagsOf(Top(m))
             /\ n.mode = [ModeOf(Top(m)) EXCEPT !.SLP = 0]
             /\ Shaped(n)
  <1> DEFINE sp == Wrap(m.REG[SP] + WORD_STEP)
             reg == [m.REG EXCEPT ![SP] = sp]
             flags == FlagsOf(Top(m))
             mode == [ModeOf(Top(m)) EXCEPT !.SLP = 0]
             n == PullPSW(m)
  <1>1. n = [[m EXCEPT !.MAR = m.REG[SP], !.REG = reg] EXCEPT !.PSW = flags, !.mode = mode]
    BY DEF PullPSW, Popped
  <1>2. sp = Wrap(m.REG[SP] + 2)
    BY DEF WORD_STEP
  <1>3. reg = [q \in Registers |-> reg[q]] /\ m.mem = [w \in Cells |-> m.mem[w]]
    BY DEF Shaped
  <1> HIDE DEF sp, reg, flags, mode, n
  <1>4. m \in [REG : {m.REG}, PSW : {m.PSW}, mode : {m.mode}, high : {m.high},
              MAR : {m.MAR}, IX : {m.IX}, mem : {m.mem}, queue : {m.queue}]
    BY DEF Shaped
  <1>5. n.REG = reg /\ n.mem = m.mem /\ n.PSW = flags /\ n.mode = mode
    BY <1>1, <1>4
  <1>6. n \in [REG : {n.REG}, PSW : {n.PSW}, mode : {n.mode}, high : {n.high},
              MAR : {n.MAR}, IX : {n.IX}, mem : {n.mem}, queue : {n.queue}]
    BY <1>1, <1>4
  <1>7. Shaped(n)
    BY <1>3, <1>5, <1>6 DEF Shaped
  <1> QED BY <1>2, <1>5, <1>7 DEF reg, flags, mode, n

-----------------------------------------------------------------------------
\* What interrupt_return_process pulls (Device_Handling.cpp:267-272) is what the entry
\* pushed (224-229): whatever the routine did to other memory, to the flags and to R0..R3,
\* if it comes back to its SP with the three words untouched the code it interrupted goes
\* on with its own PC, LR, SP and PSW, awake, wherever the stack lies in memory.
THEOREM ReturnRestores ==
  ASSUME NEW m \in Machines, NEW n \in Machines, FrameCells(m) \subseteq Cells,
         n.REG[SP] = PushFrame(m).REG[SP],
         \A w \in FrameCells(m) : n.mem[w] = PushFrame(m).mem[w]
  PROVE  LET r == PullFrame(n)
         IN  /\ r.REG[PC] = m.REG[PC] /\ r.REG[LR] = m.REG[LR] /\ r.REG[SP] = m.REG[SP]
             /\ r.PSW = m.PSW
             /\ r.mode = [m.mode EXCEPT !.SLP = 0]
             /\ r.mem = n.mem
             /\ \A q \in Registers \ {PC, LR, SP} : r.REG[q] = n.REG[q]
  <1> DEFINE sp == m.REG[SP]
             a == PullRegister(n, LR)
             b == PullPSW(a)
             r == PullRegister(b, PC)
  <1>1. sp \in Nat /\ sp < 65536
    BY WordRange, RegisterNumbers DEF Machines
  <1>2. /\ Slot(m, 1) = Wrap(sp - 2) \div 2
        /\ Slot(m, 2) = Wrap(sp - 4) \div 2
        /\ Slot(m, 3) = Wrap(sp - 6) \div 2
    BY <1>1 DEF Slot, WORD_STEP, WORD_ADDR_CONV
  <1>3. /\ n.REG[SP] = Wrap(sp - 6)
        /\ n.mem[Slot(m, 1)] = m.REG[PC]
        /\ n.mem[Slot(m, 2)] = PSWWord(m.PSW, m.mode)
        /\ n.mem[Slot(m, 3)] = m.REG[LR]
    BY FrameFields DEF FrameCells, sp
  <1>4. Shaped(n)
    BY MachineShaped
  <1> HIDE DEF sp, a, b, r
  <1>5. Top(n) = m.REG[LR]
    BY <1>2, <1>3, RegisterNumbers DEF Top, BusRead, WORD_ADDR_CONV
  <1>6. /\ a.REG = [n.REG EXCEPT ![SP] = Wrap(n.REG[SP] + 2), ![LR] = Top(n)]
        /\ a.mem = n.mem /\ Shaped(a)
    BY <1>4, RegisterNumbers, PullFields DEF a
  <1>7. /\ a.REG[SP] = Wrap(sp - 4) /\ a.REG[LR] = m.REG[LR]
        /\ \A q \in Registers \ {LR, SP} : a.REG[q] = n.REG[q]
    <2>1. /\ a.REG[SP] = Wrap(n.REG[SP] + 2) /\ a.REG[LR] = Top(n)
          /\ \A q \in Registers \ {LR, SP} : a.REG[q] = n.REG[q]
      BY <1>4, <1>6, RegisterNumbers DEF Shaped
    <2>2. Wrap(n.REG[SP] + 2) = Wrap(sp - 4)
      BY <1>1, <1>3, FrameSlots
    <2> QED BY <1>5, <2>1, <2>2
  <1>8. Top(a) = PSWWord(m.PSW, m.mode)
    BY <1>2, <1>3, <1>6, <1>7, RegisterNumbers DEF Top, BusRead, WORD_ADDR_CONV
  <1>9. /\ b.REG = [a.REG EXCEPT ![SP] = Wrap(a.REG[SP] + 2)]
        /\ b.mem = a.mem /\ b.PSW = FlagsOf(Top(a))
        /\ b.mode = [ModeOf(Top(a)) EXCEPT !.SLP = 0]
        /\ Shaped(b)
    BY <1>6, PullPSWFields DEF b
  <1>10. /\ b.REG[SP] = Wrap(sp - 2) /\ \A q \in Registers \ {SP} : b.REG[q] = a.REG[q]
    <2>1. b.REG[SP] = Wrap(a.REG[SP] + 2) /\ \A q \in Registers \ {SP} : b.REG[q] = a.REG[q]
      BY <1>6, <1>9, RegisterNumbers DEF Shaped
    <2>2. Wrap(Wrap(sp - 4) + 2) = Wrap(sp - 2)
      BY <1>1, FrameSlots
    <2> QED BY <1>7, <2>1, <2>2
  <1>11. b.PSW = m.PSW /\ b.mode = [m.mode EXCEPT !.SLP = 0]
    <2>1. m.PSW \in Flags /\ m.mode \in Modes
      BY DEF Machines
    <2> QED BY <1>8, <1>9, <2>1, PSWRoundTrip
  <1>12. Top(b) = m.REG[PC]
    BY <1>2, <1>3, <1>6, <1>9, <1>10, RegisterNumbers DEF Top, BusRead, WORD_ADDR_CONV
  <1>13. /\ r.REG = [b.REG EXCEPT ![SP] = Wrap(b.REG[SP] + 2), ![PC] = Top(b)]
         /\ r.mem = b.mem /\ r.PSW = b.PSW /\ r.mode = b.mode
    BY <1>9, RegisterNumbers, PullFields DEF r
  <1>14. /\ r.REG[SP] = sp /\ r.REG[PC] = m.REG[PC]
         /\ \A q \in Registers \ {SP, PC} : r.REG[q] = b.REG[q]
    BY <1>1, <1>9, <1>10, <1>12, <1>13, RegisterNumbers, FrameSlots DEF Shaped
  <1>15. r = PullFrame(n)
    BY DEF r, b, a, PullFrame
  <1> QED
    BY ZenonT(60), <1>6, <1>7, <1>9, <1>10, <1>11, <1>13, <1>14, <1>15, RegisterNumbers DEF sp
=============================================================================
