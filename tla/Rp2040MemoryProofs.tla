------------------------- MODULE Rp2040MemoryProofs --------------------------
(***************************************************************************)
(* Proofs about Rp2040Memory and Registers, for every size of the SRAM, of *)
(* a chunk, of a word and of the address space.  The inductive invariant   *)
(* has three parts that are proved one after the other: Shape, the types,  *)
(* with what a call in progress looks like and that x0 holds 0;            *)
(* Owners, what a system has while it is created; and Loads, what is in    *)
(* memory while a file is loaded.                                          *)
(***************************************************************************)
EXTENDS Rp2040Memory, TLAPS

USE DEF PC, PSR
-----------------------------------------------------------------------------
(* Words *)

\* A remainder lies below the modulus.
LEMMA Remainder ==
  ASSUME NEW m \in Nat \ {0}, NEW a \in Nat
  PROVE  a % m \in 0..m - 1
BY SMT

\* What is below the modulus is its own remainder, also with the modulus added.
LEMMA SmallRemainder ==
  ASSUME NEW m \in Nat \ {0}, NEW a \in 0..m - 1
  PROVE  a % m = a /\ (m + a) % m = a
BY SMT

\* A whole number of chunks leaves no remainder.
LEMMA WholeMultiple ==
  ASSUME NEW m \in Nat \ {0}, NEW q \in Nat
  PROVE  (q * m) % m = 0
BY SMT

\* Bit 0 is cleared.
LEMMA ClearedBit ==
  ASSUME NEW a \in Words
  PROVE  (a - (a % 2)) % 2 = 0 /\ a - (a % 2) \in {a, a - 1} /\ a - (a % 2) \in Words
BY RegisterAssumption DEF Words

\* A multiple of the modulus and less than the modulus more.
LEMMA RemainderAbove ==
  ASSUME NEW m \in Nat \ {0}, NEW q \in Nat, NEW a \in 0..m - 1
  PROVE  (q * m + a) % m = a
BY SMT

\* There is room for a whole block behind a multiple that lies below one.
LEMMA BlockFits ==
  ASSUME NEW m \in Nat \ {0}, NEW q \in Nat, NEW k \in Nat, q * m < k * m
  PROVE  q * m + m <= k * m
BY SMT

\* A psr keeps its top byte, and takes the rest of the value that it is set to.
LEMMA PsrEffect ==
  ASSUME NEW psr \in Words, NEW value \in Words
  PROVE  LET now == High(psr) + Low(value)
         IN  now \in Words /\ High(now) = High(psr) /\ Low(now) = Low(value)
<1>. DEFINE low == Low(value)
            q   == psr \div PsrHigh
            k   == WordModulus \div PsrHigh
<1>1. /\ psr \in Nat /\ value \in Nat /\ psr < WordModulus /\ WordModulus \in Nat
      /\ PsrHigh \in Nat \ {0}
  BY RegisterAssumption DEF Words
<1>2. low \in 0..PsrHigh - 1
  BY <1>1, Remainder DEF Low
<1>3. q \in Nat /\ High(psr) = q * PsrHigh /\ q * PsrHigh <= psr
  BY <1>1 DEF High, Low
<1>4. k \in Nat /\ WordModulus = k * PsrHigh
  BY <1>1, RegisterAssumption
<1>. HIDE DEF low, q, k
<1>5. q * PsrHigh + PsrHigh <= WordModulus
  BY <1>1, <1>3, <1>4, BlockFits
<1>6. (q * PsrHigh + low) % PsrHigh = low
  BY <1>1, <1>2, <1>3, RemainderAbove
<1>7. q * PsrHigh \in Nat
  BY <1>1, <1>3
<1>8. q * PsrHigh + low \in Words
  BY <1>1, <1>2, <1>5, <1>7 DEF Words
<1>9. Low(q * PsrHigh + low) = low /\ High(q * PsrHigh + low) = q * PsrHigh
  BY <1>2, <1>6, <1>7 DEF Low, High
<1>. QED
  BY <1>3, <1>8, <1>9 DEF low

-----------------------------------------------------------------------------
(* The registers *)

\* The registers of an ARM core.
ArmCore == [ArmNumbers -> Words]

\* A reset core has them.
LEMMA ArmResetEffect == ArmReset \in ArmCore
BY RegisterAssumption DEF ArmCore, ArmReset, ArmNumbers, Words

\* A register that is set reads as the value should, the others as before.
LEMMA ArmSetEffect ==
  ASSUME NEW core \in ArmCore, NEW n \in Int, NEW value \in Words
  PROVE  /\ ArmSet(core, n, value) \in ArmCore
         /\ ReadsAs(n, value, ArmGet(core, n), ArmGet(ArmSet(core, n, value), n))
         /\ \A m \in Int : m # n => ArmGet(ArmSet(core, n, value), m) = ArmGet(core, m)
<1>. DEFINE kept == Kept(core, n, value)
<1>1. core \in [ArmNumbers -> Words]
  BY DEF ArmCore
<1>2. ASSUME n \in ArmNumbers
      PROVE  kept \in Words /\ ReadsAs(n, value, core[n], kept)
  <2>1. CASE n = PC
    BY <2>1, ClearedBit DEF Kept, ReadsAs, ArmNumbers
  <2>2. CASE n = PSR
    <3>1. core[PSR] \in Words /\ kept = High(core[PSR]) + Low(value)
      BY <1>1, <2>2 DEF Kept, ArmNumbers
    <3>. HIDE DEF kept
    <3>2. kept \in Words /\ High(kept) = High(core[PSR]) /\ Low(kept) = Low(value)
      BY <3>1, PsrEffect
    <3>. QED
      BY <2>2, <3>2 DEF ReadsAs, ArmNumbers
  <2>3. CASE n \notin {PC, PSR}
    BY <1>2, <2>3 DEF Kept, ReadsAs
  <2>. QED
    BY <2>1, <2>2, <2>3
<1>3. CASE n \in ArmNumbers
  <2>1. ArmSet(core, n, value) = [core EXCEPT ![n] = kept]
    BY <1>3 DEF ArmSet
  <2>. HIDE DEF kept
  <2>. QED
    BY <1>1, <1>2, <1>3, <2>1 DEF ArmCore, ArmNumbers, ArmGet
<1>4. CASE n \notin ArmNumbers
  BY <1>1, <1>4 DEF ArmSet, ArmCore, ArmNumbers, ReadsAs, ArmGet
<1>. QED
  BY <1>3, <1>4

\* The registers of a RISC-V core: x0 stays 0.
RiscvCore == {core \in [RiscvNumbers -> Words] : core[0] = 0}

\* x0 stays 0; any other register takes the value and leaves the rest alone.
LEMMA RiscvSetEffect ==
  ASSUME NEW core \in RiscvCore, NEW n \in Nat, NEW value \in Words
  PROVE  /\ RiscvSet(core, n, value) \in RiscvCore
         /\ \A m \in Int : RiscvGet(RiscvSet(core, n, value), m) =
              IF m = n /\ n \in RiscvNumbers \ {0} THEN value ELSE RiscvGet(core, m)
         /\ RiscvGet(RiscvSet(core, n, value), 0) = 0
BY DEF RiscvCore, RiscvSet, RiscvGet, RiscvNumbers

\* A reset RISC-V core is one.
LEMMA RiscvResetEffect == RiscvReset \in RiscvCore
BY RegisterAssumption DEF RiscvReset, RiscvCore, RiscvNumbers, Words

-----------------------------------------------------------------------------
(* The calls *)

\* Calls in progress.
CreateCall == [fn : {"create"}, value : {"running"}, next : 1..8]
Snapshot   == [sram : [Offsets -> Bytes], cores : [Cores -> ArmCore]]
LoadCall   == [fn : {"load_elf"}, value : {"running"}, opened : {TRUE}, length : Nat,
               read : 0..SramSize, broken : BOOLEAN, before : Snapshot]

Shape == /\ TypeOK
         /\ cores \in [Cores -> ArmCore] /\ hart \in RiscvCore
         /\ Busy => call \in CreateCall \/ (call \in LoadCall /\ call.read <= call.length)

\* memcpy puts bytes where bytes were.
LEMMA CopiedType ==
  ASSUME sram \in [Offsets -> Bytes], NEW k \in 0..MaxCalls, NEW i \in Nat,
         NEW addr \in Int, NEW len \in Int
  PROVE  Copied(k, i, addr, len) \in [Offsets -> Bytes]
<1>1. SUFFICES ASSUME NEW o \in Offsets, o + SramBase \in addr..addr + len - 1
               PROVE  <<k, i + o + SramBase - addr>> \in Bytes
  BY Zenon DEF Copied
<1>2. o \in Nat /\ SramBase \in Nat
  BY MemoryAssumption DEF Offsets, Words
<1>3. i + o + SramBase - addr \in Nat
  BY <1>1, <1>2
<1>. QED
  BY <1>3 DEF Bytes

\* A chunk fits if it lies in the SRAM: no sum of the loader wraps.
LEMMA ChunkInside ==
  ASSUME NEW r \in 0..SramSize, NEW n \in 0..ChunkSize
  PROVE  InRange(SramBase + r, n) <=> r + n <= SramSize
<1>1. SramBase \in Nat /\ SramSize \in Nat /\ ChunkSize \in Nat /\ WordModulus \in Nat
  BY MemoryAssumption, RegisterAssumption DEF Words
<1>2. SramBase + r + n \in 0..WordModulus - 1 /\ WordModulus \in Nat \ {0}
  BY <1>1, MemoryAssumption
<1>3. (SramBase + r + n) % WordModulus = SramBase + r + n
  BY <1>2, SmallRemainder
<1>. QED
  BY <1>1, <1>3 DEF InRange

\* What fread can give, and that a read that was not broken was as long as it
\* could be.
LEMMA ReadEffect ==
  ASSUME call \in LoadCall, call.read <= call.length, NEW n \in Reads
  PROVE  /\ n \in 0..ChunkSize /\ call.read + n <= call.length
         /\ n > 0 => ~call.broken
         /\ ~(n < Least(ChunkSize, call.length - call.read)) /\ ~call.broken =>
              n = Least(ChunkSize, call.length - call.read)
<1>1. call.read \in Nat /\ call.length \in Nat /\ ChunkSize \in Nat \ {0}
  BY MemoryAssumption DEF LoadCall
<1>2. n \in 0..Least(ChunkSize, call.length - call.read) \/ n = 0
  BY DEF Reads
<1>3. n > 0 => ~call.broken
  BY DEF Reads
<1>4. n \in 0..ChunkSize /\ call.read + n <= call.length
  BY <1>1, <1>2 DEF Least
<1>5. ~call.broken => n \in 0..Least(ChunkSize, call.length - call.read)
  BY Zenon DEF Reads
<1>6. ~(n < Least(ChunkSize, call.length - call.read)) /\ ~call.broken =>
        n = Least(ChunkSize, call.length - call.read)
  BY <1>1, <1>5 DEF Least
<1>. QED
  BY <1>3, <1>4, <1>6

\* A read that is not the last leaves a call in progress.
LEMMA AfterReadType ==
  ASSUME call \in LoadCall, NEW n \in Nat, call.read + n <= SramSize
  PROVE  AfterRead(n, "running") \in LoadCall
<1>1. (call.broken \/ n < Least(ChunkSize, call.length - call.read)) \in BOOLEAN
  OBVIOUS
<1>2. call.read + n \in 0..SramSize
  BY MemoryAssumption DEF LoadCall
<1>. QED
  BY <1>1, <1>2 DEF AfterRead, LoadCall

-----------------------------------------------------------------------------
(* Types *)

\* Types hold at first.
LEMMA ShapeInit == Init => Shape
<1>. SUFFICES ASSUME Init PROVE Shape
  OBVIOUS
<1>1. sram \in [Offsets -> Bytes]
  BY MemoryAssumption DEF Init, Untouched, Bytes
<1>2. cores \in [Cores -> ArmCore] /\ hart \in RiscvCore
  BY ArmResetEffect, RiscvResetEffect DEF Init
<1>3. ~Busy /\ call.value = "ok"
  BY DEF Init, Busy
<1>4. used \in [Uarts \cup {"gpio"} -> 0..MaxCalls] /\ calls \in 0..MaxCalls
  BY MemoryAssumption DEF Init
<1>. QED
  BY <1>1, <1>2, <1>3, <1>4 DEF Init, Shape, TypeOK, ArmCore, RiscvCore

\* Types hold after every step: one case per action.
LEMMA ShapeNext == Shape /\ [Next]_vars => Shape'
<1>. SUFFICES ASSUME Shape, [Next]_vars PROVE Shape'
  OBVIOUS
<1>. USE DEF Shape, TypeOK, Busy, System, Memory, Elsewhere
<1>a. calls \in 0..MaxCalls /\ (calls < MaxCalls => calls + 1 \in 0..MaxCalls)
  BY MemoryAssumption
<1>c. \A core \in ArmCore : core \in [ArmNumbers -> Words]
  BY DEF ArmCore
<1>h. \A core \in RiscvCore : core \in [RiscvNumbers -> Words]
  BY DEF RiscvCore
<1>1. CASE CreateFails
  BY <1>1, <1>a DEF CreateFails, Calls, Returns
<1>2. CASE StartCreate
  <2>1. call' \in CreateCall /\ call'.value = "running"
    BY <1>2 DEF StartCreate, Returns, CreateCall
  <2>. QED
    BY <1>2, <1>a, <2>1 DEF StartCreate, Calls, Returns, ClearedParts
<1>3. CASE AllocatePart
  <2>0. call \in CreateCall /\ Len(Order) = 7
    BY <1>3 DEF AllocatePart, Creating, LoadCall, Order
  <2>1. call.next \in 1..7
    BY <1>3, <2>0 DEF AllocatePart, CreateCall
  <2>2. call' \in CreateCall /\ call'.value = "running"
    BY <1>3, <2>1 DEF AllocatePart, CreateCall
  <2>3. Order[call.next] \in Parts
    BY <2>1 DEF Order, Parts
  <2>4. cores' \in [Cores -> ArmCore]
    BY <1>3, ArmResetEffect, Zenon DEF AllocatePart
  <2>5. sram' \in [Offsets -> Bytes]
    BY <1>3, MemoryAssumption DEF AllocatePart, Untouched, Bytes
  <2>. QED
    BY <1>3, <1>c, <2>2, <2>3, <2>4, <2>5 DEF AllocatePart
<1>4. CASE AllocationFails
  BY <1>4 DEF AllocationFails, Destroyed, NoticeWild
<1>5. CASE FinishCreate
  BY <1>5 DEF FinishCreate
<1>6. CASE Destroy
  BY <1>6, <1>a DEF Destroy, CallsSystem, Destroyed, NoticeWild, Returns
<1>7. CASE OpenFails
  BY <1>7, <1>a DEF OpenFails, CallsSystem, Returns
<1>8. CASE FinishLoad
  <2>1. call \in LoadCall
    BY <1>8 DEF FinishLoad, Loading, CreateCall, LoadCall
  <2>2. SramBase - (SramBase % 2) = SramBase /\ SramBase \in Words
    BY MemoryAssumption DEF Words
  <2>3. [cores[0] EXCEPT ![PC] = SramBase] \in ArmCore
    BY <2>2 DEF Cores, ArmCore, ArmNumbers
  <2>4. cores' \in [Cores -> ArmCore]
    BY <1>8, <2>3 DEF FinishLoad
  <2>5. call'.value = "ok"
    BY <1>8 DEF FinishLoad, AfterRead
  <2>. QED
    BY <1>8, <1>c, <2>4, <2>5 DEF FinishLoad
<1>9. CASE GpioSet
  BY <1>9, <1>a DEF GpioSet, CallsSystem, Returns
<1>10. ASSUME NEW length \in Files, StartLoad(length) PROVE Shape'
  <2>1. call' \in LoadCall /\ call'.read <= call'.length
    BY <1>10, MemoryAssumption DEF StartLoad, Returns, LoadCall, Snapshot
  <2>. QED
    BY <1>10, <2>1, <1>a DEF StartLoad, CallsSystem, Returns, LoadCall
<1>11. ASSUME NEW n \in 1..ChunkSize, LoadChunk(n) PROVE Shape'
  <2>1. call \in LoadCall /\ call.read <= call.length /\ n \in Reads
    BY <1>11 DEF LoadChunk, Loading, CreateCall, LoadCall
  <2>2. call.read + n <= SramSize
    BY <1>11, <2>1, ChunkInside, MemoryAssumption DEF LoadChunk, LoadCall
  <2>3. call' \in LoadCall /\ call'.read <= call'.length
    BY <1>11, <2>1, <2>2, ReadEffect, AfterReadType DEF LoadChunk, AfterRead
  <2>4. call.read + 1 \in Nat /\ SramBase + call.read \in Int /\ n \in Int
    <3>1. call.read \in 0..SramSize
      BY <2>1 DEF LoadCall
    <3>2. SramSize \in Nat /\ SramBase \in Nat
      BY MemoryAssumption DEF Words
    <3>. QED
      BY <3>1, <3>2
  <2>5. sram' \in [Offsets -> Bytes]
    BY <1>11, <1>a, <2>4, CopiedType, Zenon DEF LoadChunk
  <2>. QED
    BY <1>11, <2>3, <2>5 DEF LoadChunk, LoadCall
<1>12. ASSUME NEW n \in 1..ChunkSize, RefuseChunk(n) PROVE Shape'
  <2>1. call'.value = "failed"
    BY <1>12 DEF RefuseChunk, AfterRead
  <2>. QED
    BY <1>12, <2>1 DEF RefuseChunk
<1>13. ASSUME NEW addr \in Words, NEW len \in Words, LoadBinary(addr, len) PROVE Shape'
  <2>0. addr \in Int /\ len \in Int /\ 1 \in Nat
    BY DEF Words
  <2>1. sram' \in [Offsets -> Bytes]
    BY <1>13, <1>a, <2>0, CopiedType, Zenon DEF LoadBinary, CallsSystem
  <2>. QED
    BY <1>13, <1>a, <2>1 DEF LoadBinary, CallsSystem, Returns
<1>14. ASSUME NEW addr \in Words, WriteMemory(addr) PROVE Shape'
  <2>0. addr \in Int /\ WordSize \in Int /\ 1 \in Nat
    BY MemoryAssumption DEF Words
  <2>1. sram' \in [Offsets -> Bytes]
    BY <1>14, <1>a, <2>0, CopiedType, Zenon DEF WriteMemory, CallsSystem
  <2>. QED
    BY <1>14, <1>a, <2>1 DEF WriteMemory, CallsSystem, Returns
<1>15. ASSUME NEW c \in {-1, 0, 1}, NEW n \in {-1, 0, 12, 13, 15, 16, 17}, NEW v \in Given,
              SetRegister(c, n, v)
       PROVE  Shape'
  <2>1. n \in Int /\ v \in Words
    BY MemoryAssumption
  <2>2. \A core \in ArmCore : ArmSet(core, n, v) \in ArmCore
    BY <2>1, ArmSetEffect
  <2>3. cores' \in [Cores -> ArmCore]
    BY <1>15, <2>2 DEF SetRegister
  <2>. QED
    BY <1>15, <1>a, <1>c, <2>3 DEF SetRegister, CallsSystem, Returns
<1>19. ASSUME NEW c \in Cores, NEW n \in {12, PC}, NEW v \in Given, NEW psr \in Given,
              Execute(c, n, v, psr)
       PROVE  Shape'
  <2>1. n \in ArmNumbers /\ PSR \in ArmNumbers /\ v \in Words /\ psr \in Words
    BY MemoryAssumption DEF ArmNumbers
  <2>2. \A core \in ArmCore : [core EXCEPT ![n] = v, ![PSR] = psr] \in ArmCore
    BY <2>1 DEF ArmCore
  <2>3. cores' \in [Cores -> ArmCore]
    BY <1>19, <2>2 DEF Execute
  <2>. QED
    BY <1>19, <1>a, <1>c, <2>3 DEF Execute, CallsSystem, Returns
<1>16. ASSUME NEW n \in {0, 2, 31, 32, 33, 34}, NEW v \in Given, SetHart(n, v) PROVE Shape'
  <2>1. hart' \in RiscvCore
    BY <1>16, RiscvSetEffect, MemoryAssumption DEF SetHart
  <2>. QED
    BY <1>16, <1>a, <1>h, <2>1 DEF SetHart, Calls, Returns
<1>17. ASSUME NEW id \in {-1, 0, 1, 2}, UartTransfer(id) PROVE Shape'
  <2>1. used' \in [Uarts \cup {"gpio"} -> 0..MaxCalls]
    BY <1>17, <1>a DEF UartTransfer, CallsSystem, Uart
  <2>. QED
    BY <1>17, <1>a, <2>1 DEF UartTransfer, CallsSystem, Returns
<1>18. CASE UNCHANGED vars
  BY <1>18 DEF vars
<1>. QED
  BY <1>1, <1>2, <1>3, <1>4, <1>5, <1>6, <1>7, <1>8, <1>9, <1>10, <1>11, <1>12, <1>13,
     <1>14, <1>15, <1>16, <1>17, <1>18, <1>19, Zenon DEF Next

\* Types, with what a call in progress looks like, are an invariant.
LEMMA ShapeHolds == Spec => []Shape
BY ShapeInit, ShapeNext, PTL DEF Spec

\* Everything keeps its type.
THEOREM TypeCorrect == Spec => []TypeOK
<1>1. Shape => TypeOK
  BY DEF Shape
<1>. QED
  BY <1>1, ShapeHolds, PTL

-----------------------------------------------------------------------------
(* The parts of a system *)

\* The parts that there are when part n is next.
Allocated(n) == {Order[j] : j \in 1..n - 1}

\* Parts are allocated one by one, in their order, until all are there.
LEMMA AllocatedParts ==
  /\ Allocated(1) = {} /\ Allocated(8) = Parts /\ Len(Order) = 7
  /\ \A n \in 1..7 : Allocated(n + 1) = Allocated(n) \cup {Order[n]}
<1>1. Allocated(1) = {}
  BY DEF Allocated
<1>2. \A n \in 1..7 : Allocated(n + 1) = Allocated(n) \cup {Order[n]}
  BY DEF Allocated
<1>3. 1..8 - 1 = {1, 2, 3, 4, 5, 6, 7}
  OBVIOUS
<1>4. Allocated(8) = {Order[1], Order[2], Order[3], Order[4], Order[5], Order[6], Order[7]}
  BY <1>3 DEF Allocated
<1>5. Allocated(8) = Parts
  BY <1>4 DEF Order, Parts
<1>. QED
  BY <1>1, <1>2, <1>5 DEF Order

\* What a system has while a call is in progress.
Owners == /\ PartsHaveOwners
          /\ Creating => parts = Allocated(call.next) /\ heap = parts \cup {"sys"}
          /\ Loading => parts = Parts /\ heap = Parts \cup {"sys"}

\* Ownership holds after every step.
LEMMA OwnersNext == Shape /\ Owners /\ [Next]_vars => Owners'
<1>. SUFFICES ASSUME Shape, Owners, [Next]_vars PROVE Owners'
  OBVIOUS
<1>. USE DEF Owners, PartsHaveOwners, Creating, Loading, Busy, System
<1>f. "sys" \notin Parts
  BY DEF Parts
<1>1. CASE CreateFails
  BY <1>1 DEF CreateFails, Returns
<1>2. CASE StartCreate
  BY <1>2, AllocatedParts DEF StartCreate, Returns, ClearedParts
<1>3. CASE AllocatePart
  <2>0. call \in CreateCall
    BY <1>3 DEF AllocatePart, Shape, LoadCall
  <2>1. call.next \in 1..7
    BY <1>3, <2>0, AllocatedParts DEF AllocatePart, CreateCall
  <2>2. parts' = Allocated(call'.next)
    BY <1>3, <2>1, AllocatedParts DEF AllocatePart
  <2>3. heap' = parts' \cup {"sys"}
    BY <1>3 DEF AllocatePart
  <2>. QED
    BY <1>3, <2>2, <2>3 DEF AllocatePart
<1>4. CASE AllocationFails
  BY <1>4, <1>f DEF AllocationFails, Destroyed, NoticeWild
<1>5. CASE FinishCreate
  <2>1. call \in CreateCall
    BY <1>5 DEF FinishCreate, Shape, LoadCall
  <2>2. call.next = 8
    BY <1>5, <2>1, AllocatedParts DEF FinishCreate, CreateCall
  <2>3. parts = Parts /\ heap = Parts \cup {"sys"}
    BY <1>5, <2>2, AllocatedParts DEF FinishCreate
  <2>. QED
    BY <1>5, <2>3 DEF FinishCreate
<1>6. CASE Destroy
  BY <1>6, <1>f DEF Destroy, CallsSystem, Created, Destroyed, NoticeWild, Returns
<1>7. CASE OpenFails
  BY <1>7 DEF OpenFails, CallsSystem, Created, Returns
<1>8. CASE FinishLoad
  BY <1>8 DEF FinishLoad, AfterRead
<1>9. CASE GpioSet
  BY <1>9 DEF GpioSet, CallsSystem, Created, Returns
<1>10. ASSUME NEW length \in Files, StartLoad(length) PROVE Owners'
  BY <1>10 DEF StartLoad, CallsSystem, Created, Returns
<1>11. ASSUME NEW n \in 1..ChunkSize, LoadChunk(n) PROVE Owners'
  BY <1>11 DEF LoadChunk, AfterRead
<1>12. ASSUME NEW n \in 1..ChunkSize, RefuseChunk(n) PROVE Owners'
  BY <1>12 DEF RefuseChunk, AfterRead
<1>13. ASSUME NEW addr \in Words, NEW len \in Words, LoadBinary(addr, len) PROVE Owners'
  BY <1>13 DEF LoadBinary, CallsSystem, Created, Returns
<1>14. ASSUME NEW addr \in Words, WriteMemory(addr) PROVE Owners'
  BY <1>14 DEF WriteMemory, CallsSystem, Created, Returns
<1>15. ASSUME NEW c \in {-1, 0, 1}, NEW n \in {-1, 0, 12, 13, 15, 16, 17}, NEW v \in Given,
              SetRegister(c, n, v)
       PROVE  Owners'
  BY <1>15 DEF SetRegister, CallsSystem, Created, Returns
<1>19. ASSUME NEW c \in Cores, NEW n \in {12, PC}, NEW v \in Given, NEW psr \in Given,
              Execute(c, n, v, psr)
       PROVE  Owners'
  BY <1>19 DEF Execute, CallsSystem, Created, Returns
<1>16. ASSUME NEW n \in {0, 2, 31, 32, 33, 34}, NEW v \in Given, SetHart(n, v) PROVE Owners'
  BY <1>16 DEF SetHart, Calls, Returns
<1>17. ASSUME NEW id \in {-1, 0, 1, 2}, UartTransfer(id) PROVE Owners'
  BY <1>17 DEF UartTransfer, CallsSystem, Created, Returns
<1>18. CASE UNCHANGED vars
  BY <1>18 DEF vars
<1>. QED
  BY <1>1, <1>2, <1>3, <1>4, <1>5, <1>6, <1>7, <1>8, <1>9, <1>10, <1>11, <1>12, <1>13,
     <1>14, <1>15, <1>16, <1>17, <1>18, <1>19, Zenon DEF Next

\* Whichever allocation fails, a system is there with all its parts or not at
\* all, and nothing is freed that was not allocated.
THEOREM OwnersCorrect == Spec => []PartsHaveOwners
<1>1. Init => Owners
  BY DEF Init, Owners, PartsHaveOwners, Creating, Loading, Busy
<1>2. Owners => PartsHaveOwners
  BY DEF Owners
<1>. QED
  BY <1>1, <1>2, OwnersNext, ShapeHolds, PTL DEF Spec

-----------------------------------------------------------------------------
(* Loads and accesses *)

\* A load in progress: what was read of the file is in front of the memory from
\* before the call, and unless a read was broken that is whole chunks or all.
LoadHalfway ==
  Loading => /\ sram = WithFile(call.read) /\ cores = call.before.cores
             /\ \/ call.broken
                \/ call.read = call.length
                \/ \E q \in Nat : call.read = q * ChunkSize

Loads == LoadHalfway /\ WholeFile

\* A chunk that is copied behind the others makes the file in memory longer.
LEMMA FileGrows ==
  ASSUME call \in LoadCall, sram = WithFile(call.read), NEW n \in Nat
  PROVE  Copied(calls, call.read + 1, SramBase + call.read, n) = WithFile(call.read + n)
<1>1. call.read \in Nat /\ SramBase \in Nat /\ \A o \in Offsets : o \in Nat
  <2>1. SramSize \in Nat /\ SramBase \in Nat
    BY MemoryAssumption DEF Words
  <2>2. call.read \in 0..SramSize
    BY DEF LoadCall
  <2>. QED
    BY <2>1, <2>2 DEF Offsets
<1>. DEFINE r == call.read
            copied == Copied(calls, r + 1, SramBase + r, n)
            longer == WithFile(r + n)
<1>2. ASSUME NEW o \in Offsets PROVE copied[o] = longer[o]
  <2>1. sram[o] = IF o < r THEN <<calls, o + 1>> ELSE call.before.sram[o]
    BY DEF WithFile
  <2>2. longer[o] = IF o < r + n THEN <<calls, o + 1>> ELSE call.before.sram[o]
    BY DEF WithFile
  <2>3. copied[o] = IF o + SramBase \in SramBase + r..SramBase + r + n - 1
                    THEN <<calls, r + 1 + o + SramBase - (SramBase + r)>> ELSE sram[o]
    BY DEF Copied
  <2>4. o + SramBase \in SramBase + r..SramBase + r + n - 1 <=> o >= r /\ o < r + n
    BY <1>1
  <2>5. r + 1 + o + SramBase - (SramBase + r) = o + 1
    BY <1>1
  <2>. HIDE DEF copied, longer
  <2>6. CASE o < r
    BY <1>1, <2>1, <2>2, <2>3, <2>4, <2>6
  <2>7. CASE o >= r /\ o < r + n
    BY <1>1, <2>2, <2>3, <2>4, <2>5, <2>7
  <2>8. CASE o >= r + n
    BY <1>1, <2>1, <2>2, <2>3, <2>4, <2>8
  <2>. QED
    BY <1>1, <2>6, <2>7, <2>8
<1>3. copied = [o \in Offsets |-> copied[o]] /\ longer = [o \in Offsets |-> longer[o]]
  BY DEF Copied, WithFile
<1>. HIDE DEF copied, longer
<1>4. copied = longer
  BY <1>2, <1>3
<1>. QED
  BY <1>4 DEF copied, longer

\* A load stays in step with its file, and reports what it has done.
LEMMA LoadsNext == Shape /\ Loads /\ [Next]_vars => Loads'
<1>. SUFFICES ASSUME Shape, Loads, [Next]_vars PROVE Loads'
  OBVIOUS
<1>. USE DEF Loads, LoadHalfway, WholeFile, Loading, Busy, System, Memory, Elsewhere
<1>1. CASE CreateFails
  BY <1>1 DEF CreateFails, Returns
<1>2. CASE StartCreate
  BY <1>2 DEF StartCreate, Returns
<1>3. CASE AllocatePart
  BY <1>3 DEF AllocatePart
<1>4. CASE AllocationFails
  BY <1>4 DEF AllocationFails
<1>5. CASE FinishCreate
  BY <1>5 DEF FinishCreate
<1>6. CASE Destroy
  BY <1>6 DEF Destroy, Returns
<1>7. CASE OpenFails
  BY <1>7 DEF OpenFails, Returns
<1>8. CASE FinishLoad
  <2>1. call \in LoadCall /\ call.read <= call.length /\ 0 \in Reads
    BY <1>8 DEF FinishLoad, Shape, CreateCall, LoadCall
  <2>2. call.read \in 0..SramSize /\ call.length \in Nat /\ SramSize \in Nat
    BY <2>1, MemoryAssumption DEF LoadCall
  <2>3. call' = AfterRead(0, "ok") /\ call'.fn = "load_elf" /\ call'.opened
        /\ call'.value = "ok" /\ call'.before = call.before /\ call'.length = call.length
        /\ call'.read = call.read + 0
    BY <1>8 DEF FinishLoad, AfterRead
  <2>4. call'.read = call.read
    BY <2>2, <2>3
  <2>5. call'.read = call'.length \/ call'.broken
    <3>1. call'.broken = (call.broken \/ 0 < Least(ChunkSize, call.length - call.read))
      BY <2>3 DEF AfterRead
    <3>2. ASSUME ~call'.broken PROVE 0 = Least(ChunkSize, call.length - call.read)
      BY <2>1, <3>1, <3>2, ReadEffect
    <3>. QED
      BY <2>2, <2>3, <2>4, <3>2, MemoryAssumption DEF Least
  <2>6. sram' = WithFile(call.read)'
    BY <1>8, <2>3, <2>4 DEF FinishLoad, WithFile
  <2>7. cores \in [Cores -> [ArmNumbers -> Words]] /\ cores = call.before.cores
    BY <1>8 DEF FinishLoad, Shape, TypeOK
  <2>8. cores' = [cores EXCEPT ![0] = [cores[0] EXCEPT ![PC] = SramBase]]
    BY <1>8 DEF FinishLoad
  <2>9. Register(0, PC)' = SramBase
    BY <2>7, <2>8 DEF Register, ArmGet, Cores, ArmNumbers
  <2>10. ASSUME NEW c \in Cores, NEW n \in ArmNumbers, <<c, n>> # <<0, PC>>
         PROVE  Register(c, n)' = call'.before.cores[c][n]
    BY <2>3, <2>7, <2>8, <2>10 DEF Register, ArmGet, Cores, ArmNumbers
  <2>. QED
    BY <2>2, <2>3, <2>4, <2>5, <2>6, <2>9, <2>10
<1>9. CASE GpioSet
  BY <1>9 DEF GpioSet, Returns
<1>10. ASSUME NEW length \in Files, StartLoad(length) PROVE Loads'
  <2>1. /\ call'.read = 0 /\ call'.before.sram = sram /\ call'.before.cores = cores
        /\ sram' = sram /\ cores' = cores /\ call'.value = "running"
    BY <1>10 DEF StartLoad, Returns
  <2>2. sram = [o \in Offsets |-> sram[o]] /\ \A o \in Offsets : o \in Nat
    BY MemoryAssumption DEF Shape, TypeOK, Offsets
  <2>3. sram' = WithFile(call.read)'
    BY <2>1, <2>2 DEF WithFile
  <2>4. 0 = 0 * ChunkSize
    BY MemoryAssumption
  <2>. QED
    BY <2>1, <2>3, <2>4
<1>11. ASSUME NEW n \in 1..ChunkSize, LoadChunk(n) PROVE Loads'
  <2>1. call \in LoadCall /\ call.read <= call.length /\ n \in Reads
    BY <1>11 DEF LoadChunk, Shape, CreateCall, LoadCall
  <2>2. call.read \in 0..SramSize /\ call.length \in Nat /\ ChunkSize \in Nat
    BY <2>1, MemoryAssumption DEF LoadCall
  <2>3. /\ call'.before = call.before /\ call'.length = call.length /\ calls' = calls
        /\ call'.read = call.read + n /\ cores' = cores /\ call'.value = "running"
        /\ call'.broken = (call.broken \/ n < Least(ChunkSize, call.length - call.read))
    BY <1>11 DEF LoadChunk, AfterRead
  <2>4. sram' = WithFile(call.read + n)
    BY <1>11, <2>1, FileGrows DEF LoadChunk
  <2>5. sram' = WithFile(call.read)'
    BY <2>3, <2>4 DEF WithFile
  <2>6. ASSUME ~call'.broken
        PROVE  call'.read = call'.length \/ \E q \in Nat : call'.read = q * ChunkSize
    <3>1. ~call.broken /\ n = Least(ChunkSize, call.length - call.read)
      BY <2>1, <2>3, <2>6, ReadEffect
    <3>2. CASE n # ChunkSize
      BY <2>2, <2>3, <3>1, <3>2 DEF Least
    <3>3. CASE n = ChunkSize
      <4>1. call.read # call.length
        BY <1>11, <2>1, <2>2, ReadEffect
      <4>2. PICK q \in Nat : call.read = q * ChunkSize
        BY <1>11, <3>1, <4>1 DEF LoadChunk
      <4>3. call'.read = (q + 1) * ChunkSize
        BY <2>2, <2>3, <3>3, <4>2
      <4>. QED
        BY <4>3
    <3>. QED
      BY <3>2, <3>3
  <2>7. cores' = call'.before.cores
    BY <1>11, <2>3 DEF LoadChunk
  <2>. QED
    BY <2>3, <2>5, <2>6, <2>7
<1>12. ASSUME NEW n \in 1..ChunkSize, RefuseChunk(n) PROVE Loads'
  <2>1. call \in LoadCall /\ call.read <= call.length /\ n \in Reads
    BY <1>12 DEF RefuseChunk, Shape, CreateCall, LoadCall
  <2>2. call.read \in 0..SramSize /\ call.length \in Nat /\ ChunkSize \in Nat \ {0}
        /\ SramSize \in Nat
    BY <2>1, MemoryAssumption DEF LoadCall
  <2>3. /\ call'.before = call.before /\ call'.length = call.length /\ calls' = calls
        /\ cores' = cores /\ sram' = sram /\ call'.value = "failed"
    BY <1>12 DEF RefuseChunk, AfterRead
  <2>4. call.read + n <= call.length /\ ~call.broken
    BY <2>1, ReadEffect
  <2>5. call'.length > SramSize
    BY <1>12, <2>2, <2>3, <2>4, ChunkInside DEF RefuseChunk
  <2>6. PICK q \in Nat : call.read = q * ChunkSize
    BY <1>12, <2>2, <2>4 DEF RefuseChunk
  <2>7. call.read % ChunkSize = 0
    BY <2>2, <2>6, WholeMultiple
  <2>8. sram' = [o \in Offsets |-> IF o < call.read THEN <<calls', o + 1>>
                                                   ELSE call'.before.sram[o]]
    BY <1>12, <2>3 DEF RefuseChunk, WithFile
  <2>9. \E m \in 0..SramSize : m % ChunkSize = 0 /\ (sram = WithFile(m))'
    BY <2>2, <2>7, <2>8 DEF WithFile
  <2>10. cores' = call'.before.cores
    BY <1>12, <2>3 DEF RefuseChunk
  <2>. QED
    BY <2>3, <2>5, <2>9, <2>10
<1>13. ASSUME NEW addr \in Words, NEW len \in Words, LoadBinary(addr, len) PROVE Loads'
  BY <1>13 DEF LoadBinary, Returns
<1>14. ASSUME NEW addr \in Words, WriteMemory(addr) PROVE Loads'
  BY <1>14 DEF WriteMemory, Returns
<1>15. ASSUME NEW c \in {-1, 0, 1}, NEW n \in {-1, 0, 12, 13, 15, 16, 17}, NEW v \in Given,
              SetRegister(c, n, v)
       PROVE  Loads'
  BY <1>15 DEF SetRegister, Returns
<1>19. ASSUME NEW c \in Cores, NEW n \in {12, PC}, NEW v \in Given, NEW psr \in Given,
              Execute(c, n, v, psr)
       PROVE  Loads'
  BY <1>19 DEF Execute, Returns
<1>16. ASSUME NEW n \in {0, 2, 31, 32, 33, 34}, NEW v \in Given, SetHart(n, v) PROVE Loads'
  BY <1>16 DEF SetHart, Returns
<1>17. ASSUME NEW id \in {-1, 0, 1, 2}, UartTransfer(id) PROVE Loads'
  BY <1>17 DEF UartTransfer, Returns
<1>18. CASE UNCHANGED vars
  BY <1>18 DEF vars, WithFile, Register
<1>. QED
  BY <1>1, <1>2, <1>3, <1>4, <1>5, <1>6, <1>7, <1>8, <1>9, <1>10, <1>11, <1>12, <1>13,
     <1>14, <1>15, <1>16, <1>17, <1>18, <1>19, Zenon DEF Next

\* What rp2040_load_binary and rp2040_write_memory accept.
LEMMA AccessesNext == Shape /\ AccessesInside /\ [Next]_vars /\ Shape' => AccessesInside'
<1>. SUFFICES ASSUME Shape, AccessesInside, [Next]_vars, Shape' PROVE AccessesInside'
  OBVIOUS
<1>. DEFINE Accepted == /\ call.fn \in {"load_binary", "write_memory"}
                        /\ call.value = "ok"
<1>1. (Loading => call.read <= SramSize)'
  <2>1. Loading' => call' \in LoadCall
    BY DEF Shape, Loading, Busy, CreateCall
  <2>. QED
    BY <2>1, MemoryAssumption DEF LoadCall
<1>2. SUFFICES ASSUME Accepted'
      PROVE \/ call'.addr >= SramBase /\ call'.addr + call'.len <= SramBase + SramSize
            \/ call'.fn = "load_binary" /\ call'.addr + call'.len >= WordModulus
            \/ call'.fn = "write_memory" /\ call'.addr + call'.len \in
                  SramBase + SramSize + 1 .. SramBase + SramSize + WordSize - 1
  BY <1>1 DEF AccessesInside
<1>3. /\ SramBase \in Nat /\ SramSize \in Nat /\ WordSize \in Nat
      /\ WordModulus \in Nat \ {0}
  BY MemoryAssumption, RegisterAssumption DEF Words
<1>4. ASSUME NEW addr \in Words, NEW len \in Words, LoadBinary(addr, len)
      PROVE  /\ call'.fn = "load_binary"
             /\ \/ call'.addr >= SramBase /\ call'.addr + call'.len <= SramBase + SramSize
                \/ call'.addr + call'.len >= WordModulus
  <2>1. /\ call'.fn = "load_binary" /\ call'.addr = addr /\ call'.len = len
        /\ call'.value = IF InRange(addr, len) THEN "ok" ELSE "failed"
    BY <1>4 DEF LoadBinary, Returns
  <2>2. addr >= SramBase /\ (addr + len) % WordModulus <= SramBase + SramSize
    BY <1>2, <2>1 DEF InRange
  <2>3. addr + len \in Nat
    BY DEF Words
  <2>4. addr + len < WordModulus => (addr + len) % WordModulus = addr + len
    BY <1>3, <2>3, SmallRemainder
  <2>. QED
    BY <1>3, <2>1, <2>2, <2>3, <2>4
<1>5. ASSUME NEW addr \in Words, WriteMemory(addr)
      PROVE  /\ call'.fn = "write_memory"
             /\ \/ call'.addr >= SramBase /\ call'.addr + call'.len <= SramBase + SramSize
                \/ call'.addr + call'.len \in
                     SramBase + SramSize + 1 .. SramBase + SramSize + WordSize - 1
  <2>1. /\ call'.fn = "write_memory" /\ call'.addr = addr /\ call'.len = WordSize
        /\ call'.value = IF Holds(addr) THEN "ok" ELSE "failed"
    BY <1>5 DEF WriteMemory, Returns
  <2>2. addr \in SramBase..SramBase + SramSize - 1
    BY <1>2, <2>1 DEF Holds
  <2>. QED
    BY <1>3, <2>1, <2>2
<1>6. CASE UNCHANGED vars
  BY <1>2, <1>6 DEF vars, AccessesInside
<1>7. ASSUME \/ CreateFails \/ StartCreate \/ AllocatePart \/ AllocationFails \/ FinishCreate
             \/ Destroy \/ OpenFails \/ FinishLoad \/ GpioSet
             \/ \E length \in Files : StartLoad(length)
             \/ \E n \in 1..ChunkSize : LoadChunk(n) \/ RefuseChunk(n)
      PROVE  FALSE
  BY <1>2, <1>7 DEF CreateFails, StartCreate, AllocatePart, AllocationFails, FinishCreate, Destroy,
     OpenFails, FinishLoad, GpioSet, StartLoad, LoadChunk, RefuseChunk, Returns, AfterRead
<1>8. ASSUME \/ \E c \in {-1, 0, 1}, n \in {-1, 0, 12, 13, 15, 16, 17}, v \in Given :
                  SetRegister(c, n, v)
             \/ \E n \in {0, 2, 31, 32, 33, 34}, v \in Given : SetHart(n, v)
             \/ \E id \in {-1, 0, 1, 2} : UartTransfer(id)
             \/ \E c \in Cores, n \in {12, PC}, v, psr \in Given : Execute(c, n, v, psr)
      PROVE  FALSE
  BY <1>2, <1>8 DEF SetRegister, SetHart, UartTransfer, Execute, Returns
<1>. QED
  BY <1>4, <1>5, <1>6, <1>7, <1>8, Zenon DEF Next

\* What a load or an access reports is what it has done: the accepted ones lie
\* in the SRAM but for the two exceptions, and a loader that returns 0 has put
\* what it read of the file to the start of the SRAM and touched nothing else.
THEOREM LoadsCorrect == Spec => []LoadedOrReported
<1>1. Init => Loads /\ AccessesInside
  BY DEF Init, Loads, LoadHalfway, WholeFile, AccessesInside, Loading, Busy
<1>2. Loads /\ AccessesInside => LoadedOrReported
  BY DEF Loads, LoadedOrReported
<1>. QED
  BY <1>1, <1>2, LoadsNext, AccessesNext, ShapeHolds, PTL DEF Spec

-----------------------------------------------------------------------------
(* Registers *)

\* A register that is set reads back, the pc even and the psr with the top byte
\* that the last instruction left there, and no other register of either core changes; x0 reads as 0.
THEOREM RegistersCorrect == Spec => RegistersReadBack
<1>. DEFINE ArmReads ==
              call'.fn = "set_register" =>
                \A c \in Cores, n \in ArmNumbers \cup {-1, 17} :
                  IF <<c, n>> = <<call'.core, call'.number>>
                  THEN ReadsAs(n, call'.given, Register(c, n), Register(c, n)')
                  ELSE Register(c, n)' = Register(c, n)
            RiscvReads ==
              call'.fn = "riscv_set_register" =>
                /\ \A n \in RiscvNumbers \cup {34} :
                     RiscvGet(hart, n)' = IF n = call'.number /\ n \in RiscvNumbers \ {0}
                                          THEN call'.given ELSE RiscvGet(hart, n)
                /\ RiscvGet(hart, 0)' = 0 /\ RiscvGet(hart, 34)' = 0
<1>1. ASSUME Shape, Next, calls' # calls
      PROVE  ArmReads /\ RiscvReads
  <2>1. ASSUME NEW c \in {-1, 0, 1}, NEW n \in {-1, 0, 12, 13, 15, 16, 17}, NEW v \in Given,
               SetRegister(c, n, v)
        PROVE  ArmReads /\ RiscvReads
    <3>1. /\ call'.fn = "set_register" /\ call'.core = c /\ call'.number = n
          /\ call'.given = v
      BY <2>1 DEF SetRegister, Returns
    <3>2. cores \in [Cores -> ArmCore] /\ v \in Words /\ n \in Int
      BY <1>1, MemoryAssumption DEF Shape
    <3>3. cores' = IF c \in Cores THEN [cores EXCEPT ![c] = ArmSet(cores[c], n, v)] ELSE cores
      BY <2>1 DEF SetRegister
    <3>4. ASSUME NEW d \in Cores, NEW m \in ArmNumbers \cup {-1, 17}
          PROVE  IF <<d, m>> = <<c, n>>
                 THEN ReadsAs(m, v, ArmGet(cores[d], m), ArmGet(cores'[d], m))
                 ELSE ArmGet(cores'[d], m) = ArmGet(cores[d], m)
      <4>1. m \in Int
        BY DEF ArmNumbers
      <4>2. CASE d # c
        BY <3>2, <3>3, <4>2
      <4>3. CASE d = c
        <5>1. cores'[d] = ArmSet(cores[d], n, v) /\ cores[d] \in ArmCore
          BY <3>2, <3>3, <4>3
        <5>. QED
          BY <3>2, <4>1, <4>3, <5>1, ArmSetEffect
      <4>. QED
        BY <4>2, <4>3
    <3>5. ArmReads
      BY <3>1, <3>4 DEF Register
    <3>. QED
      BY <3>1, <3>5
  <2>2. ASSUME NEW n \in {0, 2, 31, 32, 33, 34}, NEW v \in Given, SetHart(n, v)
        PROVE  ArmReads /\ RiscvReads
    <3>1. /\ call'.fn = "riscv_set_register" /\ call'.number = n /\ call'.given = v
          /\ hart' = RiscvSet(hart, n, v)
      BY <2>2 DEF SetHart, Returns
    <3>2. hart \in RiscvCore /\ v \in Words /\ n \in Nat
      BY <1>1, MemoryAssumption DEF Shape
    <3>3. /\ \A m \in Int : RiscvGet(hart', m) =
               IF m = n /\ n \in RiscvNumbers \ {0} THEN v ELSE RiscvGet(hart, m)
          /\ RiscvGet(hart', 0) = 0
      BY <3>1, <3>2, RiscvSetEffect
    <3>4. RiscvGet(hart', 34) = 0 /\ \A m \in RiscvNumbers \cup {34} : m \in Int
      BY DEF RiscvGet, RiscvNumbers
    <3>5. RiscvReads
      BY <3>1, <3>3, <3>4
    <3>. QED
      BY <3>1, <3>5
  <2>3. ASSUME \/ CreateFails \/ StartCreate \/ AllocatePart \/ AllocationFails
               \/ FinishCreate \/ Destroy \/ OpenFails \/ FinishLoad \/ GpioSet
               \/ \E length \in Files : StartLoad(length)
               \/ \E n \in 1..ChunkSize : LoadChunk(n) \/ RefuseChunk(n)
        PROVE  ArmReads /\ RiscvReads
    BY <1>1, <2>3 DEF CreateFails, StartCreate, AllocatePart, AllocationFails, FinishCreate,
       Destroy, OpenFails, FinishLoad, GpioSet, StartLoad, LoadChunk, RefuseChunk, Returns
  <2>4. ASSUME \/ \E addr, len \in Words : LoadBinary(addr, len)
               \/ \E addr \in Words : WriteMemory(addr)
               \/ \E id \in {-1, 0, 1, 2} : UartTransfer(id)
               \/ \E c \in Cores, n \in {12, PC}, v, psr \in Given : Execute(c, n, v, psr)
        PROVE  ArmReads /\ RiscvReads
    BY <2>4 DEF LoadBinary, WriteMemory, UartTransfer, Execute, Returns
  <2>. QED
    BY <1>1, <2>1, <2>2, <2>3, <2>4, Zenon DEF Next
<1>2. Shape /\ [Next]_vars => [calls' # calls => ArmReads /\ RiscvReads]_vars
  BY <1>1, Zenon DEF vars
<1>. QED
  BY <1>2, ShapeHolds, PTL DEF Spec, RegistersReadBack
=============================================================================
