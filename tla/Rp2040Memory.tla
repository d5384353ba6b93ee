---------------------------- MODULE Rp2040Memory -----------------------------
(***************************************************************************)
(* The rest of mcu/rp2040/src/rp2040.c: the life of a system, from its     *)
(* eight allocations to rp2040_destroy, and the calls that load and access *)
(* its SRAM, its registers and its peripherals.  Rp2040 has the control of *)
(* the calls that step it; here a step is what it can do to the registers. *)
(*                                                                         *)
(* rp2040_create and rp2040_load_elf are loops of steps that can fail, all *)
(* other calls are one step.  A byte is known by where it came from: <<k,  *)
(* i>> is byte i of what call k was given, <<0, 0>> what sram_init left.   *)
(* The functions of sram.h, gpio.h, uart.h and ahb_lite.h are not part of  *)
(* the repository; of a peripheral the model keeps which call used it last.*)
(***************************************************************************)
EXTENDS Registers, Sequences

CONSTANTS SramBase, SramSize,  \* RP2040_SRAM_BASE, RP2040_SRAM_SIZE
          ChunkSize,           \* the buffer of rp2040_load_elf: 4096
          WordSize,            \* bytes of a word: 4
          Files,               \* lengths of the files that are loaded
          Given,               \* values that registers are set to, by a call or an
                               \* instruction
          MaxCalls             \* bound: calls of the API

ASSUME MemoryAssumption ==
  /\ SramBase \in Words /\ SramBase % 2 = 0 /\ SramSize \in Nat \ {0}
  /\ ChunkSize \in Nat \ {0} /\ WordSize \in Nat \ {0} /\ Files \subseteq Nat
  /\ SramBase + SramSize + ChunkSize < WordModulus
  /\ Given \subseteq Words
  /\ MaxCalls \in Nat

VARIABLES heap,    \* what of a system is allocated
          parts,   \* the pointers of sys that are not NULL
          wild,    \* history: something was freed that was not allocated
          cores,   \* *sys->cores[0] and *sys->cores[1]
          hart,    \* a riscv_core_state_t that the program has of its own
          sram,    \* sys->sram->data, from its first byte on
          used,    \* history: the call that last used each peripheral
          call,    \* the call in progress, or the last one
          calls    \* how many there were

vars == <<heap, parts, wild, cores, hart, sram, used, call, calls>>

Cores == {0, 1}
Uarts == {"uart0", "uart1"}

\* The order in which rp2040_create allocates them.
Order == <<"core0", "core1", "sram", "gpio", "uart0", "uart1", "ahb_bus">>
Parts == {"core0", "core1", "sram", "gpio", "uart0", "uart1", "ahb_bus"}

Offsets == 0..SramSize - 1
Bytes   == (0..MaxCalls) \X Nat

Untouched == [o \in Offsets |-> <<0, 0>>]

Busy    == call.value = "running"
Created == heap # {} /\ ~Busy

\* A call that is one step, with its arguments and its value.
Returns(record) == call' = record /\ calls' = calls + 1

\* The next call is made, on a system unless it makes one.
Calls == ~Busy /\ calls < MaxCalls
CallsSystem == Created /\ calls < MaxCalls

Init == /\ heap = {} /\ parts = {} /\ wild = FALSE
        /\ cores = [c \in Cores |-> ArmReset]
        /\ hart = RiscvReset
        /\ sram = Untouched
        /\ used = [p \in Uarts \cup {"gpio"} |-> 0]
        /\ call = [fn |-> "none", value |-> "ok"]
        /\ calls = 0

-----------------------------------------------------------------------------
(* rp2040_create and rp2040_destroy *)

Memory    == <<cores, sram>>
Elsewhere == <<hart, used>>

\* A system whose struct is not cleared, so that a pointer is not NULL.
NoParts == {"uart1"}

\* The pointers of a system that memset has cleared.
ClearedParts == {}

\* What all pointers of sys that are not NULL point at is freed, and sys.
Destroyed == heap' = heap \ (parts \cup {"sys"})

\* Nothing is allocated that is freed.
NoticeWild == wild' = (wild \/ ~(parts \subseteq heap))

CreateFails ==
  /\ Calls /\ heap = {}
  /\ Returns([fn |-> "create", value |-> "NULL"])
  /\ UNCHANGED <<heap, parts, wild, Memory, Elsewhere>>

StartCreate ==
  /\ Calls /\ heap = {}
  /\ heap' = {"sys"}
  /\ parts' = ClearedParts
  /\ Returns([fn |-> "create", value |-> "running", next |-> 1])
  /\ UNCHANGED <<wild, Memory, Elsewhere>>

Creating == call.fn = "create" /\ Busy

\* A part is allocated and initialised; the cores are reset, the SRAM is not
\* what it was.
AllocatePart ==
  /\ Creating /\ call.next <= Len(Order)
  /\ LET p == Order[call.next]
     IN  /\ heap' = heap \cup {p}
         /\ parts' = parts \cup {p}
         /\ cores' = [c \in Cores |-> IF p = Order[c + 1] THEN ArmReset ELSE cores[c]]
         /\ sram' = IF p = "sram" THEN Untouched ELSE sram
  /\ call' = [fn |-> "create", value |-> "running", next |-> call.next + 1]
  /\ UNCHANGED <<wild, Elsewhere, calls>>

AllocationFails ==
  /\ Creating /\ call.next <= Len(Order)
  /\ Destroyed /\ NoticeWild
  /\ parts' = {}
  /\ call' = [fn |-> "create", value |-> "NULL"]
  /\ UNCHANGED <<Memory, Elsewhere, calls>>

FinishCreate ==
  /\ Creating /\ call.next > Len(Order)
  /\ call' = [fn |-> "create", value |-> "ok"]
  /\ UNCHANGED <<heap, parts, wild, Memory, Elsewhere, calls>>

Destroy ==
  /\ CallsSystem
  /\ Destroyed /\ NoticeWild
  /\ parts' = {}
  /\ Returns([fn |-> "destroy", value |-> "ok"])
  /\ UNCHANGED <<Memory, Elsewhere>>

System == <<heap, parts, wild>>

-----------------------------------------------------------------------------
(* rp2040_load_binary and rp2040_load_elf *)

\* The test of rp2040_load_binary; its sum is a uint32_t.
InRange(addr, len) ==
  addr >= SramBase /\ (addr + len) % WordModulus <= SramBase + SramSize

\* A copy of one byte more than len.
CopiedOneMore(k, i, addr, len) ==
  [o \in Offsets \cup {addr + len - SramBase} |->
     IF o + SramBase \in addr..addr + len THEN <<k, i + o + SramBase - addr>> ELSE sram[o]]

\* memcpy of len bytes of call k, from its byte i on, to addr.  What it writes
\* beyond the SRAM the model does not say.
Copied(k, i, addr, len) ==
  [o \in Offsets |-> IF o + SramBase \in addr..addr + len - 1
                     THEN <<k, i + o + SramBase - addr>> ELSE sram[o]]

LoadBinary(addr, len) ==
  /\ CallsSystem
  /\ sram' = IF InRange(addr, len) THEN Copied(calls + 1, 1, addr, len) ELSE sram
  /\ Returns([fn |-> "load_binary", addr |-> addr, len |-> len,
              value |-> IF InRange(addr, len) THEN "ok" ELSE "failed"])
  /\ UNCHANGED <<System, cores, Elsewhere>>

OpenFails ==
  /\ CallsSystem
  /\ Returns([fn |-> "load_elf", value |-> "failed", opened |-> FALSE])
  /\ UNCHANGED <<System, Memory, Elsewhere>>

\* before and broken are history: the memory when the call was made, and
\* whether a read of the file failed.
StartLoad(length) ==
  /\ CallsSystem
  /\ Returns([fn |-> "load_elf", value |-> "running", opened |-> TRUE, length |-> length,
              read |-> 0, broken |-> FALSE, before |-> [sram |-> sram, cores |-> cores]])
  /\ UNCHANGED <<System, Memory, Elsewhere>>

Loading == call.fn = "load_elf" /\ Busy

Least(m, n) == IF m < n THEN m ELSE n

\* What fread gives: a full buffer or what is left of the file, or less if the
\* file cannot be read, and then nothing more.
Reads == LET rest == Least(ChunkSize, call.length - call.read)
         IN  IF call.broken THEN {0} ELSE 0..rest

\* The call after a read of n bytes.
AfterRead(n, value) ==
  [fn |-> "load_elf", value |-> value, opened |-> TRUE, length |-> call.length,
   read |-> call.read + n, before |-> call.before,
   broken |-> call.broken \/ n < Least(ChunkSize, call.length - call.read)]

\* A loader that puts every chunk to the same place.
LoadChunkInPlace(n) ==
  /\ Loading /\ n \in Reads /\ n > 0
  /\ InRange(SramBase + call.read, n)
  /\ sram' = Copied(calls, call.read + 1, SramBase, n)
  /\ call' = AfterRead(n, "running")
  /\ UNCHANGED <<System, cores, Elsewhere, calls>>

LoadChunk(n) ==
  /\ Loading /\ n \in Reads /\ n > 0
  /\ InRange(SramBase + call.read, n)
  /\ sram' = Copied(calls, call.read + 1, SramBase + call.read, n)
  /\ call' = AfterRead(n, "running")
  /\ UNCHANGED <<System, cores, Elsewhere, calls>>

RefuseChunk(n) ==
  /\ Loading /\ n \in Reads /\ n > 0
  /\ ~InRange(SramBase + call.read, n)
  /\ call' = AfterRead(n, "failed")
  /\ UNCHANGED <<System, Memory, Elsewhere, calls>>

\* Nothing was read: the end of the file, or so rp2040_load_elf takes it.
FinishLoad ==
  /\ Loading /\ 0 \in Reads
  /\ cores' = [cores EXCEPT ![0] = [@ EXCEPT ![PC] = SramBase]]
  /\ call' = AfterRead(0, "ok")
  /\ UNCHANGED <<System, sram, Elsewhere, calls>>

-----------------------------------------------------------------------------
(* Words of memory, registers and peripherals *)

Holds(addr) == addr \in SramBase..SramBase + SramSize - 1

\* sram_write_word is given the offset of addr.
WriteMemory(addr) ==
  /\ CallsSystem
  /\ sram' = IF Holds(addr) THEN Copied(calls + 1, 1, addr, WordSize) ELSE sram
  /\ Returns([fn |-> "write_memory", addr |-> addr, len |-> WordSize,
              value |-> IF Holds(addr) THEN "ok" ELSE "failed"])
  /\ UNCHANGED <<System, cores, Elsewhere>>

SetRegister(c, n, value) ==
  /\ CallsSystem
  /\ cores' = IF c \in Cores THEN [cores EXCEPT ![c] = ArmSet(@, n, value)] ELSE cores
  /\ Returns([fn |-> "set_register", core |-> c, number |-> n, given |-> value, value |-> "ok"])
  /\ UNCHANGED <<System, sram, Elsewhere>>

\* rp2040_get_register
Register(c, n) == IF c \in Cores THEN ArmGet(cores[c], n) ELSE 0

\* riscv_set_register: no system uses a RISC-V core, a program may have one.
SetHart(n, value) ==
  /\ Calls
  /\ hart' = RiscvSet(hart, n, value)
  /\ Returns([fn |-> "riscv_set_register", number |-> n, given |-> value, value |-> "ok"])
  /\ UNCHANGED <<System, Memory, used>>

\* Each instruction that rp2040_step, rp2040_step_core and the two run functions
\* execute on a core.  arm_thumb2_execute, which is not part of the repository,
\* is given the core only; here an instruction leaves other values in a register
\* and, with its flags, in the psr.
Execute(c, n, value, psr) ==
  /\ CallsSystem
  /\ cores' = [cores EXCEPT ![c] = [@ EXCEPT ![n] = value, ![PSR] = psr]]
  /\ Returns([fn |-> "step", value |-> "ok"])
  /\ UNCHANGED <<System, sram, Elsewhere>>

\* rp2040_gpio_set, rp2040_uart_write and rp2040_uart_read; the UART that a
\* number is for.
GpioSet ==
  /\ CallsSystem
  /\ used' = IF "gpio" \in parts THEN [used EXCEPT !["gpio"] = calls + 1] ELSE used
  /\ Returns([fn |-> "gpio_set", value |-> "ok"])
  /\ UNCHANGED <<System, Memory, hart>>

Uart(id) == IF id = 0 THEN "uart0" ELSE "uart1"

UartTransfer(id) ==
  /\ CallsSystem
  /\ LET given == id \in {0, 1} /\ Uart(id) \in parts
     IN  /\ used' = IF given THEN [used EXCEPT ![Uart(id)] = calls + 1] ELSE used
         /\ Returns([fn |-> "uart", value |-> IF given THEN "ok" ELSE "failed"])
  /\ UNCHANGED <<System, Memory, hart>>
-----------------------------------------------------------------------------
Next == \/ CreateFails \/ StartCreate \/ AllocatePart \/ AllocationFails \/ FinishCreate
        \/ Destroy \/ OpenFails \/ FinishLoad \/ GpioSet
        \/ \E length \in Files : StartLoad(length)
        \/ \E n \in 1..ChunkSize : LoadChunk(n) \/ RefuseChunk(n)
        \/ \E addr, len \in Words : LoadBinary(addr, len)
        \/ \E addr \in Words : WriteMemory(addr)
        \/ \E c \in {-1, 0, 1}, n \in {-1, 0, 12, 13, 15, 16, 17}, v \in Given :
             SetRegister(c, n, v)
        \/ \E c \in Cores, n \in {12, PC}, v, psr \in Given : Execute(c, n, v, psr)
        \/ \E n \in {0, 2, 31, 32, 33, 34}, v \in Given : SetHart(n, v)
        \/ \E id \in {-1, 0, 1, 2} : UartTransfer(id)

Spec == Init /\ [][Next]_vars

-----------------------------------------------------------------------------
(* Properties *)

TypeOK == /\ heap \subseteq Parts \cup {"sys"} /\ parts \subseteq Parts /\ wild \in BOOLEAN
          /\ cores \in [Cores -> [ArmNumbers -> Words]]
          /\ hart \in [RiscvNumbers -> Words]
          /\ sram \in [Offsets -> Bytes]
          /\ used \in [Uarts \cup {"gpio"} -> 0..MaxCalls]
          /\ calls \in 0..MaxCalls
          /\ call.value \in {"running", "ok", "failed", "NULL"}

\* A system is there with all its parts or not at all: whichever allocation of
\* rp2040_create fails, and after rp2040_destroy, nothing is left allocated, and
\* no pointer is freed that does not point at anything.
PartsHaveOwners ==
  /\ ~wild
  /\ ~Busy => heap \in {{}, Parts \cup {"sys"}} /\ (heap # {} => parts = Parts)
  /\ call.fn = "create" => (call.value = "NULL" <=> heap = {})

\* An accepted access lies in the SRAM with all its bytes, but for two cases:
\* a length that takes addr + len over the end of the address space, and a word
\* that begins in the last bytes.  rp2040_load_elf never comes near either.
AccessesInside ==
  /\ call.fn \in {"load_binary", "write_memory"} /\ call.value = "ok" =>
       \/ call.addr >= SramBase /\ call.addr + call.len <= SramBase + SramSize
       \/ call.fn = "load_binary" /\ call.addr + call.len >= WordModulus
       \/ call.fn = "write_memory" /\ call.addr + call.len \in SramBase + SramSize + 1 ..
                                                               SramBase + SramSize + WordSize - 1
  /\ Loading => call.read <= SramSize

\* The memory before the call with the first n bytes of the file in front.
WithFile(n) == [o \in Offsets |-> IF o < n THEN <<calls, o + 1>> ELSE call.before.sram[o]]

\* rp2040_load_elf that returns 0 has put the whole file to the start of the
\* SRAM and core 0 there - or as much of it as could be read: a read error
\* passes for the end of the file.  If it returns -1 the file could not be
\* opened and nothing has changed, or it is longer than the SRAM, whole chunks
\* of it are there, and no core has moved.
WholeFile ==
  call.fn = "load_elf" /\ call.opened /\ ~Busy =>
    \/ /\ call.value = "ok"
       /\ call.read = call.length \/ call.broken
       /\ call.read <= SramSize /\ sram = WithFile(call.read)
       /\ Register(0, PC) = SramBase
       /\ \A c \in Cores, n \in ArmNumbers : <<c, n>> # <<0, PC>> =>
            Register(c, n) = call.before.cores[c][n]
    \/ /\ call.value = "failed"
       /\ call.length > SramSize /\ cores = call.before.cores
       /\ \E n \in 0..SramSize : n % ChunkSize = 0 /\ sram = WithFile(n)

\* Loads and accesses do what they report and no more: both of the above.
LoadedOrReported == AccessesInside /\ WholeFile

\* What a register that was before reads as after value was written to it.
ReadsAs(n, value, before, now) ==
  /\ n \in ArmNumbers \ {PC, PSR} => now = value
  /\ n = PC => now % 2 = 0 /\ now \in {value, value - 1}
  /\ n = PSR => High(now) = High(before) /\ Low(now) = Low(value)
  /\ n \notin ArmNumbers => now = 0

\* A register that is set reads as the value, but the pc is even then and the
\* psr keeps the flags and the Thumb bit that the last instruction left in its
\* top byte; no other register of the core and none of the other core changes,
\* x0 of a RISC-V core least of all.
RegistersReadBack ==
  [][calls' # calls =>
       /\ call'.fn = "set_register" =>
            \A c \in Cores, n \in ArmNumbers \cup {-1, 17} :
              IF <<c, n>> = <<call'.core, call'.number>>
              THEN ReadsAs(n, call'.given, Register(c, n), Register(c, n)')
              ELSE Register(c, n)' = Register(c, n)
       /\ call'.fn = "riscv_set_register" =>
            /\ \A n \in RiscvNumbers \cup {34} :
                 RiscvGet(hart, n)' = IF n = call'.number /\ n \in RiscvNumbers \ {0}
                                      THEN call'.given ELSE RiscvGet(hart, n)
            /\ RiscvGet(hart, 0)' = 0 /\ RiscvGet(hart, 34)' = 0]_vars
=============================================================================
