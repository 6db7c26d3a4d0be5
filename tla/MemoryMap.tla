------------------------------- MODULE MemoryMap -------------------------------
(***************************************************************************)
(* What the processor finds outside its ROM and scratchpad, as             *)
(* external_read_* and external_write_* of TMS9900JNI.c serve it: the      *)
(* memory expansion here, the devices in Vdp, Grom and Sound.              *)
(***************************************************************************)
EXTENDS Integers

CONSTANTS Size,   \* the values of a byte: 256
          Bytes,  \* those the program sends
          LowWords, HighWords,  \* the words of the 8K and of the 24K window
          Run,    \* bound: accesses to a device between two addresses
          Torn,   \* half an address that came from an image
          None

ASSUME SizeAssumption == Size \in Nat /\ Size % 4 = 0 /\ Size > 0 /\ Bytes \subseteq 0..Size - 1
ASSUME RunAssumption == Run \in Nat
ASSUME WordsAssumption == LowWords \in Nat /\ HighWords \in Nat /\ LowWords <= HighWords

VARIABLES exception, \* mycpu.exception: the CPU executes nothing
          fault,     \* an array has been left: nothing more is said
          mem,       \* expansion_mem
          stored     \* history: what the program stored last, by address

flags == <<exception, fault>>
memVars == <<mem, stored>>

Byte == 0..Size - 1

ASSUME NoneAssumption == None \notin Int /\ Torn \notin Int /\ Torn # None

Running == ~exception /\ ~fault

-----------------------------------------------------------------------------
(* The expansion.  An address is a window and an offset.  Both windows      *)
(* count from the start of one array: the "8K low memory" of the comments   *)
(* is the beginning of the "24K high memory".                               *)

Cells == ({"low"} \X (0..2 * LowWords - 1)) \cup ({"high"} \X (0..2 * HighWords - 1))
Window(a) == a[1]
Offset(a) == a[2]
After(a) == <<a[1], a[2] + 1>>
EvenCells == {a \in Cells : Offset(a) % 2 = 0}

ReadByteAt(a) == mem[Offset(a)]
ReadWordAt(a) == mem[Offset(a)] * Size + mem[Offset(a) + 1]

StoreByteAt(a, b) ==
  /\ Running
  /\ mem' = [mem EXCEPT ![Offset(a)] = b]
  /\ stored' = [stored EXCEPT ![a] = b]
  /\ UNCHANGED flags

\* Mutant of StoreWordAt: the bytes of the word change places.
StoreWordAt_LowFirst(a, w) ==
  /\ Running
  /\ mem' = [mem EXCEPT ![Offset(a)] = w % Size, ![Offset(a) + 1] = w \div Size]
  /\ stored' = [stored EXCEPT ![a] = w \div Size, ![After(a)] = w % Size]
  /\ UNCHANGED flags

StoreWordAt(a, w) ==
  /\ Running
  /\ mem' = [mem EXCEPT ![Offset(a)] = w \div Size, ![Offset(a) + 1] = w % Size]
  /\ stored' = [stored EXCEPT ![a] = w \div Size, ![After(a)] = w % Size]
  /\ UNCHANGED flags

\* TMS9900_Reset clears the array.
ClearMemory ==
  /\ mem' = [i \in DOMAIN mem |-> 0]
  /\ stored' = [a \in Cells |-> None]

\* A byte read of an address nothing answers, and a word written to anything but the
\* expansion and the VDP's data port, raise the exception.
Unmapped == Running /\ exception' = TRUE /\ UNCHANGED fault

\* The debugger lets the CPU go on.
ClearException == exception /\ exception' = FALSE /\ UNCHANGED fault

MemInit ==
  /\ exception = FALSE /\ fault = FALSE
  /\ mem = [i \in 0..2 * HighWords - 1 |-> 0]
  /\ stored = [a \in Cells |-> None]

MemNext ==
  \/ \E a \in Cells, b \in Bytes : StoreByteAt(a, b)
  \/ \E a \in EvenCells, hi, lo \in Bytes : StoreWordAt(a, hi * Size + lo)

-----------------------------------------------------------------------------
Kept(a) == stored[a] # None => ReadByteAt(a) = stored[a]

\* A program that stores through one of the windows only reads back, by bytes and by
\* words, what it stored last at each address.
OneWindowReadsBack ==
  \A w \in {"low", "high"} :
    (\A a \in Cells : stored[a] # None => Window(a) = w) =>
      /\ \A a \in Cells : Kept(a)
      /\ \A a \in EvenCells : stored[a] # None /\ stored[After(a)] # None =>
           ReadWordAt(a) = stored[a] * Size + stored[After(a)]
=============================================================================
