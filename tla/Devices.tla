-------------------------------- MODULE Devices --------------------------------
(***************************************************************************)
(* The memory map with all its devices.  They share the exception flag,    *)
(* the reset and the image file and are otherwise independent, so that a   *)
(* behaviour is a program that talks to one of them while the user resets, *)
(* saves and restores the machine and the debugger clears exceptions.      *)
(***************************************************************************)
EXTENDS Vdp, Grom, Sound

CONSTANT Units  \* the devices under study

VARIABLE unit   \* the device this program talks to

vars == <<unit, flags, memVars, vdpVars, gromVars, soundVars>>

Access ==
  \/ unit = "expansion" /\ MemNext /\ UNCHANGED <<vdpVars, gromVars, soundVars>>
  \/ unit = "vdp" /\ VdpNext /\ UNCHANGED <<memVars, gromVars, soundVars>>
  \/ unit = "grom" /\ GromNext /\ UNCHANGED <<memVars, vdpVars, soundVars>>
  \/ unit = "sound" /\ SoundNext /\ UNCHANGED <<memVars, vdpVars, gromVars>>

Elsewhere ==
  \/ unit = "sound" /\ SoundElsewhere /\ UNCHANGED <<flags, memVars, vdpVars, gromVars>>
  \/ unit = "grom" /\ ~fault /\ LoadCartGROM
       /\ UNCHANGED <<flags, memVars, vdpVars, soundVars>>

NoAnswer ==
  /\ (unit = "expansion" /\ Unmapped) \/ ClearException
  /\ UNCHANGED <<memVars, vdpVars, gromVars, soundVars>>

\* The sound chip is not reset, nor is the exception flag.
ResetCPU ==
  /\ ~fault /\ unit # "sound"
  /\ VdpReset /\ GromReset /\ ClearMemory
  /\ UNCHANGED <<flags, soundVars>>

\* Neither sound nor the expansion is in the image.
SaveImage ==
  /\ ~fault /\ unit \in {"vdp", "grom"}
  /\ VdpSave /\ GromSave
  /\ UNCHANGED <<flags, memVars, soundVars>>

LoadImage ==
  /\ ~fault
  /\ VdpLoad /\ GromLoad
  /\ UNCHANGED <<flags, memVars, soundVars>>

Undefined == fault /\ UNCHANGED vars

Init == unit \in Units /\ MemInit /\ VdpInit /\ GromInit /\ SoundInit

Next ==
  \/ (Access \/ Elsewhere \/ NoAnswer \/ ResetCPU \/ SaveImage \/ LoadImage) /\ UNCHANGED unit
  \/ Undefined

Spec == Init /\ [][Next]_vars

-----------------------------------------------------------------------------
(* Properties *)

Halves(bytes) == bytes \cup {None, Torn}

\* Addresses, latches and registers stay within the code's types and the bounds here.
DevicesTypeOK ==
  /\ exception \in BOOLEAN /\ fault \in BOOLEAN
  /\ vdp \in [latch : {0, 1}, addr : 0..VdpSize + Run, byte : [{0, 1} -> Byte]]
  /\ vdpSent \in [half : Halves(VdpBytes), at : 0..VdpSize + Run \cup {None}, run : 0..Run]
  /\ grom \in [latch : {0, 1}, addr : 0..AddrSize - 1, byte : [{0, 1} -> Byte],
               read : {0, 1}, cart : {0, 1}]
  /\ gromSent \in [half : Halves(GromBytes), at : 0..AddrSize - 1 \cup {None}, run : 0..Run]
  /\ chip \in [freq : [Generators -> SUBSET (LowBits \cup HighBits)],
               att : [Generators -> Attenuations \cup {0}], generator : Generators,
               callback : BOOLEAN, setup : {"none", "registers", "done"}]
  /\ mem \in [0..2 * HighWords - 1 -> Byte]
=============================================================================
