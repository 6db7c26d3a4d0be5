--------------------------------- MODULE Sound ---------------------------------
(***************************************************************************)
(* The sound chip (TMS9900JNI.c) and the queue by which the simulator      *)
(* thread tells the generator's thread of its changes                      *)
(* (TISoundGenerator.java).  A frequency is the set of its bits.           *)
(***************************************************************************)
EXTENDS MemoryMap, Sequences

CONSTANTS Generators, Tones,    \* 0..3, and the NUM_TONE_GENERATORS of them that are heard
          LowBits, HighBits,    \* the bits of a frequency, by the byte that carries them
          Attenuations, Silent, \* 0..15, and 15
          QueueBound            \* bound: changes the sound thread may be behind

ASSUME ToneAssumption == Tones \subseteq Generators /\ 0 \in Tones
ASSUME SilentAssumption == Silent \in Attenuations

VARIABLES chip,   \* SndChip, the generator named last, and the progress of SetupSound
          workQ,  \* changes on their way to the sound thread
          heard,  \* what it plays
          meant   \* history: what the program means each generator to do, where it has
                  \* said so since sound was set up, and a frequency it has half sent

soundVars == <<chip, workQ, heard, meant>>

Silence == [g \in Generators |-> [freq |-> None, att |-> None]]

\* soundCallback, once there is a callback, and updateRegisters, which ignores noise.
Tell(g, c) ==
  IF c.callback /\ g \in Tones
  THEN /\ Len(workQ) < QueueBound
       /\ workQ' = Append(workQ, [g |-> g, freq |-> c.freq[g], att |-> c.att[g]])
  ELSE UNCHANGED workQ

\* The first byte of a frequency replaces it by its low bits and tells nobody.
Frequency(g, bits) ==
  /\ Running
  /\ chip' = [chip EXCEPT !.generator = g, !.freq[g] = bits]
  /\ meant' = [meant EXCEPT !.as[g].freq = None, !.half = [g |-> g, bits |-> bits]]
  /\ UNCHANGED <<flags, workQ, heard>>

Attenuation(g, a) ==
  /\ Running
  /\ chip' = [chip EXCEPT !.generator = g, !.att[g] = a]
  /\ Tell(g, chip')
  /\ meant' = [meant EXCEPT !.as[g].att = a, !.half = None]
  /\ UNCHANGED <<flags, heard>>

\* Mutant of FrequencyData: the finished frequency is told to nobody.
FrequencyData_Untold(bits) ==
  /\ Running
  /\ LET g == chip.generator
     IN /\ chip' = [chip EXCEPT !.freq[g] = @ \cup bits]
        /\ meant' = [meant EXCEPT !.half = None,
                       !.as[g].freq = IF meant.half = None THEN None ELSE meant.half.bits \cup bits]
  /\ UNCHANGED <<flags, workQ, heard>>

\* The bits of the second byte are added to what the frequency of the generator named last
\* has.  A program that sends this byte alone, to change the high bits only, or after an
\* attenuation gets bits it did not mean: nothing is said of its frequency.
FrequencyData(bits) ==
  /\ Running
  /\ LET g == chip.generator
     IN /\ chip' = [chip EXCEPT !.freq[g] = @ \cup bits]
        /\ Tell(g, chip')
        /\ meant' = [meant EXCEPT !.half = None,
                       !.as[g].freq = IF meant.half = None THEN None ELSE meant.half.bits \cup bits]
  /\ UNCHANGED <<flags, heard>>

\* SetupSound is called when the simulator thread already runs: it sets the registers ...
SetupRegisters ==
  /\ chip.setup = "none"
  /\ chip' = [chip EXCEPT
                !.freq = [g \in Generators |-> IF g \in Tones THEN LowBits \cup HighBits ELSE @[g]],
                !.att = [g \in Generators |-> IF g \in Tones THEN Silent ELSE @[g]],
                !.setup = "registers"]
  /\ UNCHANGED <<workQ, heard, meant>>

\* ... and then the callback.  What the program has said before is lost.
SetupCallback ==
  /\ chip.setup = "registers"
  /\ chip' = [chip EXCEPT !.callback = TRUE, !.setup = "done"]
  /\ meant' = [as |-> Silence, half |-> None]
  /\ UNCHANGED <<workQ, heard>>

\* generateSamples applies the oldest change when its time has come.
Play ==
  /\ workQ # << >>
  /\ LET w == Head(workQ) IN heard' = [heard EXCEPT ![w.g] = [freq |-> w.freq, att |-> w.att]]
  /\ workQ' = Tail(workQ)
  /\ UNCHANGED <<chip, meant>>

SoundInit ==
  /\ chip = [freq |-> [g \in Generators |-> {}], att |-> [g \in Generators |-> 0],
             generator |-> 0, callback |-> FALSE, setup |-> "none"]
  /\ workQ = << >>
  /\ heard = [g \in Tones |-> [freq |-> {}, att |-> Silent]]
  /\ meant = [as |-> Silence, half |-> None]

SoundNext ==
  \/ \E g \in Generators, bits \in SUBSET LowBits : Frequency(g, bits)
  \/ \E g \in Generators, a \in Attenuations : Attenuation(g, a)
  \/ \E bits \in SUBSET HighBits : FrequencyData(bits)

\* The other threads.
SoundElsewhere == SetupRegisters \/ SetupCallback \/ Play

-----------------------------------------------------------------------------
\* What g will sound like when the queue has been played.
Coming(g) ==
  LET told == {k \in 1..Len(workQ) : workQ[k].g = g}
  IN IF told = {} THEN heard[g]
     ELSE LET w == workQ[CHOOSE k \in told : \A j \in told : j <= k]
          IN [freq |-> w.freq, att |-> w.att]

\* Once the queue has been played, each tone generator sounds as the program last told it
\* to, in frequencies sent as pairs and in attenuations, however these overtake each other
\* and wherever the setting up of sound falls.
SoundAsMeant ==
  \A g \in Tones :
    /\ meant.as[g].freq # None /\ chip.callback => Coming(g).freq = meant.as[g].freq
    /\ meant.as[g].att # None /\ chip.callback => Coming(g).att = meant.as[g].att
=============================================================================
