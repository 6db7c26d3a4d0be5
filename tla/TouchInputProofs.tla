-------------------------- MODULE TouchInputProofs --------------------------
(***************************************************************************)
(* Theorems about TouchInput: the input handlers use the native keyboard   *)
(* only as KeyQueue describes, so that what KeyQueue guarantees holds for  *)
(* every way of touching the screen; and no modifier is left behind.       *)
(***************************************************************************)
EXTENDS TouchInput, KeyQueueProofs

\* What the input handlers keep in their own variables.
OwnTypeOK ==
  /\ latch \subseteq Modifiers
  /\ outbox \in Seq(Change)
  /\ foreign \subseteq Modifiers

LEMMA ModifiersAreKeys == Modifiers \subseteq Keys /\ Letters \subseteq Keys
BY KeysAssumption

LEMMA ChangesTyped ==
  ASSUME NEW k \in Letters, OwnTypeOK
  PROVE  PressChanges(k) \in Seq(Change) /\ ReleaseChanges(k) \in Seq(Change)
<1>1. \A q \in Keys : On(q) \in Change /\ Off(q) \in Change
  BY DEF On, Off, Change
<1>2. k \in Keys /\ Shift \in Keys /\ Fctn \in Keys /\ Ctl \in Keys
  BY ModifiersAreKeys DEF Modifiers
<1>3. \A m \in Modifiers : /\ IfLatched(m, On(m)) \in Seq(Change)
                           /\ IfLatched(m, Off(m)) \in Seq(Change)
  BY <1>1, ModifiersAreKeys DEF IfLatched
<1>4. /\ <<On(Fctn)>> \in Seq(Change) /\ <<On(k)>> \in Seq(Change)
      /\ <<Off(k), Off(Fctn)>> \in Seq(Change) /\ <<Off(k)>> \in Seq(Change)
  BY <1>1, <1>2
<1>5. PressChanges(k) \in Seq(Change)
  BY <1>3, <1>4, ConcatProperties DEF PressChanges, Modifiers
<1>6. ReleaseChanges(k) \in Seq(Change)
  BY <1>3, <1>4, ConcatProperties DEF ReleaseChanges, Modifiers
<1> QED BY <1>5, <1>6

LEMMA OwnTyped == TouchSpec => []OwnTypeOK
<1>1. TouchInit => OwnTypeOK
  BY EmptySeq DEF TouchInit, OwnTypeOK
<1>2. OwnTypeOK /\ [TouchNext]_vars => OwnTypeOK'
  <2> SUFFICES ASSUME OwnTypeOK, [TouchNext]_vars PROVE OwnTypeOK'
    OBVIOUS
  <2> USE DEF OwnTypeOK
  <2>1. ASSUME NEW m \in Touched, TouchModifier(m) PROVE OwnTypeOK'
    BY <2>1, KeysAssumption DEF TouchModifier
  <2>2. ASSUME NEW k \in Letters, TouchDown(k) PROVE OwnTypeOK'
    BY <2>2, ChangesTyped DEF TouchDown
  <2>3. ASSUME NEW k \in Letters, TouchOther(k) PROVE OwnTypeOK'
    BY <2>3, ChangesTyped DEF TouchOther
  <2>4. ASSUME NEW k \in HwKeys, NEW s \in {0, 1}, HwKey(k, s) PROVE OwnTypeOK'
    BY <2>4 DEF HwKey
  <2>5. CASE UiPost
    BY <2>5, HeadTailProperties DEF UiPost
  <2>6. CASE UiReset
    BY <2>6 DEF UiReset
  <2>7. CASE Recreate
    BY <2>7 DEF Recreate
  <2>8. CASE UNCHANGED touchVars
    BY <2>8 DEF touchVars
  <2> QED BY <2>1, <2>2, <2>3, <2>4, <2>5, <2>6, <2>7, <2>8
          DEF TouchNext, Machine, vars
<1> QED BY <1>1, <1>2, PTL DEF TouchSpec

(* Every behaviour of the input handlers is, for the native keyboard, a      *)
(* behaviour of KeyQueue: onTouchEvent, onKeyDown, onKeyUp and the settings  *)
(* dialog change keyboard state by TMS9900_Keyboard and TMS9900_Reset only.  *)
THEOREM TouchImplementsQueue == TouchSpec => Safety
<1>1. TouchInit => Init
  BY DEF TouchInit
<1>2. OwnTypeOK /\ [TouchNext]_vars => [Next]_queueVars
  <2> SUFFICES ASSUME OwnTypeOK, [TouchNext]_vars PROVE [Next]_queueVars
    OBVIOUS
  <2>1. CASE UiPost
    <3>1. Head(outbox).key \in Keys /\ Head(outbox).state \in {0, 1}
      <4>1. Head(outbox) \in Change
        BY <2>1, HeadTailProperties DEF UiPost, OwnTypeOK
      <4> QED BY <4>1 DEF Change
    <3> QED BY <2>1, <3>1 DEF UiPost, Next
  <2>2. CASE UiReset
    BY <2>2 DEF UiReset, Next
  <2>3. CASE Machine
    BY <2>3 DEF Machine, Next
  <2>4. CASE UNCHANGED queueVars
    BY <2>4
  <2>5. ASSUME NEW k \in HwKeys, NEW s \in {0, 1}, HwKey(k, s) PROVE [Next]_queueVars
    BY <2>5, KeysAssumption DEF HwKey, Next
  <2> QED BY <2>1, <2>2, <2>3, <2>4, <2>5
          DEF TouchNext, vars, TouchModifier, TouchDown, TouchOther, Recreate
<1> QED BY <1>1, <1>2, OwnTyped, PTL DEF TouchSpec, Safety

(* However the screen and the keys are touched, the matrix shows every key   *)
(* as it was last posted, unless two changes of it shared a batch.           *)
THEOREM TouchKeepsMatrix == TouchSpec => []MatrixTracksLevel
BY TouchImplementsQueue, SafetyTracks, PTL

-----------------------------------------------------------------------------
\* Joining the tuples of changes a handler is made of.
LEMMA Joined ==
  ASSUME NEW S, NEW a \in S, NEW b \in S, NEW c \in S
  PROVE  /\ << >> \o << >> = << >> /\ << >> \o <<a>> = <<a>> /\ << >> \o <<a, b>> = <<a, b>>
         /\ <<a>> \o << >> = <<a>> /\ <<a>> \o <<b>> = <<a, b>>
         /\ <<a>> \o <<b, c>> = <<a, b, c>>
         /\ <<a, b>> \o <<c>> = <<a, b, c>>
<1>1. /\ << >> \in Seq(S) /\ <<a>> \in Seq(S) /\ <<b>> \in Seq(S) /\ <<c>> \in Seq(S)
      /\ <<a, b>> \in Seq(S) /\ <<b, c>> \in Seq(S) /\ <<a, b, c>> \in Seq(S)
  OBVIOUS
<1>2. \A s \in Seq(S) : << >> \o s = s /\ s \o << >> = s
  BY ConcatEmptySeq
<1>3. <<a>> \o <<b>> = <<a, b>>
  <2> DEFINE s == <<a>> \o <<b>>
  <2>1. s \in Seq(S) /\ Len(s) = 2 /\ s[1] = a /\ s[2] = b
    BY <1>1, ConcatProperties
  <2> HIDE DEF s
  <2>2. s = <<a, b>>
    BY <1>1, <2>1, SeqEqual
  <2> QED BY <2>2 DEF s
<1>4. <<a>> \o <<b, c>> = <<a, b, c>>
  <2> DEFINE s == <<a>> \o <<b, c>>
  <2>1. /\ s \in Seq(S) /\ Len(s) = 1 + 2
        /\ \A i \in 1..3 : s[i] = IF i <= 1 THEN <<a>>[i] ELSE <<b, c>>[i - 1]
    BY <1>1, ConcatProperties
  <2> HIDE DEF s
  <2>2. Len(s) = 3 /\ s[1] = a /\ s[2] = b /\ s[3] = c
    BY <2>1
  <2>3. s = <<a, b, c>>
    BY <1>1, <2>1, <2>2, SeqEqual
  <2> QED BY <2>3 DEF s
<1>5. <<a, b>> \o <<c>> = <<a, b, c>>
  <2> DEFINE s == <<a, b>> \o <<c>>
  <2>1. /\ s \in Seq(S) /\ Len(s) = 2 + 1
        /\ \A i \in 1..3 : s[i] = IF i <= 2 THEN <<a, b>>[i] ELSE <<c>>[i - 2]
    BY <1>1, ConcatProperties
  <2> HIDE DEF s
  <2>2. Len(s) = 3 /\ s[1] = a /\ s[2] = b /\ s[3] = c
    BY <2>1
  <2>3. s = <<a, b, c>>
    BY <1>1, <2>1, <2>2, SeqEqual
  <2> QED BY <2>3 DEF s
<1> QED BY <1>1, <1>2, <1>3, <1>4, <1>5

\* The changes one handler posts, as tuples, under each state of the latches.
LEMMA PressShapes ==
  ASSUME NEW k
  PROVE  \/ /\ Shift \in latch /\ Fctn \in latch
            /\ PressChanges(k) = <<On(Shift), On(Fctn), On(k)>>
         \/ /\ Shift \in latch /\ Fctn \notin latch /\ Ctl \in latch
            /\ PressChanges(k) = <<On(Shift), On(Ctl), On(k)>>
         \/ /\ Shift \in latch /\ Fctn \notin latch /\ Ctl \notin latch
            /\ PressChanges(k) = <<On(Shift), On(k)>>
         \/ /\ Shift \notin latch /\ Fctn \in latch
            /\ PressChanges(k) = <<On(Fctn), On(k)>>
         \/ /\ Shift \notin latch /\ Fctn \notin latch /\ Ctl \in latch
            /\ PressChanges(k) = <<On(Ctl), On(k)>>
         \/ /\ Shift \notin latch /\ Fctn \notin latch /\ Ctl \notin latch
            /\ PressChanges(k) = <<On(k)>>
<1> DEFINE S == {On(Shift), On(Fctn), On(Ctl), On(k)}
<1>1. On(Shift) \in S /\ On(Fctn) \in S /\ On(Ctl) \in S /\ On(k) \in S
  OBVIOUS
<1> HIDE DEF S
<1>2. \A a \in S : << >> \o <<a>> = <<a>> /\ <<a>> \o << >> = <<a>> /\ << >> \o << >> = << >>
  BY Joined
<1>3. \A a, b \in S : <<a>> \o <<b>> = <<a, b>>
  BY Joined
<1>4. \A a, b, c \in S : <<a, b>> \o <<c>> = <<a, b, c>>
  BY Joined, ZenonT(30)
<1>5. CASE Shift \in latch /\ Fctn \in latch
  <2>1. PressChanges(k) = <<On(Shift)>> \o <<On(Fctn)>> \o <<On(k)>>
    BY <1>5 DEF PressChanges, IfLatched
  <2>2. PressChanges(k) = <<On(Shift), On(Fctn), On(k)>>
    <3>1. <<On(Shift)>> \o <<On(Fctn)>> = <<On(Shift), On(Fctn)>>
      BY <1>1, <1>3
    <3>2. <<On(Shift), On(Fctn)>> \o <<On(k)>> = <<On(Shift), On(Fctn), On(k)>>
      BY <1>1, <1>4
    <3> QED BY <2>1, <3>1, <3>2
  <2> QED BY <1>5, <2>2
<1>6. CASE Shift \in latch /\ Fctn \notin latch /\ Ctl \in latch
  <2>1. PressChanges(k) = <<On(Shift)>> \o <<On(Ctl)>> \o <<On(k)>>
    BY <1>6 DEF PressChanges, IfLatched
  <2>2. PressChanges(k) = <<On(Shift), On(Ctl), On(k)>>
    <3>1. <<On(Shift)>> \o <<On(Ctl)>> = <<On(Shift), On(Ctl)>>
      BY <1>1, <1>3
    <3>2. <<On(Shift), On(Ctl)>> \o <<On(k)>> = <<On(Shift), On(Ctl), On(k)>>
      BY <1>1, <1>4
    <3> QED BY <2>1, <3>1, <3>2
  <2> QED BY <1>6, <2>2
<1>7. CASE Shift \in latch /\ Fctn \notin latch /\ Ctl \notin latch
  <2>1. PressChanges(k) = <<On(Shift)>> \o << >> \o <<On(k)>>
    BY <1>7 DEF PressChanges, IfLatched
  <2>2. PressChanges(k) = <<On(Shift), On(k)>>
    BY <1>1, <1>2, <1>3, <1>4, <2>1
  <2> QED BY <1>7, <2>2
<1>8. CASE Shift \notin latch /\ Fctn \in latch
  <2>1. PressChanges(k) = << >> \o <<On(Fctn)>> \o <<On(k)>>
    BY <1>8 DEF PressChanges, IfLatched
  <2>2. PressChanges(k) = <<On(Fctn), On(k)>>
    BY <1>1, <1>2, <1>3, <1>4, <2>1
  <2> QED BY <1>8, <2>2
<1>9. CASE Shift \notin latch /\ Fctn \notin latch /\ Ctl \in latch
  <2>1. PressChanges(k) = << >> \o <<On(Ctl)>> \o <<On(k)>>
    BY <1>9 DEF PressChanges, IfLatched
  <2>2. PressChanges(k) = <<On(Ctl), On(k)>>
    BY <1>1, <1>2, <1>3, <1>4, <2>1
  <2> QED BY <1>9, <2>2
<1>10. CASE Shift \notin latch /\ Fctn \notin latch /\ Ctl \notin latch
  <2>1. PressChanges(k) = << >> \o << >> \o <<On(k)>>
    BY <1>10 DEF PressChanges, IfLatched
  <2>2. PressChanges(k) = <<On(k)>>
    BY <1>1, <1>2, <1>3, <1>4, <2>1
  <2> QED BY <1>10, <2>2
<1> QED BY <1>5, <1>6, <1>7, <1>8, <1>9, <1>10

LEMMA ReleaseShapes ==
  ASSUME NEW k
  PROVE  \/ /\ Shift \in latch /\ Fctn \in latch
            /\ ReleaseChanges(k) = <<Off(Shift), Off(k), Off(Fctn)>>
         \/ /\ Shift \in latch /\ Fctn \notin latch /\ Ctl \in latch
            /\ ReleaseChanges(k) = <<Off(Shift), Off(Ctl), Off(k)>>
         \/ /\ Shift \in latch /\ Fctn \notin latch /\ Ctl \notin latch
            /\ ReleaseChanges(k) = <<Off(Shift), Off(k)>>
         \/ /\ Shift \notin latch /\ Fctn \in latch
            /\ ReleaseChanges(k) = <<Off(k), Off(Fctn)>>
         \/ /\ Shift \notin latch /\ Fctn \notin latch /\ Ctl \in latch
            /\ ReleaseChanges(k) = <<Off(Ctl), Off(k)>>
         \/ /\ Shift \notin latch /\ Fctn \notin latch /\ Ctl \notin latch
            /\ ReleaseChanges(k) = <<Off(k)>>
<1> DEFINE S == {Off(Shift), Off(Fctn), Off(Ctl), Off(k)}
<1>1. Off(Shift) \in S /\ Off(Fctn) \in S /\ Off(Ctl) \in S /\ Off(k) \in S
  OBVIOUS
<1> HIDE DEF S
<1>2. \A a \in S : << >> \o <<a>> = <<a>> /\ <<a>> \o << >> = <<a>> /\ << >> \o << >> = << >>
  BY Joined
<1>3. \A a, b \in S : <<a>> \o <<b>> = <<a, b>> /\ << >> \o <<a, b>> = <<a, b>>
  BY Joined
<1>4. \A a, b, c \in S : <<a>> \o <<b, c>> = <<a, b, c>>
  BY Joined, ZenonT(30)
<1>5. CASE Shift \in latch /\ Fctn \in latch
  <2>1. ReleaseChanges(k) = <<Off(Shift)>> \o <<Off(k), Off(Fctn)>>
    BY <1>5 DEF ReleaseChanges, IfLatched
  <2>2. ReleaseChanges(k) = <<Off(Shift), Off(k), Off(Fctn)>>
    BY <1>1, <1>2, <1>3, <1>4, <2>1
  <2> QED BY <1>5, <2>2
<1>6. CASE Shift \in latch /\ Fctn \notin latch /\ Ctl \in latch
  <2>1. ReleaseChanges(k) = <<Off(Shift)>> \o (<<Off(Ctl)>> \o <<Off(k)>>)
    BY <1>6 DEF ReleaseChanges, IfLatched
  <2>2. ReleaseChanges(k) = <<Off(Shift), Off(Ctl), Off(k)>>
    <3>1. <<Off(Ctl)>> \o <<Off(k)>> = <<Off(Ctl), Off(k)>>
      BY <1>1, <1>3
    <3>2. <<Off(Shift)>> \o <<Off(Ctl), Off(k)>> = <<Off(Shift), Off(Ctl), Off(k)>>
      BY <1>1, <1>4
    <3> QED BY <2>1, <3>1, <3>2
  <2> QED BY <1>6, <2>2
<1>7. CASE Shift \in latch /\ Fctn \notin latch /\ Ctl \notin latch
  <2>1. ReleaseChanges(k) = <<Off(Shift)>> \o (<< >> \o <<Off(k)>>)
    BY <1>7 DEF ReleaseChanges, IfLatched
  <2>2. ReleaseChanges(k) = <<Off(Shift), Off(k)>>
    BY <1>1, <1>2, <1>3, <1>4, <2>1
  <2> QED BY <1>7, <2>2
<1>8. CASE Shift \notin latch /\ Fctn \in latch
  <2>1. ReleaseChanges(k) = << >> \o <<Off(k), Off(Fctn)>>
    BY <1>8 DEF ReleaseChanges, IfLatched
  <2>2. ReleaseChanges(k) = <<Off(k), Off(Fctn)>>
    BY <1>1, <1>2, <1>3, <1>4, <2>1
  <2> QED BY <1>8, <2>2
<1>9. CASE Shift \notin latch /\ Fctn \notin latch /\ Ctl \in latch
  <2>1. ReleaseChanges(k) = << >> \o (<<Off(Ctl)>> \o <<Off(k)>>)
    BY <1>9 DEF ReleaseChanges, IfLatched
  <2>2. ReleaseChanges(k) = <<Off(Ctl), Off(k)>>
    BY <1>1, <1>2, <1>3, <1>4, <2>1
  <2> QED BY <1>9, <2>2
<1>10. CASE Shift \notin latch /\ Fctn \notin latch /\ Ctl \notin latch
  <2>1. ReleaseChanges(k) = << >> \o (<< >> \o <<Off(k)>>)
    BY <1>10 DEF ReleaseChanges, IfLatched
  <2>2. ReleaseChanges(k) = <<Off(k)>>
    BY <1>1, <1>2, <1>3, <1>4, <2>1
  <2> QED BY <1>10, <2>2
<1> QED BY <1>5, <1>6, <1>7, <1>8, <1>9, <1>10

-----------------------------------------------------------------------------
(* Type correctness of the whole module.                                     *)

FewChanges == Len(outbox) <= 3 /\ chord \in Letters \cup {NoKey}

LEMMA FewAtOnce == TouchSpec => []FewChanges
<1>1. TouchInit => FewChanges
  BY EmptySeq DEF TouchInit, FewChanges
<1>2. OwnTypeOK /\ FewChanges /\ [TouchNext]_vars => FewChanges'
  <2> SUFFICES ASSUME OwnTypeOK, FewChanges, [TouchNext]_vars PROVE FewChanges'
    OBVIOUS
  <2> USE DEF FewChanges
  <2>1. ASSUME NEW m \in Touched, TouchModifier(m) PROVE FewChanges'
    BY <2>1 DEF TouchModifier
  <2>2. ASSUME NEW k \in Letters, TouchDown(k) PROVE FewChanges'
    <3>0. \A a, b, c : Len(<<a>>) <= 3 /\ Len(<<a, b>>) <= 3 /\ Len(<<a, b, c>>) <= 3
      OBVIOUS
    <3>1. Len(PressChanges(k)) <= 3
      BY <3>0, PressShapes, Zenon
    <3> QED BY <2>2, <3>1 DEF TouchDown
  <2>3. ASSUME NEW k \in Letters, TouchOther(k) PROVE FewChanges'
    <3>0. \A a, b, c : Len(<<a>>) <= 3 /\ Len(<<a, b>>) <= 3 /\ Len(<<a, b, c>>) <= 3
      OBVIOUS
    <3>1. Len(ReleaseChanges(k)) <= 3
      BY <3>0, ReleaseShapes, Zenon
    <3> QED BY <2>3, <3>1 DEF TouchOther
  <2>4. ASSUME NEW k \in HwKeys, NEW s \in {0, 1}, HwKey(k, s) PROVE FewChanges'
    BY <2>4 DEF HwKey
  <2>5. CASE UiPost
    <3>1. Len(outbox') = Len(outbox) - 1 /\ Len(outbox) \in Nat
      BY <2>5, HeadTailProperties DEF UiPost, OwnTypeOK
    <3> QED BY <2>5, <3>1 DEF UiPost
  <2>6. CASE UNCHANGED touchVars
    BY <2>6 DEF touchVars
  <2>7. CASE UiReset \/ Recreate
    BY <2>7 DEF UiReset, Recreate
  <2> QED BY <2>1, <2>2, <2>3, <2>4, <2>5, <2>6, <2>7 DEF TouchNext, Machine, vars
<1> QED BY <1>1, <1>2, OwnTyped, PTL DEF TouchSpec

(* Type correctness of the input handlers over the queue: among others, no   *)
(* handler ever has more than three changes to post.                         *)
THEOREM TouchTypeCorrect == TouchSpec => []TouchTypeOK
<1>1. TypeOK /\ OwnTypeOK /\ FewChanges => TouchTypeOK
  BY DEF OwnTypeOK, FewChanges, TouchTypeOK
<1> QED BY <1>1, OwnTyped, FewAtOnce, TouchImplementsQueue, SafetyTyped, PTL

-----------------------------------------------------------------------------
(* Why FCTN covers the letter of its chord.  The drain empties the queue      *)
(* before it lets go of the lock, so at that moment the matrix shows both     *)
(* keys as posted; it is enough that the letter is never posted as down       *)
(* without FCTN, which depends on the order of the changes still to post.     *)

Waits(change) == \E i \in 1..Len(outbox) : outbox[i] = change

\* The press of the letter comes with FCTN down, or after FCTN's own press, ...
LetterAfterFctn(i) ==
  outbox[i] = On(chord) =>
    /\ ~Waits(Off(Fctn))
    /\ level[Fctn] = 1 \/ \E j \in 1..(i - 1) : outbox[j] = On(Fctn)

\* ... and the release of FCTN with the letter up, or after the letter's release.
FctnAfterLetter(i) ==
  outbox[i] = Off(Fctn) =>
    /\ ~Waits(On(chord))
    /\ level[chord] = 0 \/ \E j \in 1..(i - 1) : outbox[j] = Off(chord)

ChordInv ==
  fault = "none" /\ chord # NoKey =>
    /\ level[chord] = 1 => level[Fctn] = 1
    /\ \A i \in 1..Len(outbox) : LetterAfterFctn(i) /\ FctnAfterLetter(i)

LEMMA ChangesDiffer ==
  /\ \A p, q : On(p) # Off(q)
  /\ \A p, q : On(p) = On(q) => p = q
  /\ \A p, q : Off(p) = Off(q) => p = q
<1>1. \A p : On(p).key = p /\ On(p).state = 1 /\ Off(p).key = p /\ Off(p).state = 0
  BY DEF On, Off
<1> QED BY <1>1

\* In a chord's press the letter follows FCTN ...
LEMMA PressOrder ==
  ASSUME NEW k \in Letters, Fctn \in latch, NEW i \in 1..Len(PressChanges(k))
  PROVE  /\ PressChanges(k)[i] \in {On(Shift), On(Fctn), On(k)}
         /\ PressChanges(k)[i] = On(k) => i > 1 /\ PressChanges(k)[i - 1] = On(Fctn)
<1>1. k # Shift /\ k # Fctn /\ k # Ctl
  BY KeysAssumption DEF Modifiers
<1>2. On(k) # On(Shift) /\ On(k) # On(Fctn)
  BY <1>1, ChangesDiffer
<1>3. CASE PressChanges(k) = <<On(Fctn), On(k)>>
  BY <1>2, <1>3
<1>4. CASE PressChanges(k) = <<On(Shift), On(Fctn), On(k)>>
  BY <1>2, <1>4
<1> QED BY <1>3, <1>4, PressShapes

\* ... and in any release FCTN follows the letter.
LEMMA ReleaseOrder ==
  ASSUME NEW k \in Letters, NEW i \in 1..Len(ReleaseChanges(k))
  PROVE  /\ ReleaseChanges(k)[i] \in {Off(Shift), Off(Ctl), Off(Fctn), Off(k)}
         /\ ReleaseChanges(k)[i] = Off(Fctn) => i > 1 /\ ReleaseChanges(k)[i - 1] = Off(k)
<1>1. k # Fctn /\ Shift # Fctn /\ Ctl # Fctn
  BY KeysAssumption DEF Modifiers
<1>2. Off(Fctn) # Off(k) /\ Off(Fctn) # Off(Shift) /\ Off(Fctn) # Off(Ctl)
  BY <1>1, ChangesDiffer
<1>3. CASE ReleaseChanges(k) = <<Off(k)>>
  BY <1>2, <1>3
<1>4. CASE ReleaseChanges(k) = <<Off(Shift), Off(k)>>
  BY <1>2, <1>4
<1>5. CASE ReleaseChanges(k) = <<Off(Ctl), Off(k)>>
  BY <1>2, <1>5
<1>6. CASE ReleaseChanges(k) = <<Off(Shift), Off(Ctl), Off(k)>>
  BY <1>2, <1>6
<1>7. CASE ReleaseChanges(k) = <<Off(k), Off(Fctn)>>
  BY <1>2, <1>7
<1>8. CASE ReleaseChanges(k) = <<Off(Shift), Off(k), Off(Fctn)>>
  BY <1>2, <1>8
<1> QED BY <1>3, <1>4, <1>5, <1>6, <1>7, <1>8, ReleaseShapes

\* What a handler posts, and how the posts that follow see the rest.
LEMMA PostKeepsChord ==
  ASSUME TypeOK, OwnTypeOK, FewChanges, ChordInv, UiPost
  PROVE  ChordInv'
<1> DEFINE h == Head(outbox)
<1>1. /\ outbox # << >> /\ outbox \in Seq(Change) /\ Len(outbox) \in Nat
      /\ h \in Change /\ h = outbox[1]
      /\ Len(outbox') = Len(outbox) - 1
      /\ \A i \in 1..Len(outbox') : outbox'[i] = outbox[i + 1]
  BY HeadTailProperties DEF UiPost, OwnTypeOK
<1>2. fault = "none" /\ chord' = chord
  BY DEF UiPost, Post, Store
<1> SUFFICES ASSUME fault' = "none", chord # NoKey PROVE ChordInv'
  BY <1>2 DEF ChordInv
<1>3. level' = [level EXCEPT ![h.key] = h.state]
  BY DEF UiPost, Post, Store
<1>4. chord \in Keys /\ Fctn \in Keys /\ chord # Fctn /\ h.key \in Keys /\ h.state \in {0, 1}
  BY <1>1, KeysAssumption DEF FewChanges, Change, Modifiers
<1>5. /\ level'[h.key] = h.state
      /\ \A q \in Keys : q # h.key => level'[q] = level[q]
  BY <1>3, <1>4 DEF TypeOK
<1>6. \A q : (h = On(q) <=> h.key = q /\ h.state = 1) /\ (h = Off(q) <=> h.key = q /\ h.state = 0)
  BY <1>1 DEF On, Off, Change
<1>7. /\ level[chord] = 1 => level[Fctn] = 1
      /\ \A i \in 1..Len(outbox) : LetterAfterFctn(i) /\ FctnAfterLetter(i)
  BY <1>2 DEF ChordInv
<1>8. 1 \in 1..Len(outbox)
  BY <1>1
<1>9. level[chord] \in {0, 1} /\ level[Fctn] \in {0, 1}
  BY <1>4 DEF TypeOK
<1>10. h = On(chord) => level[Fctn] = 1 /\ ~Waits(Off(Fctn))
  BY <1>1, <1>7, <1>8 DEF LetterAfterFctn
<1>11. h = Off(Fctn) => level[chord] = 0 /\ ~Waits(On(chord))
  BY <1>1, <1>7, <1>8 DEF FctnAfterLetter
<1>12. level'[chord] = 1 => level'[Fctn] = 1
  BY <1>4, <1>5, <1>6, <1>7, <1>9, <1>10, <1>11
<1>13. (Waits(Off(Fctn))' => Waits(Off(Fctn))) /\ (Waits(On(chord))' => Waits(On(chord)))
  BY <1>1, <1>2 DEF Waits
<1>14. ASSUME NEW i \in 1..Len(outbox') PROVE LetterAfterFctn(i)' /\ FctnAfterLetter(i)'
  <2>1. /\ i + 1 \in 1..Len(outbox) /\ outbox'[i] = outbox[i + 1] /\ i \in Nat
        /\ LetterAfterFctn(i + 1) /\ FctnAfterLetter(i + 1)
    BY <1>1, <1>7
  <2>2. LetterAfterFctn(i)'
    <3> SUFFICES ASSUME outbox[i + 1] = On(chord)
                 PROVE  /\ ~Waits(Off(Fctn))'
                        /\ level'[Fctn] = 1 \/ \E j \in 1..(i - 1) : outbox'[j] = On(Fctn)
      BY <1>2, <2>1 DEF LetterAfterFctn
    <3>1. /\ ~Waits(Off(Fctn))
          /\ level[Fctn] = 1 \/ \E j \in 1..i : outbox[j] = On(Fctn)
      BY <2>1 DEF LetterAfterFctn
    <3>2. h # Off(Fctn)
      BY <1>1, <1>8, <3>1 DEF Waits
    <3>3. CASE level[Fctn] = 1
      BY <1>4, <1>5, <1>6, <1>13, <3>1, <3>2, <3>3
    <3>4. CASE \E j \in 1..i : outbox[j] = On(Fctn)
      <4>1. PICK j \in 1..i : outbox[j] = On(Fctn)
        BY <3>4
      <4>2. CASE j = 1
        BY <1>1, <1>5, <1>6, <1>13, <3>1, <4>1, <4>2
      <4>3. CASE j # 1
        <5>1. j - 1 \in 1..(i - 1) /\ outbox'[j - 1] = On(Fctn)
          BY <1>1, <2>1, <4>1, <4>3
        <5> QED BY <1>13, <3>1, <5>1
      <4> QED BY <4>2, <4>3
    <3> QED BY <3>1, <3>3, <3>4
  <2>3. FctnAfterLetter(i)'
    <3> SUFFICES ASSUME outbox[i + 1] = Off(Fctn)
                 PROVE  /\ ~Waits(On(chord))'
                        /\ level'[chord] = 0 \/ \E j \in 1..(i - 1) : outbox'[j] = Off(chord)
      BY <1>2, <2>1 DEF FctnAfterLetter
    <3>1. /\ ~Waits(On(chord))
          /\ level[chord] = 0 \/ \E j \in 1..i : outbox[j] = Off(chord)
      BY <2>1 DEF FctnAfterLetter
    <3>2. h # On(chord)
      BY <1>1, <1>8, <3>1 DEF Waits
    <3>3. CASE level[chord] = 0
      BY <1>4, <1>5, <1>6, <1>13, <3>1, <3>2, <3>3
    <3>4. CASE \E j \in 1..i : outbox[j] = Off(chord)
      <4>1. PICK j \in 1..i : outbox[j] = Off(chord)
        BY <3>4
      <4>2. CASE j = 1
        BY <1>1, <1>5, <1>6, <1>13, <3>1, <4>1, <4>2
      <4>3. CASE j # 1
        <5>1. j - 1 \in 1..(i - 1) /\ outbox'[j - 1] = Off(chord)
          BY <1>1, <2>1, <4>1, <4>3
        <5> QED BY <1>13, <3>1, <5>1
      <4> QED BY <4>2, <4>3
    <3> QED BY <3>1, <3>3, <3>4
  <2> QED BY <2>2, <2>3
<1> QED BY <1>2, <1>12, <1>14 DEF ChordInv

LEMMA ChordKept ==
  ASSUME TypeOK, OwnTypeOK, FewChanges, ChordInv, [TouchNext]_vars
  PROVE  ChordInv'
<1>1. ASSUME NEW m \in Touched, TouchModifier(m) PROVE ChordInv'
  BY <1>1 DEF TouchModifier, ChordInv
<1>2. ASSUME NEW k \in Letters, TouchDown(k) PROVE ChordInv'
  <2> SUFFICES ASSUME chord' # NoKey PROVE ChordInv'
    BY DEF ChordInv
  <2>1. /\ chord' = k /\ Fctn \in latch /\ level[k] = 0 /\ level' = level
        /\ outbox' = PressChanges(k)
    BY <1>2 DEF TouchDown, queueVars
  <2>2. ASSUME NEW i \in 1..Len(outbox') PROVE LetterAfterFctn(i)' /\ FctnAfterLetter(i)'
    <3>1. \A j \in 1..Len(outbox') : outbox'[j] \in {On(Shift), On(Fctn), On(k)}
      BY <2>1, PressOrder
    <3>2. outbox'[i] # Off(Fctn) /\ ~Waits(Off(Fctn))'
      BY <3>1, ChangesDiffer DEF Waits
    <3>3. outbox'[i] = On(k) => i - 1 \in 1..(i - 1) /\ outbox'[i - 1] = On(Fctn)
      BY <2>1, PressOrder
    <3> QED BY <2>1, <3>2, <3>3 DEF LetterAfterFctn, FctnAfterLetter
  <2> QED BY <2>1, <2>2 DEF ChordInv
<1>3. ASSUME NEW k \in Letters, TouchOther(k) PROVE ChordInv'
  <2> SUFFICES ASSUME chord' # NoKey PROVE ChordInv'
    BY DEF ChordInv
  <2>1. /\ chord' = k /\ chord = k /\ chord # NoKey /\ UNCHANGED <<level, fault>>
        /\ outbox' = ReleaseChanges(k)
    BY <1>3 DEF TouchOther, queueVars
  <2>2. ASSUME NEW i \in 1..Len(outbox') PROVE LetterAfterFctn(i)' /\ FctnAfterLetter(i)'
    <3>1. \A j \in 1..Len(outbox') : outbox'[j] \in {Off(Shift), Off(Ctl), Off(Fctn), Off(k)}
      BY <2>1, ReleaseOrder
    <3>2. outbox'[i] # On(k) /\ ~Waits(On(chord))'
      BY <2>1, <3>1, ChangesDiffer DEF Waits
    <3>3. outbox'[i] = Off(Fctn) => i - 1 \in 1..(i - 1) /\ outbox'[i - 1] = Off(k)
      BY <2>1, ReleaseOrder
    <3> QED BY <2>1, <3>2, <3>3 DEF LetterAfterFctn, FctnAfterLetter
  <2> QED BY <2>1, <2>2 DEF ChordInv
<1>4. ASSUME NEW k \in HwKeys, NEW s \in {0, 1}, HwKey(k, s) PROVE ChordInv'
  <2> SUFFICES ASSUME chord' # NoKey, fault' = "none" PROVE ChordInv'
    BY DEF ChordInv
  <2>1. /\ chord' = chord /\ k # chord /\ k # Fctn /\ fault = "none"
        /\ outbox = << >> /\ outbox' = << >>
        /\ level' = [level EXCEPT ![k] = s]
    BY <1>4 DEF HwKey, UiIdle, Post, Store
  <2>2. chord \in Keys /\ Fctn \in Keys
    BY <2>1, KeysAssumption DEF FewChanges, Modifiers
  <2>3. level'[chord] = level[chord] /\ level'[Fctn] = level[Fctn]
    BY <2>1, <2>2 DEF TypeOK
  <2> QED BY <2>1, <2>3, EmptySeq DEF ChordInv
<1>5. CASE UiPost
  BY <1>5, PostKeepsChord
<1>6. CASE UiReset
  BY <1>6 DEF UiReset, ChordInv
<1>7. CASE Recreate
  BY <1>7 DEF Recreate, ChordInv
<1>8. CASE Machine
  <2>1. UNCHANGED <<level, outbox, chord>> /\ (fault' = "none" => fault = "none")
    BY <1>8 DEF Machine, touchVars, queueVars, Acquire, DrainOne, Release, StopStart, Undefined
  <2> QED BY <2>1 DEF ChordInv, LetterAfterFctn, FctnAfterLetter, Waits
<1>9. CASE UNCHANGED vars
  BY <1>9 DEF vars, touchVars, queueVars, ChordInv, LetterAfterFctn, FctnAfterLetter, Waits
<1> QED BY <1>1, <1>2, <1>3, <1>4, <1>5, <1>6, <1>7, <1>8, <1>9 DEF TouchNext

LEMMA ChordHolds == TouchSpec => []ChordInv
<1>1. TouchInit => ChordInv
  BY DEF TouchInit, ChordInv
<1>2. TypeOK /\ OwnTypeOK /\ FewChanges /\ ChordInv /\ [TouchNext]_vars => ChordInv'
  BY ChordKept
<1> QED BY <1>1, <1>2, OwnTyped, FewAtOnce, TouchImplementsQueue, SafetyTyped, PTL DEF TouchSpec

(* The program never reads the letter of an FCTN chord as down and FCTN as   *)
(* up, wherever its instructions fall among the changes of the chord, unless *)
(* two changes of one of these keys shared a batch.                          *)
THEOREM ChordsAreRead == TouchSpec => []FctnCoversLetter
<1>1. TouchInit => FctnCoversLetter
  BY DEF TouchInit, FctnCoversLetter
<1>2. TypeOK /\ FewChanges /\ ChordInv /\ MatrixTracksLevel /\ FctnCoversLetter /\ [TouchNext]_vars
        => FctnCoversLetter'
  <2> SUFFICES ASSUME TypeOK, FewChanges, ChordInv, MatrixTracksLevel, FctnCoversLetter,
                      [TouchNext]_vars,
                      fault' = "none", lock' = NoThread, chord' # NoKey,
                      {chord', Fctn} \cap doubled' = {}, Down(chord)'
               PROVE  Down(Fctn)'
    BY DEF FctnCoversLetter
  <2>1. ASSUME NEW t \in Steppers, Release(t), UNCHANGED touchVars PROVE Down(Fctn)'
    <3>1. /\ fault = "none" /\ queue = << >>
          /\ UNCHANGED <<keys, level, doubled, chord>>
      BY <2>1 DEF Release, touchVars
    <3>2. chord \in Keys /\ Fctn \in Keys
      BY <3>1, KeysAssumption DEF FewChanges, Modifiers
    <3>3. \A q \in Keys : ~Pending(q)
      BY <3>1 DEF Pending, SlotsOf
    <3>4. keys[chord] = Inverted(level[chord]) /\ keys[Fctn] = Inverted(level[Fctn])
      BY <3>1, <3>2, <3>3 DEF MatrixTracksLevel
    <3>5. level[chord] \in {0, 1} /\ level[Fctn] \in {0, 1}
      BY <3>2 DEF TypeOK
    <3>6. level[chord] = 1 => level[Fctn] = 1
      BY <3>1 DEF ChordInv
    <3> QED BY <3>1, <3>4, <3>5, <3>6 DEF Down, Inverted
  <2>2. ASSUME UNCHANGED <<keys, lock, doubled, chord>>, fault = "none" PROVE Down(Fctn)'
    BY <2>2 DEF FctnCoversLetter, Down
  <2>3. ASSUME NEW k \in Letters, TouchDown(k) PROVE Down(Fctn)'
    BY <2>3 DEF TouchDown, queueVars, Down
  <2>4. ASSUME NEW k \in Letters, TouchOther(k) PROVE Down(Fctn)'
    <3>1. chord' = chord /\ UNCHANGED <<keys, lock, doubled>> /\ fault = "none"
      BY <2>4 DEF TouchOther, queueVars
    <3> QED BY <2>2, <3>1
  <2>5. ASSUME NEW k \in HwKeys, NEW s \in {0, 1}, HwKey(k, s) PROVE Down(Fctn)'
    <3>1. chord' = chord /\ UNCHANGED <<keys, lock, doubled>> /\ fault = "none"
      BY <2>5 DEF HwKey, UiIdle, Post, Store
    <3> QED BY <2>2, <3>1
  <2>6. CASE UiPost
    BY <2>2, <2>6 DEF UiPost, Post, Store
  <2>7. CASE \/ \E m \in Touched : TouchModifier(m)
             \/ UiReset \/ Recreate
    BY <2>7 DEF TouchModifier, UiReset, Recreate
  <2>8. CASE Machine
    <3>1. ASSUME NEW t \in Steppers, Acquire(t) PROVE Down(Fctn)'
      BY <3>1, NoThreadAssumption DEF Acquire
    <3>2. ASSUME NEW t \in Steppers, DrainOne(t) PROVE Down(Fctn)'
      BY <3>2, NoThreadAssumption DEF DrainOne
    <3>3. CASE (StopStart \/ Undefined) /\ UNCHANGED touchVars
      BY <2>2, <3>3 DEF StopStart, Undefined, queueVars, touchVars
    <3> QED BY <2>1, <2>8, <3>1, <3>2, <3>3 DEF Machine
  <2>9. CASE UNCHANGED vars
    BY <2>2, <2>9 DEF vars, queueVars, touchVars
  <2> QED BY <2>3, <2>4, <2>5, <2>6, <2>7, <2>8, <2>9 DEF TouchNext
<1> QED BY <1>1, <1>2, FewAtOnce, ChordHolds, TouchImplementsQueue, SafetyTyped, SafetyTracks, PTL
        DEF TouchSpec

-----------------------------------------------------------------------------
(* Why no modifier is left behind.  A press of a modifier waits to be posted *)
(* only while its latch is set, and a latch is cleared only by a handler     *)
(* whose changes let go of the modifier.                                     *)

LEMMA PressesAreLatched ==
  ASSUME NEW k \in Letters, NEW m \in Modifiers,
         NEW i \in 1..Len(PressChanges(k)), PressChanges(k)[i] = On(m)
  PROVE  m \in latch
<1>1. On(k) # On(m)
  BY KeysAssumption, ChangesDiffer
<1>2. \A p \in Modifiers : On(p) = On(m) => p = m
  BY ChangesDiffer
<1>3. Shift \in Modifiers /\ Fctn \in Modifiers /\ Ctl \in Modifiers
  BY DEF Modifiers
<1>4. CASE Shift \in latch /\ Fctn \in latch /\ PressChanges(k) = <<On(Shift), On(Fctn), On(k)>>
  BY <1>1, <1>2, <1>3, <1>4
<1>5. CASE Shift \in latch /\ Ctl \in latch /\ PressChanges(k) = <<On(Shift), On(Ctl), On(k)>>
  BY <1>1, <1>2, <1>3, <1>5
<1>6. CASE Shift \in latch /\ PressChanges(k) = <<On(Shift), On(k)>>
  BY <1>1, <1>2, <1>3, <1>6
<1>7. CASE Fctn \in latch /\ PressChanges(k) = <<On(Fctn), On(k)>>
  BY <1>1, <1>2, <1>3, <1>7
<1>8. CASE Ctl \in latch /\ PressChanges(k) = <<On(Ctl), On(k)>>
  BY <1>1, <1>2, <1>3, <1>8
<1>9. CASE PressChanges(k) = <<On(k)>>
  BY <1>1, <1>9
<1> QED BY <1>4, <1>5, <1>6, <1>7, <1>8, <1>9, PressShapes

\* The release of a key posts the release of every modifier it unlatches.
LEMMA ConsumedIsReleased ==
  ASSUME NEW k \in Letters, NEW m \in latch \cap Consumed
  PROVE  \E i \in 1..Len(ReleaseChanges(k)) : ReleaseChanges(k)[i] = Off(m)
<1>1. m = Shift \/ (m = Fctn /\ Fctn \in latch) \/ (m = Ctl /\ Fctn \notin latch)
  BY DEF Consumed
<1>2. m \in latch
  OBVIOUS
<1>3. \A a, b : 1 \in 1..Len(<<a>>) /\ 1 \in 1..Len(<<a, b>>) /\ 2 \in 1..Len(<<a, b>>)
  OBVIOUS
<1>4. \A a, b, c : \A j \in {1, 2, 3} : j \in 1..Len(<<a, b, c>>)
  OBVIOUS
<1>5. CASE Shift \in latch /\ Fctn \in latch /\ ReleaseChanges(k) = <<Off(Shift), Off(k), Off(Fctn)>>
  BY <1>1, <1>4, <1>5
<1>6. CASE /\ Shift \in latch /\ Fctn \notin latch /\ Ctl \in latch
           /\ ReleaseChanges(k) = <<Off(Shift), Off(Ctl), Off(k)>>
  BY <1>1, <1>4, <1>6
<1>7. CASE /\ Shift \in latch /\ Fctn \notin latch /\ Ctl \notin latch
           /\ ReleaseChanges(k) = <<Off(Shift), Off(k)>>
  BY <1>1, <1>2, <1>3, <1>7
<1>8. CASE Shift \notin latch /\ Fctn \in latch /\ ReleaseChanges(k) = <<Off(k), Off(Fctn)>>
  BY <1>1, <1>2, <1>3, <1>8
<1>9. CASE /\ Shift \notin latch /\ Fctn \notin latch /\ Ctl \in latch
           /\ ReleaseChanges(k) = <<Off(Ctl), Off(k)>>
  BY <1>1, <1>2, <1>3, <1>9
<1>10. CASE Shift \notin latch /\ Fctn \notin latch /\ Ctl \notin latch
  BY <1>1, <1>2, <1>10
<1> QED BY <1>5, <1>6, <1>7, <1>8, <1>9, <1>10, ReleaseShapes

\* The changes still to post are part of the account: a modifier about to be
\* pressed is latched, and so is one that is down and not about to be let go.
HeldInv ==
  fault = "none" =>
    \A m \in Modifiers :
      Waits(On(m)) \/ (level[m] = 1 /\ m \notin foreign /\ ~Waits(Off(m))) => m \in latch

LEMMA HeldInvLatched == HeldInv => HeldStaysLatched
<1> SUFFICES ASSUME HeldInv, UiIdle, NEW m \in Modifiers, m \notin foreign, level[m] = 1
             PROVE  m \in latch
  BY DEF HeldStaysLatched
<1>1. ~Waits(Off(m))
  BY EmptySeq DEF UiIdle, Waits
<1> QED BY <1>1 DEF HeldInv, UiIdle

LEMMA PostKeepsHeld ==
  ASSUME TypeOK, OwnTypeOK, HeldInv, UiPost
  PROVE  HeldInv'
<1> DEFINE h == Head(outbox)
<1>1. /\ outbox # << >> /\ outbox \in Seq(Change) /\ Len(outbox) \in Nat
      /\ h \in Change /\ h = outbox[1]
      /\ Len(outbox') = Len(outbox) - 1
      /\ \A i \in 1..Len(outbox') : outbox'[i] = outbox[i + 1]
  BY HeadTailProperties DEF UiPost, OwnTypeOK
<1> SUFFICES ASSUME fault' = "none" PROVE HeldInv'
  BY DEF HeldInv
<1>2. /\ fault = "none" /\ latch' = latch /\ foreign' = foreign \ {h.key}
      /\ level' = [level EXCEPT ![h.key] = h.state]
  BY DEF UiPost, Post, Store
<1> SUFFICES ASSUME NEW m \in Modifiers,
                    Waits(On(m))' \/ (level'[m] = 1 /\ m \notin foreign' /\ ~Waits(Off(m))')
             PROVE  m \in latch
  BY <1>2 DEF HeldInv, Waits
<1>3. m \in Keys /\ h.key \in Keys /\ h.state \in {0, 1}
  BY <1>1, ModifiersAreKeys DEF Change
<1>4. \A q : (h = On(q) <=> h.key = q /\ h.state = 1) /\ (h = Off(q) <=> h.key = q /\ h.state = 0)
  BY <1>1 DEF On, Off, Change
<1>5. \A c : Waits(c) <=> h = c \/ Waits(c)'
  <2> TAKE c
  <2>1. 1 \in 1..Len(outbox)
    BY <1>1
  <2>2. \A i \in 1..Len(outbox) : i # 1 => i - 1 \in 1..Len(outbox') /\ outbox'[i - 1] = outbox[i]
    BY <1>1
  <2>3. \A i \in 1..Len(outbox') : i + 1 \in 1..Len(outbox)
    BY <1>1
  <2> QED BY <1>1, <2>1, <2>2, <2>3 DEF Waits
<1>6. CASE Waits(On(m))'
  BY <1>2, <1>5, <1>6 DEF HeldInv
<1>7. CASE h.key = m /\ level'[m] = 1
  <2>1. h = On(m)
    BY <1>2, <1>3, <1>4, <1>7 DEF TypeOK
  <2> QED BY <1>2, <1>5, <2>1 DEF HeldInv
<1>8. CASE h.key # m /\ level'[m] = 1 /\ m \notin foreign' /\ ~Waits(Off(m))'
  <2>1. level[m] = 1 /\ m \notin foreign
    BY <1>2, <1>3, <1>8 DEF TypeOK
  <2>2. ~Waits(Off(m))
    BY <1>4, <1>5, <1>8
  <2> QED BY <1>2, <2>1, <2>2 DEF HeldInv
<1> QED BY <1>6, <1>7, <1>8

LEMMA HeldKept ==
  ASSUME TypeOK, OwnTypeOK, HeldInv, [TouchNext]_vars
  PROVE  HeldInv'
<1>1. ASSUME NEW p \in Touched, TouchModifier(p) PROVE HeldInv'
  BY <1>1 DEF TouchModifier, HeldInv, Waits, queueVars
<1>2. ASSUME NEW k \in Letters, TouchDown(k) PROVE HeldInv'
  <2>1. /\ fault = "none" /\ outbox = << >> /\ outbox' = PressChanges(k)
        /\ UNCHANGED <<level, latch, foreign>>
    BY <1>2 DEF TouchDown, UiIdle, queueVars
  <2>2. \A c : ~Waits(c)
    BY <2>1, EmptySeq DEF Waits
  <2>3. \A m \in Modifiers : Waits(On(m))' => m \in latch
    BY <2>1, PressesAreLatched DEF Waits
  <2> QED BY <2>1, <2>2, <2>3 DEF HeldInv
<1>3. ASSUME NEW k \in Letters, TouchOther(k) PROVE HeldInv'
  <2>1. /\ fault = "none" /\ outbox = << >> /\ outbox' = ReleaseChanges(k)
        /\ UNCHANGED <<level, foreign>> /\ latch' = latch \ Consumed
    BY <1>3 DEF TouchOther, UiIdle, queueVars
  <2>2. \A c : ~Waits(c)
    BY <2>1, EmptySeq DEF Waits
  <2>3. \A m \in Modifiers : ~Waits(On(m))'
    BY <2>1, ReleaseOrder, ChangesDiffer DEF Waits
  <2>4. \A m \in latch \cap Consumed : Waits(Off(m))'
    BY <2>1, ConsumedIsReleased DEF Waits
  <2> QED BY <2>1, <2>2, <2>3, <2>4 DEF HeldInv
<1>4. ASSUME NEW k \in HwKeys, NEW s \in {0, 1}, HwKey(k, s) PROVE HeldInv'
  <2> SUFFICES ASSUME fault' = "none" PROVE HeldInv'
    BY DEF HeldInv
  <2>1. /\ fault = "none" /\ outbox = << >> /\ outbox' = << >> /\ latch' = latch
        /\ level' = [level EXCEPT ![k] = s]
        /\ foreign' = {m \in foreign \cup ({k} \cap Modifiers) : level'[m] = 1}
    BY <1>4 DEF HwKey, UiIdle, Post, Store
  <2>2. \A c : ~Waits(c) /\ ~Waits(c)'
    BY <2>1, EmptySeq DEF Waits
  <2>3. \A m \in Modifiers : m # k => level'[m] = level[m]
    BY <2>1, ModifiersAreKeys DEF TypeOK
  <2> QED BY <2>1, <2>2, <2>3 DEF HeldInv
<1>5. CASE UiPost
  BY <1>5, PostKeepsHeld
<1>6. CASE UiReset
  <2> SUFFICES ASSUME fault' = "none" PROVE HeldInv'
    BY DEF HeldInv
  <2>1. /\ outbox' = << >> /\ \A m \in Modifiers : level'[m] = 0
    BY <1>6, ModifiersAreKeys DEF UiReset, UiIdle, Reset
  <2> QED BY <2>1, EmptySeq DEF HeldInv, Waits
<1>7. CASE Recreate
  <2>1. /\ outbox' = << >> /\ level' = level /\ foreign' = {m \in Modifiers : level[m] = 1}
    BY <1>7 DEF Recreate, UiIdle, queueVars
  <2> QED BY <2>1, EmptySeq DEF HeldInv, Waits
<1>8. CASE Machine
  <2>1. UNCHANGED <<level, outbox, latch, foreign>> /\ (fault' = "none" => fault = "none")
    BY <1>8 DEF Machine, touchVars, queueVars, Acquire, DrainOne, Release, StopStart, Undefined
  <2> QED BY <2>1 DEF HeldInv, Waits
<1>9. CASE UNCHANGED vars
  BY <1>9 DEF vars, touchVars, queueVars, HeldInv, Waits
<1> QED BY <1>1, <1>2, <1>3, <1>4, <1>5, <1>6, <1>7, <1>8, <1>9 DEF TouchNext

(* A modifier the screen pressed stays latched while it is down, so that the  *)
(* next release lets it go: no order of handlers, hardware keys, resets and   *)
(* rotations clears a latch without posting the release of its modifier.      *)
THEOREM NoModifierLeftBehind == TouchSpec => []HeldStaysLatched
<1>1. TouchInit => HeldInv
  BY EmptySeq, ModifiersAreKeys DEF TouchInit, Init, HeldInv, Waits
<1>2. TypeOK /\ OwnTypeOK /\ HeldInv /\ [TouchNext]_vars => HeldInv'
  BY HeldKept
<1> QED BY <1>1, <1>2, HeldInvLatched, OwnTyped, TouchImplementsQueue, SafetyTyped, PTL DEF TouchSpec
=============================================================================
