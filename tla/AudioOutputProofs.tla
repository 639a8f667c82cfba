-------------------------- MODULE AudioOutputProofs --------------------------
(***************************************************************************)
(* Theorems about AudioOutput for any length of the file, any sizes of     *)
(* queue and device, any set of setups and number of seeks.                *)
(*                                                                         *)
(* The inductive invariant Inv numbers the frames of the current playback. *)
(* What is in the queue, in the writing end and behind the decoder is a    *)
(* run of consecutive numbers that ends with the last frame decoded        *)
(* (StreamInv); what the device holds ends where that run begins           *)
(* (ContentInv, with Written the last sample the device was given); and a  *)
(* seek starts a run above everything from before (SeekInv counts seeks).  *)
(* Around it, DeviceBooks and Pausing relate the device to the flags of    *)
(* struct buffer_state, and SleepInv says what playthread has seen when it *)
(* goes to sleep, from the moment it leaves ao_play_data().                *)
(*                                                                         *)
(* The lemmas come in this order: sequences of frames; the flow from the   *)
(* decoder to the queue; what the device takes, plays and drops; the       *)
(* invariant; then one lemma for each action.                              *)
(***************************************************************************)
EXTENDS AudioOutput, FiniteSetTheorems, SequenceTheorems, TLAPS

\* The k-th frame of a playback that starts above base; frames that are numbered
\* from k on; the last sample up to frame k.
Nth(base, k) == IF k > Length THEN Eof ELSE base + k
Numbered(frames, base, k) == \A i \in 1 .. Len(frames) : frames[i] = Nth(base, k + i - 1)
Upto(base, k) == base + Least(k, Length)

-------------------------------------------------------------------------------
(* Sequences of frames. *)
LEMMA LengthIsNat == Length \in Nat /\ MaxSeeks \in Nat /\ QueueSize \in Nat \ {0} /\ DeviceSize \in Nat \ {0}
  BY SizesAssumption

LEMMA Appended ==
  ASSUME NEW S, NEW s \in Seq(S), NEW t \in Seq(S)
  PROVE  /\ s \o t \in Seq(S) /\ Len(s \o t) = Len(s) + Len(t)
         /\ \A i \in 1 .. Len(s) : (s \o t)[i] = s[i]
         /\ \A i \in 1 .. Len(t) : (s \o t)[Len(s) + i] = t[i]
         /\ \A i \in 1 .. Len(s) + Len(t) : \/ i \in 1 .. Len(s)
                                            \/ i - Len(s) \in 1 .. Len(t)
<1>1. Len(s) \in Nat /\ Len(t) \in Nat
  OBVIOUS
<1>2. \A i \in 1 .. Len(t) : Len(s) + i \in 1 .. Len(s) + Len(t) /\ ~(Len(s) + i <= Len(s)) /\ Len(s) + i - Len(s) = i
  BY <1>1
<1>3. \A i \in 1 .. Len(s) : i \in 1 .. Len(s) + Len(t) /\ i <= Len(s)
  BY <1>1
<1>4. QED
  BY <1>1, <1>2, <1>3, ConcatProperties

\* Numbered frames without the end of file, which is the last one.
LEMMA Counted ==
  ASSUME NEW s \in Seq(Frame), NEW base \in Nat, NEW k \in Nat \ {0},
         Numbered(s, base, k), k + Len(s) <= Length + 2
  PROVE  /\ SampleCount(s) = IF Len(s) = 0 \/ k + Len(s) <= Length + 1 THEN Len(s) ELSE Len(s) - 1
         /\ \A i \in 1 .. Len(s) : s[i] # Eof <=> k + i - 1 <= Length
         /\ \A i \in 1 .. Len(s) : s[i] = Eof => i = Len(s)
<1> DEFINE n == IF Len(s) = 0 \/ k + Len(s) <= Length + 1 THEN Len(s) ELSE Len(s) - 1
<1>1. Len(s) \in Nat /\ Length \in Nat
  BY LengthIsNat
<1>2. n \in Nat
  BY <1>1
<1>3. \A i \in 1 .. Len(s) : s[i] # Eof <=> k + i - 1 <= Length
  BY <1>1 DEF Numbered, Nth, Eof
<1>4. {i \in DOMAIN s : s[i] # Eof} = 1 .. n
  BY <1>1, <1>3
<1>5. 1 \in Int /\ n \in Int
  BY <1>2
<1>6. Cardinality(1 .. n) = n
  <2> HIDE DEF n
  <2>1. Cardinality(1 .. n) = IF 1 > n THEN 0 ELSE n - 1 + 1
    BY <1>5, FS_Interval
  <2>2. QED
    BY <1>2, <2>1
<1>8. SampleCount(s) = n
  BY <1>4, <1>6 DEF SampleCount
<1>7. QED
  BY <1>1, <1>3, <1>8

LEMMA NumberedAppend ==
  ASSUME NEW s \in Seq(Frame), NEW t \in Seq(Frame), NEW base \in Nat, NEW k \in Nat,
         Numbered(s, base, k), Numbered(t, base, k + Len(s))
  PROVE  Numbered(s \o t, base, k)
<1>1. Len(s) \in Nat /\ Len(t) \in Nat
  OBVIOUS
<1> SUFFICES ASSUME NEW i \in 1 .. Len(s) + Len(t)
             PROVE  (s \o t)[i] = Nth(base, k + i - 1)
  BY Appended DEF Numbered
<1>2. CASE i \in 1 .. Len(s)
  BY <1>2, Appended DEF Numbered
<1>3. CASE i - Len(s) \in 1 .. Len(t)
  <2>1. (s \o t)[i] = t[i - Len(s)]
    BY <1>1, <1>3, ConcatProperties
  <2>2. t[i - Len(s)] = Nth(base, k + Len(s) + (i - Len(s)) - 1)
    BY <1>3 DEF Numbered
  <2>3. k + Len(s) + (i - Len(s)) - 1 = k + i - 1
    BY <1>1
  <2>4. QED
    BY <2>1, <2>2, <2>3
<1>4. QED
  BY <1>1, <1>2, <1>3

LEMMA Sliced ==
  ASSUME NEW S, NEW s \in Seq(S), NEW n \in 0 .. Len(s)
  PROVE  /\ SubSeq(s, 1, n) \in Seq(S) /\ Len(SubSeq(s, 1, n)) = n
         /\ \A i \in 1 .. n : SubSeq(s, 1, n)[i] = s[i]
         /\ SubSeq(s, n + 1, Len(s)) \in Seq(S)
         /\ Len(SubSeq(s, n + 1, Len(s))) = Len(s) - n
         /\ \A i \in 1 .. Len(s) - n : SubSeq(s, n + 1, Len(s))[i] = s[n + i]
<1>1. Len(s) \in Nat /\ n \in Int /\ n + 1 \in Int /\ Len(s) \in Int
  OBVIOUS
<1>2. \A i \in 1 .. n : s[i] \in S
  BY ElementOfSeq, <1>1
<1>3. \A i \in n + 1 .. Len(s) : s[i] \in S
  BY ElementOfSeq, <1>1
<1>4. /\ SubSeq(s, 1, n) \in Seq(S) 
      /\ Len(SubSeq(s,1,n)) = IF 1 <= n THEN n - 1 + 1 ELSE 0
      /\ \A i \in 1 .. n - 1 + 1 : SubSeq(s, 1, n)[i] = s[1 + i - 1]
  BY <1>1, <1>2, SubSeqProperties
<1>5. /\ SubSeq(s, n + 1, Len(s)) \in Seq(S)
      /\ Len(SubSeq(s, n + 1, Len(s))) = IF n + 1 <= Len(s) THEN Len(s) - (n + 1) + 1 ELSE 0
      /\ \A i \in 1 .. Len(s) - (n + 1) + 1 : SubSeq(s, n + 1, Len(s))[i] = s[n + 1 + i - 1]
  BY <1>1, <1>3, SubSeqProperties
<1>6. QED
  BY <1>1, <1>4, <1>5

LEMMA NumberedSlice ==
  ASSUME NEW s \in Seq(Frame), NEW n \in 0 .. Len(s), NEW base \in Nat, NEW k \in Nat,
         Numbered(s, base, k)
  PROVE  /\ Numbered(SubSeq(s, 1, n), base, k)
         /\ Numbered(SubSeq(s, n + 1, Len(s)), base, k + n)
<1>1. Len(s) \in Nat
  OBVIOUS
<1>2. Numbered(SubSeq(s, 1, n), base, k)
  BY <1>1, Sliced DEF Numbered
<1>3. ASSUME NEW i \in 1 .. Len(s) - n
      PROVE  SubSeq(s, n + 1, Len(s))[i] = Nth(base, k + n + i - 1)
  <2>1. SubSeq(s, n + 1, Len(s))[i] = s[n + i]
    BY Sliced
  <2>2. n + i \in 1 .. Len(s) /\ k + (n + i) - 1 = k + n + i - 1
    BY <1>1
  <2>3. QED
    BY <2>1, <2>2 DEF Numbered
<1>4. QED
  BY <1>2, <1>3, Sliced DEF Numbered

LEMMA FrameIsNat == LastSample \in Nat /\ Frame \subseteq Nat /\ Eof \in Frame
<1>1. LastSample \in Nat
  BY LengthIsNat DEF LastSample
<1>2. QED
  BY <1>1 DEF Frame, Samples, Eof

LEMMA HeardIsFrame ==
  ASSUME NEW s \in Seq(Frame)
  PROVE  Heard(s) \subseteq Frame /\ Heard(s) \subseteq Nat /\ Eof \notin Heard(s)
<1>1. Heard(s) \subseteq Frame
  BY LenProperties, ElementOfSeq DEF Heard
<1>2. QED
  BY <1>1, FrameIsNat DEF Heard

LEMMA HeardAppend ==
  ASSUME NEW s \in Seq(Frame), NEW t \in Seq(Frame)
  PROVE  Heard(s \o t) = Heard(s) \union Heard(t)
<1>1. Len(s) \in Nat /\ Len(t) \in Nat
  OBVIOUS
<1>2. DOMAIN s = 1 .. Len(s) /\ DOMAIN t = 1 .. Len(t) /\ DOMAIN (s \o t) = 1 .. Len(s) + Len(t)
  BY Appended, LenProperties
<1>3. \A f : f \in Heard(s \o t) => f \in Heard(s) \union Heard(t)
  <2> SUFFICES ASSUME NEW i \in 1 .. Len(s) + Len(t), (s \o t)[i] # Eof
               PROVE  (s \o t)[i] \in Heard(s) \union Heard(t)
    BY <1>2 DEF Heard
  <2>1. CASE i \in 1 .. Len(s)
    BY <2>1, <1>2, Appended DEF Heard
  <2>2. CASE i - Len(s) \in 1 .. Len(t)
    <3>1. (s \o t)[i] = t[i - Len(s)]
      BY <2>2, <1>1, ConcatProperties
    <3>2. QED
      BY <3>1, <2>2, <1>2 DEF Heard
  <2>3. QED
    BY <2>1, <2>2, Appended
<1>4. \A i \in 1 .. Len(s) : s[i] = (s \o t)[i] /\ i \in 1 .. Len(s) + Len(t)
  BY <1>1, Appended
<1>5. \A i \in 1 .. Len(t) : t[i] = (s \o t)[Len(s) + i] /\ Len(s) + i \in 1 .. Len(s) + Len(t)
  BY <1>1, Appended
<1>6. \A f : f \in Heard(s) => f \in Heard(s \o t)
  BY <1>2, <1>4 DEF Heard
<1>7. \A f : f \in Heard(t) => f \in Heard(s \o t)
  BY <1>2, <1>5 DEF Heard
<1>8. QED
  BY <1>3, <1>6, <1>7

LEMMA OrderAppend ==
  ASSUME NEW s \in Seq(Frame), NEW t \in Seq(Frame), InOrder(s), InOrder(t),
         \A f \in Heard(s), g \in Heard(t) : f < g
  PROVE  InOrder(s \o t)
<1>1. Len(s) \in Nat /\ Len(t) \in Nat
  OBVIOUS
<1>2. DOMAIN s = 1 .. Len(s) /\ DOMAIN t = 1 .. Len(t) /\ DOMAIN (s \o t) = 1 .. Len(s) + Len(t)
  BY Appended, LenProperties
<1> SUFFICES ASSUME NEW i \in 1 .. Len(s) + Len(t), NEW j \in 1 .. Len(s) + Len(t), i < j,
                    (s \o t)[i] # Eof, (s \o t)[j] # Eof
             PROVE  (s \o t)[i] < (s \o t)[j]
  BY <1>2 DEF InOrder
<1>3. CASE j \in 1 .. Len(s)
  <2>1. i \in 1 .. Len(s)
    BY <1>1, <1>3
  <2>2. (s \o t)[i] = s[i] /\ (s \o t)[j] = s[j]
    BY <1>3, <2>1, Appended
  <2>3. QED
    BY <1>2, <1>3, <2>1, <2>2 DEF InOrder
<1>4. CASE i \in 1 .. Len(s) /\ j \notin 1 .. Len(s)
  <2>1. j - Len(s) \in 1 .. Len(t)
    BY <1>1, <1>4
  <2>2. (s \o t)[i] = s[i] /\ (s \o t)[j] = t[j - Len(s)]
    BY <1>1, <1>4, <2>1, ConcatProperties
  <2>3. s[i] \in Heard(s) /\ t[j - Len(s)] \in Heard(t)
    BY <1>2, <1>4, <2>1, <2>2 DEF Heard
  <2>4. QED
    BY <2>2, <2>3
<1>5. CASE i \notin 1 .. Len(s) /\ j \notin 1 .. Len(s)
  <2>1. j - Len(s) \in 1 .. Len(t) /\ i - Len(s) \in 1 .. Len(t) /\ i - Len(s) < j - Len(s)
    BY <1>1, <1>5
  <2>2. (s \o t)[i] = t[i - Len(s)] /\ (s \o t)[j] = t[j - Len(s)]
    BY <1>1, <1>5, <2>1, ConcatProperties
  <2>3. QED
    BY <1>2, <2>1, <2>2 DEF InOrder
<1>6. QED
  BY <1>1, <1>3, <1>4, <1>5

\* What is heard of numbered frames: all from the k-th, without gaps.
LEMMA NumberedHeard ==
  ASSUME NEW s \in Seq(Frame), NEW base \in Nat, NEW k \in Nat \ {0},
         Numbered(s, base, k), k + Len(s) <= Length + 2
  PROVE  /\ InOrder(s)
         /\ Heard(s) = base + k .. Upto(base, k + Len(s) - 1)
<1>1. Len(s) \in Nat /\ Length \in Nat /\ DOMAIN s = 1 .. Len(s)
  BY LengthIsNat, LenProperties
<1>2. \A i \in 1 .. Len(s) : s[i] # Eof => s[i] = base + k + i - 1 /\ k + i - 1 <= Length
  BY <1>1 DEF Numbered, Nth
<1>3. InOrder(s)
  BY <1>1, <1>2 DEF InOrder
<1>4. \A f \in Heard(s) : f \in base + k .. Upto(base, k + Len(s) - 1)
  BY <1>1, <1>2 DEF Heard, Upto, Least
<1>5. ASSUME NEW f \in base + k .. Upto(base, k + Len(s) - 1)
      PROVE  f \in Heard(s)
  <2>1. f - base - k + 1 \in 1 .. Len(s) /\ k + (f - base - k + 1) - 1 <= Length
    BY <1>1 DEF Upto, Least
  <2>2. s[f - base - k + 1] = base + (k + (f - base - k + 1) - 1)
    BY <2>1, <1>1 DEF Numbered, Nth
  <2>3. s[f - base - k + 1] = f /\ f # Eof
    BY <2>2, <1>1, <2>1 DEF Eof
  <2>4. QED
    BY <2>1, <2>3, <1>1 DEF Heard
<1>6. QED
  BY <1>3, <1>4, <1>5

LEMMA SilenceIsSilent ==
  ASSUME NEW n \in Nat
  PROVE  /\ Silence(n) \in Seq(Frame) /\ Len(Silence(n)) = n
         /\ \A i \in 1 .. n : Silence(n)[i] = Eof
         /\ Heard(Silence(n)) = {} /\ InOrder(Silence(n))
<1>1. Silence(n) \in Seq(Frame) /\ Len(Silence(n)) = n /\ DOMAIN Silence(n) = 1 .. n
  BY FrameIsNat DEF Silence
<1>2. \A i \in 1 .. n : Silence(n)[i] = Eof
  BY DEF Silence
<1>3. QED
  BY <1>1, <1>2 DEF Heard, InOrder

LEMMA HeardTail ==
  ASSUME NEW s \in Seq(Frame), s # <<>>, InOrder(s)
  PROVE  /\ Tail(s) \in Seq(Frame) /\ Len(Tail(s)) = Len(s) - 1 /\ Head(s) \in Frame
         /\ InOrder(Tail(s))
         /\ Heard(Tail(s)) = Heard(s) \ {Head(s)}
         /\ Head(s) # Eof => Head(s) \in Heard(s) /\ \A f \in Heard(Tail(s)) : Head(s) < f
<1>1. /\ Head(s) \in Frame /\ Tail(s) \in Seq(Frame) /\ Len(Tail(s)) = Len(s) - 1
      /\ \A i \in 1 .. Len(Tail(s)) : Tail(s)[i] = s[i + 1]
  BY HeadTailProperties
<1>2. DOMAIN s = 1 .. Len(s) /\ DOMAIN Tail(s) = 1 .. Len(s) - 1 /\ Len(s) \in Nat \ {0}
  BY <1>1, LenProperties, EmptySeq
<1>3. Head(s) = s[1] /\ 1 \in 1 .. Len(s)
  BY <1>2
<1>4. \A i \in 1 .. Len(s) - 1 : Tail(s)[i] = s[i + 1] /\ i + 1 \in 1 .. Len(s) /\ 1 < i + 1
  BY <1>1, <1>2
<1>5. InOrder(Tail(s))
  <2> SUFFICES ASSUME NEW i \in 1 .. Len(s) - 1, NEW j \in 1 .. Len(s) - 1, i < j,
                      Tail(s)[i] # Eof, Tail(s)[j] # Eof
               PROVE  Tail(s)[i] < Tail(s)[j]
    BY <1>2 DEF InOrder
  <2>1. i + 1 < j + 1
    BY <1>2
  <2>2. QED
    BY <2>1, <1>2, <1>4 DEF InOrder
<1>6. \A i \in 1 .. Len(s) : i # 1 => i - 1 \in 1 .. Len(s) - 1 /\ s[i] = Tail(s)[i - 1]
  <2>1. \A i \in 1 .. Len(s) : i # 1 => i - 1 \in 1 .. Len(s) - 1 /\ (i - 1) + 1 = i
    BY <1>2
  <2>2. \A i \in 1 .. Len(s) : i - 1 \in 1 .. Len(s) - 1 => Tail(s)[i - 1] = s[(i - 1) + 1]
    BY <1>4
  <2>3. QED
    BY <2>1, <2>2
<1>7. \A f \in Heard(Tail(s)) : f \in Heard(s)
  BY <1>2, <1>4 DEF Heard
<1>8. \A f \in Heard(s) : f # Head(s) => f \in Heard(Tail(s))
  <2> SUFFICES ASSUME NEW i \in 1 .. Len(s), s[i] # Eof, s[i] # Head(s)
               PROVE  s[i] \in Heard(Tail(s))
    BY <1>2 DEF Heard
  <2>1. i - 1 \in 1 .. Len(s) - 1 /\ s[i] = Tail(s)[i - 1]
    BY <1>3, <1>6
  <2>2. QED
    BY <2>1, <1>2 DEF Heard
<1>9. ASSUME Head(s) # Eof
      PROVE  /\ Head(s) \in Heard(s) /\ \A f \in Heard(Tail(s)) : Head(s) < f
  <2>1. Head(s) \in Heard(s)
    BY <1>2, <1>3, <1>9 DEF Heard
  <2>2. ASSUME NEW i \in 1 .. Len(s) - 1, Tail(s)[i] # Eof
        PROVE  Head(s) < Tail(s)[i]
    BY <2>2, <1>2, <1>3, <1>4, <1>9 DEF InOrder
  <2>3. QED
    BY <2>1, <2>2, <1>2 DEF Heard
<1>10. Head(s) \notin Heard(Tail(s))
  <2>1. CASE Head(s) = Eof
    BY <2>1 DEF Heard
  <2>2. CASE Head(s) # Eof
    <3>3. Head(s) \in Nat
      BY <1>1, FrameIsNat
    <3>1. Head(s) \in Nat /\ ~(Head(s) < Head(s))
      BY <3>3
    <3>2. QED
      BY <2>2, <3>1, <1>9
  <2>3. QED
    BY <2>1, <2>2
<1>11. QED
  BY <1>1, <1>5, <1>7, <1>8, <1>9, <1>10
-------------------------------------------------------------------------------
(* What flows from the decoder to the AO: s is the queue, i and d what is between *)
(* filters, n the number of the next frame that is decoded.                       *)
Start(s, i, d, n) == n - Len(d) - Len(i) - Len(s)
Flows(s, i, d, n, base) ==
  /\ Len(i) <= 1 /\ Len(d) <= 1 /\ Start(s, i, d, n) >= 1
  /\ Numbered(s, base, Start(s, i, d, n))
  /\ Numbered(i, base, n - Len(d) - Len(i))
  /\ Numbered(d, base, n - Len(d))

LEMMA FlowTakes ==
  ASSUME NEW s \in Seq(Frame), NEW i \in Seq(Frame), NEW d \in Seq(Frame), NEW n \in Nat,
         NEW base \in Nat, Flows(s, i, d, n, base), NEW m \in 0 .. Len(s)
  PROVE  /\ Flows(SubSeq(s, m + 1, Len(s)), i, d, n, base)
         /\ Start(SubSeq(s, m + 1, Len(s)), i, d, n) = Start(s, i, d, n) + m
<1> DEFINE t == SubSeq(s, m + 1, Len(s))
<1>1. t \in Seq(Frame) /\ Len(t) = Len(s) - m
  BY Sliced
<1>2. Len(s) \in Nat /\ Len(i) \in Nat /\ Len(d) \in Nat /\ m \in Nat
  OBVIOUS
<1>3. Start(t, i, d, n) = Start(s, i, d, n) + m
  <2> HIDE DEF t
  <2>1. QED
    BY <1>1, <1>2 DEF Start
<1>4. Start(s, i, d, n) \in Nat
  BY <1>2 DEF Start, Flows
<1>5. Numbered(t, base, Start(s, i, d, n) + m)
  BY <1>4, NumberedSlice DEF Flows
<1>6. QED
  BY <1>2, <1>3, <1>4, <1>5 DEF Flows

LEMMA FlowPushes ==
  ASSUME NEW s \in Seq(Frame), NEW i \in Seq(Frame), NEW d \in Seq(Frame), NEW n \in Nat,
         NEW base \in Nat, Flows(s, i, d, n, base)
  PROVE  /\ Flows(s \o i, <<>>, d, n, base)
         /\ Start(s \o i, <<>>, d, n) = Start(s, i, d, n)
<1>1. s \o i \in Seq(Frame) /\ Len(s \o i) = Len(s) + Len(i)
  BY Appended
<1>2. Len(s) \in Nat /\ Len(i) \in Nat /\ Len(d) \in Nat /\ Len(<<>>) = 0
  OBVIOUS
<1>3. Start(s \o i, <<>>, d, n) = Start(s, i, d, n)
  BY <1>1, <1>2 DEF Start
<1>4. Start(s, i, d, n) \in Nat /\ Start(s, i, d, n) + Len(s) = n - Len(d) - Len(i)
  BY <1>2 DEF Start, Flows
<1>5. Numbered(s \o i, base, Start(s, i, d, n))
  BY <1>4, NumberedAppend DEF Flows
<1>6. Numbered(<<>>, base, n - Len(d) - Len(<<>>))
  BY <1>2 DEF Numbered
<1>7. QED
  BY <1>2, <1>3, <1>5, <1>6 DEF Flows

LEMMA FlowMoves ==
  ASSUME NEW s \in Seq(Frame), NEW d \in Seq(Frame), NEW n \in Nat,
         NEW base \in Nat, Flows(s, <<>>, d, n, base)
  PROVE  /\ Flows(s, d, <<>>, n, base)
         /\ Start(s, d, <<>>, n) = Start(s, <<>>, d, n)
<1>1. Len(s) \in Nat /\ Len(d) \in Nat /\ Len(<<>>) = 0
  OBVIOUS
<1>2. Start(s, d, <<>>, n) = Start(s, <<>>, d, n)
  BY <1>1 DEF Start
<1>3. Numbered(<<>>, base, n - Len(<<>>))
  BY <1>1 DEF Numbered
<1>4. n - Len(<<>>) - Len(d) = n - Len(d)
  BY <1>1
<1>5. QED
  BY <1>1, <1>2, <1>3, <1>4 DEF Flows

LEMMA FlowMakes ==
  ASSUME NEW s \in Seq(Frame), NEW i \in Seq(Frame), NEW n \in Nat,
         NEW base \in Nat, Flows(s, i, <<>>, n, base), NEW f, f = Nth(base, n)
  PROVE  /\ Flows(s, i, <<f>>, n + 1, base)
         /\ Start(s, i, <<f>>, n + 1) = Start(s, i, <<>>, n)
<1>1. Len(s) \in Nat /\ Len(i) \in Nat /\ Len(<<>>) = 0 /\ Len(<<f>>) = 1 /\ <<f>>[1] = f
  OBVIOUS
<1>2. Start(s, i, <<f>>, n + 1) = Start(s, i, <<>>, n)
  BY <1>1 DEF Start
<1>3. n + 1 - Len(<<f>>) = n - Len(<<>>) /\ n + 1 - Len(<<f>>) + 1 - 1 = n
  BY <1>1
<1>4. Numbered(<<f>>, base, n + 1 - Len(<<f>>))
  BY <1>1, <1>3 DEF Numbered
<1>5. Numbered(i, base, n + 1 - Len(<<f>>) - Len(i))
  BY <1>3 DEF Flows
<1>6. QED
  BY <1>1, <1>2, <1>4, <1>5 DEF Flows

LEMMA FlowStarts ==
  ASSUME NEW base \in Nat
  PROVE  Flows(<<>>, <<>>, <<>>, 1, base) /\ Start(<<>>, <<>>, <<>>, 1) = 1
  BY DEF Flows, Start, Numbered

LEMMA FlowEmpties ==
  ASSUME NEW s \in Seq(Frame), NEW i \in Seq(Frame), NEW d \in Seq(Frame), NEW n \in Nat,
         NEW base \in Nat, Flows(s, i, d, n, base)
  PROVE  /\ Flows(<<>>, i, d, n, base)
         /\ Start(<<>>, i, d, n) = Start(s, i, d, n) + Len(s)
<1>1. Len(s) \in Nat /\ Len(i) \in Nat /\ Len(d) \in Nat /\ Len(<<>>) = 0
  OBVIOUS
<1>2. Start(<<>>, i, d, n) = Start(s, i, d, n) + Len(s)
  BY <1>1 DEF Start
<1>3. Numbered(<<>>, base, Start(<<>>, i, d, n))
  BY <1>1 DEF Numbered
<1>4. QED
  BY <1>1, <1>2, <1>3 DEF Flows, Start
-------------------------------------------------------------------------------
(* What the device holds: w is the last sample it was given. *)
NewIn(buffer, base) == {f \in Heard(buffer) : f > base}
Greater(m, n) == IF m > n THEN m ELSE n
Ordered(buffer, p, sk, w) ==
  /\ InOrder(buffer)
  /\ \A f \in Heard(buffer) : p < f /\ f <= w
  /\ p <= w /\ sk <= w
Whole(buffer, p, sk, base, w) == NewIn(buffer, base) = 1 + Greater(Greater(p, sk), base) .. w

LEMMA DeviceTakes ==
  ASSUME NEW buffer \in Seq(Frame), NEW t \in Seq(Frame), NEW p \in Nat, NEW sk \in Nat, NEW base \in Nat,
         NEW k \in Nat \ {0}, k + Len(t) <= Length + 1, Numbered(t, base, k),
         Ordered(buffer, p, sk, Upto(base, k - 1))
  PROVE  /\ Ordered(buffer \o t, p, sk, Upto(base, k + Len(t) - 1))
         /\ Whole(buffer, p, sk, base, Upto(base, k - 1))
              => Whole(buffer \o t, p, sk, base, Upto(base, k + Len(t) - 1))
         /\ NewIn(buffer, base) = Heard(buffer) => NewIn(buffer \o t, base) = Heard(buffer \o t)
<1>1. Len(t) \in Nat /\ Length \in Nat
  BY LengthIsNat
<1>2. Upto(base, k - 1) = base + k - 1 /\ Upto(base, k + Len(t) - 1) = base + k + Len(t) - 1
  BY <1>1, SMTT(30) DEF Upto, Least
<1>3. InOrder(t) /\ Heard(t) = base + k .. base + k + Len(t) - 1
  BY <1>1, <1>2, NumberedHeard
<1>4. Heard(buffer) \subseteq Nat
  BY HeardIsFrame
<1>5. InOrder(buffer \o t)
  <2>1. \A f \in Heard(buffer), g \in Heard(t) : f < g
    BY <1>1, <1>2, <1>3, <1>4 DEF Ordered
  <2>2. QED
    BY <2>1, <1>3, OrderAppend DEF Ordered
<1>6. Heard(buffer \o t) = Heard(buffer) \union Heard(t)
  BY HeardAppend
<1>7. \A f \in Heard(t) : f \in Nat /\ f > base /\ p < f /\ f <= base + k + Len(t) - 1
  BY <1>1, <1>2, <1>3 DEF Ordered
<1>8. Ordered(buffer \o t, p, sk, Upto(base, k + Len(t) - 1))
  BY <1>1, <1>2, <1>4, <1>5, <1>6, <1>7 DEF Ordered
<1>9. NewIn(buffer \o t, base) = NewIn(buffer, base) \union (base + k .. base + k + Len(t) - 1)
  BY <1>3, <1>6, <1>7 DEF NewIn
<1>10. ASSUME Whole(buffer, p, sk, base, Upto(base, k - 1))
       PROVE  Whole(buffer \o t, p, sk, base, Upto(base, k + Len(t) - 1))
  <2> DEFINE m == 1 + Greater(Greater(p, sk), base)
  <2>1. m \in Nat /\ m <= base + k
    BY <1>2 DEF Greater, Ordered
  <2>2. NewIn(buffer, base) = m .. base + k - 1
    BY <1>10, <1>2 DEF Whole
  <2>3. NewIn(buffer \o t, base) = m .. base + k + Len(t) - 1
    <3> HIDE DEF m
    <3>1. QED
      BY <2>1, <2>2, <1>1, <1>9, SMTT(30)
  <2>4. QED
    BY <2>3, <1>2 DEF Whole
<1>11. NewIn(buffer, base) = Heard(buffer) => NewIn(buffer \o t, base) = Heard(buffer \o t)
  BY <1>3, <1>6, <1>9
<1>12. QED
  BY <1>8, <1>10, <1>11

LEMMA DeviceTakesSilence ==
  ASSUME NEW buffer \in Seq(Frame), NEW n \in Nat
  PROVE  /\ buffer \o Silence(n) \in Seq(Frame) /\ Len(buffer \o Silence(n)) = Len(buffer) + n
         /\ Heard(buffer \o Silence(n)) = Heard(buffer)
         /\ InOrder(buffer) => InOrder(buffer \o Silence(n))
<1>1. /\ Silence(n) \in Seq(Frame) /\ Len(Silence(n)) = n
      /\ Heard(Silence(n)) = {} /\ InOrder(Silence(n))
  BY SilenceIsSilent
<1>2. \A f \in Heard(buffer), g \in Heard(Silence(n)) : f < g
  BY <1>1
<1>3. InOrder(buffer) => InOrder(buffer \o Silence(n))
  BY <1>1, <1>2, OrderAppend
<1>4. Heard(buffer \o Silence(n)) = Heard(buffer)
  <2>1. Heard(buffer \o Silence(n)) = Heard(buffer) \union Heard(Silence(n))
    BY <1>1, HeardAppend
  <2>2. QED
    BY <1>1, <2>1
<1>5. QED
  BY <1>1, <1>3, <1>4, Appended

LEMMA DeviceGives ==
  ASSUME NEW buffer \in Seq(Frame), buffer # <<>>, NEW p \in Nat, NEW sk \in Nat, NEW base \in Nat, NEW w \in Nat,
         Ordered(buffer, p, sk, w), NEW q, q = IF Head(buffer) = Eof THEN p ELSE Head(buffer)
  PROVE  /\ q \in Nat /\ Ordered(Tail(buffer), q, sk, w)
         /\ Whole(buffer, p, sk, base, w) => Whole(Tail(buffer), q, sk, base, w)
         /\ NewIn(buffer, base) = Heard(buffer) => NewIn(Tail(buffer), base) = Heard(Tail(buffer))
<1> DEFINE h == Head(buffer)
<1>1. /\ InOrder(Tail(buffer)) /\ h \in Nat
      /\ Heard(Tail(buffer)) = Heard(buffer) \ {h}
      /\ h # Eof => h \in Heard(buffer) /\ \A f \in Heard(Tail(buffer)) : h < f
  BY HeardTail, FrameIsNat DEF Ordered
<1>2. Heard(buffer) \subseteq Nat /\ Eof \notin Heard(buffer)
  BY HeardIsFrame
<1> HIDE DEF h
<1>3. NewIn(buffer, base) = Heard(buffer) => NewIn(Tail(buffer), base) = Heard(Tail(buffer))
  BY <1>1 DEF NewIn
<1>4. CASE h = Eof
  <2>1. Heard(Tail(buffer)) = Heard(buffer) /\ q = p
    BY <1>1, <1>2, <1>4 DEF h
  <2>2. QED
    BY <2>1, <1>1, <1>3 DEF Ordered, Whole, NewIn
<1>5. CASE h # Eof
  <2>1. q = h /\ p < h /\ h <= w /\ h \in Heard(buffer)
    BY <1>1, <1>5 DEF h, Ordered
  <2>2. Ordered(Tail(buffer), q, sk, w)
    BY <2>1, <1>1, <1>2, <1>5 DEF Ordered
  <2>3. ASSUME Whole(buffer, p, sk, base, w)
        PROVE  Whole(Tail(buffer), q, sk, base, w)
    <3> DEFINE m == Greater(Greater(p, sk), base)
    <3>1. NewIn(buffer, base) = 1 + m .. w
      BY <2>3 DEF Whole
    <3>2. m \in Nat /\ m >= base /\ m >= p /\ m >= sk
      BY DEF Greater
    <3>3. NewIn(Tail(buffer), base) = NewIn(buffer, base) \ {h}
      BY <1>1 DEF NewIn
    <3>4. CASE h > base
      <4>1. h \in 1 + m .. w
        BY <3>1, <3>4, <2>1 DEF NewIn
      <4>2. \A f \in 1 + m .. w : f = h \/ h < f
        <5> TAKE f \in 1 + m .. w
        <5>1. f \in Heard(buffer)
          BY <3>1 DEF NewIn
        <5>2. QED
          BY <5>1, <1>1, <1>5
      <4>3. h = 1 + m
        <5> HIDE DEF m
        <5>1. 1 + m \in 1 + m .. w
          BY <4>1, <3>2
        <5>2. QED
          BY <4>1, <4>2, <5>1, <3>2
      <4>4. Greater(Greater(h, sk), base) = h
        BY <4>3, <3>2, <1>1 DEF Greater
      <4>5. NewIn(Tail(buffer), base) = 1 + h .. w
        <5> HIDE DEF m
        <5>1. \A f : f \in (1 + m .. w) \ {1 + m} <=> f \in 2 + m .. w
          BY <3>2
        <5>2. (1 + m .. w) \ {h} = 1 + h .. w
          BY <5>1, <4>3, <3>2
        <5>3. QED
          BY <5>2, <3>1, <3>3
      <4>6. QED
        BY <2>1, <4>4, <4>5 DEF Whole
    <3>5. CASE ~(h > base)
      <4>1. NewIn(Tail(buffer), base) = NewIn(buffer, base)
        BY <3>3, <3>5 DEF NewIn
      <4>2. Greater(Greater(h, sk), base) = m
        BY <2>1, <3>5, <1>1 DEF Greater
      <4>3. QED
        BY <2>1, <4>1, <4>2, <3>1 DEF Whole
    <3>6. QED
      BY <3>4, <3>5
  <2>4. QED
    BY <2>1, <2>2, <2>3, <1>1, <1>3
<1>6. QED
  BY <1>4, <1>5

LEMMA NothingLeft ==
  /\ <<>> \in Seq(Frame) /\ Len(<<>>) = 0 /\ Heard(<<>>) = {} /\ InOrder(<<>>)
  /\ \A base : NewIn(<<>>, base) = {}
  BY DEF Heard, InOrder, NewIn

\* A device without a buffer: the last of t is heard at once.
LEMMA DevicePlaysAtOnce ==
  ASSUME NEW t \in Seq(Frame), t # <<>>, NEW p \in Nat, NEW sk \in Nat, NEW base \in Nat,
         NEW k \in Nat \ {0}, k + Len(t) <= Length + 1, Numbered(t, base, k),
         Ordered(<<>>, p, sk, Upto(base, k - 1))
  PROVE  /\ t[Len(t)] # Eof /\ t[Len(t)] \in Frame
         /\ Ordered(<<>>, t[Len(t)], sk, Upto(base, k + Len(t) - 1))
         /\ Whole(<<>>, t[Len(t)], sk, base, Upto(base, k + Len(t) - 1))
<1>1. Len(t) \in Nat \ {0} /\ Length \in Nat
  BY LengthIsNat, EmptySeq
<1>2. Upto(base, k - 1) = base + k - 1 /\ Upto(base, k + Len(t) - 1) = base + k + Len(t) - 1
  BY <1>1 DEF Upto, Least
<1>3. Len(t) \in 1 .. Len(t) /\ ~(k + Len(t) - 1 > Length)
  BY <1>1
<1>4. t[Len(t)] = base + (k + Len(t) - 1)
  BY <1>3 DEF Numbered, Nth
<1>5. t[Len(t)] \in Frame
  BY <1>3, ElementOfSeq
<1>6. Greater(Greater(t[Len(t)], sk), base) = base + k + Len(t) - 1
  BY <1>1, <1>2, <1>4 DEF Greater, Ordered
<1>7. 1 + (base + k + Len(t) - 1) .. base + k + Len(t) - 1 = {}
  BY <1>1
<1>8. Whole(<<>>, t[Len(t)], sk, base, Upto(base, k + Len(t) - 1))
  BY <1>2, <1>6, <1>7, NothingLeft DEF Whole
<1>9. t[Len(t)] # Eof /\ t[Len(t)] <= base + k + Len(t) - 1 /\ sk <= base + k + Len(t) - 1
  BY <1>1, <1>2, <1>4 DEF Eof, Ordered
<1>10. QED
  BY <1>2, <1>5, <1>8, <1>9, NothingLeft DEF Ordered

\* What a device holds that is reset: with the last of it dropped, nothing is missing.
LEMMA DeviceDrops ==
  ASSUME TypeOK, NEW base \in Nat, NEW w \in Nat,
         Ordered(device.buffer, played, skipped, w),
         NewIn(device.buffer, base) = Heard(device.buffer),
         Whole(device.buffer, played, skipped, base, w)
  PROVE  /\ Dropped(device.buffer) \in Frame
         /\ Ordered(<<>>, played, Dropped(device.buffer), w)
         /\ Whole(<<>>, played, Dropped(device.buffer), base, w)
<1> DEFINE B == Heard(device.buffer)
           m == Greater(Greater(played, skipped), base)
<1>1. device.buffer \in Seq(Frame) /\ played \in Nat /\ skipped \in Nat /\ skipped \in Frame
  BY FrameIsNat DEF TypeOK, DeviceState
<1>2. B \subseteq Frame /\ B \subseteq Nat
  BY <1>1, HeardIsFrame
<1>3. B = 1 + m .. w
  BY DEF Whole
<1>4. m \in Nat /\ m >= base /\ m >= played /\ m >= skipped
  BY <1>1 DEF Greater
<1>5. CASE B = {}
  <2>1. Dropped(device.buffer) = skipped
    BY <1>5 DEF Dropped
  <2>2. QED
    BY <2>1, <1>1, <1>5, NothingLeft DEF Ordered, Whole, NewIn
<1>6. CASE B # {}
  <2>1. w \in B /\ \A f \in B : f <= w
    <3> HIDE DEF m, B
    <3>1. w \in 1 + m .. w
      BY <1>3, <1>4, <1>6
    <3>2. QED
      BY <3>1, <1>3, <1>4
  <2>2. Dropped(device.buffer) \in B /\ \A f \in B : f <= Dropped(device.buffer)
    <3>1. Dropped(device.buffer) = CHOOSE s \in B : \A f \in B : f <= s
      BY <1>6 DEF Dropped
    <3>2. QED
      BY <2>1, <3>1
  <2>3. Dropped(device.buffer) = w
    <3>1. w <= Dropped(device.buffer) /\ Dropped(device.buffer) <= w /\ Dropped(device.buffer) \in Nat
      BY <2>1, <2>2, <1>2
    <3>2. QED
      BY <3>1
  <2>4. Greater(Greater(played, w), base) = w
    <3>1. played <= w /\ base <= w
      BY <2>1, <1>3, <1>4, <1>1
    <3>2. QED
      BY <3>1, <1>1 DEF Greater
  <2>5. Whole(<<>>, played, w, base, w)
    <3>1. 1 + w .. w = {}
      OBVIOUS
    <3>2. QED
      BY <2>4, <3>1, NothingLeft DEF Whole
  <2>6. QED
    BY <2>1, <2>3, <2>5, <1>2, NothingLeft DEF Ordered
<1>7. QED
  BY <1>5, <1>6
-------------------------------------------------------------------------------
(* The inductive invariant. *)

\* The device holds something only while the AO streams, and (untimed ones apart) runs
\* exactly as long as it holds something.
DeviceBooks ==
  /\ ~ao.streaming => device.buffer = <<>>
  /\ device.buffer # <<>> => device.playing
  /\ setup.untimed => device.buffer = <<>>
  /\ ~setup.untimed /\ device.playing => device.buffer # <<>>
  /\ ~ao.playing /\ ~setup.stream_silence => device.buffer = <<>>

\* driver->set_pause() holds the device only while the AO is paused; a device that is
\* not held is empty then.
Pausing ==
  /\ device.paused = ao.hw_paused
  /\ ao.hw_paused => ao.paused /\ ao.playing /\ ~setup.stream_silence
  /\ ao.paused /\ ~setup.stream_silence => device.buffer = <<>> \/ device.paused
  /\ ao.recover_pause => ~ao.streaming /\ ~setup.untimed /\ ~setup.stream_silence

\* playthread sleeps, or will without looking again; then it had nothing to do.
GoesToSleep == ao.pc = "sleep" \/ (ao.pc = "check" /\ ~ao.need_wakeup /\ ~ao.retry)
NothingToDo == /\ ~ao.streaming /\ queue.frames = <<>> /\ ~queue.wakeup_sent
               /\ ao.playing => queue.requested
SleepInv ==
  /\ GoesToSleep /\ ~ao.timed /\ ~core.waking /\ ~Inactive => NothingToDo
  /\ ao.pc = "sleep" => ~ao.terminate
  /\ queue.requested /\ ~queue.async_pending => queue.frames = <<>>

\* No frame is lost or swapped on its way to the queue.
StreamInv ==
  /\ Flows(queue.frames, graph.in_data, graph.data, graph.next, graph.base)
  /\ graph.in_requested => graph.in_data = <<>>
  /\ graph.requested => graph.data = <<>>
  /\ graph.decoded => graph.next <= Length + 1

\* The device has got everything before the first frame that is still on its way.
FirstQueued == Start(queue.frames, graph.in_data, graph.data, graph.next)
Written == Upto(graph.base, FirstQueued - 1)
ContentInv ==
  /\ Ordered(device.buffer, played, skipped, Written)
  /\ core.pc \notin Emptied =>
       /\ Whole(device.buffer, played, skipped, graph.base, Written)
       /\ setup.stream_silence \/ NewIn(device.buffer, graph.base) = Heard(device.buffer)

\* Every seek that was carried out, asked for or queued was made by the user.
One(b) == IF b THEN 1 ELSE 0
SeekInv ==
  /\ \E k \in 0 .. MaxSeeks :
       /\ graph.base = k * Length
       /\ k + One(core.seek) + One(core.cmd = "seek") <= commands.seek
  /\ core.pc = "reset" => core.seek /\ queue.frames = <<>> /\ ~ao.playing

Inv == /\ setup \in Setups /\ TypeOK
       /\ DeviceBooks /\ Pausing /\ SleepInv /\ StreamInv /\ ContentInv /\ SeekInv
-------------------------------------------------------------------------------
(* What a step keeps that leaves the frames alone. *)
StreamSame == UNCHANGED <<queue.frames, graph.data, graph.in_data, graph.requested,
                          graph.in_requested, graph.decoded, graph.next, graph.base>>
Moves(c) == /\ c \in CoreState /\ c.seek = core.seek /\ c.cmd \in {core.cmd, "none"}
            /\ c.pc = "reset" => core.pc = "reset"
            /\ c.pc \notin Emptied => core.pc \notin Emptied

LEMMA StreamKept ==
  ASSUME StreamInv, StreamSame
  PROVE  StreamInv' /\ FirstQueued' = FirstQueued /\ Written' = Written
  BY DEF StreamInv, StreamSame, FirstQueued, Written

LEMMA ContentKept ==
  ASSUME ContentInv, StreamSame, UNCHANGED <<setup, device.buffer, played, skipped>>,
         core'.pc \notin Emptied => core.pc \notin Emptied
  PROVE  ContentInv'
  BY DEF ContentInv, StreamSame, FirstQueued, Written

LEMMA SeekKept ==
  ASSUME SeekInv, UNCHANGED <<graph.base, commands>>, commands.seek \in Nat,
         core'.seek = core.seek, core'.cmd \in {core.cmd, "none"},
         core'.pc = "reset" => core.pc = "reset" /\ queue'.frames = queue.frames /\ (~ao.playing => ~ao'.playing)
  PROVE  SeekInv'
<1>1. PICK k \in 0 .. MaxSeeks :
        /\ graph.base = k * Length
        /\ k + One(core.seek) + One(core.cmd = "seek") <= commands.seek
  BY DEF SeekInv
<1>2. k \in Nat /\ (k + One(core.seek) + One(core'.cmd = "seek") <= commands.seek)
  <2>1. One(core'.cmd = "seek") = One(core.cmd = "seek") \/ (One(core'.cmd = "seek") = 0 /\ One(core.cmd = "seek") \in 0 .. 1)
    BY DEF One
  <2>2. One(core.seek) \in Nat /\ k \in Nat
    BY LengthIsNat DEF One
  <2>3. QED
    BY <2>1, <2>2, <1>1
<1>3. graph'.base = k * Length /\ k + One(core'.seek) + One(core'.cmd = "seek") <= commands'.seek
  BY <1>1, <1>2
<1>4. core'.pc = "reset" => core'.seek /\ queue'.frames = <<>> /\ ~ao'.playing
  BY DEF SeekInv
<1>5. QED
  BY <1>3, <1>4 DEF SeekInv

LEMMA SetupFields ==
  ASSUME setup \in Setups
  PROVE  /\ setup.untimed \in BOOLEAN /\ setup.can_pause \in BOOLEAN /\ setup.stream_silence \in BOOLEAN
         /\ setup.seeks \in 0 .. MaxSeeks
  BY SetupsAssumption

Rest == UNCHANGED <<setup, cached, commands>>

LEMMA Numbers ==
  ASSUME Inv
  PROVE  /\ queue.frames \in Seq(Frame) /\ graph.in_data \in Seq(Frame) /\ graph.data \in Seq(Frame)
         /\ device.buffer \in Seq(Frame)
         /\ graph.next \in 1 .. Length + 2 /\ graph.base \in Nat /\ played \in Nat /\ skipped \in Nat
         /\ Len(queue.frames) \in Nat /\ Len(graph.in_data) \in 0 .. 1 /\ Len(graph.data) \in 0 .. 1
         /\ Len(device.buffer) \in 0 .. DeviceSize
         /\ FirstQueued \in Nat \ {0} /\ Written \in Nat
         /\ FirstQueued + Len(queue.frames) + Len(graph.in_data) + Len(graph.data) = graph.next
         /\ Space \in Nat
<1>1. /\ queue.frames \in Seq(Frame) /\ graph.in_data \in Seq(Frame) /\ graph.data \in Seq(Frame)
      /\ graph.next \in 1 .. Length + 2 /\ graph.base \in Nat
      /\ device.buffer \in Seq(Frame) /\ Len(device.buffer) <= DeviceSize
  BY DEF Inv, TypeOK, QueueState, GraphState, DeviceState
<1>2. played \in Nat /\ skipped \in Nat
  BY FrameIsNat DEF Inv, TypeOK
<1>3. /\ Len(queue.frames) \in Nat /\ Len(graph.in_data) \in Nat /\ Len(graph.data) \in Nat
      /\ Len(device.buffer) \in Nat
  BY <1>1
<1>4. /\ Len(graph.in_data) <= 1 /\ Len(graph.data) <= 1 /\ FirstQueued >= 1
  BY DEF Inv, StreamInv, Flows, FirstQueued
<1>5. FirstQueued = graph.next - Len(graph.data) - Len(graph.in_data) - Len(queue.frames)
  BY DEF FirstQueued, Start
<1>6. FirstQueued \in Nat \ {0}
  BY <1>1, <1>3, <1>4, <1>5
<1>7. Written \in Nat
  BY <1>1, <1>6, LengthIsNat DEF Written, Upto, Least
<1>8. Space \in Nat
  BY <1>1, <1>3, LengthIsNat DEF Space
<1>9. Len(graph.in_data) \in 0 .. 1 /\ Len(graph.data) \in 0 .. 1
  <2>1. \A n \in Nat : n <= 1 => n \in 0 .. 1
    OBVIOUS
  <2>2. QED
    BY <1>3, <1>4, <2>1
<1>10. Len(device.buffer) \in 0 .. DeviceSize
  BY <1>1, <1>3, LengthIsNat
<1>11. FirstQueued + Len(queue.frames) + Len(graph.in_data) + Len(graph.data) = graph.next
  <2>1. \A n \in Int, a \in Nat, b \in Nat, c \in Nat : (n - c - b - a) + a + b + c = n
    OBVIOUS
  <2>2. graph.next \in Int
    BY <1>1, LengthIsNat
  <2>3. (graph.next - Len(graph.data) - Len(graph.in_data) - Len(queue.frames))
          + Len(queue.frames) + Len(graph.in_data) + Len(graph.data) = graph.next
    BY <1>3, <2>1, <2>2
  <2>4. QED
    BY <1>5, <2>3
<1>12. QED
  BY <1>1, <1>2, <1>3, <1>6, <1>7, <1>8, <1>9, <1>10, <1>11

LEMMA FlowNumbers ==
  ASSUME Inv
  PROVE  /\ queue.frames \in Seq(Frame) /\ graph.in_data \in Seq(Frame)
         /\ graph.data \in Seq(Frame) /\ graph.base \in Nat /\ graph.next \in Nat
         /\ graph.next \in 1 .. Length + 2
         /\ Len(queue.frames) \in Nat /\ Len(graph.in_data) \in Nat /\ Len(graph.data) \in Nat
<1>1. /\ queue.frames \in Seq(Frame) /\ graph.in_data \in Seq(Frame)
      /\ graph.data \in Seq(Frame) /\ graph.base \in Nat
      /\ graph.next \in 1 .. Length + 2
  BY DEF Inv, TypeOK, QueueState, GraphState
<1>2. graph.next \in Nat
  BY <1>1, LengthIsNat
<1>3. QED
  BY <1>1, <1>2

\* A step that moves no frame keeps the invariant if it keeps the books of pausing and of
\* sleeping.
LEMMA NoFrameMoves ==
  ASSUME Inv, Rest, StreamSame, UNCHANGED <<device.buffer, played, skipped>>,
         ao' \in AoState, queue' \in QueueState, device' \in DeviceState, graph' \in GraphState,
         Moves(core'), core'.pc = "reset" => (~ao.playing => ~ao'.playing),
         DeviceBooks', Pausing', SleepInv'
  PROVE  Inv'
<1>1. TypeOK'
  BY DEF Inv, TypeOK, Moves, Rest, StreamSame
<1>4. StreamInv'
  BY StreamKept DEF Inv
<1>5. ContentInv'
  BY ContentKept DEF Inv, Moves, Rest
<1>6. SeekInv'
  <2>1. commands.seek \in Nat
    BY LengthIsNat DEF Inv, TypeOK
  <2>2. graph'.base = graph.base /\ queue'.frames = queue.frames
    BY DEF StreamSame
  <2>3. QED
    BY <2>1, <2>2, SeekKept DEF Inv, Moves, Rest
<1>7. QED
  BY <1>1, <1>4, <1>5, <1>6 DEF Inv, Rest

\* The core moves on.
LEMMA CoreMoves ==
  ASSUME Inv, Rest, Moves(core'), core.waking => core'.waking, graph' \in GraphState, StreamSame,
         UNCHANGED <<ao, queue, device, played, skipped>>
  PROVE  Inv'
<1>1. ao' \in AoState /\ queue' \in QueueState /\ device' \in DeviceState
  BY DEF Inv, TypeOK
<1>2. DeviceBooks' /\ Pausing'
  BY DEF Inv, DeviceBooks, Pausing, Rest
<1>3. SleepInv'
  BY DEF Inv, SleepInv, GoesToSleep, NothingToDo, Inactive, Rest
<1>4. QED
  BY <1>1, <1>2, <1>3, NoFrameMoves

\* playthread moves on.
LEMMA PlaythreadMoves ==
  ASSUME Inv, Rest, ao' \in AoState,
         UNCHANGED <<ao.playing, ao.streaming, ao.paused, ao.hw_paused, ao.recover_pause>>,
         UNCHANGED <<queue, device, graph, core, played, skipped>>,
         SleepInv'
  PROVE  Inv'
<1>1. queue' \in QueueState /\ device' \in DeviceState /\ graph' \in GraphState
  BY DEF Inv, TypeOK
<1>2. DeviceBooks' /\ Pausing'
  BY DEF Inv, DeviceBooks, Pausing, Rest
<1>3. StreamSame
  BY DEF StreamSame
<1>4. Moves(core')
  BY DEF Moves, Inv, TypeOK
<1>5. QED
  BY <1>1, <1>2, <1>3, <1>4, NoFrameMoves
-------------------------------------------------------------------------------
(* playthread. *)
LEMMA PlayNothingKeeps ==
  ASSUME Inv, PlayNothing, Rest
  PROVE  Inv'
<1>1. ao \in AoState /\ setup.untimed \in BOOLEAN /\ setup.stream_silence \in BOOLEAN
  BY SetupFields DEF Inv, TypeOK
<1>2. ao' \in AoState
  BY <1>1 DEF PlayNothing, Leave, AoState
<1>3. /\ ao'.playing = ao.playing /\ ao'.streaming = ao.streaming /\ ao'.paused = ao.paused
      /\ ao'.hw_paused = ao.hw_paused /\ ao'.recover_pause = ao.recover_pause
      /\ ao'.pc = "check" /\ ao'.timed = (ao.streaming /\ (~ao.paused \/ setup.stream_silence))
  BY <1>1 DEF PlayNothing, Leave, AoState
<1>4. SleepInv'
  <2>1. ~Inactive => ao.streaming
    <3> SUFFICES ASSUME ~Inactive, ~ao.streaming PROVE FALSE
      OBVIOUS
    <3>1. Space = 0
      BY DEF PlayNothing
    <3>2. device.buffer = <<>>
      BY DEF Inv, DeviceBooks
    <3>3. QED
      BY <3>1, <3>2, LengthIsNat DEF Space
  <2>2. Inactive' = Inactive
    BY <1>3 DEF Inactive, Rest
  <2>3. ~Inactive => ~ao.paused \/ setup.stream_silence
    BY DEF Inactive
  <2>4. UNCHANGED <<queue, core>>
    BY DEF PlayNothing
  <2>5. QED
    BY <1>3, <2>1, <2>2, <2>3, <2>4 DEF SleepInv, Inv
<1>5. QED
  BY <1>2, <1>3, <1>4, PlaythreadMoves DEF PlayNothing, Rest

LEMMA PlayCheckKeeps ==
  ASSUME Inv, PlayCheck, Rest
  PROVE  Inv'
<1>1. ao \in AoState
  BY DEF Inv, TypeOK
<1>2. ao' \in AoState
  BY <1>1 DEF PlayCheck, AoState
<1>3. /\ ao'.playing = ao.playing /\ ao'.streaming = ao.streaming /\ ao'.paused = ao.paused
      /\ ao'.hw_paused = ao.hw_paused /\ ao'.recover_pause = ao.recover_pause
      /\ ao'.timed = ao.timed /\ ao'.terminate = ao.terminate
      /\ ao'.pc \in {"exit", "play", "sleep"}
      /\ ao'.pc = "sleep" => ~ao.terminate /\ ~ao.need_wakeup /\ ~ao.retry
  BY <1>1 DEF PlayCheck, AoState, MustNotSleep
<1>4. ao.pc = "check" /\ UNCHANGED <<queue, core, setup>>
  BY DEF PlayCheck, Rest
<1>5. SleepInv'
  BY <1>3, <1>4 DEF Inv, SleepInv, GoesToSleep, NothingToDo, Inactive
<1>6. QED
  BY <1>2, <1>3, <1>5, PlaythreadMoves DEF PlayCheck, Rest

LEMMA PlayWokenKeeps ==
  ASSUME Inv, PlayWoken, Rest
  PROVE  Inv'
<1>1. ao \in AoState
  BY DEF Inv, TypeOK
<1>2. ao' \in AoState
  BY <1>1 DEF PlayWoken, AoState
<1>3. /\ ao'.playing = ao.playing /\ ao'.streaming = ao.streaming /\ ao'.paused = ao.paused
      /\ ao'.hw_paused = ao.hw_paused /\ ao'.recover_pause = ao.recover_pause
      /\ ao'.pc = "play"
  BY <1>1 DEF PlayWoken, AoState
<1>4. SleepInv'
  BY <1>3 DEF PlayWoken, Inv, SleepInv, GoesToSleep
<1>5. QED
  BY <1>2, <1>3, <1>4, PlaythreadMoves DEF PlayWoken, Rest

LEMMA TellEndMoves ==
  ASSUME NEW c \in CoreState, Moves(c)
  PROVE  Moves(TellEnd(c)) /\ TellEnd(c).waking = c.waking
<1>1. TellEnd(c) \in CoreState
  BY DEF TellEnd, CoreState
<1>2. /\ TellEnd(c).seek = c.seek /\ TellEnd(c).cmd = c.cmd /\ TellEnd(c).waking = c.waking
      /\ TellEnd(c).pc \in {c.pc, "drainwoken"}
      /\ TellEnd(c).pc # c.pc => c.pc = "drainwait"
  BY DEF TellEnd, CoreState
<1>3. QED
  BY <1>1, <1>2 DEF Moves, Emptied

LEMMA CoreIsMoved ==
  ASSUME Inv
  PROVE  core \in CoreState /\ Moves(core)
  BY DEF Inv, TypeOK, Moves

LEMMA PlayUnderrunKeeps ==
  ASSUME Inv, PlayUnderrun, Rest
  PROVE  Inv'
<1>1. ao \in AoState /\ setup.untimed \in BOOLEAN /\ setup.stream_silence \in BOOLEAN
  BY SetupFields DEF Inv, TypeOK
<1>2. ao' \in AoState
  BY ZenonT(30), <1>1 DEF PlayUnderrun, EndAudio, Leave, AoState
<1>3. /\ ~ao'.playing /\ ~ao'.streaming /\ ao'.paused = ao.paused
      /\ ao'.hw_paused = ao.hw_paused /\ ao'.recover_pause = ao.recover_pause
      /\ ao'.pc = "check" /\ ao'.retry
  BY <1>1 DEF PlayUnderrun, EndAudio, EndsOn, Leave, AoState
<1>4. ~Inactive /\ Underrun /\ UNCHANGED <<queue, device, graph, played, skipped>>
  BY DEF PlayUnderrun
<1>5. device.buffer = <<>>
  BY <1>4 DEF Underrun, DeviceRuns, Inv, DeviceBooks
<1>6. DeviceBooks' /\ Pausing'
  BY <1>3, <1>4, <1>5 DEF Inv, DeviceBooks, Pausing, Underrun, Inactive, Rest
<1>7. SleepInv'
  BY <1>3, <1>4 DEF Inv, SleepInv, GoesToSleep
<1>8. Moves(core')
  BY TellEndMoves, CoreIsMoved DEF PlayUnderrun
<1>9. StreamSame
  BY <1>4 DEF StreamSame
<1>10. queue' \in QueueState /\ device' \in DeviceState /\ graph' \in GraphState
  BY <1>4 DEF Inv, TypeOK
<1>11. QED
  BY <1>2, <1>3, <1>4, <1>6, <1>7, <1>8, <1>9, <1>10, NoFrameMoves

LEMMA DevicePlaysKeeps ==
  ASSUME Inv, DevicePlays, Rest
  PROVE  Inv'
<1>1. /\ device \in DeviceState /\ device.buffer \in Seq(Frame) /\ device.buffer # <<>>
      /\ device.playing /\ ~device.paused /\ UNCHANGED <<ao, queue, graph, core, skipped>>
  BY DEF Inv, TypeOK, DeviceState, DevicePlays, DeviceRuns
<1>2. /\ Head(device.buffer) \in Frame /\ Tail(device.buffer) \in Seq(Frame)
      /\ Len(Tail(device.buffer)) = Len(device.buffer) - 1 /\ Len(device.buffer) \in Nat
  BY <1>1, HeadTailProperties
<1>3. /\ device' = [device EXCEPT !.buffer = Tail(@), !.playing = Len(device.buffer) > 1]
      /\ played' = IF Head(device.buffer) = Eof THEN played ELSE Head(device.buffer)
  BY DEF DevicePlays
<1>4. /\ device'.buffer = Tail(device.buffer) /\ device'.playing = (Len(device.buffer) > 1)
      /\ device'.paused = device.paused
  BY <1>1, <1>3 DEF DeviceState
<1>13. device' \in DeviceState
  <2>1. (Len(device.buffer) > 1) \in BOOLEAN
    OBVIOUS
  <2> DEFINE p == Len(device.buffer) > 1
             t == Tail(device.buffer)
  <2>2. device' = [device EXCEPT !.buffer = t, !.playing = p]
    BY <1>3
  <2>3. p \in BOOLEAN /\ t \in Seq(Frame)
    BY <2>1, <1>2
  <2> HIDE DEF p, t
  <2>4. QED
    BY <1>1, <2>2, <2>3 DEF DeviceState
<1>5. device'.playing <=> device'.buffer # <<>>
  <2>1. Tail(device.buffer) # <<>> <=> Len(Tail(device.buffer)) # 0
    BY <1>2, EmptySeq
  <2>2. Len(Tail(device.buffer)) # 0 <=> Len(device.buffer) > 1
    <3>1. Len(device.buffer) \in Nat \ {0}
      BY <1>1, EmptySeq
    <3>2. Len(device.buffer) - 1 # 0 <=> Len(device.buffer) > 1
      <4>1. \A n \in Nat \ {0} : n - 1 # 0 <=> n > 1
        OBVIOUS
      <4>2. QED
        BY <3>1, <4>1
    <3>3. QED
      BY <3>2, <1>2
  <2>3. QED
    BY <1>4, <2>1, <2>2
<1>6. played' \in Frame
  BY <1>2, <1>3 DEF Inv, TypeOK
<1>7. TypeOK'
  <2>1. UNCHANGED <<SampleCount(queue.frames)>> /\ Len(device'.buffer) <= DeviceSize
    BY <1>1, <1>2, <1>4, LengthIsNat DEF Inv, TypeOK
  <2>2. QED
    BY <1>1, <1>13, <1>6, <2>1 DEF Inv, TypeOK, Rest
<1>8. DeviceBooks'
  BY <1>1, <1>5 DEF Inv, DeviceBooks, Rest
<1>9. Pausing'
  BY <1>1, <1>4 DEF Inv, Pausing, Rest
<1>10. SleepInv' /\ StreamInv' /\ SeekInv'
  BY <1>1 DEF Inv, SleepInv, GoesToSleep, NothingToDo, Inactive, StreamInv, SeekInv, Rest
<1>11. ContentInv'
  <2>1. Written \in Nat /\ graph.base \in Nat /\ played \in Nat /\ skipped \in Nat
    BY Numbers
  <2>2. Written' = Written /\ graph'.base = graph.base /\ setup' = setup /\ core' = core
    BY <1>1 DEF Written, FirstQueued, Rest
  <2>3. Ordered(device.buffer, played, skipped, Written)
    BY DEF Inv, ContentInv
  <2>4. /\ Ordered(Tail(device.buffer), played', skipped, Written)
        /\ Whole(device.buffer, played, skipped, graph.base, Written)
             => Whole(Tail(device.buffer), played', skipped, graph.base, Written)
        /\ NewIn(device.buffer, graph.base) = Heard(device.buffer)
             => NewIn(Tail(device.buffer), graph.base) = Heard(Tail(device.buffer))
    BY <1>1, <1>3, <2>1, <2>3, DeviceGives
  <2>5. QED
    BY <1>1, <1>4, <2>2, <2>4 DEF Inv, ContentInv
<1>12. QED
  BY <1>7, <1>8, <1>9, <1>10, <1>11 DEF Inv, Rest

LEMMA PlaySilenceKeeps ==
  ASSUME Inv, PlaySilence, Rest
  PROVE  Inv'
<1> DEFINE n == IF Recovered > 0 THEN Recovered ELSE Space
<1>1. /\ ao \in AoState /\ device \in DeviceState
      /\ setup.untimed \in BOOLEAN /\ setup.stream_silence \in BOOLEAN
  BY SetupFields DEF Inv, TypeOK
<1>2. /\ ao.pc = "play" /\ ~Inactive /\ ~Underrun /\ Space > 0
      /\ Write(Silence(n))
      /\ Leave([ao EXCEPT !.recover_pause = FALSE, !.streaming = TRUE], n < Space)
      /\ UNCHANGED <<queue, graph, core, skipped, setup, cached, commands>>
  BY DEF PlaySilence, Rest
<1>3. n \in 1 .. Space
  <2>1. Recovered \in 0 .. Space
    <3>1. ao.prepause \in Nat
      BY <1>1, LengthIsNat DEF AoState
    <3>2. QED
      BY <3>1, Numbers DEF Recovered, Least
  <2>2. QED
    BY <2>1, <1>2, Numbers, SMTT(30)
<1> DEFINE sil == Silence(n)
<1>4. /\ sil \in Seq(Frame) /\ Len(sil) = n /\ sil # <<>> /\ sil[n] = Eof
      /\ device.buffer \o sil \in Seq(Frame) /\ Len(device.buffer \o sil) = Len(device.buffer) + n
      /\ Heard(device.buffer \o sil) = Heard(device.buffer)
      /\ InOrder(device.buffer) => InOrder(device.buffer \o sil)
  <2>1. n \in Nat /\ n \in 1 .. n /\ n # 0
    <3>1. n \in Nat \ {0}
      BY <1>3, Numbers, SMTT(30)
    <3> HIDE DEF n
    <3>2. QED
      BY SMT, <3>1
  <2>2. sil \in Seq(Frame) /\ Len(sil) = n /\ sil[n] = Eof
    <3> HIDE DEF n
    <3>1. QED
      BY <2>1, SilenceIsSilent
  <2>3. sil # <<>>
    BY <2>1, <2>2
  <2>4. QED
    BY <2>1, <2>2, <2>3, DeviceTakesSilence, Numbers
<1> HIDE DEF sil
<1>5. /\ ao' \in AoState /\ ao'.playing = ao.playing /\ ao'.streaming /\ ao'.paused = ao.paused
      /\ ao'.hw_paused = ao.hw_paused /\ ~ao'.recover_pause
      /\ ao'.pc = "check" /\ ao'.retry = (n < Space) /\ ao'.terminate = ao.terminate
      /\ ao'.timed = (~(n < Space) /\ (~ao.paused \/ setup.stream_silence))
  <2> HIDE DEF n
  <2>1. (n < Space) \in BOOLEAN
    OBVIOUS
  <2> DEFINE retry == n < Space
  <2>2. ao' = [[ao EXCEPT !.recover_pause = FALSE, !.streaming = TRUE] EXCEPT
                 !.pc = "check", !.retry = retry,
                 !.timed = TRUE /\ ~retry /\ (~ao.paused \/ setup.stream_silence)]
    BY <1>1, <1>2 DEF Leave, AoState
  <2>3. retry \in BOOLEAN
    BY <2>1
  <2> HIDE DEF retry
  <2>4. ao' \in AoState
    BY ZenonT(30), <1>1, <2>2, <2>3 DEF AoState
  <2>5. /\ ao'.playing = ao.playing /\ ao'.streaming /\ ao'.paused = ao.paused
        /\ ao'.hw_paused = ao.hw_paused /\ ~ao'.recover_pause
        /\ ao'.pc = "check" /\ ao'.retry = retry /\ ao'.terminate = ao.terminate
        /\ ao'.timed = (~retry /\ (~ao.paused \/ setup.stream_silence))
    BY <1>1, <2>2, <2>3 DEF AoState
  <2>6. QED
    BY <2>4, <2>5 DEF retry
<1>6. played' = played
  BY <1>2, <1>4 DEF Write, sil
<1>7. CASE setup.untimed
  <2>1. device' = [device EXCEPT !.playing = TRUE]
    BY <1>2, <1>4, <1>7 DEF Write, sil
  <2>2. device' \in DeviceState /\ device'.buffer = device.buffer /\ device'.paused = device.paused
    BY <1>1, <2>1 DEF DeviceState
  <2>3. DeviceBooks' /\ Pausing'
    BY <1>2, <1>5, <1>7, <2>2 DEF Inv, DeviceBooks, Pausing, Inactive
  <2>4. SleepInv'
    BY <1>2, <1>5 DEF Inv, SleepInv, GoesToSleep, Inactive
  <2>5. StreamSame /\ Moves(core') /\ queue' \in QueueState /\ graph' \in GraphState
    BY <1>2, CoreIsMoved DEF StreamSame, Moves, Inv, TypeOK
  <2>6. QED
    BY <1>2, <1>5, <1>6, <2>2, <2>3, <2>4, <2>5, NoFrameMoves
<1>8. CASE ~setup.untimed
  <2>1. device' = [device EXCEPT !.buffer = @ \o sil, !.playing = @ \/ ~ao.streaming]
    BY <1>2, <1>4, <1>8 DEF Write, sil
  <2>2. /\ device'.buffer = device.buffer \o sil /\ device'.paused = device.paused
        /\ device'.playing
    BY <1>1, <1>2, <1>8, <2>1 DEF DeviceState, Underrun, DeviceRuns
  <2>3. device' \in DeviceState
    <3> DEFINE b == device.buffer \o sil
    <3>1. device' = [device EXCEPT !.buffer = b, !.playing = @ \/ ~ao.streaming] /\ b \in Seq(Frame)
      BY <1>4, <2>1
    <3> HIDE DEF b
    <3>2. QED
      BY <1>1, <3>1 DEF DeviceState
  <2>4. device'.buffer # <<>>
    <3>1. Len(device'.buffer) = Len(device.buffer) + n /\ Len(device.buffer) \in Nat /\ n \in Nat \ {0}
      <4>1. Space \in Nat /\ Len(device.buffer) \in Nat
        BY Numbers
      <4>2. n \in Nat \ {0}
        <5> HIDE DEF n
        <5>1. QED
          BY <4>1, <1>3
      <4>3. QED
        BY <1>4, <2>2, <4>1, <4>2
    <3>2. Len(device'.buffer) # 0
      <4> HIDE DEF n
      <4>1. QED
        BY <3>1
    <3>3. QED
      BY <3>2
  <2>5. TypeOK'
    <3>1. Len(device'.buffer) <= DeviceSize
      <4> DEFINE l == Len(device.buffer)
      <4>1. l \in Nat /\ Space = DeviceSize - l /\ Len(device'.buffer) = l + n
        BY <1>4, <2>2, Numbers DEF Space
      <4>2. Space \in Nat
        BY Numbers
      <4> HIDE DEF n, l
      <4>3. QED
        BY <1>3, <4>1, <4>2, LengthIsNat
    <3>2. QED
      BY <1>2, <1>5, <1>6, <2>3, <3>1 DEF Inv, TypeOK
  <2>6. DeviceBooks' /\ Pausing'
    BY <1>2, <1>5, <1>8, <2>2, <2>4 DEF Inv, DeviceBooks, Pausing, Inactive
  <2>7. SleepInv' /\ StreamInv' /\ SeekInv'
    BY <1>2, <1>5 DEF Inv, SleepInv, GoesToSleep, Inactive, StreamInv, SeekInv
  <2>8. ContentInv'
    <3>1. Written' = Written
      BY <1>2 DEF Written, FirstQueued
    <3>2. Heard(device'.buffer) = Heard(device.buffer)
      BY <1>4, <2>2
    <3>3. InOrder(device.buffer) => InOrder(device'.buffer)
      BY <1>4, <2>2
    <3>4. QED
      BY <1>2, <1>6, <3>1, <3>2, <3>3 DEF Inv, ContentInv, Ordered, Whole, NewIn
  <2>9. QED
    BY <1>2, <2>5, <2>6, <2>7, <2>8 DEF Inv
<1>9. QED
  BY <1>1, <1>7, <1>8

LEMMA CountDrops ==
  ASSUME NEW s \in Seq(Frame), NEW n \in 0 .. Len(s), NEW base \in Nat, NEW k \in Nat \ {0},
         Numbered(s, base, k), k + Len(s) <= Length + 2
  PROVE  SampleCount(SubSeq(s, n + 1, Len(s))) <= SampleCount(s)
<1> DEFINE t == SubSeq(s, n + 1, Len(s))
           l == Len(s)
<1>1. l \in Nat /\ Length \in Nat /\ n \in 0 .. l /\ k + l <= Length + 2
  BY LengthIsNat
<1>2. t \in Seq(Frame) /\ Len(t) = l - n /\ Numbered(t, base, k + n)
  BY Sliced, NumberedSlice
<1>3. SampleCount(s) = IF l = 0 \/ k + l <= Length + 1 THEN l ELSE l - 1
  BY Counted
<1> HIDE DEF t, l
<1>4. k + n \in Nat \ {0} /\ (k + n) + Len(t) <= Length + 2
  BY <1>1, <1>2
<1>5. SampleCount(t) = IF Len(t) = 0 \/ k + n + Len(t) <= Length + 1 THEN Len(t) ELSE Len(t) - 1
  BY <1>2, <1>4, Counted
<1>6. k + n + Len(t) = k + l
  BY <1>1, <1>2
<1>7. SampleCount(t) <= SampleCount(s)
  BY <1>1, <1>2, <1>3, <1>5, <1>6
<1>8. QED
  BY <1>7 DEF t, l

\* What read_buffer() gets of numbered frames.
ReadsWell(s, base, k, room) ==
  LET full    == SampleCount(s) >= room
      taken   == IF full THEN room ELSE Len(s)
      got_eof == taken > 0 /\ s[taken] = Eof
      t       == SubSeq(s, 1, IF got_eof THEN taken - 1 ELSE taken)
  IN /\ taken \in 0 .. Len(s) /\ t \in Seq(Frame) /\ Len(t) \in 0 .. room
     /\ Numbered(t, base, k)
     /\ t # <<>> => k + Len(t) <= Length + 1
     /\ Upto(base, k + taken - 1) = Upto(base, k + Len(t) - 1)
     /\ full => Len(t) = room /\ ~got_eof
     /\ s = <<>> => taken = 0 /\ t = <<>> /\ ~full /\ ~got_eof
LEMMA ReadsSome ==
  ASSUME NEW s \in Seq(Frame), NEW base \in Nat, NEW k \in Nat \ {0}, Numbered(s, base, k),
         k + Len(s) <= Length + 2, NEW room \in Nat \ {0}
  PROVE  ReadsWell(s, base, k, room)
<1> DEFINE full    == SampleCount(s) >= room
           taken   == IF full THEN room ELSE Len(s)
           got_eof == taken > 0 /\ s[taken] = Eof
           t       == SubSeq(s, 1, IF got_eof THEN taken - 1 ELSE taken)
<1>15. /\ full = (SampleCount(s) >= room)
       /\ taken = IF full THEN room ELSE Len(s)
       /\ got_eof = (taken > 0 /\ s[taken] = Eof)
       /\ t = SubSeq(s, 1, IF got_eof THEN taken - 1 ELSE taken)
  OBVIOUS
<1> SUFFICES /\ taken \in 0 .. Len(s) /\ t \in Seq(Frame) /\ Len(t) \in 0 .. room
             /\ Numbered(t, base, k)
             /\ t # <<>> => k + Len(t) <= Length + 1
             /\ Upto(base, k + taken - 1) = Upto(base, k + Len(t) - 1)
             /\ full => Len(t) = room /\ ~got_eof
             /\ s = <<>> => taken = 0 /\ t = <<>> /\ ~full /\ ~got_eof
  BY DEF ReadsWell
<1> HIDE DEF full, taken, got_eof, t
<1> DEFINE l == Len(s)
           sc == SampleCount(s)
<1>1. l \in Nat /\ Length \in Nat /\ k + l <= Length + 2
  BY LengthIsNat
<1>2. /\ sc = IF l = 0 \/ k + l <= Length + 1 THEN l ELSE l - 1
      /\ \A i \in 1 .. l : s[i] # Eof <=> k + i - 1 <= Length
  BY Counted
<1> HIDE DEF sc, l
<1>3. /\ full \in BOOLEAN /\ sc \in 0 .. l
      /\ full => room <= sc
      /\ ~full => sc < room
  <2>1. sc \in 0 .. l
    BY <1>1, <1>2
  <2>2. full = (sc >= room)
    BY <1>15 DEF sc
  <2>3. \A x \in 0 .. l : x >= room \/ x < room
    BY <1>1
  <2>4. \A x \in 0 .. l : x >= room => room <= x
    BY <1>1
  <2>5. full \in BOOLEAN
    BY <2>1, <2>2
  <2>6. full => sc >= room
    BY <2>2
  <2>7. ~full => ~(sc >= room)
    BY <2>2
  <2>8. QED
    BY <2>1, <2>3, <2>4, <2>5, <2>6, <2>7
<1>4. /\ taken \in 0 .. l
      /\ full => taken = room
      /\ ~full => taken = l
  <2>1. full => room \in 0 .. l
    BY <1>1, <1>3
  <2>2. l \in 0 .. l
    BY <1>1
  <2>3. QED
    BY <2>1, <2>2, <1>3, <1>15 DEF l
<1>5. /\ got_eof \in BOOLEAN
      /\ got_eof => taken > 0 /\ k + taken - 1 > Length
      /\ ~got_eof /\ taken > 0 => k + taken - 1 <= Length
  <2>1. taken > 0 => taken \in 1 .. l
    BY <1>1, <1>4
  <2>2. taken > 0 => (s[taken] # Eof <=> k + taken - 1 <= Length)
    BY <1>2, <2>1
  <2>3. k + taken - 1 \in Int /\ taken \in Int
    BY <1>1, <1>4
  <2>4. ~(k + taken - 1 <= Length) => k + taken - 1 > Length
    BY <1>1, <2>3
  <2>5. QED
    BY <1>15, <2>2, <2>4
<1> DEFINE m == IF got_eof THEN taken - 1 ELSE taken
<1>6. m \in 0 .. l
  BY <1>1, <1>4, <1>5
<1>7. t = SubSeq(s, 1, m) /\ t \in Seq(Frame) /\ Len(t) = m /\ Numbered(t, base, k)
  <2> HIDE DEF m
  <2>1. m \in 0 .. Len(s)
    BY <1>6 DEF l
  <2>2. SubSeq(s, 1, m) \in Seq(Frame) /\ Len(SubSeq(s, 1, m)) = m /\ Numbered(SubSeq(s, 1, m), base, k)
    BY <2>1, Sliced, NumberedSlice
  <2>3. t = SubSeq(s, 1, m)
    BY <1>15 DEF m
  <2>4. QED
    BY <2>2, <2>3
<1>8. full => m = room /\ ~got_eof
  <2> SUFFICES ASSUME full PROVE ~got_eof
    BY <1>4
  <2>1. taken = room /\ room <= sc
    BY <1>1, <1>3, <1>4
  <2>2. k + taken - 1 <= Length
    BY <2>1, <1>1, <1>2
  <2>3. QED
    BY <2>2, <1>1, <1>4, <1>5
<1>9. m \in 0 .. room
  <2>1. CASE full
    BY <2>1, <1>8
  <2>2. CASE ~full
    <3>1. taken = l /\ sc < room
      BY <2>2, <1>1, <1>3, <1>4
    <3>2. CASE got_eof
      BY <3>1, <3>2, <1>1, <1>2, <1>5, <1>6
    <3>3. CASE ~got_eof
      BY <3>1, <3>3, <1>1, <1>2, <1>5, <1>6
    <3>4. QED
      BY <3>2, <3>3, <1>5
  <2>3. QED
    BY <2>1, <2>2, <1>3
<1>10. m # 0 => k + m <= Length + 1
  <2>1. CASE got_eof
    <3>1. k + l <= Length + 2 /\ m = taken - 1
      BY <2>1 DEF l
    <3>2. QED
      BY <3>1, <1>1, <1>4
  <2>2. CASE ~got_eof
    BY <2>2, <1>1, <1>4, <1>5
  <2>3. QED
    BY <2>1, <2>2, <1>5
<1>11. Upto(base, k + taken - 1) = Upto(base, k + m - 1)
  <2>1. CASE got_eof
    <3>1. k + taken - 1 > Length /\ k + m - 1 >= Length
      BY <2>1, <1>1, <1>4, <1>5
    <3>2. QED
      BY <3>1, <2>1, <1>1, <1>4 DEF Upto, Least
  <2>2. CASE ~got_eof
    BY <2>2
  <2>3. QED
    BY <2>1, <2>2, <1>5
<1>12. s = <<>> => taken = 0 /\ m = 0 /\ ~full /\ ~got_eof
  <2> SUFFICES ASSUME s = <<>> PROVE taken = 0 /\ m = 0 /\ ~full /\ ~got_eof
    OBVIOUS
  <2>1. l = 0
    BY DEF l
  <2>2. sc = 0 /\ taken = 0
    BY <2>1, <1>3, <1>4
  <2>3. QED
    BY <2>2, <1>3, <1>4, <1>5
<1>13. t = <<>> <=> m = 0
  <2> HIDE DEF m
  <2>1. QED
    BY <1>7, EmptySeq
<1> HIDE DEF m
<1>14. QED
  BY <1>4, <1>7, <1>8, <1>9, <1>10, <1>11, <1>12, <1>13 DEF l

LEMMA WokenMoves ==
  ASSUME NEW c \in CoreState, Moves(c)
  PROVE  /\ [c EXCEPT !.woken = TRUE] \in CoreState /\ Moves([c EXCEPT !.woken = TRUE])
         /\ [c EXCEPT !.woken = TRUE].waking = c.waking
<1> DEFINE d == [c EXCEPT !.woken = TRUE]
<1>1. d \in CoreState
  BY DEF CoreState
<1>2. d.seek = c.seek /\ d.cmd = c.cmd /\ d.pc = c.pc /\ d.waking = c.waking
  BY DEF CoreState
<1>3. QED
  BY <1>1, <1>2 DEF Moves

LEMMA CoreNotified ==
  ASSUME Inv, NEW F \in SUBSET Filters, NotifyCore(F)
  PROVE  /\ graph' \in GraphState
         /\ UNCHANGED <<graph.data, graph.in_data, graph.requested, graph.in_requested,
                        graph.decoded, graph.next, graph.base>>
<1>1. graph \in GraphState
  BY DEF Inv, TypeOK
<1>2. QED
  BY <1>1 DEF NotifyCore, GraphState

LEMMA PlayQueuedKeeps ==
  ASSUME Inv, PlayQueued, Rest
  PROVE  Inv'
<1> DEFINE R       == Readable
           full    == SampleCount(R) >= Space
           taken   == IF full THEN Space ELSE Len(R)
           got_eof == taken > 0 /\ R[taken] = Eof
           samples == SubSeq(R, 1, IF got_eof THEN taken - 1 ELSE taken)
           a       == [ao EXCEPT !.recover_pause = FALSE, !.streaming = @ \/ samples # <<>>]
           running == DeviceRuns \/ (samples # <<>> /\ ~ao.streaming)
           k       == FirstQueued
           again   == samples # <<>> /\ (Len(samples) < Space \/ setup.untimed)
           c       == IF taken > 0 /\ WakesCore THEN [core EXCEPT !.woken = TRUE] ELSE core
<1>1. /\ ao \in AoState /\ device \in DeviceState /\ queue \in QueueState
      /\ setup.untimed \in BOOLEAN /\ setup.stream_silence \in BOOLEAN
  BY SetupFields DEF Inv, TypeOK
<1>2. /\ ao.pc = "play" /\ ~Inactive /\ ~Underrun /\ Space > 0 /\ ao.playing /\ ~ao.paused
      /\ UNCHANGED <<skipped, setup, cached, commands>>
  BY DEF PlayQueued, Rest, Silent
<1>3. queue' = [frames |-> SubSeq(queue.frames, taken + 1, Len(queue.frames)),
                requested |-> ~full, async_pending |-> FALSE, wakeup_sent |-> FALSE]
  BY DEF PlayQueued
<1>4. Write(samples)
  BY DEF PlayQueued
<1>5. IF got_eof THEN EndAudio(a, running) ELSE Leave(a, again)
  BY DEF PlayQueued
<1>6. core' = IF got_eof THEN TellEnd(c) ELSE c
  BY DEF PlayQueued
<1>7. IF taken > 0 THEN NotifyCore({"in"}) ELSE UNCHANGED graph
  BY DEF PlayQueued
<1>8. R = <<>> \/ R = queue.frames
  BY DEF Readable
<1>9. R = queue.frames \/ queue.frames = <<>>
  BY DEF Readable, Inv, SleepInv
<1>10. R \in Seq(Frame) /\ Numbered(R, graph.base, k) /\ (k + Len(R) <= Length + 2)
       /\ Space \in Nat \ {0} /\ k \in Nat \ {0} /\ graph.base \in Nat
  <2>1. Space \in Nat \ {0} /\ k \in Nat \ {0} /\ graph.base \in Nat
    BY <1>2, Numbers
  <2>2. CASE R = <<>>
    <3>1. k <= Length + 2
      <4>1. k + Len(queue.frames) + Len(graph.in_data) + Len(graph.data) = graph.next
        BY Numbers
      <4>2. /\ Len(queue.frames) \in Nat /\ Len(graph.in_data) \in Nat /\ Len(graph.data) \in Nat
            /\ graph.next \in 1 .. Length + 2
        BY FlowNumbers
      <4>3. \A x, y, z, u \in Nat, n \in 1 .. Length + 2 :
              x + y + z + u = n => x <= Length + 2 /\ (x + y <= Length + 2)
        BY LengthIsNat
      <4> HIDE DEF k
      <4>4. QED
        BY <2>1, <4>1, <4>2, <4>3
    <3>2. Len(R) = 0 /\ R \in Seq(Frame) /\ Numbered(R, graph.base, k)
      BY <2>2 DEF Numbered
    <3>3. QED
      BY <2>1, <3>1, <3>2
  <2>3. CASE R = queue.frames
    <3>1. k + Len(queue.frames) <= Length + 2
      <4>1. k + Len(queue.frames) + Len(graph.in_data) + Len(graph.data) = graph.next
        BY Numbers
      <4>2. /\ Len(queue.frames) \in Nat /\ Len(graph.in_data) \in Nat /\ Len(graph.data) \in Nat
            /\ graph.next \in 1 .. Length + 2
        BY FlowNumbers
      <4>3. \A x, y, z, u \in Nat, n \in 1 .. Length + 2 :
              x + y + z + u = n => x <= Length + 2 /\ (x + y <= Length + 2)
        BY LengthIsNat
      <4> HIDE DEF k
      <4>4. QED
        BY <2>1, <4>1, <4>2, <4>3
    <3>2. Numbered(queue.frames, graph.base, k)
      BY DEF Inv, StreamInv, Flows, FirstQueued
    <3>3. QED
      BY <2>1, <2>3, <3>1, <3>2, Numbers
  <2>4. QED
    BY <1>8, <2>2, <2>3
<1>11. /\ taken \in 0 .. Len(R) /\ samples \in Seq(Frame) /\ Len(samples) \in 0 .. Space
       /\ Numbered(samples, graph.base, k)
       /\ samples # <<>> => k + Len(samples) <= Length + 1
       /\ Upto(graph.base, k + taken - 1) = Upto(graph.base, k + Len(samples) - 1)
       /\ full => Len(samples) = Space /\ ~got_eof
       /\ R = <<>> => taken = 0 /\ samples = <<>> /\ ~full /\ ~got_eof
  <2> HIDE DEF R, k
  <2>1. ReadsWell(R, graph.base, k, Space)
    BY <1>10, ReadsSome
  <2>2. QED
    BY <2>1 DEF ReadsWell
<1>12. taken \in 0 .. Len(queue.frames) /\ taken \in Nat
  BY <1>8, <1>11, FlowNumbers, SMTT(30)
<1>13. ~full => SubSeq(queue.frames, taken + 1, Len(queue.frames)) = <<>>
  <2> SUFFICES ASSUME ~full PROVE SubSeq(queue.frames, taken + 1, Len(queue.frames)) = <<>>
    OBVIOUS
  <2>1. taken = Len(queue.frames)
    BY <1>8, <1>9
  <2>2. QED
    <3> HIDE DEF taken
    <3>1. Len(queue.frames) \in Int /\ Len(queue.frames) < taken + 1 /\ taken + 1 \in Int
      BY <2>1, <1>12
    <3>2. QED
      BY <3>1, SubSeqEmpty
<1> HIDE DEF R
<1>14. full \in BOOLEAN /\ got_eof \in BOOLEAN /\ again \in BOOLEAN
  BY <1>1 DEF full, got_eof, again
<1> HIDE DEF full
<1> HIDE DEF taken
<1> HIDE DEF got_eof
<1> HIDE DEF samples
<1> HIDE DEF k
<1> HIDE DEF again
<1> DEFINE frames == SubSeq(queue.frames, taken + 1, Len(queue.frames))
<1>15. /\ frames \in Seq(Frame)
       /\ Flows(frames, graph.in_data, graph.data, graph.next, graph.base)
       /\ Start(frames, graph.in_data, graph.data, graph.next) = k + taken
       /\ SampleCount(frames) <= QueueSize
  <2>1. /\ queue.frames \in Seq(Frame) /\ graph.in_data \in Seq(Frame) /\ graph.data \in Seq(Frame)
        /\ graph.next \in Nat
        /\ Flows(queue.frames, graph.in_data, graph.data, graph.next, graph.base)
    BY FlowNumbers DEF Inv, StreamInv
  <2>2. /\ frames \in Seq(Frame)
        /\ Flows(frames, graph.in_data, graph.data, graph.next, graph.base)
        /\ Start(frames, graph.in_data, graph.data, graph.next) = k + taken
    <3>1. frames \in Seq(Frame)
      BY <2>1, <1>12, Sliced
    <3>2. graph.base \in Nat
      BY <1>10
    <3>3. /\ Flows(frames, graph.in_data, graph.data, graph.next, graph.base)
          /\ Start(frames, graph.in_data, graph.data, graph.next)
               = Start(queue.frames, graph.in_data, graph.data, graph.next) + taken
      BY <2>1, <3>2, <1>12, FlowTakes, SMTT(40)
    <3>4. QED
      BY <3>1, <3>3 DEF FirstQueued, k
  <2>3. SampleCount(frames) <= QueueSize
    <3>1. /\ k + Len(queue.frames) <= Length + 2
          /\ Numbered(queue.frames, graph.base, k)
      <4>1. R = <<>> => taken = 0
        BY <1>11
      <4>2. \A x, y, z, u \in Nat, n \in 1 .. Length + 2 : x + y + z + u = n => (x + y <= Length + 2)
        BY LengthIsNat
      <4>3. k + Len(queue.frames) <= Length + 2
        <5>1. k + Len(queue.frames) + Len(graph.in_data) + Len(graph.data) = graph.next
          BY Numbers DEF k
        <5>2. /\ Len(queue.frames) \in Nat /\ Len(graph.in_data) \in Nat /\ Len(graph.data) \in Nat
              /\ graph.next \in 1 .. Length + 2 /\ k \in Nat
          <6>1. k \in Nat
            BY Numbers DEF k
          <6>2. /\ Len(queue.frames) \in Nat /\ Len(graph.in_data) \in Nat
                /\ Len(graph.data) \in Nat /\ graph.next \in 1 .. Length + 2
            BY FlowNumbers
          <6>3. QED
            BY <6>1, <6>2
        <5>3. QED
          BY <4>2, <5>1, <5>2
      <4>4. QED
        BY <4>3 DEF Inv, StreamInv, Flows, FirstQueued, k
    <3>2. SampleCount(frames) <= SampleCount(queue.frames)
      BY <3>1, <2>1, <1>10, <1>12, CountDrops
    <3>3. SampleCount(queue.frames) <= QueueSize /\ SampleCount(queue.frames) \in Nat
      <4>1. SampleCount(queue.frames) <= QueueSize
        BY DEF Inv, TypeOK
      <4>2. SampleCount(queue.frames) = IF Len(queue.frames) = 0 \/ k + Len(queue.frames) <= Length + 1
                                          THEN Len(queue.frames) ELSE Len(queue.frames) - 1
        BY <3>1, <2>1, <1>10, Counted
      <4>3. QED
        BY <4>1, <4>2, Numbers
    <3>4. SampleCount(frames) \in Int
      <4>1. frames \in Seq(Frame) /\ IsFiniteSet(DOMAIN frames)
        BY <2>2, FS_Interval, LenProperties
      <4>2. {i \in DOMAIN frames : frames[i] # Eof} \in SUBSET DOMAIN frames
        OBVIOUS
      <4>3. QED
        BY <4>1, <4>2, FS_Subset, FS_CardinalityType DEF SampleCount
    <3>5. QED
      BY <3>2, <3>3, <3>4, LengthIsNat
  <2>4. QED
    BY <2>2, <2>3
<1> HIDE DEF frames
<1>16. /\ queue' \in QueueState /\ queue'.frames = frames /\ queue'.requested = ~full
       /\ ~queue'.async_pending /\ ~queue'.wakeup_sent
  BY <1>3, <1>14, <1>15 DEF QueueState, frames
<1>17. /\ graph' \in GraphState
       /\ UNCHANGED <<graph.data, graph.in_data, graph.requested, graph.in_requested,
                      graph.decoded, graph.next, graph.base>>
  <2>1. CASE taken > 0
    <3>1. {"in"} \in SUBSET Filters /\ NotifyCore({"in"})
      BY <1>7, <2>1 DEF Filters
    <3>2. QED
      BY <3>1, CoreNotified
  <2>2. CASE ~(taken > 0)
    BY <1>7, <2>2 DEF Inv, TypeOK
  <2>3. QED
    BY <2>1, <2>2
<1>18. Moves(core') /\ core'.waking = core.waking
  <2>1. c \in CoreState /\ Moves(c) /\ c.waking = core.waking
    BY CoreIsMoved, WokenMoves
  <2>2. QED
    BY <1>6, <2>1, TellEndMoves DEF Moves
<1>19. FirstQueued' = k + taken /\ Written' = Upto(graph.base, k + Len(samples) - 1)
  <2>1. FirstQueued' = k + taken
    BY <1>15, <1>16, <1>17 DEF FirstQueued
  <2>2. Written' = Upto(graph'.base, FirstQueued' - 1)
    BY DEF Written
  <2>3. Written' = Upto(graph.base, k + taken - 1)
    <3>1. graph'.base = graph.base
      BY <1>17
    <3>2. FirstQueued' - 1 = k + taken - 1
      <4>1. k \in Nat /\ taken \in Nat
        BY <1>10, <1>12
      <4>2. \A x, y, z \in Int : z = x + y => z - 1 = x + y - 1
        OBVIOUS
      <4>3. FirstQueued' \in Int
        BY <2>1, <4>1
      <4>4. QED
        BY <2>1, <4>1, <4>2, <4>3
    <3>3. QED
      BY <2>2, <3>1, <3>2
  <2>4. QED
    BY <2>1, <2>3, <1>11
<1>20. StreamInv'
  BY <1>15, <1>16, <1>17 DEF Inv, StreamInv
<1>21. SeekInv'
  <2>1. core'.pc # "reset"
    BY <1>2, <1>18 DEF Inv, SeekInv, Moves
  <2>2. commands.seek \in Nat
    BY LengthIsNat DEF Inv, TypeOK
  <2>3. QED
    BY <1>2, <1>17, <1>18, <2>1, <2>2, SeekKept DEF Inv, Moves
\* What becomes of ao.
<1>22. /\ a \in AoState /\ running \in BOOLEAN
       /\ a.playing = ao.playing /\ a.paused = ao.paused /\ a.hw_paused = ao.hw_paused
       /\ ~a.recover_pause /\ a.terminate = ao.terminate
       /\ a.streaming = (ao.streaming \/ samples # <<>>)
  BY <1>1 DEF AoState, DeviceRuns, DeviceState
<1> HIDE DEF a, running
<1>23. /\ ao' \in AoState /\ ao'.paused = ao.paused /\ ao'.hw_paused = ao.hw_paused
       /\ ~ao'.recover_pause /\ ao'.terminate = ao.terminate /\ ao'.pc = "check"
       /\ got_eof => /\ ao'.retry
                     /\ EndsOn(running) => /\ ~ao'.playing
                                           /\ ao'.streaming = (running /\ ~setup.untimed)
                     /\ ~EndsOn(running) => /\ ao'.playing
                                            /\ ao'.streaming = (ao.streaming \/ samples # <<>>)
       /\ ~got_eof => /\ ao'.retry = again /\ ao'.playing
                      /\ ao'.streaming = (ao.streaming \/ samples # <<>>)
                      /\ ao'.timed = ((ao.streaming \/ samples # <<>>) /\ ~again)
  <2>1. CASE got_eof
    <3>1. EndAudio(a, running)
      BY <2>1, <1>5
    <3> DEFINE b == IF EndsOn(running)
                      THEN [a EXCEPT !.streaming = running /\ ~setup.untimed, !.playing = FALSE]
                      ELSE a
    <3>2. b \in AoState
      <4> DEFINE d == running /\ ~setup.untimed
      <4>1. d \in BOOLEAN
        BY <1>1, <1>22
      <4> HIDE DEF d
      <4>2. [a EXCEPT !.streaming = d, !.playing = FALSE] \in AoState
        BY <4>1, <1>22 DEF AoState
      <4>3. b = a \/ b = [a EXCEPT !.streaming = d, !.playing = FALSE]
        BY DEF d
      <4>4. QED
        BY <4>2, <4>3, <1>22
    <3>3. /\ b.paused = ao.paused /\ b.hw_paused = ao.hw_paused
          /\ ~b.recover_pause /\ b.terminate = ao.terminate
          /\ EndsOn(running) => ~b.playing /\ b.streaming = (running /\ ~setup.untimed)
          /\ ~EndsOn(running) => b.playing /\ b.streaming = (ao.streaming \/ samples # <<>>)
      BY <1>2, <1>22 DEF AoState
    <3>4. Leave(b, TRUE)
      BY <3>1 DEF EndAudio
    <3> HIDE DEF b
    <3>5. /\ ao' \in AoState /\ ao'.paused = b.paused /\ ao'.hw_paused = b.hw_paused
          /\ ao'.recover_pause = b.recover_pause /\ ao'.terminate = b.terminate
          /\ ao'.pc = "check" /\ ao'.retry
          /\ ao'.playing = b.playing /\ ao'.streaming = b.streaming
      BY ZenonT(30), <1>1, <3>2, <3>4 DEF Leave, AoState
    <3>6. QED
      BY <2>1, <3>3, <3>5
  <2>2. CASE ~got_eof
    <3>1. Leave(a, again)
      BY <2>2, <1>5
    <3>2. QED
      BY ZenonT(30), <1>1, <1>2, <1>14, <1>22, <2>2, <3>1 DEF Leave, AoState
  <2>3. QED
    BY <2>1, <2>2, <1>14
<1>24. SleepInv'
  <2>1. queue.requested' /\ ~queue.async_pending' => queue.frames' = <<>>
    BY <1>13, <1>16 DEF frames
  <2>2. ASSUME ~got_eof, ~again, ~ao'.timed
        PROVE  NothingToDo'
    <3>1. ~ao.streaming /\ samples = <<>>
      BY <2>2, <1>23
    <3>2. ~full
      <4>1. Space # 0 /\ Len(<<>>) = 0
        BY <1>10
      <4>2. QED
        BY <3>1, <4>1, <1>11
    <3>3. QED
      BY <2>2, <3>1, <3>2, <1>13, <1>16, <1>23 DEF NothingToDo, frames
  <2>3. QED
    BY <1>14, <1>23, <2>1, <2>2 DEF SleepInv, GoesToSleep
<1>25. Ordered(device.buffer, played, skipped, Upto(graph.base, k - 1))
  BY DEF Inv, ContentInv, Written, k
<1>26. core'.pc \notin Emptied =>
         /\ Whole(device.buffer, played, skipped, graph.base, Upto(graph.base, k - 1))
         /\ setup.stream_silence \/ NewIn(device.buffer, graph.base) = Heard(device.buffer)
  BY <1>18 DEF Inv, ContentInv, Written, k, Moves
<1>27. ~ao.hw_paused /\ ~device.paused /\ device.paused = ao.hw_paused
  BY <1>2 DEF Inv, Pausing, Inactive
<1>28. ASSUME device' \in DeviceState, Len(device'.buffer) <= DeviceSize, played' \in Frame
       PROVE  TypeOK'
  <2>1. core' \in CoreState /\ SampleCount(queue'.frames) <= QueueSize
    BY <1>15, <1>16, <1>18 DEF Moves
  <2>2. QED
    BY <1>2, <1>16, <1>17, <1>23, <1>28, <2>1 DEF Inv, TypeOK
<1>29. CASE samples = <<>>
  <2>1. UNCHANGED <<device, played>>
    BY <1>4, <1>29 DEF Write
  <2>2. TypeOK'
    BY <1>28, <2>1 DEF Inv, TypeOK
  <2>3. DeviceBooks'
    <3>1. running = DeviceRuns
      BY <1>1, <1>29 DEF DeviceRuns, DeviceState, running
    <3>2. QED
      BY <1>2, <1>14, <1>23, <1>29, <2>1, <3>1 DEF Inv, DeviceBooks, EndsOn, DeviceRuns
  <2>4. Pausing'
    BY <1>2, <1>23, <1>27, <2>1 DEF Inv, Pausing
  <2>5. ContentInv'
    <3>1. k + Len(samples) - 1 = k - 1
      <4>1. Len(samples) = 0
        BY <1>29
      <4>2. QED
        BY <4>1, <1>10
    <3>2. Written' = Upto(graph.base, k - 1)
      BY <1>19, <3>1
    <3>3. QED
      BY <1>2, <1>17, <1>25, <1>26, <2>1, <3>2 DEF ContentInv
  <2>6. QED
    BY <1>2, <1>20, <1>21, <1>24, <2>2, <2>3, <2>4, <2>5 DEF Inv
<1>30. CASE samples # <<>> /\ setup.untimed
  <2>1. device' = [device EXCEPT !.playing = TRUE]
    BY <1>4, <1>30 DEF Write
  <2>2. device.buffer = <<>>
    BY <1>30 DEF Inv, DeviceBooks
  <2>3. device' \in DeviceState /\ device'.buffer = <<>> /\ device'.paused = device.paused
    BY <1>1, <2>1, <2>2 DEF DeviceState
  <2>4. /\ samples[Len(samples)] # Eof /\ samples[Len(samples)] \in Frame
        /\ Ordered(<<>>, samples[Len(samples)], skipped, Upto(graph.base, k + Len(samples) - 1))
        /\ Whole(<<>>, samples[Len(samples)], skipped, graph.base, Upto(graph.base, k + Len(samples) - 1))
    <3>1. played \in Nat /\ skipped \in Nat /\ k \in Nat \ {0} /\ graph.base \in Nat
      BY <1>10, Numbers
    <3>2. QED
      BY <1>11, <1>25, <1>30, <2>2, <3>1, DevicePlaysAtOnce
  <2>5. played' = samples[Len(samples)]
    BY <1>4, <1>30, <2>4 DEF Write
  <2>6. TypeOK'
    BY <1>28, <2>3, <2>4, <2>5, LengthIsNat
  <2>7. DeviceBooks' /\ Pausing'
    <3>1. DeviceBooks'
      BY <1>2, <1>30, <2>3 DEF DeviceBooks
    <3>2. Pausing'
      BY <1>2, <1>23, <1>27, <2>3 DEF Pausing
    <3>3. QED
      BY <3>1, <3>2
  <2>8. ContentInv'
    BY <1>2, <1>17, <1>19, <2>3, <2>4, <2>5, NothingLeft DEF ContentInv
  <2>9. QED
    BY <1>2, <1>20, <1>21, <1>24, <2>6, <2>7, <2>8 DEF Inv
<1>31. CASE samples # <<>> /\ ~setup.untimed
  <2> DEFINE buffer == device.buffer \o samples
  <2>1. device' = [device EXCEPT !.buffer = buffer, !.playing = @ \/ ~ao.streaming] /\ played' = played
    BY <1>4, <1>31 DEF Write
  <2>2. device.buffer \in Seq(Frame) /\ Len(device.buffer) \in Nat
    BY Numbers
  <2>3. buffer \in Seq(Frame) /\ Len(buffer) = Len(device.buffer) + Len(samples)
    BY <1>11, <2>2, Appended
  <2>4. buffer # <<>>
    <3>1. Len(samples) # 0 /\ Len(samples) \in Nat
      BY <1>10, <1>11, <1>31, EmptySeq
    <3>2. QED
      BY <2>2, <2>3, <3>1
  <2>5. Len(buffer) <= DeviceSize
    <3>1. Space = DeviceSize - Len(device.buffer) /\ Space \in Nat /\ DeviceSize \in Nat
      BY LengthIsNat, Numbers DEF Space
    <3>2. \A x, y, z, d \in Nat : z = d - x /\ y \in 0 .. z => (x + y <= d)
      OBVIOUS
    <3>3. Len(samples) \in Nat
      BY <1>11, <3>1
    <3>4. QED
      BY <1>11, <2>2, <2>3, <3>1, <3>2, <3>3
  <2> HIDE DEF buffer
  <2>6. /\ device' \in DeviceState /\ device'.buffer = buffer /\ device'.paused = device.paused
        /\ device'.playing = (device.playing \/ ~ao.streaming)
    BY <1>1, <2>1, <2>3 DEF DeviceState
  <2>7. device'.playing
    BY <1>1, <1>2, <1>31, <2>6 DEF Underrun, DeviceRuns
  <2>8. TypeOK'
    BY <1>28, <2>1, <2>5, <2>6 DEF Inv, TypeOK
  <2>9. running
    BY <1>1, <1>2, <1>31 DEF Underrun, DeviceRuns, running
  <2>10. DeviceBooks' /\ Pausing'
    <3>1. ao'.streaming
      BY <1>14, <1>23, <1>31, <2>9
    <3>2. ~ao'.playing => setup.stream_silence
      BY <1>14, <1>23, <1>31, <2>9 DEF EndsOn
    <3>3. DeviceBooks'
      BY <1>2, <1>31, <2>4, <2>6, <2>7, <3>1, <3>2 DEF DeviceBooks
    <3>4. Pausing'
      BY <1>2, <1>23, <1>27, <2>6 DEF Pausing
    <3>5. QED
      BY <3>3, <3>4
  <2>11. ContentInv'
    <3>1. played \in Nat /\ skipped \in Nat /\ k \in Nat \ {0} /\ graph.base \in Nat
      BY <1>10, Numbers
    <3>4. k + Len(samples) <= Length + 1
      BY <1>11, <1>31
    <3>5. samples \in Seq(Frame) /\ Numbered(samples, graph.base, k)
      BY <1>11
    <3>6. Ordered(device.buffer, played, skipped, Upto(graph.base, k - 1))
      BY <1>25
    <3>2. /\ Ordered(buffer, played, skipped, Upto(graph.base, k + Len(samples) - 1))
          /\ Whole(device.buffer, played, skipped, graph.base, Upto(graph.base, k - 1))
               => Whole(buffer, played, skipped, graph.base, Upto(graph.base, k + Len(samples) - 1))
          /\ NewIn(device.buffer, graph.base) = Heard(device.buffer)
               => NewIn(buffer, graph.base) = Heard(buffer)
      BY <2>2, <3>1, <3>4, <3>5, <3>6, DeviceTakes DEF buffer
    <3>3. QED
      BY <1>2, <1>17, <1>19, <1>26, <2>1, <2>6, <3>2 DEF ContentInv
  <2>12. QED
    BY <1>2, <1>20, <1>21, <1>24, <2>8, <2>10, <2>11 DEF Inv
<1>32. QED
  BY <1>1, <1>29, <1>30, <1>31
-------------------------------------------------------------------------------
(* What the core calls. *)
LEMMA Woken ==
  ASSUME NEW a \in AoState
  PROVE  /\ WakePlaythread(a) \in AoState /\ WakePlaythread(a).need_wakeup
         /\ WakePlaythread(a).pc # "sleep" /\ (WakePlaythread(a).pc = "check" => a.pc = "check")
         /\ WakePlaythread(a).playing = a.playing /\ WakePlaythread(a).streaming = a.streaming
         /\ WakePlaythread(a).paused = a.paused /\ WakePlaythread(a).hw_paused = a.hw_paused
         /\ WakePlaythread(a).recover_pause = a.recover_pause
         /\ WakePlaythread(a).terminate = a.terminate
  BY DEF WakePlaythread, AoState

LEMMA WakeupKeeps ==
  ASSUME Inv, Wakeup, Rest
  PROVE  Inv'
<1>1. ao \in AoState /\ core \in CoreState /\ UNCHANGED <<queue, device, graph, played, skipped, setup>>
  BY DEF Inv, TypeOK, Wakeup, Rest
<1>2. ao' = WakePlaythread(ao)
  BY DEF Wakeup
<1>3. DeviceBooks' /\ Pausing'
  BY <1>1, <1>2, Woken DEF Inv, DeviceBooks, Pausing
<1>4. SleepInv'
  BY <1>1, <1>2, Woken DEF Inv, SleepInv, GoesToSleep
<1>5. Moves(core')
  <2>1. core' = [core EXCEPT !.waking = FALSE]
    BY DEF Wakeup
  <2>2. core' \in CoreState /\ core'.seek = core.seek /\ core'.cmd = core.cmd /\ core'.pc = core.pc
    BY <1>1, <2>1 DEF CoreState
  <2>3. QED
    BY <2>2 DEF Moves
<1>6. StreamSame /\ queue' \in QueueState /\ device' \in DeviceState /\ graph' \in GraphState
  BY <1>1 DEF StreamSame, Inv, TypeOK
<1>7. QED
  BY <1>1, <1>2, <1>3, <1>4, <1>5, <1>6, Woken, NoFrameMoves

LEMMA AoStartKeeps ==
  ASSUME Inv, Rest, NEW c, Moves(c), c.pc # "reset", AoStart(c)
  PROVE  Inv'
<1>1. /\ ao \in AoState /\ c \in CoreState /\ UNCHANGED <<queue, device, graph, played, skipped, setup>>
      /\ ao' = [ao EXCEPT !.playing = TRUE] /\ core' = [c EXCEPT !.waking = TRUE]
  BY DEF Inv, TypeOK, AoStart, Rest, Moves
<1>2. /\ ao' \in AoState /\ ao'.playing /\ ao'.streaming = ao.streaming /\ ao'.paused = ao.paused
      /\ ao'.hw_paused = ao.hw_paused /\ ao'.recover_pause = ao.recover_pause
      /\ ao'.pc = ao.pc /\ ao'.terminate = ao.terminate
  BY <1>1 DEF AoState
<1>3. DeviceBooks' /\ Pausing'
  BY <1>1, <1>2 DEF Inv, DeviceBooks, Pausing
<1>4. /\ core' \in CoreState /\ core'.waking
      /\ core'.seek = c.seek /\ core'.cmd = c.cmd /\ core'.pc = c.pc
  BY <1>1 DEF CoreState
<1>5. SleepInv'
  BY <1>1, <1>2, <1>4 DEF Inv, SleepInv
<1>6. Moves(core') /\ core'.pc # "reset"
  BY <1>4 DEF Moves
<1>7. StreamSame /\ queue' \in QueueState /\ device' \in DeviceState /\ graph' \in GraphState
  BY <1>1 DEF StreamSame, Inv, TypeOK
<1>8. QED
  BY <1>1, <1>2, <1>3, <1>5, <1>6, <1>7, NoFrameMoves

LEMMA StoppedIsDevice == Stopped \in DeviceState /\ Stopped.buffer = <<>> /\ ~Stopped.playing /\ ~Stopped.paused /\ Stopped.paused = FALSE
  BY DEF Stopped, DeviceState

LEMMA QueueIsReset ==
  ASSUME NEW q \in QueueState
  PROVE  /\ ResetQueue(q) \in QueueState /\ ResetQueue(q).frames = <<>>
         /\ ~ResetQueue(q).requested
<1>1. <<>> \in Seq(Frame)
  OBVIOUS
<1>2. NotifyReader(q) \in QueueState
  BY DEF NotifyReader, QueueState
<1>3. QED
  BY <1>1, <1>2 DEF ResetQueue, QueueState

AfterReset(a, b) == [a EXCEPT !.playing = FALSE, !.recover_pause = FALSE,
                              !.hw_paused = FALSE, !.streaming = b]
WellReset(r, a, b) ==
         /\ r \in AoState /\ ~r.playing /\ ~r.recover_pause /\ r.hw_paused = FALSE
         /\ r.streaming = b /\ r.paused = a.paused /\ r.terminate = a.terminate /\ r.pc = a.pc
         /\ r.need_wakeup = a.need_wakeup /\ r.retry = a.retry /\ r.timed = a.timed
LEMMA AoIsReset ==
  ASSUME NEW a \in AoState, NEW b \in BOOLEAN
  PROVE  WellReset(AfterReset(a, b), a, b)
<1>1. AfterReset(a, b) \in AoState
  BY DEF AoState, AfterReset
<1>2. QED
  BY <1>1 DEF AoState, AfterReset, WellReset

LEMMA AoResetKeeps ==
  ASSUME Inv, Rest, ~core.waking,
         NEW c \in CoreState, AoReset(c), c.seek = core.seek, c.cmd = core.cmd,
         c.pc = "reset" => core.seek,
         c.pc \notin Emptied => core.pc \notin Emptied /\ queue.frames = <<>> /\ ~ao.playing
  PROVE  Inv'
<1>1. /\ ao \in AoState /\ queue \in QueueState /\ device \in DeviceState
      /\ setup.untimed \in BOOLEAN /\ setup.stream_silence \in BOOLEAN
  BY SetupFields DEF Inv, TypeOK
<1>2. /\ queue' = ResetQueue(queue)
      /\ ao' = [WakeReader(ao) EXCEPT !.playing = FALSE, !.recover_pause = FALSE,
                                      !.hw_paused = FALSE,
                                      !.streaming = @ /\ setup.stream_silence]
      /\ device' = IF setup.stream_silence THEN device ELSE Stopped
      /\ NotifyCore({"in"})
      /\ core' = [c EXCEPT !.waking = ao.playing, !.woken = TRUE]
      /\ UNCHANGED <<played, skipped, setup, cached, commands>>
  BY DEF AoReset, Rest
<1>3. /\ queue' \in QueueState /\ queue'.frames = <<>> /\ ~queue'.requested
  BY <1>1, <1>2, QueueIsReset
<1>4. /\ WakeReader(ao) \in AoState /\ WakeReader(ao).streaming = ao.streaming
      /\ WakeReader(ao).paused = ao.paused /\ WakeReader(ao).terminate = ao.terminate
      /\ WakeReader(ao) = ao \/ WakeReader(ao) = WakePlaythread(ao)
      /\ ~queue.wakeup_sent => WakeReader(ao) = WakePlaythread(ao)
  BY <1>1, Woken DEF WakeReader
<1>5. /\ ao' \in AoState /\ ~ao'.playing /\ ~ao'.recover_pause /\ ao'.hw_paused = FALSE
      /\ ao'.streaming = (ao.streaming /\ setup.stream_silence) /\ ao'.paused = ao.paused
      /\ ao'.terminate = ao.terminate /\ ao'.pc = WakeReader(ao).pc
      /\ ao'.need_wakeup = WakeReader(ao).need_wakeup
      /\ ao'.retry = WakeReader(ao).retry /\ ao'.timed = WakeReader(ao).timed
  <2> DEFINE b == ao.streaming /\ setup.stream_silence
             w == WakeReader(ao)
  <2>2. ao' = AfterReset(w, b)
    BY <1>2, <1>4 DEF AfterReset
  <2>3. b \in BOOLEAN /\ w \in AoState /\ w.paused = ao.paused /\ w.terminate = ao.terminate
    BY <1>4
  <2>4. ao'.streaming = b /\ ao' \in AoState /\ ~ao'.playing /\ ~ao'.recover_pause /\ ao'.hw_paused = FALSE
        /\ ao'.paused = ao.paused /\ ao'.terminate = ao.terminate /\ ao'.pc = w.pc
        /\ ao'.need_wakeup = w.need_wakeup /\ ao'.retry = w.retry /\ ao'.timed = w.timed
    <3> HIDE DEF b, w
    <3>1. QED
      BY <2>2, <2>3, AoIsReset DEF WellReset
  <2>5. QED
    BY <2>4
<1>6. /\ core' \in CoreState /\ core'.waking = ao.playing
      /\ core'.seek = c.seek /\ core'.cmd = c.cmd /\ core'.pc = c.pc
  BY <1>1, <1>2 DEF CoreState, AoState
<1>7. /\ graph' \in GraphState
      /\ UNCHANGED <<graph.data, graph.in_data, graph.requested, graph.in_requested,
                     graph.decoded, graph.next, graph.base>>
  BY <1>2, CoreNotified DEF Filters
<1>8. device' \in DeviceState /\ (setup.stream_silence => device' = device)
      /\ (~setup.stream_silence => device' = Stopped)
  BY <1>1, <1>2, StoppedIsDevice
<1>9. TypeOK'
  <2>1. SampleCount(queue'.frames) <= QueueSize
    <3>1. {i \in DOMAIN <<>> : <<>>[i] # Eof} = {}
      OBVIOUS
    <3>2. SampleCount(<<>>) = 0
      BY <3>1, FS_EmptySet DEF SampleCount
    <3>3. QED
      BY <3>2, <1>3, LengthIsNat
  <2>2. Len(device'.buffer) <= DeviceSize
    BY <1>8, StoppedIsDevice, LengthIsNat DEF Inv, TypeOK
  <2>3. QED
    BY <1>2, <1>3, <1>5, <1>6, <1>7, <1>8, <2>1, <2>2 DEF Inv, TypeOK
<1>10. DeviceBooks'
  BY <1>2, <1>5, <1>8, StoppedIsDevice DEF Inv, DeviceBooks
<1>11. Pausing'
  <2>1. device'.paused = FALSE
    <3>1. CASE setup.stream_silence
      <4>1. device.paused \in BOOLEAN /\ ao.hw_paused \in BOOLEAN
        BY <1>1 DEF DeviceState, AoState
      <4>2. ~device.paused
        BY <3>1, <4>1 DEF Inv, Pausing
      <4>3. QED
        BY <3>1, <1>8, <4>1, <4>2
    <3>2. CASE ~setup.stream_silence
      BY <3>2, <1>8, StoppedIsDevice
    <3>3. QED
      BY <3>1, <3>2
  <2>2. setup'.stream_silence \/ device'.buffer = <<>>
    BY <1>2, <1>8, StoppedIsDevice
  <2>3. QED
    BY <2>1, <2>2, <1>5 DEF Pausing
<1>12. SleepInv'
  <2>1. ao'.pc = "sleep" => ~ao'.terminate
    BY <1>1, <1>4, <1>5, Woken DEF Inv, SleepInv
  <2>2. ASSUME GoesToSleep', ~ao'.timed, ~core'.waking, ~Inactive'
        PROVE  FALSE
    <3>1. WakeReader(ao) # WakePlaythread(ao)
      BY <1>1, <1>5, <2>2, Woken DEF GoesToSleep
    <3>2. WakeReader(ao) = ao /\ queue.wakeup_sent
      BY <1>4, <3>1
    <3>3. GoesToSleep /\ ~ao.timed /\ ~Inactive
      BY <1>2, <1>5, <2>2, <3>2 DEF GoesToSleep, Inactive
    <3>4. QED
      BY <3>2, <3>3 DEF Inv, SleepInv, NothingToDo
  <2>3. QED
    BY <2>1, <2>2, <1>3 DEF SleepInv
<1>13. /\ Flows(<<>>, graph.in_data, graph.data, graph.next, graph.base)
       /\ FirstQueued' = FirstQueued + Len(queue.frames)
  <2>1. /\ Flows(<<>>, graph.in_data, graph.data, graph.next, graph.base)
        /\ Start(<<>>, graph.in_data, graph.data, graph.next) = FirstQueued + Len(queue.frames)
    <3>1. Flows(queue.frames, graph.in_data, graph.data, graph.next, graph.base)
      BY DEF Inv, StreamInv
    <3>2. graph.next \in Nat
      BY FlowNumbers
    <3>3. /\ queue.frames \in Seq(Frame) /\ graph.in_data \in Seq(Frame)
          /\ graph.data \in Seq(Frame) /\ graph.base \in Nat
      BY Numbers
    <3>4. QED
      BY <3>1, <3>2, <3>3, FlowEmpties DEF FirstQueued
  <2>2. FirstQueued' = Start(<<>>, graph.in_data, graph.data, graph.next)
    BY <1>3, <1>7 DEF FirstQueued
  <2>3. QED
    BY <2>1, <2>2
<1>14. StreamInv'
  BY <1>3, <1>7, <1>13 DEF Inv, StreamInv
<1>15. ContentInv'
  <2>1. Written <= Written' /\ Written' \in Nat
    <3>1. \A m \in Nat \ {0}, n \in Nat : m + n - 1 >= m - 1 /\ m + n - 1 \in Nat /\ m - 1 \in Nat
      OBVIOUS
    <3>2. /\ FirstQueued' - 1 >= FirstQueued - 1
          /\ FirstQueued' - 1 \in Nat /\ FirstQueued - 1 \in Nat
      <4> DEFINE m == FirstQueued
                 n == Len(queue.frames)
      <4>1. m \in Nat \ {0} /\ n \in Nat /\ FirstQueued' = m + n
        BY <1>13, Numbers
      <4>2. QED
        BY <3>1, <4>1
    <3>3. \A m, n, b \in Nat : n >= m => Upto(b, m) <= Upto(b, n) /\ Upto(b, n) \in Nat
      BY LengthIsNat DEF Upto, Least
    <3>4. Written = Upto(graph.base, FirstQueued - 1) /\ Written' = Upto(graph.base, FirstQueued' - 1)
      BY <1>7 DEF Written
    <3>5. graph.base \in Nat
      BY Numbers
    <3>6. QED
      BY <3>2, <3>3, <3>4, <3>5
  <2>2. Ordered(device.buffer, played, skipped, Written')
    <3>1. Ordered(device.buffer, played, skipped, Written) /\ played \in Nat /\ skipped \in Nat /\ Written \in Nat
      BY Numbers DEF Inv, ContentInv
    <3>2. Heard(device.buffer) \subseteq Nat
      BY HeardIsFrame, Numbers
    <3>3. QED
      BY <2>1, <3>1, <3>2 DEF Ordered
  <2>3. Ordered(device'.buffer, played', skipped', Written')
    BY <1>2, <1>8, <2>2, StoppedIsDevice, NothingLeft DEF Ordered
  <2>4. ASSUME core'.pc \notin Emptied
        PROVE  device'.buffer = device.buffer /\ Written' = Written /\ core.pc \notin Emptied
    <3>1. core.pc \notin Emptied /\ queue.frames = <<>> /\ ~ao.playing
      BY <1>6, <2>4
    <3>2. device'.buffer = device.buffer
      BY <3>1, <1>1, <1>8, StoppedIsDevice DEF Inv, DeviceBooks
    <3>3. FirstQueued' = FirstQueued
      BY <3>1, <1>13, Numbers
    <3>4. QED
      BY <3>1, <3>2, <3>3, <1>7 DEF Written
  <2>5. QED
    BY <1>2, <1>7, <2>3, <2>4 DEF Inv, ContentInv
<1>16. SeekInv'
  <2>1. PICK k \in 0 .. MaxSeeks :
          /\ graph.base = k * Length
          /\ k + One(core.seek) + One(core.cmd = "seek") <= commands.seek
    BY DEF Inv, SeekInv
  <2>2. QED
    BY <1>2, <1>3, <1>5, <1>6, <1>7, <2>1 DEF SeekInv
<1>17. QED
  BY <1>2, <1>9, <1>10, <1>11, <1>12, <1>14, <1>15, <1>16 DEF Inv
\* Pausing and unpausing.
AfterPause(a, p, n, hw, s, r) ==
  [a EXCEPT !.paused = p, !.prepause = n, !.hw_paused = hw, !.streaming = s, !.recover_pause = r]
WellPaused(b, a, p, hw, s, r) ==
  /\ b \in AoState /\ b.paused = p /\ b.hw_paused = hw /\ b.streaming = s /\ b.recover_pause = r
  /\ b.playing = a.playing /\ b.pc = a.pc /\ b.need_wakeup = a.need_wakeup /\ b.retry = a.retry
  /\ b.timed = a.timed /\ b.terminate = a.terminate
LEMMA AoIsPaused ==
  ASSUME NEW a \in AoState, NEW p \in BOOLEAN, NEW n \in 0 .. DeviceSize, NEW hw \in BOOLEAN,
         NEW s \in BOOLEAN, NEW r \in BOOLEAN
  PROVE  WellPaused(AfterPause(a, p, n, hw, s, r), a, p, hw, s, r)
<1>1. AfterPause(a, p, n, hw, s, r) \in AoState
  BY DEF AoState, AfterPause
<1>2. QED
  BY <1>1 DEF AoState, AfterPause, WellPaused

HwPaused(p) == IF PausesDevice(p) THEN setup.can_pause ELSE IF Unpauses(p) THEN FALSE ELSE ao.hw_paused
Streams(p)  == ao.streaming /\ ~ResetsDevice(p)
Recover(p)  == IF ResetsDevice(p) THEN ~setup.untimed ELSE ao.recover_pause
LEMMA AoSetPausedSets ==
  ASSUME Inv, NEW p \in BOOLEAN, AoSetPaused(p)
  PROVE  WellPaused(ao', ao, p, HwPaused(p), Streams(p), Recover(p))
<1> DEFINE n == IF PausesDevice(p) /\ ~ao.recover_pause THEN Len(device.buffer) ELSE ao.prepause
<1>1. ao \in AoState /\ Len(device.buffer) \in 0 .. DeviceSize
  BY Numbers DEF Inv, TypeOK
<1>2. n \in 0 .. DeviceSize /\ ao.hw_paused \in BOOLEAN /\ ao.recover_pause \in BOOLEAN
  BY <1>1 DEF AoState
<1>3. HwPaused(p) \in BOOLEAN /\ Streams(p) \in BOOLEAN /\ Recover(p) \in BOOLEAN
  BY <1>2, SetupFields DEF HwPaused, Streams, Recover, Inv
<1>4. ao' = AfterPause(ao, p, n, HwPaused(p), Streams(p), Recover(p))
  BY DEF AoSetPaused, AfterPause, HwPaused, Streams, Recover
<1>5. QED
  <2> HIDE DEF n
  <2>1. QED
    BY <1>1, <1>2, <1>3, <1>4, AoIsPaused

\* What the device does then.
LEMMA DeviceIsPaused ==
  ASSUME Inv, NEW p \in BOOLEAN, AoSetPaused(p)
  PROVE  /\ device' \in DeviceState
         /\ ResetsDevice(p) => device' = Stopped /\ skipped' = Dropped(device.buffer)
         /\ ~ResetsDevice(p) => /\ device'.buffer = device.buffer /\ device'.playing = device.playing
                                /\ skipped' = skipped
         /\ PausesDevice(p) /\ ~ResetsDevice(p) => device'.paused = TRUE
         /\ Unpauses(p) => device'.paused = FALSE
         /\ ~PausesDevice(p) /\ ~Unpauses(p) => device' = device
<1>1. device \in DeviceState /\ device.paused \in BOOLEAN /\ ao.hw_paused \in BOOLEAN
  BY DEF Inv, TypeOK, DeviceState, AoState
<1>2. device.paused = ao.hw_paused
  BY DEF Inv, Pausing
<1>3. ResetsDevice(p) => PausesDevice(p)
  BY DEF ResetsDevice
<1>4. ~(PausesDevice(p) /\ Unpauses(p))
  BY DEF PausesDevice, Pauses, Unpauses
<1>5. /\ device' = IF ResetsDevice(p) THEN Stopped
                   ELSE IF PausesDevice(p) THEN [device EXCEPT !.paused = TRUE]
                   ELSE IF Unpauses(p) /\ ao.hw_paused THEN [device EXCEPT !.paused = FALSE]
                   ELSE device
      /\ skipped' = IF ResetsDevice(p) THEN Dropped(device.buffer) ELSE skipped
  BY DEF AoSetPaused
<1>6. CASE ResetsDevice(p)
  BY <1>3, <1>4, <1>5, <1>6, StoppedIsDevice
<1>7. CASE PausesDevice(p) /\ ~ResetsDevice(p)
  <2>1. device' = [device EXCEPT !.paused = TRUE] /\ skipped' = skipped /\ ~Unpauses(p)
    BY <1>4, <1>5, <1>7
  <2>2. /\ device' \in DeviceState /\ device'.paused = TRUE
        /\ device'.buffer = device.buffer /\ device'.playing = device.playing
    BY <1>1, <2>1 DEF DeviceState
  <2>3. QED
    BY <1>7, <2>1, <2>2
<1>8. CASE Unpauses(p) /\ ao.hw_paused
  <2>1. device' = [device EXCEPT !.paused = FALSE] /\ skipped' = skipped /\ ~PausesDevice(p) /\ ~ResetsDevice(p)
    BY <1>3, <1>4, <1>5, <1>8
  <2>2. /\ device' \in DeviceState /\ device'.paused = FALSE
        /\ device'.buffer = device.buffer /\ device'.playing = device.playing
    BY <1>1, <2>1 DEF DeviceState
  <2>3. QED
    BY <1>8, <2>1, <2>2
<1>9. CASE ~PausesDevice(p) /\ ~(Unpauses(p) /\ ao.hw_paused)
  <2>1. device' = device /\ skipped' = skipped /\ ~ResetsDevice(p)
    BY <1>3, <1>5, <1>9
  <2>2. Unpauses(p) => device.paused = FALSE
    BY <1>1, <1>2, <1>9
  <2>3. QED
    BY <1>1, <1>9, <2>1, <2>2
<1>10. QED
  BY <1>6, <1>7, <1>8, <1>9

\* Whether the device is reset or not.
PauseIsSet(c) ==
  /\ ao' \in AoState /\ device' \in DeviceState
  /\ core' \in CoreState /\ core'.pc = c.pc /\ core'.seek = c.seek /\ core'.cmd = c.cmd
  /\ ao'.playing = ao.playing /\ played' = played
  /\ DeviceBooks' /\ Pausing' /\ SleepInv'
  /\ \/ device'.buffer = device.buffer /\ skipped' = skipped
     \/ /\ ao.playing /\ device'.buffer = <<>> /\ skipped' = Dropped(device.buffer)
        /\ ~setup.stream_silence
LEMMA SetPauseStateSets ==
  ASSUME Inv, ~core.waking, setup' = setup, queue' = queue, NEW c \in CoreState, SetPauseState(c)
  PROVE  PauseIsSet(c)
<1> DEFINE p == c.pause \/ c.paused_for_cache
<1>1. /\ ao \in AoState /\ device \in DeviceState /\ p \in BOOLEAN
      /\ setup.untimed \in BOOLEAN /\ setup.can_pause \in BOOLEAN /\ setup.stream_silence \in BOOLEAN
      /\ ao.paused \in BOOLEAN /\ ao.hw_paused \in BOOLEAN /\ played' = played
  BY SetupFields DEF Inv, TypeOK, AoState, SetPauseState
<1>2. CASE p = ao.paused
  <2>1. core' = c /\ UNCHANGED <<ao, device, skipped>>
    BY <1>2 DEF SetPauseState
  <2>2. DeviceBooks' /\ Pausing'
    BY <2>1 DEF Inv, DeviceBooks, Pausing
  <2>3. SleepInv'
    BY <2>1 DEF Inv, SleepInv, GoesToSleep, NothingToDo, Inactive
  <2>4. QED
    BY <1>1, <2>1, <2>2, <2>3 DEF PauseIsSet
<1>3. CASE p # ao.paused
  <2> HIDE DEF p
  <2>1. /\ AoSetPaused(p)
        /\ core' = [c EXCEPT !.waking = Pauses(p) \/ Unpauses(p), !.woken = TRUE]
    BY <1>3 DEF SetPauseState, p
  <2>2. /\ core' \in CoreState /\ core'.pc = c.pc /\ core'.seek = c.seek /\ core'.cmd = c.cmd
        /\ core'.waking = (Pauses(p) \/ Unpauses(p))
    <3> DEFINE w == Pauses(p) \/ Unpauses(p)
    <3>1. w \in BOOLEAN /\ core' = [c EXCEPT !.waking = w, !.woken = TRUE]
      BY <2>1
    <3>2. /\ core' \in CoreState /\ core'.pc = c.pc /\ core'.seek = c.seek /\ core'.cmd = c.cmd
          /\ core'.waking = w
      <4> HIDE DEF w
      <4>1. QED
        BY <3>1 DEF CoreState
    <3>3. QED
      BY <3>2
  <2>3. WellPaused(ao', ao, p, HwPaused(p), Streams(p), Recover(p))
    BY <1>1, <2>1, AoSetPausedSets
  <2>4. /\ ao' \in AoState /\ ao'.paused = p /\ ao'.hw_paused = HwPaused(p)
        /\ ao'.streaming = Streams(p) /\ ao'.recover_pause = Recover(p)
        /\ ao'.playing = ao.playing /\ ao'.pc = ao.pc /\ ao'.need_wakeup = ao.need_wakeup
        /\ ao'.retry = ao.retry /\ ao'.timed = ao.timed /\ ao'.terminate = ao.terminate
    BY <2>3 DEF WellPaused
  <2>5. /\ device' \in DeviceState
        /\ ResetsDevice(p) => device' = Stopped /\ skipped' = Dropped(device.buffer)
        /\ ~ResetsDevice(p) => /\ device'.buffer = device.buffer /\ device'.playing = device.playing
                               /\ skipped' = skipped
        /\ PausesDevice(p) /\ ~ResetsDevice(p) => device'.paused = TRUE
        /\ Unpauses(p) => device'.paused = FALSE
        /\ ~PausesDevice(p) /\ ~Unpauses(p) => device' = device
    BY <1>1, <2>1, DeviceIsPaused
  <2>6. ResetsDevice(p) => PausesDevice(p) /\ ~setup.can_pause
    BY DEF ResetsDevice
  <2>7. PausesDevice(p) => ao.playing /\ ~ao.paused /\ p /\ ao.streaming /\ ~setup.stream_silence
    BY DEF PausesDevice, Pauses
  <2>8. DeviceBooks'
    <3>1. CASE ResetsDevice(p)
      BY <3>1, <2>5, StoppedIsDevice DEF DeviceBooks
    <3>2. CASE ~ResetsDevice(p)
      <4>1. ao'.streaming <=> ao.streaming
        BY <3>2, <2>4 DEF Streams
      <4>2. QED
        BY <3>2, <2>4, <2>5, <4>1 DEF Inv, DeviceBooks
    <3>3. QED
      BY <3>1, <3>2
  <2>9. Pausing'
    <3>1. device'.paused = ao'.hw_paused
      <4>1. CASE ResetsDevice(p)
        BY <1>1, <2>4, <2>5, <2>6, <4>1, StoppedIsDevice DEF HwPaused
      <4>2. CASE PausesDevice(p) /\ ~ResetsDevice(p)
        <5>1. setup.can_pause = TRUE
          BY <4>2, <1>1 DEF ResetsDevice
        <5>2. QED
          BY <2>4, <2>5, <4>2, <5>1 DEF HwPaused
      <4>3. CASE ~PausesDevice(p) /\ Unpauses(p)
        BY <2>4, <2>5, <4>3 DEF HwPaused
      <4>4. CASE ~PausesDevice(p) /\ ~Unpauses(p)
        BY <2>4, <2>5, <4>4 DEF HwPaused, Inv, Pausing
      <4>5. QED
        BY <4>1, <4>2, <4>3, <4>4, <2>6
    <3>2. ao'.hw_paused => ao'.paused /\ ao'.playing /\ ~setup.stream_silence
      <4>1. SUFFICES ASSUME HwPaused(p) PROVE p /\ ao.playing /\ ~setup.stream_silence
        BY <2>4
      <4>2. CASE PausesDevice(p)
        BY <4>2, <2>7
      <4>3. CASE ~PausesDevice(p)
        <5>1. ao.hw_paused /\ ~Unpauses(p)
          BY <4>1, <4>3 DEF HwPaused
        <5>2. ao.paused /\ ao.playing /\ ~setup.stream_silence
          BY <5>1 DEF Inv, Pausing
        <5>3. QED
          BY <5>1, <5>2 DEF Unpauses
      <4>4. QED
        BY <4>2, <4>3
    <3>3. ao'.paused /\ ~setup.stream_silence => device'.buffer = <<>> \/ device'.paused
      <4>1. SUFFICES ASSUME p, ~setup.stream_silence PROVE device'.buffer = <<>> \/ device'.paused
        BY <2>4
      <4>2. CASE PausesDevice(p)
        BY <4>2, <2>5, StoppedIsDevice
      <4>3. CASE ~PausesDevice(p)
        <5>1. ~ao.playing \/ ~ao.streaming
          BY <1>1, <1>3, <4>1, <4>3 DEF PausesDevice, Pauses
        <5>2. device.buffer = <<>>
          BY <5>1, <4>1 DEF Inv, DeviceBooks
        <5>3. QED
          BY <5>2, <4>3, <2>5, <2>6
      <4>4. QED
        BY <4>2, <4>3
    <3>4. ao'.recover_pause => ~ao'.streaming /\ ~setup.untimed /\ ~setup.stream_silence
      <4>1. SUFFICES ASSUME Recover(p)
                     PROVE  ~Streams(p) /\ ~setup.untimed /\ ~setup.stream_silence
        BY <2>4
      <4>2. CASE ResetsDevice(p)
        BY <4>1, <4>2, <2>6, <2>7 DEF Recover, Streams
      <4>3. CASE ~ResetsDevice(p)
        BY <4>1, <4>3 DEF Recover, Streams, Inv, Pausing
      <4>4. QED
        BY <4>2, <4>3
    <3>5. QED
      BY <3>1, <3>2, <3>3, <3>4 DEF Pausing
  <2>10. SleepInv'
    <3>1. ASSUME ~core'.waking, ~Inactive'
          PROVE  ~Inactive /\ ~ao.playing
      <4>1. ~Pauses(p) /\ ~Unpauses(p)
        BY <3>1, <2>2
      <4>2. ~ao.playing
        BY <4>1, <1>1, <1>3 DEF Pauses, Unpauses
      <4>3. QED
        BY <3>1, <4>2, <2>4 DEF Inactive
    <3>2. GoesToSleep' = GoesToSleep
      BY <2>4 DEF GoesToSleep
    <3>3. QED
      BY <3>1, <3>2, <2>4 DEF Inv, SleepInv, NothingToDo, Streams
  <2>11. \/ device'.buffer = device.buffer /\ skipped' = skipped
         \/ /\ ao.playing /\ device'.buffer = <<>> /\ skipped' = Dropped(device.buffer)
            /\ ~setup.stream_silence
    BY <2>5, <2>6, <2>7, StoppedIsDevice
  <2>12. QED
    BY <1>1, <2>2, <2>4, <2>5, <2>8, <2>9, <2>10, <2>11 DEF PauseIsSet
<1>4. QED
  BY <1>2, <1>3

LEMMA PauseKeeps ==
  ASSUME Inv, Rest, ~core.waking, NEW c, Moves(c), c.pc # "reset", core.pc \notin Emptied,
         SetPauseState(c), UNCHANGED <<queue, graph>>
  PROVE  Inv'
<1>1. PauseIsSet(c) /\ c \in CoreState
  BY SetPauseStateSets DEF Moves, Rest
<1>2. /\ ao' \in AoState /\ device' \in DeviceState
      /\ core' \in CoreState /\ core'.pc = c.pc /\ core'.seek = c.seek /\ core'.cmd = c.cmd
      /\ ao'.playing = ao.playing /\ played' = played
      /\ DeviceBooks' /\ Pausing' /\ SleepInv'
  BY <1>1 DEF PauseIsSet
<1>3. Moves(core') /\ core'.pc # "reset"
  BY <1>2 DEF Moves
<1>4. StreamSame /\ queue' \in QueueState /\ graph' \in GraphState
  BY DEF StreamSame, Inv, TypeOK
<1>5. CASE device'.buffer = device.buffer /\ skipped' = skipped
  BY <1>2, <1>3, <1>4, <1>5, NoFrameMoves
<1>6. CASE /\ ao.playing /\ device'.buffer = <<>> /\ skipped' = Dropped(device.buffer)
           /\ ~setup.stream_silence
  <2>1. /\ Ordered(device.buffer, played, skipped, Written)
        /\ Whole(device.buffer, played, skipped, graph.base, Written)
        /\ NewIn(device.buffer, graph.base) = Heard(device.buffer)
    BY <1>6 DEF Inv, ContentInv
  <2>2. /\ skipped' \in Frame
        /\ Ordered(<<>>, played, skipped', Written)
        /\ Whole(<<>>, played, skipped', graph.base, Written)
    BY <1>6, <2>1, DeviceDrops, Numbers DEF Inv
  <2>3. TypeOK'
    BY <1>2, <1>4, <1>6, <2>2, LengthIsNat DEF Inv, TypeOK, Rest
  <2>4. StreamInv' /\ Written' = Written
    BY <1>4, StreamKept DEF Inv
  <2>5. ContentInv'
    <3>1. NewIn(<<>>, graph.base) = Heard(<<>>)
      BY NothingLeft DEF NewIn
    <3>2. QED
      BY <1>2, <1>6, <2>2, <2>4, <3>1 DEF ContentInv, Rest
  <2>6. SeekInv'
    <3>1. commands.seek \in Nat
      BY LengthIsNat DEF Inv, TypeOK
    <3>2. QED
      BY <3>1, <1>3, SeekKept DEF Inv, Moves, Rest
  <2>7. QED
    BY <1>2, <2>3, <2>4, <2>5, <2>6 DEF Inv, Rest
<1>7. QED
  BY <1>1, <1>5, <1>6 DEF PauseIsSet

LEMMA UpdateCacheKeeps ==
  ASSUME Inv, Rest, ~core.waking, NEW k, Moves(k), k.pc # "reset", core.pc \notin Emptied,
         UpdateCache(k), UNCHANGED <<queue, graph>>
  PROVE  Inv'
<1>1. PICK low \in BOOLEAN, demux_underrun \in BOOLEAN :
        LET wait == low /\ (core.paused_for_cache \/ (demux_underrun /\ core.underrun))
            c    == [k EXCEPT !.paused_for_cache = wait, !.underrun = @ /\ wait,
                              !.woken = @ \/ (core.underrun /\ ~wait)]
        IN IF wait # core.paused_for_cache THEN SetPauseState(c)
           ELSE core' = c /\ UNCHANGED <<ao, device, played, skipped>>
  BY DEF UpdateCache
<1> DEFINE wait == low /\ (core.paused_for_cache \/ (demux_underrun /\ core.underrun))
           under == k.underrun /\ wait
           woken == k.woken \/ (core.underrun /\ ~wait)
           c == [k EXCEPT !.paused_for_cache = wait, !.underrun = under, !.woken = woken]
<1>2. k \in CoreState
  BY DEF Moves
<1>3. wait \in BOOLEAN /\ under \in BOOLEAN /\ woken \in BOOLEAN
  BY <1>2 DEF CoreState
<1>4. c \in CoreState /\ c.pc = k.pc /\ c.seek = k.seek /\ c.cmd = k.cmd
  <2> HIDE DEF wait, under, woken
  <2>1. QED
    BY ZenonT(30), <1>2, <1>3 DEF CoreState
<1>5. SetPauseState(c) \/ (core' = c /\ UNCHANGED <<ao, device, played, skipped>>)
  BY <1>1
<1>6. Moves(c) /\ c.pc # "reset"
  <2> HIDE DEF c
  <2>1. QED
    BY <1>4 DEF Moves
<1>7. QED
  <2> HIDE DEF c
  <2>1. CASE SetPauseState(c)
    BY <1>6, <2>1, PauseKeeps
  <2>2. CASE core' = c /\ UNCHANGED <<ao, device, played, skipped>>
    <3>1. StreamSame /\ graph' \in GraphState
      BY DEF StreamSame, Inv, TypeOK
    <3>2. QED
      BY <1>6, <2>2, <3>1, CoreMoves
  <2>3. QED
    BY <1>5, <2>1, <2>2

LEMMA ResetPlaybackKeeps ==
  ASSUME Inv, Rest, ResetPlayback
  PROVE  Inv'
<1> DEFINE c == [core EXCEPT !.status = "syncing", !.out_eof = FALSE, !.underrun = FALSE,
                             !.start_pts_known = FALSE, !.restart_complete = FALSE,
                             !.paused_for_cache = FALSE, !.seek = FALSE,
                             !.woken = TRUE, !.pc = "filter"]
<1>1. /\ ~core.waking /\ core.pc = "reset" /\ core.seek /\ queue.frames = <<>> /\ ~ao.playing
      /\ core \in CoreState /\ UNCHANGED <<setup, cached, commands, queue>>
  BY DEF ResetPlayback, At, Inv, SeekInv, TypeOK, Rest
<1>2. c \in CoreState /\ c.pc = "filter" /\ c.seek = FALSE /\ c.cmd = core.cmd
  BY ZenonT(30), <1>1 DEF CoreState
<1>3. PauseIsSet(c)
  <2>1. SetPauseState(c)
    BY DEF ResetPlayback
  <2> HIDE DEF c
  <2>2. QED
    BY <1>1, <1>2, <2>1, SetPauseStateSets
<1>4. /\ ao' \in AoState /\ device' \in DeviceState
      /\ core' \in CoreState /\ core'.pc = "filter" /\ core'.seek = FALSE /\ core'.cmd = core.cmd
      /\ played' = played /\ DeviceBooks' /\ Pausing' /\ SleepInv'
      /\ device'.buffer = device.buffer /\ skipped' = skipped
  <2> HIDE DEF c
  <2>1. QED
    BY <1>1, <1>2, <1>3 DEF PauseIsSet
<1>5. /\ graph.base \in Nat /\ Length \in Nat /\ graph.base + Length \in Nat
      /\ graph \in GraphState /\ Len(device.buffer) <= DeviceSize
  <2>1. \A m, n \in Nat : m + n \in Nat
    OBVIOUS
  <2>2. graph.base \in Nat /\ Length \in Nat
    BY Numbers, LengthIsNat
  <2>3. QED
    BY <2>1, <2>2 DEF Inv, TypeOK
<1>6. /\ graph' \in GraphState /\ graph'.data = <<>> /\ graph'.in_data = <<>> /\ graph'.next = 1
      /\ graph'.base = graph.base + Length
      /\ ~graph'.requested /\ ~graph'.in_requested /\ ~graph'.decoded
  <2> DEFINE P == graph.pending \union graph.async_pending \union {"in"}
             b == graph.base + Length
  <2>1. P \in SUBSET Filters
    BY <1>5 DEF GraphState, Filters
  <2>2. graph' = [graph EXCEPT !.pending = P, !.async_pending = {}, !.wakeup_sent = FALSE,
                               !.requested = FALSE, !.data = <<>>, !.in_requested = FALSE,
                               !.in_data = <<>>, !.decoded = FALSE, !.next = 1, !.base = b]
    BY DEF ResetPlayback
  <2>3. <<>> \in Seq(Frame) /\ 1 \in 1 .. Length + 2 /\ {} \in SUBSET Filters
    BY <1>5
  <2>4. graph' \in GraphState
    <3> HIDE DEF P, b
    <3>1. QED
      BY <1>5, <2>1, <2>2, <2>3 DEF b, GraphState
  <2>5. /\ graph'.data = <<>> /\ graph'.in_data = <<>> /\ graph'.next = 1 /\ graph'.base = b
        /\ ~graph'.requested /\ ~graph'.in_requested /\ ~graph'.decoded
    <3> HIDE DEF P, b
    <3>1. QED
      BY <1>5, <2>2 DEF GraphState
  <2>6. QED
    BY <2>4, <2>5
<1>7. TypeOK'
  BY <1>1, <1>4, <1>5, <1>6 DEF Inv, TypeOK
<1>8. StreamInv' /\ FirstQueued' = 1
  <2>1. Flows(<<>>, <<>>, <<>>, 1, graph.base + Length) /\ Start(<<>>, <<>>, <<>>, 1) = 1
    BY <1>5, FlowStarts
  <2>2. QED
    BY <1>1, <1>6, <2>1 DEF StreamInv, FirstQueued
<1>9. Written' = graph'.base /\ Written <= graph'.base /\ Written \in Nat
  <2>1. \A n \in Nat : Upto(graph.base, n) <= graph.base + Length
    BY <1>5 DEF Upto, Least
  <2>2. FirstQueued - 1 \in Nat /\ Written \in Nat
    BY Numbers
  <2>3. Upto(graph.base + Length, 1 - 1) = graph.base + Length
    BY <1>5 DEF Upto, Least
  <2>4. QED
    BY <1>6, <1>8, <2>1, <2>2, <2>3 DEF Written
<1>10. ContentInv'
  <2> DEFINE B == graph'.base
  <2>1. /\ Ordered(device.buffer, played, skipped, Written) /\ played \in Nat /\ skipped \in Nat
        /\ B \in Nat
    BY <1>5, <1>6, Numbers DEF Inv, ContentInv
  <2>2. Heard(device.buffer) \subseteq Nat
    BY HeardIsFrame, Numbers
  <2>3. Ordered(device.buffer, played, skipped, B) /\ NewIn(device.buffer, B) = {}
    <3> HIDE DEF B
    <3>1. \A f \in Heard(device.buffer) : played < f /\ f <= B /\ ~(f > B)
      BY <1>9, <2>1, <2>2 DEF Ordered, B
    <3>2. played <= B /\ skipped <= B
      BY <1>9, <2>1 DEF Ordered, B
    <3>3. QED
      BY <3>1, <3>2, <2>1 DEF Ordered, NewIn
  <2>4. 1 + Greater(Greater(played, skipped), B) .. B = {}
    <3> HIDE DEF B
    <3>1. Greater(Greater(played, skipped), B) \in Nat /\ Greater(Greater(played, skipped), B) >= B
      BY <2>1 DEF Greater
    <3>2. \A x \in Nat : x >= B => 1 + x .. B = {}
      BY <2>1
    <3>3. QED
      BY <3>1, <3>2
  <2>5. setup.stream_silence \/ NewIn(device.buffer, B) = Heard(device.buffer)
    <3>1. ~setup.stream_silence => Heard(device.buffer) = {}
      BY <1>1, NothingLeft DEF Inv, DeviceBooks
    <3>2. QED
      BY <3>1, <2>3
  <2>6. QED
    BY <1>1, <1>4, <1>9, <2>3, <2>4, <2>5 DEF ContentInv, Whole
<1>11. SeekInv'
  <2>1. PICK k \in 0 .. MaxSeeks :
          /\ graph.base = k * Length
          /\ k + One(core.seek) + One(core.cmd = "seek") <= commands.seek
    BY DEF Inv, SeekInv
  <2>2. One(core.seek) = 1 /\ One(core.cmd = "seek") \in 0 .. 1 /\ commands.seek \in 0 .. MaxSeeks
    BY <1>1 DEF One, Inv, TypeOK
  <2>3. k + 1 \in 0 .. MaxSeeks /\ (k + 1) + 0 + One(core.cmd = "seek") <= commands.seek
    BY <2>1, <2>2, LengthIsNat
  <2>4. graph.base + Length = (k + 1) * Length
    BY <2>1, LengthIsNat
  <2>5. One(core'.seek) = 0 /\ core'.cmd = core.cmd /\ commands' = commands
    BY <1>1, <1>4 DEF One
  <2>6. QED
    BY <1>4, <1>6, <2>3, <2>4, <2>5 DEF SeekInv
<1>12. QED
  BY <1>1, <1>4, <1>7, <1>8, <1>10, <1>11 DEF Inv

-------------------------------------------------------------------------------
(* The play loop. *)

\* The core goes on, and nothing else happens but what wakes it or its filters.
LEMMA CoreGoesOn ==
  ASSUME Inv, Rest, ~core.waking, NEW c \in CoreState, core' = c, c.seek = core.seek, c.cmd = core.cmd,
         core.pc \notin Emptied \/ c.pc \in Emptied \ {"reset"}, c.pc # "reset",
         graph' \in GraphState, StreamSame, UNCHANGED <<ao, queue, device, played, skipped>>
  PROVE  Inv'
<1>1. Moves(core')
  BY DEF Moves
<1>2. QED
  BY <1>1, CoreMoves

LEMMA CoreGoes ==
  ASSUME NEW c \in CoreState,
         NEW pc \in {"fill", "recover", "drain", "restart", "eof", "reset", "filter",
                     "filtered", "wait", "input", "uninit", "draining", "delay", "drainwait",
                     "drainwoken", "drained", "terminate", "join", "done"}
  PROVE  /\ Go(c, pc) \in CoreState /\ Go(c, pc).pc = pc /\ Go(c, pc).seek = c.seek
         /\ Go(c, pc).cmd = c.cmd /\ Go(c, pc).waking = c.waking
  BY DEF Go, CoreState

LEMMA NothingElse ==
  ASSUME Inv, graph' = graph, queue' = queue
  PROVE  graph' \in GraphState /\ StreamSame
  BY DEF Inv, TypeOK, StreamSame

LEMMA FillSyncKeeps ==
  ASSUME Inv, Rest, FillSync
  PROVE  Inv'
<1>1. /\ core \in CoreState /\ core.pc = "fill" /\ ~core.waking
      /\ UNCHANGED <<ao, queue, device, played, skipped>>
  BY DEF Inv, TypeOK, FillSync, At
<1>2. graph' \in GraphState /\ StreamSame
  <2>1. graph' = graph \/ NotifyCore({"ao"})
    BY DEF FillSync
  <2>2. {"ao"} \in SUBSET Filters
    BY DEF Filters
  <2>3. QED
    BY <1>1, <2>1, <2>2, CoreNotified, NothingElse DEF StreamSame
<1>3. core' \in CoreState /\ core'.pc = "recover" /\ core'.seek = core.seek /\ core'.cmd = core.cmd
  <2>1. CASE core.status # "syncing"
    BY <1>1, <2>1, CoreGoes DEF FillSync
  <2>2. CASE core.status = "syncing"
    <3> DEFINE ready == Full \/ core.out_eof
               st == IF ready THEN "ready" ELSE core.status
               w == core.woken \/ ready \/ (~core.start_pts_known /\ WakesCore)
    <3>1. core' = [core EXCEPT !.start_pts_known = TRUE, !.pc = "recover", !.status = st, !.woken = w]
      BY <2>2 DEF FillSync
    <3>2. w \in BOOLEAN /\ st \in {"syncing", "ready", "playing", "draining", "eof"}
      BY <2>2
    <3> HIDE DEF w, st
    <3>3. QED
      BY <1>1, <3>1, <3>2 DEF CoreState
  <2>3. QED
    BY <2>1, <2>2
<1>4. QED
  BY <1>1, <1>2, <1>3, CoreGoesOn DEF Emptied

LEMMA FillRecoverKeeps ==
  ASSUME Inv, Rest, FillRecover
  PROVE  Inv'
<1> DEFINE c == Go(core, "drain")
           w == c.woken \/ ~core.ao_underrun
           n == ~core.ao_underrun
           u == [c EXCEPT !.ao_underrun = TRUE, !.underrun = n, !.woken = w]
<1>1. core \in CoreState /\ core.pc = "recover" /\ ~core.waking
  BY DEF Inv, TypeOK, FillRecover, At
<1>2. /\ c \in CoreState /\ c.pc = "drain" /\ c.seek = core.seek
      /\ c.cmd = core.cmd /\ core.pc \notin Emptied
  BY <1>1, CoreGoes DEF Emptied
<1>3. CASE ~Stalled
  <2>1. core' = c /\ UNCHANGED <<ao, queue, device, graph, played, skipped>>
    BY <1>3 DEF FillRecover
  <2> HIDE DEF c
  <2>2. QED
    BY <1>1, <1>2, <2>1, NothingElse, CoreGoesOn
<1>4. CASE Stalled /\ core.out_eof /\ queue.frames = <<>>
  <2> DEFINE e == [c EXCEPT !.status = "eof"]
  <2>1. AoReset(e) /\ ~ao.playing
    BY <1>4 DEF FillRecover, Stalled
  <2> HIDE DEF c
  <2>2. e \in CoreState /\ e.pc = "drain" /\ e.seek = core.seek /\ e.cmd = core.cmd
    BY <1>2 DEF CoreState
  <2> HIDE DEF e
  <2>3. QED
    BY <1>1, <1>2, <1>4, <2>1, <2>2, AoResetKeeps
<1>5. CASE Stalled /\ ~(core.out_eof /\ queue.frames = <<>>) /\ Recovers
  <2> DEFINE e == [c EXCEPT !.ao_underrun = FALSE, !.underrun = FALSE, !.woken = TRUE]
  <2>1. AoStart(e)
    BY <1>5 DEF FillRecover
  <2> HIDE DEF c
  <2>2. e \in CoreState /\ e.pc = "drain" /\ e.seek = core.seek /\ e.cmd = core.cmd
    BY <1>2 DEF CoreState
  <2> HIDE DEF e
  <2>3. Moves(e) /\ e.pc # "reset"
    BY <1>2, <2>2 DEF Moves
  <2>4. QED
    BY <2>1, <2>3, AoStartKeeps
<1>6. CASE Stalled /\ ~(core.out_eof /\ queue.frames = <<>>) /\ ~Recovers
  <2>1. core' = u /\ UNCHANGED <<ao, queue, device, graph, played, skipped>>
    BY <1>6 DEF FillRecover
  <2>2. n \in BOOLEAN /\ w \in BOOLEAN
    BY <1>2 DEF CoreState
  <2> HIDE DEF c, n, w
  <2>3. u \in CoreState /\ u.pc = "drain" /\ u.seek = core.seek /\ u.cmd = core.cmd
    BY <1>2, <2>2 DEF CoreState
  <2> HIDE DEF u
  <2>4. QED
    BY <1>1, <1>2, <2>1, <2>3, NothingElse, CoreGoesOn
<1>7. QED
  BY <1>3, <1>4, <1>5, <1>6

LEMMA FillDrainKeeps ==
  ASSUME Inv, Rest, FillDrain
  PROVE  Inv'
<1> DEFINE d == IF core.status = "playing" /\ core.out_eof
                  THEN [core EXCEPT !.status = "draining", !.woken = TRUE] ELSE core
           e == IF DrainsAt(d) THEN [d EXCEPT !.status = "eof", !.woken = TRUE] ELSE d
<1>1. /\ core \in CoreState /\ core.pc = "drain" /\ ~core.waking /\ core' = Go(e, "restart")
      /\ UNCHANGED <<ao, queue, device, graph, played, skipped>>
  BY DEF Inv, TypeOK, FillDrain, At
<1>2. d \in CoreState /\ d.seek = core.seek /\ d.cmd = core.cmd
  <2>1. CASE core.status = "playing" /\ core.out_eof
    BY <1>1, <2>1 DEF CoreState
  <2>2. CASE ~(core.status = "playing" /\ core.out_eof)
    BY <1>1, <2>2
  <2>3. QED
    BY <2>1, <2>2
<1> HIDE DEF d
<1>3. e \in CoreState /\ e.seek = core.seek /\ e.cmd = core.cmd
  <2>1. CASE DrainsAt(d)
    BY <1>2, <2>1 DEF CoreState
  <2>2. CASE ~DrainsAt(d)
    BY <1>2, <2>2
  <2>3. QED
    BY <2>1, <2>2
<1> HIDE DEF e
<1>4. QED
  BY <1>1, <1>3, CoreGoes, NothingElse, CoreGoesOn DEF Emptied

LEMMA RestartKeeps ==
  ASSUME Inv, Rest, Restart
  PROVE  Inv'
<1> DEFINE g == Go(core, "eof")
           c == [core EXCEPT !.restart_complete = TRUE, !.woken = TRUE, !.pc = "eof"]
<1>1. core \in CoreState /\ core.pc = "restart" /\ ~core.waking /\ core.pc \notin Emptied
  BY DEF Inv, TypeOK, Restart, At, Emptied
<1>2. g \in CoreState /\ g.pc = "eof" /\ g.seek = core.seek /\ g.cmd = core.cmd
  BY <1>1, CoreGoes
<1>3. c \in CoreState /\ c.pc = "eof" /\ c.seek = core.seek /\ c.cmd = core.cmd
  BY <1>1 DEF CoreState
<1>4. CASE core' \in {g, c} /\ UNCHANGED <<ao, queue, device, graph, played, skipped>>
  <2> HIDE DEF g, c
  <2>1. QED
    BY <1>1, <1>2, <1>3, <1>4, NothingElse, CoreGoesOn
<1>5. CASE UpdateCache(g) /\ UNCHANGED <<queue, graph>>
  <2> HIDE DEF g
  <2>1. Moves(g) /\ g.pc # "reset"
    BY <1>1, <1>2 DEF Moves
  <2>2. QED
    BY <1>1, <1>5, <2>1, UpdateCacheKeeps
<1> DEFINE st == IF core.out_eof THEN "draining" ELSE "playing"
           a == [c EXCEPT !.status = st, !.underrun = FALSE]
<1>6. CASE AoStart(a)
  <2>1. st \in {"syncing", "ready", "playing", "draining", "eof"}
    OBVIOUS
  <2> HIDE DEF st, c
  <2>2. a \in CoreState /\ a.pc = "eof" /\ a.seek = core.seek /\ a.cmd = core.cmd
    BY <1>3, <2>1 DEF CoreState
  <2> HIDE DEF a
  <2>3. Moves(a) /\ a.pc # "reset"
    BY <1>1, <2>2 DEF Moves
  <2>4. QED
    BY <1>6, <2>3, AoStartKeeps
<1>7. \/ core' \in {g, c} /\ UNCHANGED <<ao, queue, device, graph, played, skipped>>
      \/ UpdateCache(g) /\ UNCHANGED <<queue, graph>>
      \/ AoStart(a)
  BY DEF Restart
<1>8. QED
  <2> HIDE DEF g, c, a
  <2>1. QED
    BY <1>4, <1>5, <1>6, <1>7

LEMMA GraphIsFlushed ==
  ASSUME Inv
  PROVE  /\ Flushed \in GraphState /\ Flushed.data = graph.data /\ Flushed.in_data = graph.in_data
         /\ Flushed.requested = graph.requested /\ Flushed.in_requested = graph.in_requested
         /\ Flushed.decoded = graph.decoded /\ Flushed.next = graph.next /\ Flushed.base = graph.base
<1> DEFINE P == graph.pending \union graph.async_pending
<1>1. graph \in GraphState /\ P \in SUBSET Filters
  BY DEF Inv, TypeOK, GraphState
<1>2. Flushed = [graph EXCEPT !.pending = P, !.async_pending = {}, !.wakeup_sent = FALSE]
  BY DEF Flushed
<1> HIDE DEF P
<1>3. QED
  BY <1>1, <1>2 DEF GraphState

LEMMA FlushIsStill ==
  ASSUME Inv, graph' = Flushed, queue' = queue
  PROVE  graph' \in GraphState /\ StreamSame
  BY GraphIsFlushed DEF StreamSame

LEMMA HandleEofKeeps ==
  ASSUME Inv, Rest, HandleEof
  PROVE  Inv'
<1>1. core \in CoreState /\ core.pc = "eof" /\ ~core.waking /\ core.pc \notin Emptied
  BY DEF Inv, TypeOK, HandleEof, At, Emptied
<1>2. CASE core.seek
  <2> DEFINE c == Go(core, "reset")
  <2>1. AoReset(c)
    BY <1>2 DEF HandleEof
  <2>2. c \in CoreState /\ c.pc = "reset" /\ c.seek = core.seek /\ c.cmd = core.cmd
    BY <1>1, CoreGoes
  <2> HIDE DEF c
  <2>3. c.pc \in Emptied
    BY <2>2 DEF Emptied
  <2>4. QED
    BY <1>1, <1>2, <2>1, <2>2, <2>3, AoResetKeeps
<1>3. CASE ~core.seek /\ core.status = "eof"
  BY <1>1, <1>3, CoreGoes, NothingElse, CoreGoesOn DEF HandleEof
<1>4. CASE ~core.seek /\ core.status # "eof"
  <2>1. graph' = Flushed /\ core' = Go(core, "filter") /\ UNCHANGED <<ao, queue, device, played, skipped>>
    BY <1>4 DEF HandleEof
  <2>2. graph' \in GraphState /\ StreamSame
    BY <2>1, FlushIsStill
  <2>3. QED
    BY <1>1, <2>1, <2>2, CoreGoes, CoreGoesOn
<1>5. QED
  BY <1>2, <1>3, <1>4

LEMMA WaitKeeps ==
  ASSUME Inv, Rest, Wait
  PROVE  Inv'
<1> DEFINE k == [core EXCEPT !.woken = FALSE, !.pc = "input"]
<1>1. /\ core \in CoreState /\ core.pc = "wait" /\ ~core.waking /\ core.pc \notin Emptied
      /\ UpdateCache(k) /\ UNCHANGED <<queue, graph>>
  BY DEF Inv, TypeOK, Wait, At, Emptied
<1>2. k \in CoreState /\ k.pc = "input" /\ k.seek = core.seek /\ k.cmd = core.cmd
  BY <1>1 DEF CoreState
<1> HIDE DEF k
<1>3. Moves(k) /\ k.pc # "reset"
  BY <1>1, <1>2 DEF Moves
<1>4. QED
  BY <1>1, <1>3, UpdateCacheKeeps

\* A seek is asked for, by the user or, in mp_process_input(), by the core.
LEMMA SeekIsAsked ==
  ASSUME Inv, UNCHANGED <<setup, ao, queue, device, graph, played, skipped>>, cached' \in BOOLEAN,
         core' \in CoreState, core.waking => core'.waking,
         core'.pc # core.pc => core'.pc # "reset" /\ core.pc \notin Emptied,
         core'.seek = core.seek \/ core'.seek = TRUE,
         commands' \in [seek : 0 .. MaxSeeks, pause : Nat],
         \A k \in Nat : k + One(core.seek) + One(core.cmd = "seek") <= commands.seek
                          => k + One(core'.seek) + One(core'.cmd = "seek") <= commands'.seek
  PROVE  Inv'
<1>1. TypeOK'
  BY DEF Inv, TypeOK
<1>2. DeviceBooks' /\ Pausing'
  BY DEF Inv, DeviceBooks, Pausing
<1>3. SleepInv'
  BY DEF Inv, SleepInv, GoesToSleep, NothingToDo, Inactive
<1>4. StreamSame
  BY DEF StreamSame
<1>5. StreamInv'
  BY <1>4, StreamKept DEF Inv
<1>6. ContentInv'
  BY <1>4, ContentKept DEF Inv
<1>7. SeekInv'
  <2>1. PICK k \in 0 .. MaxSeeks :
          /\ graph.base = k * Length
          /\ k + One(core.seek) + One(core.cmd = "seek") <= commands.seek
    BY DEF Inv, SeekInv
  <2>2. k \in Nat /\ k + One(core'.seek) + One(core'.cmd = "seek") <= commands'.seek
    BY <2>1, LengthIsNat
  <2>3. core'.pc = "reset" => core'.seek /\ queue'.frames = <<>> /\ ~ao'.playing
    BY DEF Inv, SeekInv
  <2>4. QED
    BY <2>1, <2>2, <2>3 DEF SeekInv
<1>8. QED
  BY <1>1, <1>2, <1>3, <1>5, <1>6, <1>7 DEF Inv

LEMMA InputKeeps ==
  ASSUME Inv, Rest, Input
  PROVE  Inv'
<1> DEFINE c == [core EXCEPT !.cmd = "none", !.pc = "fill"]
<1>1. /\ core \in CoreState /\ core.pc = "input" /\ ~core.waking /\ core.pc \notin Emptied
      /\ UNCHANGED <<queue, graph>>
  BY DEF Inv, TypeOK, Input, At, Emptied
<1>2. c \in CoreState /\ c.pc = "fill" /\ c.seek = core.seek /\ c.cmd = "none"
  BY <1>1 DEF CoreState
<1>3. CASE core.cmd = "pause"
  <2> DEFINE q == ~c.pause
             d == [c EXCEPT !.pause = q]
  <2>1. SetPauseState(d)
    BY <1>3 DEF Input
  <2> HIDE DEF c
  <2>2. q \in BOOLEAN
    BY <1>2 DEF CoreState
  <2> HIDE DEF q
  <2>3. d \in CoreState /\ d.pc = "fill" /\ d.seek = core.seek /\ d.cmd = "none"
    BY <1>2, <2>2 DEF CoreState
  <2> HIDE DEF d
  <2>4. Moves(d) /\ d.pc # "reset"
    BY <1>1, <2>3 DEF Moves
  <2>5. QED
    BY <1>1, <2>1, <2>4, PauseKeeps
<1>4. CASE core.cmd = "seek"
  <2> DEFINE d == [c EXCEPT !.seek = TRUE, !.woken = TRUE]
  <2>1. core' = d /\ UNCHANGED <<ao, device, played, skipped>>
    BY <1>4 DEF Input
  <2> HIDE DEF c
  <2>2. d \in CoreState /\ d.pc = "fill" /\ d.seek = TRUE /\ d.cmd = "none"
    BY <1>2 DEF CoreState
  <2> HIDE DEF d
  <2>3. One(core'.seek) = 1 /\ One(core'.cmd = "seek") = 0 /\ One(core.cmd = "seek") = 1
    BY <1>4, <2>1, <2>2 DEF One
  <2>4. One(core.seek) \in 0 .. 1 /\ commands' = commands /\ commands.seek \in Nat
    BY LengthIsNat DEF One, Rest, Inv, TypeOK
  <2>5. \A k \in Nat : k + One(core.seek) + One(core.cmd = "seek") <= commands.seek
                         => k + One(core'.seek) + One(core'.cmd = "seek") <= commands'.seek
    BY <2>3, <2>4
  <2>6. commands' \in [seek : 0 .. MaxSeeks, pause : Nat]
    BY <2>4 DEF Inv, TypeOK
  <2>7. core'.pc = "fill"
    BY <2>1, <2>2
  <2>8. cached' \in BOOLEAN /\ setup' = setup
    BY DEF Rest, Inv, TypeOK
  <2>9. QED
    BY <1>1, <2>1, <2>2, <2>5, <2>6, <2>7, <2>8, SeekIsAsked
<1>5. CASE core.cmd = "none"
  <2>1. core' = c /\ UNCHANGED <<ao, device, played, skipped>>
    BY <1>5 DEF Input
  <2> HIDE DEF c
  <2>2. QED
    BY <1>1, <1>2, <1>5, <2>1, NothingElse, CoreGoesOn
<1>6. QED
  BY <1>1, <1>3, <1>4, <1>5 DEF CoreState

-------------------------------------------------------------------------------
(* The filter graph of the core. *)

\* Frames move on in the graph, or into the queue, and none is lost.
LEMMA FramesFlow ==
  ASSUME Inv, Rest, Moves(core'),
         core'.pc = "reset" => queue'.frames = queue.frames /\ (~ao.playing => ~ao'.playing),
         ao' \in AoState, queue' \in QueueState, graph' \in GraphState,
         SampleCount(queue'.frames) <= QueueSize, UNCHANGED <<device, played, skipped>>,
         graph'.base = graph.base, StreamInv', FirstQueued' = FirstQueued,
         DeviceBooks', Pausing', SleepInv'
  PROVE  Inv'
<1>1. TypeOK'
  BY DEF Inv, TypeOK, Moves, Rest
<1>2. Written' = Written
  BY DEF Written
<1>3. ContentInv'
  BY <1>2 DEF Inv, ContentInv, Moves, Rest
<1>4. SeekInv'
  <2>1. commands.seek \in Nat
    BY LengthIsNat DEF Inv, TypeOK
  <2>2. QED
    BY <2>1, SeekKept DEF Inv, Moves, Rest
<1>5. QED
  BY <1>1, <1>3, <1>4 DEF Inv, Rest

\* A decoded frame is the next of the file, or its end.
LEMMA NthIsFrame ==
  ASSUME Inv, graph.next <= Length + 1
  PROVE  Nth(graph.base, graph.next) \in Frame
<1>1. PICK k \in 0 .. MaxSeeks : graph.base = k * Length
  BY DEF Inv, SeekInv
<1>2. graph.next \in Nat \ {0} /\ k \in Nat /\ MaxSeeks \in Nat /\ Length \in Nat /\ k <= MaxSeeks
  <2>1. MaxSeeks \in Nat /\ Length \in Nat
    BY LengthIsNat
  <2>2. graph.next \in 1 .. Length + 2
    BY Numbers
  <2>3. QED
    BY <2>1, <2>2
<1>3. CASE graph.next > Length
  BY <1>3, FrameIsNat DEF Nth
<1>4. CASE ~(graph.next > Length)
  <2>1. \A m, n, l \in Nat : m <= n => m * l <= n * l /\ m * l \in Nat
    OBVIOUS
  <2>2. k * Length <= MaxSeeks * Length /\ k * Length \in Nat
    BY <1>2, <2>1
  <2>3. (MaxSeeks + 1) * Length = MaxSeeks * Length + Length /\ MaxSeeks * Length \in Nat
    BY <1>2
  <2>4. graph.base + graph.next \in 1 .. (MaxSeeks + 1) * Length
    <3> DEFINE a == k * Length
               b == MaxSeeks * Length
    <3>1. a \in Nat /\ b \in Nat /\ a <= b
      BY <2>2, <2>3
    <3> HIDE DEF a, b
    <3>2. a + graph.next \in 1 .. b + Length
      BY <1>2, <1>4, <3>1
    <3>3. QED
      BY <1>1, <2>3, <3>2 DEF a, b
  <2>5. QED
    BY <1>4, <2>4 DEF Nth, Frame, Samples, LastSample
<1>5. QED
  BY <1>3, <1>4

LEMMA Filtered ==
  ASSUME Inv, At("filter") \/ At("filtered"), NEW c \in CoreState, c.pc \in {"filter", "filtered", "wait"},
         c.seek = core.seek, c.cmd = core.cmd
  PROVE  Moves(c) /\ c.pc # "reset"
  BY DEF Moves, At, Emptied

LEMMA NobodyIsTold ==
  ASSUME Inv, UNCHANGED <<ao, queue, device, setup>>, core' \in CoreState, ~core.waking
  PROVE  /\ ao' \in AoState /\ queue' \in QueueState /\ SampleCount(queue'.frames) <= QueueSize
         /\ DeviceBooks' /\ Pausing' /\ SleepInv'
<1>1. ao' \in AoState /\ queue' \in QueueState /\ SampleCount(queue'.frames) <= QueueSize
  BY DEF Inv, TypeOK
<1>2. DeviceBooks' /\ Pausing'
  BY DEF Inv, DeviceBooks, Pausing
<1>3. SleepInv'
  BY DEF Inv, SleepInv, GoesToSleep, NothingToDo, Inactive
<1>4. QED
  BY <1>1, <1>2, <1>3

LEMMA ProcessDecoderKeeps ==
  ASSUME Inv, Rest, ProcessDecoder
  PROVE  Inv'
<1>1. /\ core \in CoreState /\ ~core.waking /\ (At("filter") \/ At("filtered"))
      /\ core' = Go(core, "filtered") /\ UNCHANGED <<ao, queue, device, played, skipped>>
      /\ graph \in GraphState
  BY DEF Inv, TypeOK, ProcessDecoder, Processes, At
<1>2. core' \in CoreState /\ Moves(core') /\ core'.pc # "reset"
  <2>1. /\ core' \in CoreState /\ core'.pc = "filtered" /\ core'.seek = core.seek
        /\ core'.cmd = core.cmd
    BY <1>1, CoreGoes
  <2>2. QED
    BY <1>1, <2>1, Filtered
<1>3. /\ ao' \in AoState /\ queue' \in QueueState /\ SampleCount(queue'.frames) <= QueueSize
      /\ DeviceBooks' /\ Pausing' /\ SleepInv'
  BY <1>1, <1>2, NobodyIsTold DEF Rest
<1>4. CASE ~(graph.decoded /\ graph.requested)
  <2>1. graph' = Done("dec")
    BY <1>4 DEF ProcessDecoder
  <2>2. graph' \in GraphState /\ StreamSame
    BY <1>1, <2>1 DEF Done, GraphState, StreamSame
  <2>3. StreamInv' /\ FirstQueued' = FirstQueued /\ graph'.base = graph.base
    BY <2>2, StreamKept DEF Inv, StreamSame
  <2>4. QED
    BY <1>1, <1>2, <1>3, <2>2, <2>3, FramesFlow
<1>5. CASE graph.decoded /\ graph.requested
  <2> DEFINE f == IF graph.next > Length THEN Eof ELSE graph.base + graph.next
             n == graph.next + 1
             P == (graph.pending \ {"dec"}) \union {"ao"}
  <2>1. graph' = [graph EXCEPT !.pending = P, !.data = <<f>>, !.next = n, !.decoded = FALSE,
                               !.requested = FALSE]
    <3>1. graph' = [Done("dec") EXCEPT !.data = IF graph.next > Length THEN <<Eof>>
                                                ELSE <<graph.base + graph.next>>,
                                !.next = @ + 1, !.decoded = FALSE, !.requested = FALSE,
                                !.pending = @ \union {"ao"}]
      BY <1>5 DEF ProcessDecoder
    <3>2. (IF graph.next > Length THEN <<Eof>> ELSE <<graph.base + graph.next>>) = <<f>>
      OBVIOUS
    <3> HIDE DEF f
    <3>3. QED
      BY <1>1, <3>1, <3>2 DEF Done, GraphState
  <2>2. graph.next <= Length + 1 /\ graph.data = <<>> /\ graph.next \in 1 .. Length + 2
    BY <1>5, Numbers DEF Inv, StreamInv
  <2>3. n \in 1 .. Length + 2
    BY <2>2, LengthIsNat
  <2>4. f = Nth(graph.base, graph.next) /\ f \in Frame
    <3>1. f = Nth(graph.base, graph.next)
      BY DEF Nth
    <3>2. QED
      BY <2>2, <3>1, NthIsFrame
  <2>5. P \in SUBSET Filters /\ <<f>> \in Seq(Frame)
    BY <1>1, <2>4 DEF GraphState, Filters
  <2> HIDE DEF f, P, n
  <2>6. graph' \in GraphState
    BY <1>1, <2>1, <2>3, <2>5 DEF GraphState
  <2>7. /\ graph'.data = <<f>> /\ graph'.next = n /\ ~graph'.requested /\ ~graph'.decoded
        /\ graph'.in_data = graph.in_data /\ graph'.in_requested = graph.in_requested
        /\ graph'.base = graph.base
    BY <1>1, <2>1 DEF GraphState
  <2>8. /\ Flows(queue.frames, graph.in_data, <<f>>, n, graph.base)
        /\ Start(queue.frames, graph.in_data, <<f>>, n) = FirstQueued
    <3>1. Flows(queue.frames, graph.in_data, <<>>, graph.next, graph.base)
      BY <2>2 DEF Inv, StreamInv
    <3>2. FirstQueued = Start(queue.frames, graph.in_data, <<>>, graph.next)
      BY <2>2 DEF FirstQueued
    <3>3. queue.frames \in Seq(Frame) /\ graph.in_data \in Seq(Frame) /\ graph.base \in Nat
          /\ graph.next \in Nat
      BY FlowNumbers
    <3>4. QED
      BY <2>4, <3>1, <3>2, <3>3, FlowMakes DEF n
  <2>9. StreamInv' /\ FirstQueued' = FirstQueued
    BY <1>1, <2>7, <2>8 DEF Inv, StreamInv, FirstQueued
  <2>10. QED
    BY <1>1, <1>2, <1>3, <2>6, <2>7, <2>9, FramesFlow
<1>6. QED
  BY <1>4, <1>5

LEMMA ProcessAoKeeps ==
  ASSUME Inv, Rest, ProcessAo
  PROVE  Inv'
<1> DEFINE frame == graph.data[1]
           told == core.status # "playing" /\ Full
<1>1. /\ core \in CoreState /\ ~core.waking /\ (At("filter") \/ At("filtered"))
      /\ UNCHANGED <<ao, queue, device, played, skipped>>
      /\ graph \in GraphState
  BY DEF Inv, TypeOK, ProcessAo, Processes, At
<1>2. /\ MayPass /\ graph.data # <<>> =>
           /\ graph' = [Done("ao") EXCEPT !.data = <<>>, !.in_data = <<frame>>,
                                          !.in_requested = FALSE,
                          !.pending = @ \union (IF frame = Eof THEN {"in", "ao"} ELSE {"in"})]
           /\ core' = [core EXCEPT !.out_eof = (frame = Eof), !.pc = "filtered",
                                   !.woken = @ \/ told \/ frame = Eof]
      /\ MayPass /\ graph.data = <<>> =>
           /\ graph' = [Done("ao") EXCEPT !.requested = TRUE,
                          !.pending = IF graph.requested THEN @ ELSE @ \union {"dec"}]
           /\ core' = [core EXCEPT !.pc = "filtered", !.woken = @ \/ told]
      /\ ~MayPass => /\ graph' = Done("ao")
                     /\ core' = [core EXCEPT !.pc = "filtered", !.woken = @ \/ told]
  BY DEF ProcessAo
<1>3. /\ core' \in CoreState /\ core'.pc = "filtered" /\ core'.seek = core.seek
      /\ core'.cmd = core.cmd
  <2> DEFINE w == core.woken \/ told
             v == core.woken \/ told \/ frame = Eof
             o == (frame = Eof)
  <2>1. \/ core' = [core EXCEPT !.out_eof = o, !.pc = "filtered", !.woken = v]
        \/ core' = [core EXCEPT !.pc = "filtered", !.woken = w]
    BY <1>2
  <2>2. w \in BOOLEAN /\ v \in BOOLEAN /\ o \in BOOLEAN
    BY <1>1 DEF CoreState
  <2> HIDE DEF w, v, o
  <2>3. QED
    BY ZenonT(30), <1>1, <2>1, <2>2 DEF CoreState
<1>4. Moves(core') /\ core'.pc # "reset"
  BY <1>1, <1>3, Filtered
<1>5. /\ ao' \in AoState /\ queue' \in QueueState /\ SampleCount(queue'.frames) <= QueueSize
      /\ DeviceBooks' /\ Pausing' /\ SleepInv'
  BY <1>1, <1>3, NobodyIsTold DEF Rest
<1>6. CASE ~MayPass
  <2>1. graph' = Done("ao")
    BY <1>2, <1>6
  <2>2. graph' \in GraphState /\ StreamSame
    BY <1>1, <2>1 DEF Done, GraphState, StreamSame
  <2>3. StreamInv' /\ FirstQueued' = FirstQueued /\ graph'.base = graph.base
    BY <2>2, StreamKept DEF Inv, StreamSame
  <2>4. QED
    BY <1>1, <1>4, <1>5, <2>2, <2>3, FramesFlow
<1>7. CASE MayPass /\ graph.data = <<>>
  <2> DEFINE P == IF graph.requested THEN graph.pending \ {"ao"}
                  ELSE (graph.pending \ {"ao"}) \union {"dec"}
  <2>1. graph' = [graph EXCEPT !.requested = TRUE, !.pending = P]
    BY <1>1, <1>2, <1>7 DEF Done, GraphState
  <2>2. P \in SUBSET Filters
    BY <1>1 DEF GraphState, Filters
  <2> HIDE DEF P
  <2>3. /\ graph' \in GraphState /\ graph'.data = <<>> /\ graph'.next = graph.next
        /\ graph'.in_data = graph.in_data /\ graph'.in_requested = graph.in_requested
        /\ graph'.base = graph.base /\ graph'.decoded = graph.decoded
    BY <1>1, <1>7, <2>1, <2>2 DEF GraphState
  <2>4. StreamInv' /\ FirstQueued' = FirstQueued
    BY <1>1, <1>7, <2>3 DEF Inv, StreamInv, FirstQueued
  <2>5. QED
    BY <1>1, <1>4, <1>5, <2>3, <2>4, FramesFlow
<1>8. CASE MayPass /\ graph.data # <<>>
  <2> DEFINE P == (graph.pending \ {"ao"}) \union (IF frame = Eof THEN {"in", "ao"} ELSE {"in"})
  <2>1. graph.in_data = <<>>
    BY <1>8 DEF MayPass, Inv, StreamInv
  <2>2. graph.data = <<frame>> /\ graph.data \in Seq(Frame)
    <3>1. graph.data \in Seq(Frame) /\ Len(graph.data) \in 0 .. 1
      BY Numbers
    <3>2. Len(graph.data) = 1
      BY <1>8, <3>1
    <3>3. QED
      BY <3>1, <3>2
  <2>3. graph' = [graph EXCEPT !.pending = P, !.data = <<>>, !.in_data = <<frame>>, !.in_requested = FALSE]
    BY <1>1, <1>2, <1>8 DEF Done, GraphState
  <2>4. P \in SUBSET Filters /\ <<>> \in Seq(Frame)
    BY <1>1 DEF GraphState, Filters
  <2> HIDE DEF P, frame
  <2>5. /\ graph' \in GraphState /\ graph'.data = <<>> /\ graph'.next = graph.next
        /\ graph'.in_data = graph.data /\ ~graph'.in_requested
        /\ graph'.base = graph.base /\ graph'.decoded = graph.decoded
    BY <1>1, <2>2, <2>3, <2>4 DEF GraphState
  <2>6. /\ Flows(queue.frames, graph.data, <<>>, graph.next, graph.base)
        /\ Start(queue.frames, graph.data, <<>>, graph.next) = FirstQueued
    <3>1. Flows(queue.frames, <<>>, graph.data, graph.next, graph.base)
      BY <2>1 DEF Inv, StreamInv
    <3>2. FirstQueued = Start(queue.frames, <<>>, graph.data, graph.next)
      BY <2>1 DEF FirstQueued
    <3>3. /\ queue.frames \in Seq(Frame) /\ graph.data \in Seq(Frame) /\ graph.base \in Nat
          /\ graph.next \in Nat
      BY FlowNumbers
    <3>4. QED
      BY <3>1, <3>2, <3>3, FlowMoves
  <2>7. StreamInv' /\ FirstQueued' = FirstQueued
    BY <1>1, <2>5, <2>6 DEF Inv, StreamInv, FirstQueued
  <2>8. QED
    BY <1>1, <1>4, <1>5, <2>5, <2>7, FramesFlow
<1>9. QED
  BY <1>6, <1>7, <1>8

LEMMA CountPushes ==
  ASSUME NEW s \in Seq(Frame), NEW i \in Seq(Frame), Len(i) \in 0 .. 1, NEW base \in Nat,
         NEW k \in Nat \ {0}, Numbered(s, base, k), Numbered(s \o i, base, k),
         k + Len(s) + Len(i) <= Length + 2, SampleCount(s) < QueueSize
  PROVE  SampleCount(s \o i) <= QueueSize
<1> DEFINE l == Len(s)
           m == Len(i)
<1>1. /\ l \in Nat /\ m \in 0 .. 1 /\ Length \in Nat /\ QueueSize \in Nat
      /\ k + l + m <= Length + 2 /\ SampleCount(s) < QueueSize
  BY LengthIsNat
<1>2. s \o i \in Seq(Frame) /\ Len(s \o i) = l + m
  BY Appended
<1>3. k + Len(s) <= Length + 2 /\ k + Len(s \o i) <= Length + 2
  <2>1. k + l <= Length + 2 /\ k + (l + m) <= Length + 2
    <3> HIDE DEF l, m
    <3>1. QED
      BY <1>1
  <2>2. QED
    BY <1>2, <2>1
<1>4. SampleCount(s) = IF Len(s) = 0 \/ k + Len(s) <= Length + 1 THEN Len(s) ELSE Len(s) - 1
  BY <1>3, Counted
<1>5. SampleCount(s \o i) = IF Len(s \o i) = 0 \/ k + Len(s \o i) <= Length + 1
                              THEN Len(s \o i) ELSE Len(s \o i) - 1
  BY <1>2, <1>3, Counted
<1>6. /\ SampleCount(s) = IF l = 0 \/ k + l <= Length + 1 THEN l ELSE l - 1
      /\ SampleCount(s \o i) = IF l + m = 0 \/ k + (l + m) <= Length + 1 THEN l + m ELSE l + m - 1
  BY <1>2, <1>4, <1>5
<1>7. QED
  <2> HIDE DEF l, m
  <2>1. QED
    BY <1>1, <1>6

\* What the queue tells playthread when a frame is pushed.
LEMMA ReaderIsWoken ==
  ASSUME Inv, setup' = setup, ao' = WakeReader(ao), queue'.wakeup_sent, queue'.async_pending,
         core'.waking = core.waking
  PROVE  /\ ao' \in AoState /\ SleepInv'
         /\ UNCHANGED <<ao.playing, ao.streaming, ao.paused, ao.hw_paused, ao.recover_pause>>
<1>1. ao \in AoState
  BY DEF Inv, TypeOK
<1>2. CASE queue.wakeup_sent
  <2>1. ao' = ao
    BY <1>2 DEF WakeReader
  <2>2. ~(GoesToSleep /\ ~ao.timed /\ ~core.waking /\ ~Inactive)
    BY <1>2 DEF Inv, SleepInv, NothingToDo
  <2>3. GoesToSleep' = GoesToSleep /\ Inactive' = Inactive
    BY <2>1 DEF GoesToSleep, Inactive
  <2>4. SleepInv'
    BY <2>1, <2>2, <2>3 DEF Inv, SleepInv
  <2>5. QED
    BY <1>1, <2>1, <2>4
<1>3. CASE ~queue.wakeup_sent
  <2>1. ao' = WakePlaythread(ao)
    BY <1>3 DEF WakeReader
  <2>2. /\ ao' \in AoState /\ ao'.need_wakeup /\ ao'.pc # "sleep"
        /\ UNCHANGED <<ao.playing, ao.streaming, ao.paused, ao.hw_paused, ao.recover_pause>>
    BY <1>1, <2>1, Woken
  <2>3. SleepInv'
    BY <2>2 DEF SleepInv, GoesToSleep
  <2>4. QED
    BY <2>2, <2>3
<1>4. QED
  BY <1>2, <1>3

LEMMA ProcessInKeeps ==
  ASSUME Inv, Rest, ProcessIn
  PROVE  Inv'
<1> DEFINE takes  == ~Full /\ graph.in_data # <<>>
           frames == IF takes THEN queue.frames \o graph.in_data ELSE queue.frames
           full   == SampleCount(frames) >= QueueSize
           asks   == ~Full /\ ~full /\ ~graph.in_requested
           tells  == (takes /\ full) \/ frames = <<>>
           P      == IF asks THEN (graph.pending \ {"in"}) \union {"ao"} ELSE graph.pending \ {"in"}
           A      == IF tells THEN graph.async_pending \union {"ao"} ELSE graph.async_pending
           i      == IF takes THEN <<>> ELSE graph.in_data
           r      == graph.in_requested \/ asks
           s      == graph.wakeup_sent \/ tells
           w      == core.woken \/ (tells /\ WakesCore)
<1>1. /\ core \in CoreState /\ ~core.waking /\ (At("filter") \/ At("filtered"))
      /\ UNCHANGED <<device, played, skipped>>
      /\ graph \in GraphState /\ queue \in QueueState /\ ao \in AoState
  BY DEF Inv, TypeOK, ProcessIn, Processes, At
<1>2. /\ queue' = IF takes THEN [NotifyReader(queue) EXCEPT !.frames = frames] ELSE queue
      /\ ao' = IF takes THEN WakeReader(ao) ELSE ao
      /\ graph' = [Done("in") EXCEPT !.in_data = IF takes THEN <<>> ELSE @,
                                     !.in_requested = @ \/ asks,
                                     !.pending = IF asks THEN @ \union {"ao"} ELSE @,
                                     !.async_pending = IF tells THEN @ \union {"ao"} ELSE @,
                                     !.wakeup_sent = @ \/ tells]
      /\ core' = [core EXCEPT !.pc = "filtered", !.woken = @ \/ (tells /\ WakesCore)]
  BY DEF ProcessIn
<1>3. core' \in CoreState /\ core'.pc = "filtered" /\ core'.seek = core.seek /\ core'.cmd = core.cmd
      /\ core'.waking = core.waking
  <2>1. core' = [core EXCEPT !.pc = "filtered", !.woken = w] /\ w \in BOOLEAN
    BY <1>1, <1>2 DEF CoreState
  <2> HIDE DEF w
  <2>2. QED
    BY <1>1, <2>1 DEF CoreState
<1>4. Moves(core') /\ core'.pc # "reset"
  BY <1>1, <1>3, Filtered
<1>5. graph' = [graph EXCEPT !.pending = P, !.async_pending = A, !.in_data = i,
                             !.in_requested = r, !.wakeup_sent = s]
  <2> HIDE DEF frames, takes, asks, tells
  <2>1. QED
    BY <1>1, <1>2 DEF Done, GraphState
<1>6. /\ P \in SUBSET Filters /\ A \in SUBSET Filters /\ i \in Seq(Frame) /\ r \in BOOLEAN
      /\ s \in BOOLEAN
  <2>1. <<>> \in Seq(Frame)
    OBVIOUS
  <2> HIDE DEF frames, takes, asks, tells
  <2>2. QED
    BY <1>1, <2>1 DEF GraphState, Filters
<1>7. /\ graph' \in GraphState /\ graph'.data = graph.data /\ graph'.in_data = i
      /\ graph'.in_requested = r /\ graph'.requested = graph.requested
      /\ graph'.next = graph.next /\ graph'.base = graph.base /\ graph'.decoded = graph.decoded
  <2> HIDE DEF P, A, i, r, s
  <2>1. QED
    BY <1>1, <1>5, <1>6 DEF GraphState
<1>8. r => i = <<>>
  <2>1. graph.in_requested => graph.in_data = <<>>
    BY DEF Inv, StreamInv
  <2>2. QED
    BY <2>1
<1>9. CASE ~takes
  <2>1. queue' = queue /\ ao' = ao /\ graph'.in_data = graph.in_data
    BY <1>2, <1>7, <1>9
  <2> HIDE DEF i, r, takes
  <2>2. StreamInv' /\ FirstQueued' = FirstQueued
    BY <1>7, <1>8, <2>1 DEF Inv, StreamInv, FirstQueued
  <2>3. /\ ao' \in AoState /\ queue' \in QueueState /\ SampleCount(queue'.frames) <= QueueSize
        /\ DeviceBooks' /\ Pausing' /\ SleepInv'
    BY <1>1, <1>3, <2>1, NobodyIsTold DEF Rest
  <2>4. QED
    BY <1>1, <1>4, <1>7, <2>2, <2>3, FramesFlow
<1>10. CASE takes
  <2> DEFINE q == queue.frames \o graph.in_data
  <2>1. /\ queue' = [NotifyReader(queue) EXCEPT !.frames = q] /\ ao' = WakeReader(ao)
        /\ graph'.in_data = <<>> /\ SampleCount(queue.frames) < QueueSize
    <3>1. SampleCount(queue.frames) \in Nat
      <4>1. IsFiniteSet({j \in DOMAIN queue.frames : queue.frames[j] # Eof})
        <5>1. DOMAIN queue.frames = 1 .. Len(queue.frames) /\ Len(queue.frames) \in Nat
          BY Numbers
        <5>2. IsFiniteSet(1 .. Len(queue.frames))
          BY <5>1, FS_Interval
        <5>3. QED
          BY <5>1, <5>2, FS_Subset
      <4>2. QED
        BY <4>1, FS_CardinalityType DEF SampleCount
    <3>2. QED
      BY <1>2, <1>7, <1>10, <3>1, LengthIsNat DEF Full
  <2>2. /\ queue.frames \in Seq(Frame) /\ graph.in_data \in Seq(Frame) /\ graph.data \in Seq(Frame)
        /\ graph.base \in Nat /\ graph.next \in Nat /\ q \in Seq(Frame)
    BY FlowNumbers, Appended
  <2>3. /\ Flows(q, <<>>, graph.data, graph.next, graph.base)
        /\ Start(q, <<>>, graph.data, graph.next) = FirstQueued
    <3>1. Flows(queue.frames, graph.in_data, graph.data, graph.next, graph.base)
      BY DEF Inv, StreamInv
    <3>2. QED
      BY <2>2, <3>1, FlowPushes DEF FirstQueued
  <2>4. SampleCount(q) <= QueueSize
    <3>1. Numbered(queue.frames, graph.base, FirstQueued)
      BY DEF Inv, StreamInv, Flows, FirstQueued
    <3>2. Numbered(q, graph.base, FirstQueued)
      BY <2>3 DEF Flows
    <3>3. /\ FirstQueued \in Nat \ {0} /\ Len(graph.in_data) \in 0 .. 1
          /\ FirstQueued + Len(queue.frames) + Len(graph.in_data) <= Length + 2
      <4>1. \A a, b, c \in Nat, d \in 0 .. 1, n \in 1 .. Length + 2 :
              a + b + c + d = n => a + b + c <= Length + 2
        BY LengthIsNat
      <4>2. /\ FirstQueued \in Nat \ {0} /\ Len(graph.in_data) \in 0 .. 1 /\ Len(graph.data) \in 0 .. 1
            /\ FirstQueued + Len(queue.frames) + Len(graph.in_data) + Len(graph.data) = graph.next
            /\ graph.next \in 1 .. Length + 2 /\ Len(queue.frames) \in Nat
            /\ Len(graph.in_data) \in Nat
        BY Numbers, FlowNumbers, ZenonT(30)
      <4>3. QED
        BY <4>1, <4>2
    <3>4. QED
      BY <2>1, <2>2, <3>1, <3>2, <3>3, CountPushes
  <2> HIDE DEF q, i, r, takes
  <2>5. /\ queue' \in QueueState /\ queue'.frames = q /\ queue'.wakeup_sent /\ queue'.async_pending
        /\ queue'.requested = queue.requested
    BY <1>1, <2>1, <2>2 DEF NotifyReader, QueueState
  <2>6. /\ ao' \in AoState /\ SleepInv'
        /\ UNCHANGED <<ao.playing, ao.streaming, ao.paused, ao.hw_paused, ao.recover_pause>>
    BY <1>1, <1>3, <2>1, <2>5, ReaderIsWoken DEF Rest
  <2>7. DeviceBooks' /\ Pausing'
    BY <1>1, <2>6 DEF Inv, DeviceBooks, Pausing, Rest
  <2>8. StreamInv' /\ FirstQueued' = FirstQueued
    BY <1>7, <1>8, <2>1, <2>3, <2>5 DEF Inv, StreamInv, FirstQueued
  <2>9. QED
    BY <1>1, <1>4, <1>7, <2>4, <2>5, <2>6, <2>7, <2>8, FramesFlow
<1>11. QED
  BY <1>9, <1>10

LEMMA EndGraphKeeps ==
  ASSUME Inv, Rest, EndGraph
  PROVE  Inv'
<1>1. /\ core \in CoreState /\ ~core.waking /\ (At("filter") \/ At("filtered"))
      /\ UNCHANGED <<ao, queue, device, played, skipped>> /\ graph \in GraphState
      /\ core.pc \notin Emptied
  BY DEF Inv, TypeOK, EndGraph, At, Emptied
<1>2. /\ core' \in CoreState /\ core'.pc \in {core.pc, "wait"} /\ core'.seek = core.seek
      /\ core'.cmd = core.cmd
  <2> DEFINE w == core.woken \/ WakesCore
  <2>1. \/ core' = core
        \/ core' = Go(core, "wait")
        \/ core' = [core EXCEPT !.woken = w, !.pc = "wait"]
    BY DEF EndGraph
  <2>2. w \in BOOLEAN
    BY <1>1 DEF CoreState
  <2> HIDE DEF w
  <2>3. CASE core' = core
    BY <1>1, <2>3
  <2>4. CASE core' = Go(core, "wait")
    BY <1>1, <2>4, CoreGoes
  <2>5. CASE core' = [core EXCEPT !.woken = w, !.pc = "wait"]
    BY <1>1, <2>2, <2>5 DEF CoreState
  <2>6. QED
    BY <2>1, <2>3, <2>4, <2>5
<1>3. core'.pc # "reset"
  BY <1>1, <1>2 DEF Emptied
<1>4. graph' \in GraphState /\ StreamSame
  <2>1. graph' = Flushed \/ graph' = [graph EXCEPT !.wakeup_sent = TRUE]
    BY DEF EndGraph
  <2>2. CASE graph' = [graph EXCEPT !.wakeup_sent = TRUE]
    BY <1>1, <2>2 DEF GraphState, StreamSame
  <2>3. QED
    BY <1>1, <2>1, <2>2, FlushIsStill
<1>5. QED
  BY <1>1, <1>2, <1>3, <1>4, CoreGoesOn

-------------------------------------------------------------------------------
(* The end of playback; the decoder thread, the demuxer and the user. *)
LEMMA UninitKeeps ==
  ASSUME Inv, Rest, Uninit
  PROVE  Inv'
<1>1. /\ core \in CoreState /\ core.pc = "uninit" /\ ~core.waking
      /\ core' = Go(core, "draining") \/ core' = Go(core, "terminate")
      /\ UNCHANGED <<ao, queue, device, graph, played, skipped>>
  BY DEF Inv, TypeOK, Uninit, At
<1>2. QED
  BY <1>1, CoreGoes, NothingElse, CoreGoesOn DEF Emptied

LEMMA DrainKeeps ==
  ASSUME Inv, Rest, Drain
  PROVE  Inv'
<1>1. /\ core \in CoreState /\ ~core.waking /\ core.pc \notin Emptied
      /\ \A pc \in {"draining", "delay", "drainwait", "drained"} :
           /\ Go(core, pc) \in CoreState /\ Go(core, pc).pc = pc
           /\ Go(core, pc).seek = core.seek /\ Go(core, pc).cmd = core.cmd
  <2>1. core \in CoreState
    BY DEF Inv, TypeOK
  <2>2. ~core.waking /\ core.pc \notin Emptied
    BY DEF Drain, DrainTest, DrainWait, DrainTimeout, DrainWoken, Drained, At, Emptied
  <2>3. QED
    BY <2>1, <2>2, CoreGoes
<1>2. CASE /\ \E pc \in {"draining", "delay", "drainwait", "drained"} : core' = Go(core, pc)
           /\ UNCHANGED <<ao, queue, device, graph, played, skipped>>
  BY <1>1, <1>2, NothingElse, CoreGoesOn
<1>3. CASE AoStart(Go(core, "draining"))
  <2>1. Moves(Go(core, "draining")) /\ Go(core, "draining").pc # "reset"
    BY <1>1 DEF Moves
  <2>2. QED
    BY <1>3, <2>1, AoStartKeeps
<1>4. CASE Drained
  <2> DEFINE c == Go(core, "terminate")
  <2>1. c \in CoreState /\ c.pc = "terminate" /\ c.seek = core.seek /\ c.cmd = core.cmd
    BY <1>1, CoreGoes
  <2>2. AoReset(c)
    BY <1>4 DEF Drained
  <2> HIDE DEF c
  <2>3. c.pc \in Emptied
    BY <2>1 DEF Emptied
  <2>4. QED
    BY <1>1, <2>1, <2>2, <2>3, AoResetKeeps
<1>5. QED
  BY <1>2, <1>3, <1>4 DEF Drain, DrainTest, DrainWait, DrainTimeout, DrainWoken

LEMMA TerminateKeeps ==
  ASSUME Inv, Rest, Terminate
  PROVE  Inv'
<1>1. /\ core \in CoreState /\ core.pc = "terminate" /\ ~core.waking /\ core' = Go(core, "join")
      /\ ao \in AoState /\ UNCHANGED <<queue, device, graph, played, skipped>>
  BY DEF Inv, TypeOK, Terminate, At
<1>2. /\ ao' \in AoState /\ ao'.pc # "sleep"
      /\ UNCHANGED <<ao.playing, ao.streaming, ao.paused, ao.hw_paused, ao.recover_pause,
                     ao.need_wakeup, ao.retry, ao.timed>>
      /\ ao'.pc = "check" => ao.pc = "check"
  BY <1>1 DEF Terminate, AoState
<1>3. /\ core' \in CoreState /\ core'.pc = "join" /\ core'.seek = core.seek
      /\ core'.cmd = core.cmd /\ core'.waking = core.waking
  BY <1>1, CoreGoes
<1>4. Moves(core')
  BY <1>3 DEF Moves, Emptied
<1>5. DeviceBooks' /\ Pausing'
  BY <1>1, <1>2 DEF Inv, DeviceBooks, Pausing, Rest
<1>6. SleepInv'
  BY <1>1, <1>2, <1>3 DEF Inv, SleepInv, GoesToSleep, NothingToDo, Inactive, Rest
<1>7. StreamSame /\ queue' \in QueueState /\ device' \in DeviceState /\ graph' \in GraphState
  BY <1>1 DEF StreamSame, Inv, TypeOK
<1>8. QED
  BY <1>1, <1>2, <1>4, <1>5, <1>6, <1>7, NoFrameMoves

LEMMA JoinKeeps ==
  ASSUME Inv, Rest, Join
  PROVE  Inv'
<1>1. /\ core \in CoreState /\ core.pc = "join" /\ ~core.waking /\ core' = Go(core, "done")
      /\ UNCHANGED <<ao, queue, device, graph, played, skipped>>
  BY DEF Inv, TypeOK, Join, At
<1>2. core' \in CoreState /\ core'.pc = "done" /\ core'.seek = core.seek /\ core'.cmd = core.cmd
  BY <1>1, CoreGoes
<1>3. QED
  BY <1>1, <1>2, NothingElse, CoreGoesOn DEF Emptied

LEMMA DecodeKeeps ==
  ASSUME Inv, setup' = setup, commands' = commands, Decode
  PROVE  Inv'
<1>1. /\ core \in CoreState /\ graph \in GraphState /\ Rest
      /\ UNCHANGED <<ao, queue, device, played, skipped>>
  BY DEF Inv, TypeOK, Decode, Rest
<1>2. Moves(core') /\ core' \in CoreState /\ core'.waking = core.waking
  <2> DEFINE w == core.woken \/ WakesCore
  <2>1. core' = [core EXCEPT !.woken = w] /\ w \in BOOLEAN
    BY <1>1 DEF Decode, CoreState
  <2> HIDE DEF w
  <2>2. /\ core' \in CoreState /\ core'.pc = core.pc /\ core'.seek = core.seek
        /\ core'.cmd = core.cmd /\ core'.waking = core.waking
    BY <1>1, <2>1 DEF CoreState
  <2>3. QED
    BY <2>2 DEF Moves
<1>3. /\ graph' \in GraphState
      /\ UNCHANGED <<graph.data, graph.in_data, graph.requested, graph.in_requested, graph.next,
                     graph.base>>
      /\ graph.next <= Length + 1
  <2> DEFINE A == graph.async_pending \union {"dec"}
  <2>1. graph' = [graph EXCEPT !.decoded = TRUE, !.wakeup_sent = TRUE, !.async_pending = A]
    BY DEF Decode
  <2>2. A \in SUBSET Filters /\ graph.next <= Length + 1
    BY <1>1 DEF Decode, GraphState, Filters
  <2> HIDE DEF A
  <2>3. QED
    BY <1>1, <2>1, <2>2 DEF GraphState
<1>4. StreamInv' /\ FirstQueued' = FirstQueued
  BY <1>1, <1>3 DEF Inv, StreamInv, FirstQueued
<1>5. /\ ao' \in AoState /\ queue' \in QueueState /\ SampleCount(queue'.frames) <= QueueSize
      /\ DeviceBooks' /\ Pausing'
  BY <1>1 DEF Inv, TypeOK, DeviceBooks, Pausing, Rest
<1>6. SleepInv'
  BY <1>1, <1>2 DEF Inv, SleepInv, GoesToSleep, NothingToDo, Inactive, Rest
<1>7. QED
  BY <1>1, <1>2, <1>3, <1>4, <1>5, <1>6, FramesFlow

LEMMA PrefetchKeeps ==
  ASSUME Inv, setup' = setup, commands' = commands, Prefetch
  PROVE  Inv'
<1>1. /\ cached' \in BOOLEAN /\ UNCHANGED <<ao, queue, device, graph, core, played, skipped>>
      /\ core' \in CoreState /\ commands' \in [seek : 0 .. MaxSeeks, pause : Nat]
  BY DEF Inv, TypeOK, Prefetch
<1>2. QED
  BY <1>1, SeekIsAsked

LEMMA UserKeeps ==
  ASSUME Inv, setup' = setup, User
  PROVE  Inv'
<1>1. /\ core \in CoreState /\ commands \in [seek : 0 .. MaxSeeks, pause : Nat] /\ cached \in BOOLEAN
      /\ setup.seeks \in 0 .. MaxSeeks
  BY SetupFields DEF Inv, TypeOK
<1>2. /\ core.cmd = "none" /\ cached' = cached
      /\ UNCHANGED <<ao, queue, device, graph, played, skipped>>
  BY DEF User, Command
<1>3. One(core.cmd = "seek") = 0
  BY <1>2 DEF One
<1>4. CASE Command("seek", setup.seeks)
  <2>1. /\ core' \in CoreState /\ core'.pc = core.pc /\ core'.seek = core.seek
        /\ core'.cmd = "seek" /\ core'.waking = core.waking
    BY <1>1, <1>4 DEF Command, CoreState
  <2>2. /\ commands' \in [seek : 0 .. MaxSeeks, pause : Nat]
        /\ commands'.seek = commands.seek + 1 /\ commands.seek \in Nat
    <3>1. commands.seek + 1 \in 0 .. MaxSeeks /\ commands.seek \in Nat
      BY <1>1, <1>4, LengthIsNat DEF Command
    <3>2. commands' = [commands EXCEPT !.seek = commands.seek + 1]
      BY <1>1, <1>4 DEF Command
    <3>3. QED
      BY <1>1, <3>1, <3>2
  <2>3. One(core'.cmd = "seek") = 1 /\ One(core.seek) \in 0 .. 1 /\ One(core'.seek) = One(core.seek)
    BY <2>1 DEF One
  <2>4. \A k \in Nat : k + One(core.seek) + One(core.cmd = "seek") <= commands.seek
                         => k + One(core'.seek) + One(core'.cmd = "seek") <= commands'.seek
    BY <1>3, <2>2, <2>3
  <2>5. QED
    BY <1>1, <1>2, <2>1, <2>2, <2>4, SeekIsAsked
<1>5. CASE Command("pause", setup.pauses)
  <2>1. /\ core' \in CoreState /\ core'.pc = core.pc /\ core'.seek = core.seek
        /\ core'.cmd = "pause" /\ core'.waking = core.waking
    BY <1>1, <1>5 DEF Command, CoreState
  <2>2. /\ commands' \in [seek : 0 .. MaxSeeks, pause : Nat]
        /\ commands'.seek = commands.seek /\ commands.seek \in Nat
    BY <1>1, <1>5, LengthIsNat DEF Command
  <2>3. One(core'.cmd = "seek") = 0 /\ One(core'.seek) = One(core.seek)
    BY <2>1 DEF One
  <2>4. \A k \in Nat : k + One(core.seek) + One(core.cmd = "seek") <= commands.seek
                         => k + One(core'.seek) + One(core'.cmd = "seek") <= commands'.seek
    BY <1>3, <2>2, <2>3
  <2>5. QED
    BY <1>1, <1>2, <2>1, <2>2, <2>4, SeekIsAsked
<1>6. QED
  BY <1>4, <1>5 DEF User
-------------------------------------------------------------------------------
(* The theorems. *)
LEMMA InitHolds ==
  ASSUME Init
  PROVE  Inv
<1>1. /\ setup \in Setups /\ setup.slow \in BOOLEAN
      /\ device = [buffer |-> <<>>, playing |-> FALSE, paused |-> FALSE]
      /\ queue = [frames |-> <<>>, requested |-> FALSE, async_pending |-> TRUE, wakeup_sent |-> TRUE]
      /\ ao = [playing |-> FALSE, streaming |-> FALSE, paused |-> FALSE, hw_paused |-> FALSE,
               recover_pause |-> FALSE, prepause |-> 0, need_wakeup |-> FALSE, terminate |-> FALSE,
               pc |-> "play", retry |-> FALSE, timed |-> FALSE]
      /\ graph = [pending |-> Filters, async_pending |-> {"ao", "in"}, wakeup_sent |-> TRUE,
                  requested |-> FALSE, data |-> <<>>, in_requested |-> FALSE, in_data |-> <<>>,
                  decoded |-> FALSE, next |-> 1, base |-> 0]
      /\ core = [pc |-> "fill", status |-> "syncing", out_eof |-> FALSE, underrun |-> FALSE,
                 ao_underrun |-> FALSE, start_pts_known |-> FALSE, restart_complete |-> FALSE,
                 pause |-> FALSE, paused_for_cache |-> FALSE, seek |-> FALSE, cmd |-> "none",
                 woken |-> TRUE, waking |-> FALSE]
      /\ played = 0 /\ skipped = 0 /\ cached = ~setup.slow
      /\ commands = [seek |-> 0, pause |-> 0]
  BY SetupsAssumption DEF Init
<1>2. TypeOK
  <2>1. ao \in AoState /\ device \in DeviceState /\ queue \in QueueState
    BY <1>1, LengthIsNat DEF AoState, DeviceState, QueueState
  <2>2. graph \in GraphState
    BY <1>1, LengthIsNat DEF GraphState, Filters
  <2>3. core \in CoreState
    BY <1>1 DEF CoreState
  <2>4. SampleCount(queue.frames) <= QueueSize /\ Len(device.buffer) <= DeviceSize
    <3>1. {i \in DOMAIN <<>> : <<>>[i] # Eof} = {}
      OBVIOUS
    <3>2. SampleCount(<<>>) = 0
      BY <3>1, FS_EmptySet DEF SampleCount
    <3>3. QED
      BY <1>1, <3>2, LengthIsNat
  <2>5. played \in Frame /\ skipped \in Frame /\ cached \in BOOLEAN
    BY <1>1, FrameIsNat DEF Eof
  <2>6. commands \in [seek : 0 .. MaxSeeks, pause : Nat]
    BY <1>1, LengthIsNat
  <2>7. QED
    BY <2>1, <2>2, <2>3, <2>4, <2>5, <2>6 DEF TypeOK
<1>3. DeviceBooks /\ Pausing
  BY <1>1 DEF DeviceBooks, Pausing
<1>4. SleepInv
  BY <1>1 DEF SleepInv, GoesToSleep
<1>5. StreamInv /\ FirstQueued = 1
  <2>1. Flows(<<>>, <<>>, <<>>, 1, 0) /\ Start(<<>>, <<>>, <<>>, 1) = 1
    BY FlowStarts
  <2>2. QED
    BY <1>1, <2>1, LengthIsNat DEF StreamInv, FirstQueued
<1>6. ContentInv
  <2>1. Written = 0
    BY <1>1, <1>5, LengthIsNat DEF Written, Upto, Least
  <2>2. Ordered(<<>>, 0, 0, 0) /\ NewIn(<<>>, 0) = {} /\ Heard(<<>>) = {}
    BY NothingLeft DEF Ordered, NewIn
  <2>3. 1 + Greater(Greater(0, 0), 0) .. 0 = {}
    BY DEF Greater
  <2>4. QED
    BY <1>1, <2>1, <2>2, <2>3 DEF ContentInv, Whole
<1>7. SeekInv
  <2>1. One(core.seek) = 0 /\ One(core.cmd = "seek") = 0
    BY <1>1 DEF One
  <2>2. 0 \in 0 .. MaxSeeks /\ graph.base = 0 * Length /\ 0 + 0 + 0 <= commands.seek
    BY <1>1, LengthIsNat
  <2>3. QED
    BY <1>1, <2>1, <2>2 DEF SeekInv
<1>8. QED
  BY <1>1, <1>2, <1>3, <1>4, <1>5, <1>6, <1>7 DEF Inv

LEMMA CoreKeeps ==
  ASSUME Inv, Rest, Core
  PROVE  Inv'
<1>1. CASE Wakeup
  BY <1>1, WakeupKeeps
<1>2. CASE Fill
  BY <1>2, FillSyncKeeps, FillRecoverKeeps, FillDrainKeeps DEF Fill
<1>3. CASE Restart
  BY <1>3, RestartKeeps
<1>4. CASE HandleEof
  BY <1>4, HandleEofKeeps
<1>5. CASE ResetPlayback
  BY <1>5, ResetPlaybackKeeps
<1>6. CASE Wait
  BY <1>6, WaitKeeps
<1>7. CASE Input
  BY <1>7, InputKeeps
<1>8. CASE RunGraph
  BY <1>8, ProcessDecoderKeeps, ProcessAoKeeps, ProcessInKeeps, EndGraphKeeps DEF RunGraph
<1>9. CASE Uninit
  BY <1>9, UninitKeeps
<1>10. CASE Drain
  BY <1>10, DrainKeeps
<1>11. CASE Terminate
  BY <1>11, TerminateKeeps
<1>12. CASE Join
  BY <1>12, JoinKeeps
<1>13. QED
  BY <1>1, <1>2, <1>3, <1>4, <1>5, <1>6, <1>7, <1>8, <1>9, <1>10, <1>11, <1>12 DEF Core

LEMMA NextKeeps ==
  ASSUME Inv, [Next]_vars
  PROVE  Inv'
<1>1. CASE UNCHANGED vars
  <2>1. UNCHANGED <<setup, ao, queue, device, graph, core, played, skipped, cached, commands>>
    BY <1>1 DEF vars
  <2>2. core' \in CoreState /\ commands' \in [seek : 0 .. MaxSeeks, pause : Nat] /\ cached' \in BOOLEAN
    BY <2>1 DEF Inv, TypeOK
  <2>3. QED
    BY <2>1, <2>2, SeekIsAsked
<1>2. CASE CoreStep /\ UNCHANGED <<setup, commands>>
  BY <1>2, CoreKeeps DEF CoreStep, Rest
<1>3. CASE PlayStep /\ UNCHANGED <<setup, commands>>
  BY <1>3, PlayNothingKeeps, PlayUnderrunKeeps, PlaySilenceKeeps, PlayQueuedKeeps,
     PlayCheckKeeps, PlayWokenKeeps DEF PlayStep, Playthread, Rest
<1>4. CASE DeviceStep /\ UNCHANGED <<setup, commands>>
  BY <1>4, DevicePlaysKeeps DEF DeviceStep, Rest
<1>5. CASE Decode /\ UNCHANGED <<setup, commands>>
  BY <1>5, DecodeKeeps
<1>6. CASE Prefetch /\ UNCHANGED <<setup, commands>>
  BY <1>6, PrefetchKeeps
<1>7. CASE User /\ UNCHANGED setup
  BY <1>7, UserKeeps
<1>8. QED
  BY <1>1, <1>2, <1>3, <1>4, <1>5, <1>6, <1>7 DEF Next

\* What is on its way to the device, what the device holds and what playthread saw fit
\* together after every critical section of the AO and every step of the play loop.
THEOREM AudioInvariant == Spec => []Inv
<1>1. Init => Inv
  BY InitHolds
<1>2. Inv /\ [Next]_vars => Inv'
  BY NextKeeps
<1>3. QED
  BY <1>1, <1>2, PTL DEF Spec

\* The fields of struct buffer_state, of the queue and of the play loop keep their
\* types; the queue holds no more samples than is_full() lets in, and the device is
\* given no more than it has space for.
THEOREM AudioTypeOK == Spec => []TypeOK
<1>1. Inv => TypeOK
  BY DEF Inv
<1>2. QED
  BY <1>1, AudioInvariant, PTL

\* playthread never sleeps without a timer, and without someone about to wake it, over
\* frames that it could write, an end of audio that it has to report, or terminate.
THEOREM AoNeverSleepsTooLong == Spec => []AoSleepsJustly
<1>1. Inv => AoSleepsJustly
  BY DEF Inv, SleepInv, GoesToSleep, NothingToDo, AoSleepsJustly
<1>2. QED
  BY <1>1, AudioInvariant, PTL

\* What is on its way follows what the device has.
LEMMA QueuedFollows ==
  ASSUME Inv
  PROVE  /\ Queued \in Seq(Frame) /\ InOrder(Queued)
         /\ Heard(Queued) = graph.base + FirstQueued .. LastDecoded
<1> DEFINE s == queue.frames
           i == graph.in_data
           d == graph.data
           k == FirstQueued
           b == graph.base
           n == graph.next
<1>1. /\ s \in Seq(Frame) /\ i \in Seq(Frame) /\ d \in Seq(Frame) /\ b \in Nat
      /\ n \in 1 .. Length + 2 /\ k \in Nat \ {0} /\ Len(s) \in Nat /\ Len(i) \in Nat /\ Len(d) \in Nat
      /\ k + Len(s) + Len(i) + Len(d) = n /\ n \in Int
  <2>1. \A m \in 1 .. Length + 2 : m \in Int
    BY LengthIsNat
  <2>2. /\ s \in Seq(Frame) /\ i \in Seq(Frame) /\ d \in Seq(Frame) /\ b \in Nat
        /\ n \in 1 .. Length + 2 /\ Len(s) \in Nat /\ Len(i) \in Nat /\ Len(d) \in Nat
    BY FlowNumbers
  <2>3. k \in Nat \ {0} /\ k + Len(s) + Len(i) + Len(d) = n
    BY Numbers
  <2>4. QED
    BY <2>1, <2>2, <2>3
<1>2. /\ Numbered(s, b, k) /\ Numbered(i, b, n - Len(d) - Len(i)) /\ Numbered(d, b, n - Len(d))
  BY DEF Inv, StreamInv, Flows, FirstQueued
<1> HIDE DEF s, i, d, k, b, n
<1>3. n - Len(d) - Len(i) = k + Len(s) /\ n - Len(d) = k + (Len(s) + Len(i))
  <2> DEFINE x == Len(s)
             y == Len(i)
             z == Len(d)
  <2>1. k \in Nat /\ x \in Nat /\ y \in Nat /\ z \in Nat /\ n = k + x + y + z
    BY <1>1
  <2>2. n - z - y = k + x /\ n - z = k + (x + y)
    <3> HIDE DEF x, y, z
    <3>1. QED
      BY <2>1
  <2>3. QED
    BY <2>2
<1>4. s \o i \in Seq(Frame) /\ Len(s \o i) = Len(s) + Len(i) /\ Numbered(s \o i, b, k)
  <2>1. Numbered(i, b, k + Len(s)) /\ k \in Nat
    BY <1>1, <1>2, <1>3
  <2>2. QED
    BY <1>1, <1>2, <2>1, Appended, NumberedAppend
<1>5. /\ (s \o i) \o d \in Seq(Frame) /\ Len((s \o i) \o d) = Len(s \o i) + Len(d)
      /\ Numbered((s \o i) \o d, b, k)
  <2>1. Numbered(d, b, k + Len(s \o i)) /\ k \in Nat
    BY <1>1, <1>2, <1>3, <1>4
  <2>2. QED
    BY <1>1, <1>4, <2>1, Appended, NumberedAppend
<1>6. k + Len((s \o i) \o d) = n
  <2>1. \A a, x, y, z \in Nat : a + ((x + y) + z) = a + x + y + z
    OBVIOUS
  <2>2. QED
    BY <1>1, <1>4, <1>5, <2>1
<1>7. n <= Length + 2 /\ Queued = (s \o i) \o d
  BY <1>1, LengthIsNat DEF Queued, s, i, d
<1>8. InOrder((s \o i) \o d) /\ Heard((s \o i) \o d) = b + k .. Upto(b, k + Len((s \o i) \o d) - 1)
  BY <1>1, <1>5, <1>6, <1>7, NumberedHeard
<1>9. LastDecoded = Upto(b, n - 1)
  BY DEF LastDecoded, Upto, b, n
<1>10. Heard(Queued) = b + k .. LastDecoded
  <2> DEFINE q == (s \o i) \o d
             e == k + Len(q) - 1
  <2>1. e = n - 1
    <3> DEFINE l == Len(q)
    <3>1. k \in Nat /\ l \in Nat /\ k + l = n
      BY <1>1, <1>4, <1>5, <1>6
    <3>2. k + (l - 1) = n - 1
      <4> HIDE DEF l
      <4>1. QED
        BY <3>1
    <3>3. QED
      BY <3>2
  <2>2. Heard(q) = b + k .. Upto(b, e)
    BY <1>8
  <2>3. Upto(b, e) = LastDecoded
    BY <1>9, <2>1
  <2> HIDE DEF q, e
  <2>4. QED
    BY <1>7, <2>2, <2>3 DEF q
<1>11. Queued \in Seq(Frame) /\ InOrder(Queued)
  BY <1>5, <1>7, <1>8
<1>12. QED
  BY <1>10, <1>11 DEF k, b

LEMMA NothingIsLost ==
  ASSUME Inv
  PROVE  AudioIsContinuous
<1> SUFFICES ASSUME core.pc \notin Emptied
             PROVE  /\ InOrder(device.buffer \o Queued)
                    /\ NewOnes \union Heard(Queued) = First .. LastDecoded
                    /\ setup.stream_silence \/ NewOnes = Heard(device.buffer)
  BY DEF AudioIsContinuous
<1> DEFINE b == graph.base
           k == FirstQueued
           n == graph.next
           m == Greater(Greater(played, skipped), b)
<1>1. /\ Ordered(device.buffer, played, skipped, Written)
      /\ Whole(device.buffer, played, skipped, b, Written)
      /\ setup.stream_silence \/ NewIn(device.buffer, b) = Heard(device.buffer)
  BY DEF Inv, ContentInv
<1>2. /\ Queued \in Seq(Frame) /\ InOrder(Queued) /\ Heard(Queued) = b + k .. LastDecoded
  BY QueuedFollows
<1>3. /\ device.buffer \in Seq(Frame) /\ b \in Nat /\ k \in Nat \ {0} /\ played \in Nat
      /\ skipped \in Nat
  BY Numbers
<1>4. /\ n \in Nat /\ k <= n /\ Length \in Nat
  <2>1. \A a \in Nat \ {0}, x, y, z \in Nat, c \in 1 .. Length + 2 :
          a + x + y + z = c => a <= c /\ c \in Nat
    BY LengthIsNat
  <2>2. /\ Len(queue.frames) \in Nat /\ Len(graph.in_data) \in Nat
        /\ Len(graph.data) \in Nat /\ n \in 1 .. Length + 2
    BY FlowNumbers
  <2>3. /\ k \in Nat \ {0}
        /\ k + Len(queue.frames) + Len(graph.in_data) + Len(graph.data) = n
    BY Numbers
  <2>4. QED
    BY <2>1, <2>2, <2>3, LengthIsNat
<1>5. Written = b + Least(k - 1, Length) /\ LastDecoded = b + Least(n - 1, Length)
  BY DEF Written, Upto, LastDecoded
<1>6. NewOnes = NewIn(device.buffer, b) /\ NewIn(device.buffer, b) = 1 + m .. Written
  BY <1>1 DEF NewOnes, NewIn, Whole
<1>7. First = 1 + m
  BY DEF First, Greater
<1>8. m \in Nat /\ m >= b /\ (m <= Written \/ m = b)
  <2> HIDE DEF k
  <2>1. played <= Written /\ skipped <= Written
    BY <1>1 DEF Ordered
  <2>2. QED
    BY <1>3, <2>1 DEF Greater
<1>9. Heard(device.buffer) \subseteq Nat /\ \A f \in Heard(device.buffer) : f <= Written
  BY <1>1, <1>3, HeardIsFrame DEF Ordered
<1> HIDE DEF b, k, n, m
<1>10. Written \in Nat /\ LastDecoded \in Nat /\ Written <= LastDecoded /\ Written < b + k
       /\ b <= Written /\ (Written = b + k - 1 \/ (Written = LastDecoded /\ LastDecoded < b + k))
  BY <1>3, <1>4, <1>5 DEF Least
<1>11. InOrder(device.buffer \o Queued)
  <2>1. \A f \in Heard(device.buffer), g \in Heard(Queued) : f < g
    BY <1>2, <1>3, <1>9, <1>10
  <2>2. QED
    BY <1>1, <1>2, <1>3, <2>1, OrderAppend DEF Ordered
<1>12. (1 + m .. Written) \union (b + k .. LastDecoded) = 1 + m .. LastDecoded
  <2>1. m <= Written
    BY <1>8, <1>10
  <2>2. CASE Written = b + k - 1
    BY <1>3, <1>8, <1>10, <2>1, <2>2
  <2>3. CASE Written = LastDecoded /\ LastDecoded < b + k
    BY <1>3, <1>8, <1>10, <2>1, <2>3
  <2>4. QED
    BY <1>10, <2>2, <2>3
<1>13. QED
  BY <1>1, <1>2, <1>6, <1>7, <1>11, <1>12 DEF b

\* The device plays what was decoded since the last seek, in order and without gaps,
\* whatever ao_reset(), ao_set_paused() and underruns come in between; and
\* driver->set_pause() or a reset keeps it silent exactly while the AO is paused.
THEOREM AudioReachesDevice == Spec => []DeviceIsRight
<1>1. Inv => AudioIsContinuous
  BY NothingIsLost
<1>2. Inv => PauseReachesDevice
  BY DEF Inv, DeviceBooks, Pausing, PauseReachesDevice, DeviceRuns
<1>3. Inv => DeviceIsRight
  BY <1>1, <1>2 DEF DeviceIsRight
<1>4. QED
  BY <1>3, AudioInvariant, PTL
================================================================================
