------------------------------- MODULE FileProofs -------------------------------
(***************************************************************************)
(* The circular array of a file buffer is a bounded queue of bytes, for    *)
(* every size: what file_buf_add puts in comes out of file_buf_remove,     *)
(* once and in order, wherever head and tail stand.  The slots are counted *)
(* round the array with %; RoundTheArray gives the three cases of it, and  *)
(* the rest is arithmetic without %.                                       *)
(*                                                                         *)
(* Then the splitting of a file into packets, for every file and every     *)
(* length of a packet (SplitClean, SplitIsWhole), and what both say of the *)
(* hosts of FileTransfer: nothing but bytes of files and names is sent,    *)
(* kept or written (CleanInv), and what is written after the START of an   *)
(* upload is the parts of it that were not lost (CopyInv).                 *)
(*                                                                         *)
(* CopyInv follows an upload through three queues: the jobs of the sender, *)
(* the net, the jobs of the receiver.  In each the parts are in order, no  *)
(* part is in front of an earlier one, and every part behind one that is   *)
(* on its way is on its way too, or was lost (InLine).  So what a receiver *)
(* holds and what is still in line make up the upload, less what was lost  *)
(* (Collected); the buffer is what it holds, joined (Kept).                *)
(***************************************************************************)
EXTENDS FileTransfer, WellFoundedInduction, TLAPS

LEMMA Sizes ==
  /\ MAX_FILE_BUFFER \in Nat \ {0} /\ Slots \in Nat /\ Slots = MAX_FILE_BUFFER + 1
  /\ Slot = 0 .. MAX_FILE_BUFFER
BY SizeAssumption DEF Slots, Slot

LEMMA FunctionSeq ==
  ASSUME NEW S, NEW n \in Nat, NEW w \in [1 .. n -> S]
  PROVE  w \in Seq(S) /\ Len(w) = n
OBVIOUS

LEMMA BothParts ==
  ASSUME NEW S, NEW q \in Seq(S), NEW r \in Seq(S)
  PROVE  /\ q \o r \in Seq(S) /\ Len(q \o r) = Len(q) + Len(r)
         /\ \A k \in 1 .. Len(q) + Len(r) :
              (q \o r)[k] = IF k <= Len(q) THEN q[k] ELSE r[k - Len(q)]
OBVIOUS

\* A slot number that has passed the end of the array less than three times.
Round(a) == IF a < Slots THEN a ELSE IF a < Slots + Slots THEN a - Slots ELSE a - Slots - Slots

LEMMA RoundTheArray == \A a \in 0 .. 3 * MAX_FILE_BUFFER + 2 : a % Slots = Round(a)
<1>1. ASSUME NEW n \in Nat \ {0}, NEW a \in Int, 0 <= a, a < n PROVE a % n = a
  BY <1>1, SMTT(20)
<1>2. ASSUME NEW n \in Nat \ {0}, NEW a \in Int, n <= a, a < n + n PROVE a % n = a - n
  BY <1>2, SMTT(20)
<1>3. ASSUME NEW n \in Nat \ {0}, NEW a \in Int, n + n <= a, a < n + n + n
      PROVE  a % n = a - n - n
  BY <1>3, SMTT(20)
<1> SUFFICES ASSUME NEW a \in 0 .. 3 * MAX_FILE_BUFFER + 2 PROVE a % Slots = Round(a)
  OBVIOUS
<1>4. /\ Slots \in Nat \ {0} /\ a \in Int /\ 0 <= a /\ a < Slots + Slots + Slots
  BY Sizes
<1>5. CASE a < Slots
  <2>1. a % Slots = a
    BY <1>1, <1>4, <1>5
  <2>q. QED
    BY <1>5, <2>1 DEF Round
<1>6. CASE a >= Slots /\ a < Slots + Slots
  <2>1. a % Slots = a - Slots
    BY <1>2, <1>4, <1>6
  <2>q. QED
    BY <1>4, <1>6, <2>1 DEF Round
<1>7. CASE a >= Slots + Slots
  <2>1. a % Slots = a - Slots - Slots
    BY <1>3, <1>4, <1>7
  <2>q. QED
    BY <1>4, <1>7, <2>1 DEF Round
<1>q. QED
  BY <1>4, <1>5, <1>6, <1>7

LEMMA RoundAgain ==
  ASSUME NEW b \in Nat, NEW n \in Nat, b + n <= 3 * MAX_FILE_BUFFER + 2
  PROVE  Round(b) \in 0 .. MAX_FILE_BUFFER /\ Round(Round(b) + n) = Round(b + n)
<1> DEFINE s == Slots
<1>1. s \in Nat /\ 3 * MAX_FILE_BUFFER + 2 < s + s + s /\ MAX_FILE_BUFFER = s - 1 /\ s > 0
  BY Sizes
<1>2. Round(b) = IF b < s THEN b ELSE IF b < s + s THEN b - s ELSE b - s - s
  BY DEF Round
<1> HIDE DEF s
<1>3. Round(b) \in 0 .. s - 1 /\ b < s + s + s
  BY <1>1, <1>2
<1>4. \A a : Round(a) = IF a < s THEN a ELSE IF a < s + s THEN a - s ELSE a - s - s
  BY DEF Round, s
<1>5. CASE b < s
  BY <1>1, <1>2, <1>3, <1>5
<1>6. CASE b >= s /\ b < s + s
  <2>1. Round(b) = b - s
    BY <1>1, <1>2, <1>6
  <2>2. Round(b - s + n) = Round(b + n)
    BY <1>1, <1>4, <1>6
  <2>q. QED
    BY <1>1, <1>3, <2>1, <2>2
<1>7. CASE b >= s + s
  <2>1. Round(b) = b - s - s
    BY <1>1, <1>2, <1>7
  <2>2. Round(b - s - s + n) = Round(b + n)
    BY <1>1, <1>4, <1>7
  <2>q. QED
    BY <1>1, <1>3, <2>1, <2>2
<1>8. Round(b) \in 0 .. MAX_FILE_BUFFER
  BY <1>1, <1>3
<1>q. QED
  BY <1>1, <1>3, <1>5, <1>6, <1>7, <1>8

\* The steps from tail to the slot of the k-th byte.
LEMMA StepsToByte ==
  ASSUME NEW head \in 0 .. MAX_FILE_BUFFER, NEW occ \in 0 .. MAX_FILE_BUFFER,
         NEW k \in 1 .. Slots, NEW tail, NEW i,
         tail = Round(head + occ + MAX_FILE_BUFFER), i = Round(head + k - 1)
  PROVE  StepsAfter(tail, i) = IF k <= occ THEN k - occ + Slots ELSE k - occ
<1>1. /\ Slots \in Nat /\ MAX_FILE_BUFFER = Slots - 1 /\ Slots > 1
      /\ head \in Nat /\ head < Slots /\ occ \in Nat /\ occ < Slots /\ k \in Nat /\ k >= 1 /\ k <= Slots
  BY Sizes
<1>2. i = IF head + k - 1 < Slots THEN head + k - 1 ELSE head + k - 1 - Slots
  BY <1>1 DEF Round
<1>3. tail = IF head + occ = 0 THEN Slots - 1
             ELSE IF head + occ - 1 < Slots THEN head + occ - 1 ELSE head + occ - 1 - Slots
  <2>1. head + occ + MAX_FILE_BUFFER = head + occ - 1 + Slots
    BY <1>1
  <2>q. QED
    BY <1>1, <2>1 DEF Round
<1>4. StepsAfter(tail, i) = IF i > tail THEN i - tail ELSE i - tail + Slots
  BY DEF StepsAfter
<1>q. QED
  BY <1>1, <1>2, <1>3, <1>4

\* The numbers of a sound buffer, and the slot of its k-th byte.
LEMMA SoundNumbers ==
  ASSUME NEW f, Sound(f)
  PROVE  /\ f.head \in 0 .. MAX_FILE_BUFFER /\ f.tail \in 0 .. MAX_FILE_BUFFER
         /\ f.occ \in 0 .. MAX_FILE_BUFFER
         /\ f.tail = Round(f.head + f.occ + MAX_FILE_BUFFER)
         /\ \A k \in 1 .. Slots : (f.head + k - 1) % Slots = Round(f.head + k - 1)
<1>1. /\ f.head \in 0 .. MAX_FILE_BUFFER /\ f.tail \in 0 .. MAX_FILE_BUFFER
      /\ f.occ \in 0 .. MAX_FILE_BUFFER
      /\ f.tail = (f.head + f.occ + MAX_FILE_BUFFER) % Slots
  BY DEF Sound, FileBuffer, Slot
<1>2. f.head + f.occ + MAX_FILE_BUFFER \in 0 .. 3 * MAX_FILE_BUFFER + 2
  BY <1>1, Sizes
<1>3. \A k \in 1 .. Slots : f.head + k - 1 \in 0 .. 3 * MAX_FILE_BUFFER + 2
  BY <1>1, Sizes
<1>q. QED
  BY <1>1, <1>2, <1>3, RoundTheArray

\* file_buf_init leaves an empty buffer, whatever was there.
THEOREM InitEmpties ==
  ASSUME NEW f \in FileBuffer
  PROVE  Sound(file_buf_init(f)) /\ Contents(file_buf_init(f)) = <<>>
<1> DEFINE g == file_buf_init(f)
<1>1. g \in FileBuffer /\ g.head = 0 /\ g.tail = MAX_FILE_BUFFER /\ g.occ = 0
  <2>1. /\ 0 \in Slot /\ MAX_FILE_BUFFER \in Slot /\ 0 \in 0 .. MAX_FILE_BUFFER
        /\ <<>> \in Seq(Byte)
    BY Sizes
  <2>q. QED
    BY <2>1 DEF FileBuffer, file_buf_init
<1> HIDE DEF g
<1>2. MAX_FILE_BUFFER \in 0 .. 3 * MAX_FILE_BUFFER + 2 /\ MAX_FILE_BUFFER < Slots
      /\ 0 + 0 + MAX_FILE_BUFFER = MAX_FILE_BUFFER
  BY Sizes
<1>3. MAX_FILE_BUFFER % Slots = MAX_FILE_BUFFER
  BY <1>2, RoundTheArray DEF Round
<1>4. Sound(g)
  BY <1>1, <1>2, <1>3 DEF Sound
<1>5. Contents(g) = <<>>
  BY <1>1 DEF Contents
<1>q. QED
  BY <1>4, <1>5 DEF g

\* file_buf_add puts as many bytes of the string as fit behind what is there
\* already, and changes none of that.
THEOREM AddAppends ==
  ASSUME NEW f, Sound(f), NEW string \in Seq(Byte)
  PROVE  LET g == file_buf_add(f, string)
             n == Least(Len(string), MAX_FILE_BUFFER - f.occ)
         IN /\ Sound(g)
            /\ Contents(g) = Contents(f) \o SubSeq(string, 1, n)
<1> DEFINE g == file_buf_add(f, string)
           n == Least(Len(string), MAX_FILE_BUFFER - f.occ)
           new == [i \in Slot |-> LET k == StepsAfter(f.tail, i)
                                  IN IF k <= n THEN string[k] ELSE f.buffer[i]]
<1>1. /\ f.head \in 0 .. MAX_FILE_BUFFER /\ f.tail \in 0 .. MAX_FILE_BUFFER
      /\ f.occ \in 0 .. MAX_FILE_BUFFER
      /\ f.tail = Round(f.head + f.occ + MAX_FILE_BUFFER)
  BY SoundNumbers
<1>m. \A k \in 1 .. Slots : (f.head + k - 1) % Slots = Round(f.head + k - 1)
  BY SoundNumbers
<1>2. Len(string) \in Nat /\ n \in Nat /\ n <= Len(string) /\ n <= MAX_FILE_BUFFER - f.occ
  BY <1>1, Sizes DEF Least
<1>3. f \in FileBuffer /\ f.buffer \in [Slot -> Byte]
  BY DEF Sound, FileBuffer
<1>4. new \in [Slot -> Byte]
  <2>1. \A i \in Slot : StepsAfter(f.tail, i) \in Nat \ {0}
    <3>1. \A i \in 0 .. MAX_FILE_BUFFER : StepsAfter(f.tail, i) \in Nat \ {0}
      BY <1>1, Sizes DEF StepsAfter
    <3>q. QED
      BY <3>1, Sizes
  <2> HIDE DEF n
  <2>2. \A i \in Slot : StepsAfter(f.tail, i) <= n => string[StepsAfter(f.tail, i)] \in Byte
    BY <1>2, <2>1
  <2>q. QED
    BY <1>3, <2>2
<1> HIDE DEF new, n
<1> DEFINE t == (f.tail + n) % Slots
<1>5. t = Round(f.tail + n) /\ t \in Slot
  <2>1. f.tail + n \in 0 .. 3 * MAX_FILE_BUFFER + 2
    BY <1>1, <1>2, Sizes
  <2>2. t = Round(f.tail + n)
    BY <2>1, RoundTheArray
  <2> HIDE DEF t
  <2>q. QED
    BY <1>1, <1>2, <2>1, <2>2, RoundAgain, Sizes
<1>6. f.occ + n \in 0 .. MAX_FILE_BUFFER
  BY <1>1, <1>2, Sizes
<1>7. /\ g \in FileBuffer /\ g.head = f.head /\ g.tail = t
      /\ g.occ = f.occ + n /\ g.buffer = new
  <2>1. g = [f EXCEPT !.tail = t, !.occ = f.occ + n, !.buffer = new]
    BY DEF file_buf_add, new, n
  <2> HIDE DEF g, t
  <2>q. QED
    BY <1>3, <1>4, <1>5, <1>6, <2>1 DEF FileBuffer
<1> HIDE DEF g, t
<1>8. Sound(g)
  <2> DEFINE a == f.head + (f.occ + n) + MAX_FILE_BUFFER
  <2>1. a \in 0 .. 3 * MAX_FILE_BUFFER + 2
    <3>1. f.occ + n \in 0 .. MAX_FILE_BUFFER
      BY <1>6
    <3>q. QED
      BY <1>1, <3>1, Sizes
  <2>2. a % Slots = Round(a)
    BY <2>1, RoundTheArray
  <2>3. t = Round(a)
    <3>1. /\ f.head + f.occ + MAX_FILE_BUFFER \in Nat
          /\ f.head + f.occ + MAX_FILE_BUFFER + n <= 3 * MAX_FILE_BUFFER + 2
          /\ f.head + f.occ + MAX_FILE_BUFFER + n = a
      BY <1>1, <1>2, Sizes
    <3> HIDE DEF a
    <3>q. QED
      BY <1>1, <1>2, <1>5, <3>1, RoundAgain
  <2>q. QED
    BY <1>7, <2>2, <2>3 DEF Sound
\* Where the k-th byte is.
<1>9. ASSUME NEW k \in 1 .. f.occ + n
      PROVE  /\ (f.head + k - 1) % Slots \in Slot
             /\ new[(f.head + k - 1) % Slots] =
                  IF k <= f.occ THEN f.buffer[(f.head + k - 1) % Slots] ELSE string[k - f.occ]
  <2> DEFINE i == (f.head + k - 1) % Slots
  <2>1. k \in 1 .. Slots
    BY <1>1, <1>2, Sizes
  <2>2. i = Round(f.head + k - 1)
    BY <1>m, <2>1
  <2> HIDE DEF i
  <2>3. i \in Slot
    BY <1>1, <2>1, <2>2, Sizes DEF Round
  <2>4. StepsAfter(f.tail, i) = IF k <= f.occ THEN k - f.occ + Slots ELSE k - f.occ
    <3>1. /\ f.head \in 0 .. MAX_FILE_BUFFER /\ f.occ \in 0 .. MAX_FILE_BUFFER
          /\ f.tail = Round(f.head + f.occ + MAX_FILE_BUFFER)
      BY <1>1
    <3>q. QED
      BY <2>1, <2>2, <3>1, StepsToByte
  <2>5. StepsAfter(f.tail, i) <= n <=> k > f.occ
    BY <1>1, <1>2, <2>4, Sizes
  <2>6. new[i] = IF k <= f.occ THEN f.buffer[i] ELSE string[k - f.occ]
    BY <1>1, <1>2, <2>3, <2>4, <2>5 DEF new
  <2>q. QED
    BY <2>3, <2>6 DEF i
<1>10. Contents(g) = Contents(f) \o SubSeq(string, 1, n)
  <2>1. /\ Contents(f) \in Seq(Byte) /\ Len(Contents(f)) = f.occ
        /\ \A k \in 1 .. f.occ : Contents(f)[k] = f.buffer[(f.head + k - 1) % Slots]
    <3>1. \A k \in 1 .. f.occ : (f.head + k - 1) % Slots \in Slot
      BY <1>1, <1>2, <1>9
    <3> DEFINE w == [k \in 1 .. f.occ |-> f.buffer[(f.head + k - 1) % Slots]]
    <3>2. \A k \in 1 .. f.occ : f.buffer[(f.head + k - 1) % Slots] \in Byte
      BY <1>3, <3>1
    <3>3. w \in [1 .. f.occ -> Byte] /\ f.occ \in Nat
      BY <1>1, <3>2
    <3>4. w \in Seq(Byte) /\ Len(w) = f.occ
      <4> HIDE DEF w
      <4>q. QED
        BY <3>3, FunctionSeq
    <3>5. Contents(f) = w
      BY DEF Contents
    <3>6. \A k \in 1 .. f.occ : w[k] = f.buffer[(f.head + k - 1) % Slots]
      OBVIOUS
    <3> HIDE DEF w
    <3>q. QED
      BY <3>4, <3>5, <3>6
  <2>2. /\ SubSeq(string, 1, n) \in Seq(Byte) /\ Len(SubSeq(string, 1, n)) = n
        /\ \A k \in 1 .. n : SubSeq(string, 1, n)[k] = string[k]
    BY <1>2
  <2>3. Contents(g) = [k \in 1 .. f.occ + n |-> new[(f.head + k - 1) % Slots]]
    BY <1>7 DEF Contents
  <2> DEFINE both == Contents(f) \o SubSeq(string, 1, n)
  <2>4. /\ both \in Seq(Byte) /\ Len(both) = f.occ + n
        /\ \A k \in 1 .. f.occ + n :
             both[k] = IF k <= f.occ THEN Contents(f)[k] ELSE SubSeq(string, 1, n)[k - f.occ]
    <3>1. f.occ \in Nat /\ n \in Nat
      BY <1>1, <1>2
    <3> DEFINE q == Contents(f)
               r == SubSeq(string, 1, n)
    <3>3. /\ q \in Seq(Byte) /\ Len(q) = f.occ /\ r \in Seq(Byte) /\ Len(r) = n
          /\ both = q \o r
      BY <2>1, <2>2
    <3> HIDE DEF q, r, both
    <3>4. /\ both \in Seq(Byte) /\ Len(both) = f.occ + n
          /\ \A k \in 1 .. f.occ + n :
               both[k] = IF k <= f.occ THEN q[k] ELSE r[k - f.occ]
      <4>1. /\ q \o r \in Seq(Byte) /\ Len(q \o r) = Len(q) + Len(r)
            /\ \A k \in 1 .. Len(q) + Len(r) :
                 (q \o r)[k] = IF k <= Len(q) THEN q[k] ELSE r[k - Len(q)]
        BY <3>3, BothParts
      <4>q. QED
        BY <3>3, <4>1
    <3>q. QED
      BY <3>4 DEF q, r
  <2> HIDE DEF both
  <2>5. ASSUME NEW k \in 1 .. f.occ + n PROVE both[k] = new[(f.head + k - 1) % Slots]
    <3>1. CASE k <= f.occ
      <4>1. k \in 1 .. f.occ
        BY <1>1, <1>2, <3>1
      <4>q. QED
        BY <1>9, <2>1, <2>4, <3>1, <4>1
    <3>2. CASE k > f.occ
      <4>1. k - f.occ \in 1 .. n /\ ~(k <= f.occ)
        BY <1>1, <1>2, <3>2
      <4>q. QED
        BY <1>9, <2>2, <2>4, <4>1
    <3>q. QED
      BY <1>1, <1>2, <3>1, <3>2
  <2>6. both = [k \in 1 .. f.occ + n |-> both[k]]
    BY <2>4
  <2>q. QED
    BY <2>3, <2>5, <2>6 DEF both
<1>q. QED
  BY <1>8, <1>10 DEF g, n

\* file_buf_remove gives the oldest bytes, and leaves the others.
THEOREM RemoveTakes ==
  ASSUME NEW f, Sound(f), NEW length \in Nat
  PROVE  LET g == file_buf_remove(f, length)
         IN /\ Sound(g)
            /\ Contents(f) = Removed(f, length) \o Contents(g)
<1> DEFINE g == file_buf_remove(f, length)
           n == Least(length, f.occ)
<1>1. /\ f.head \in 0 .. MAX_FILE_BUFFER /\ f.tail \in 0 .. MAX_FILE_BUFFER
      /\ f.occ \in 0 .. MAX_FILE_BUFFER
      /\ f.tail = Round(f.head + f.occ + MAX_FILE_BUFFER)
  BY SoundNumbers
<1>m. \A k \in 1 .. Slots : (f.head + k - 1) % Slots = Round(f.head + k - 1)
  BY SoundNumbers
<1>2. n \in Nat /\ n <= f.occ
  BY <1>1, Sizes DEF Least
<1>3. f \in FileBuffer /\ f.buffer \in [Slot -> Byte]
  BY DEF Sound, FileBuffer
<1> HIDE DEF n
<1> DEFINE h == (f.head + n) % Slots
<1>4. h = Round(f.head + n)
  <2>1. f.head + n \in 0 .. 3 * MAX_FILE_BUFFER + 2
    BY <1>1, <1>2, Sizes
  <2>q. QED
    BY <2>1, RoundTheArray
<1> HIDE DEF h
<1>6. h \in 0 .. MAX_FILE_BUFFER /\ h \in Slot
  <2>1. f.head + n \in Nat /\ 0 \in Nat /\ f.head + n + 0 <= 3 * MAX_FILE_BUFFER + 2
    BY <1>1, <1>2, Sizes
  <2>2. h \in 0 .. MAX_FILE_BUFFER
    BY <1>4, <2>1, RoundAgain
  <2>q. QED
    BY <2>2, Sizes
<1>7. /\ g \in FileBuffer /\ g.head = h /\ g.tail = f.tail
      /\ g.occ = f.occ - n /\ g.buffer = f.buffer
  <2>1. g = [f EXCEPT !.head = h, !.occ = f.occ - n]
    BY DEF file_buf_remove, h, n
  <2>2. f.occ - n \in 0 .. MAX_FILE_BUFFER
    BY <1>1, <1>2, Sizes
  <2> HIDE DEF g
  <2>q. QED
    BY <1>3, <1>6, <2>1, <2>2 DEF FileBuffer
<1> HIDE DEF g
<1>8. Sound(g)
  <2> DEFINE a == h + (f.occ - n) + MAX_FILE_BUFFER
  <2>1. a \in 0 .. 3 * MAX_FILE_BUFFER + 2
    BY <1>1, <1>2, <1>6, Sizes
  <2>2. a % Slots = Round(a)
    BY <2>1, RoundTheArray
  <2>3. f.tail = Round(a)
    <3> DEFINE b == f.head + n
               m == f.occ - n + MAX_FILE_BUFFER
    <3>1. b \in Nat /\ m \in Nat
      BY <1>1, <1>2, Sizes
    <3>2. b + m = f.head + f.occ + MAX_FILE_BUFFER /\ h + m = a
      BY <1>1, <1>2, <1>6, Sizes
    <3>3. f.head + f.occ + MAX_FILE_BUFFER <= 3 * MAX_FILE_BUFFER + 2
      BY <1>1, Sizes
    <3>4. h = Round(b)
      BY <1>4
    <3> HIDE DEF a, b, m
    <3>q. QED
      BY <1>1, <3>1, <3>2, <3>3, <3>4, RoundAgain
  <2>q. QED
    BY <1>7, <2>2, <2>3 DEF Sound
<1>9. ASSUME NEW k \in 1 .. f.occ - n
      PROVE  (h + k - 1) % Slots = (f.head + (n + k) - 1) % Slots
  <2>1. h + k - 1 \in 0 .. 3 * MAX_FILE_BUFFER + 2 /\ n + k \in 1 .. Slots
    BY <1>1, <1>2, <1>6, Sizes
  <2>2. (f.head + (n + k) - 1) % Slots = Round(f.head + (n + k) - 1)
    BY <1>m, <2>1
  <2>3. (h + k - 1) % Slots = Round(h + k - 1)
    BY <2>1, RoundTheArray
  <2>4. Round(h + k - 1) = Round(f.head + (n + k) - 1)
    <3> DEFINE b == f.head + n
               m == k - 1
    <3>1. b \in Nat /\ m \in Nat
      BY <1>1, <1>2
    <3>2. b + m = f.head + (n + k) - 1 /\ h + m = h + k - 1
      BY <1>1, <1>2, <1>6
    <3>3. f.head + (n + k) - 1 <= 3 * MAX_FILE_BUFFER + 2
      BY <1>1, <1>2, Sizes
    <3>4. h = Round(b)
      BY <1>4
    <3> HIDE DEF b, m
    <3>q. QED
      BY <3>1, <3>2, <3>3, <3>4, RoundAgain
  <2>q. QED
    BY <2>2, <2>3, <2>4
<1>10. Contents(f) = Removed(f, length) \o Contents(g)
  <2>1. \A k \in 1 .. f.occ : f.buffer[(f.head + k - 1) % Slots] \in Byte
    <3>1. \A k \in 1 .. f.occ : (f.head + k - 1) % Slots \in Slot
      BY <1>1, Sizes
    <3>q. QED
      BY <1>3, <3>1
  <2>2. /\ Removed(f, length) = [k \in 1 .. n |-> f.buffer[(f.head + k - 1) % Slots]]
        /\ Contents(f) = [k \in 1 .. f.occ |-> f.buffer[(f.head + k - 1) % Slots]]
        /\ Contents(g) = [k \in 1 .. f.occ - n |-> f.buffer[(h + k - 1) % Slots]]
    BY <1>7 DEF Removed, Contents, n
  <2>3. Contents(g) = [k \in 1 .. f.occ - n |-> f.buffer[(f.head + (n + k) - 1) % Slots]]
    BY <1>9, <2>2
  <2> DEFINE b == [k \in 1 .. f.occ |-> f.buffer[(f.head + k - 1) % Slots]]
             b1 == [k \in 1 .. n |-> b[k]]
             b2 == [k \in 1 .. f.occ - n |-> b[n + k]]
  <2>4. b \in Seq(Byte) /\ Len(b) = f.occ
    BY <1>1, <2>1
  <2>5. Removed(f, length) = b1
    BY <1>1, <1>2, <2>2
  <2>6. Contents(g) = b2
    BY <1>1, <1>2, <2>3
  <2> HIDE DEF b
  <2>7. b = b1 \o b2
    <3>1. /\ b1 \in Seq(Byte) /\ Len(b1) = n /\ b2 \in Seq(Byte) /\ Len(b2) = f.occ - n
      <4>1. \A k \in 1 .. n : b[k] \in Byte
        BY <1>1, <1>2, <2>4
      <4>2. \A k \in 1 .. f.occ - n : n + k \in 1 .. f.occ /\ b[n + k] \in Byte
        BY <1>1, <1>2, <2>4
      <4>3. n \in Nat /\ f.occ - n \in Nat
        BY <1>1, <1>2
      <4>q. QED
        BY <4>1, <4>2, <4>3
    <3> DEFINE c == b1 \o b2
    <3>2. c \in Seq(Byte) /\ Len(c) = f.occ
      BY <1>1, <1>2, <3>1
    <3>3. \A k \in 1 .. f.occ : c[k] = IF k <= n THEN b1[k] ELSE b2[k - n]
      BY <1>1, <1>2, <3>1
    <3>4. \A k \in 1 .. f.occ : c[k] = b[k]
      BY <1>1, <1>2, <3>3
    <3> HIDE DEF c
    <3>5. c = b
      BY <2>4, <3>2, <3>4
    <3>q. QED
      BY <3>5 DEF c
  <2>q. QED
    BY <2>2, <2>5, <2>6, <2>7 DEF b
<1>q. QED
  BY <1>8, <1>10 DEF g

\* The slot that is m steps after tail.
LEMMA StepsToNext ==
  ASSUME NEW tail \in 0 .. MAX_FILE_BUFFER, NEW m \in 1 .. MAX_FILE_BUFFER, NEW i \in Slot
  PROVE  StepsAfter(tail, i) = m <=> i = Round(tail + m)
<1>1. /\ Slots = MAX_FILE_BUFFER + 1 /\ i \in 0 .. MAX_FILE_BUFFER /\ MAX_FILE_BUFFER \in Nat
  BY Sizes
<1>2. StepsAfter(tail, i) = IF i > tail THEN i - tail ELSE i - tail + Slots
  BY DEF StepsAfter
<1>3. Round(tail + m) = IF tail + m < Slots THEN tail + m ELSE tail + m - Slots
  <2>1. tail + m \in Nat /\ tail + m < Slots + Slots
    BY <1>1
  <2>q. QED
    BY <1>1, <2>1 DEF Round
<1>q. QED
  BY <1>1, <1>2, <1>3

LEMMA SameFields ==
  ASSUME NEW f \in FileBuffer, NEW g \in FileBuffer,
         f.name = g.name, f.head = g.head, f.tail = g.tail, f.occ = g.occ, f.buffer = g.buffer
  PROVE  f = g
BY DEF FileBuffer

\* The fields of what file_buf_add returns.
LEMMA AddFields ==
  ASSUME NEW f, Sound(f), NEW string \in Seq(Byte)
  PROVE  LET g == file_buf_add(f, string)
             n == Least(Len(string), MAX_FILE_BUFFER - f.occ)
         IN /\ n \in 0 .. MAX_FILE_BUFFER /\ n <= Len(string) /\ n <= MAX_FILE_BUFFER - f.occ
            /\ Sound(g) /\ g.name = f.name /\ g.head = f.head
            /\ g.tail = Round(f.tail + n) /\ g.occ = f.occ + n
            /\ g.buffer = [i \in Slot |-> LET k == StepsAfter(f.tail, i)
                                          IN IF k <= n THEN string[k] ELSE f.buffer[i]]
<1> DEFINE g == file_buf_add(f, string)
           n == Least(Len(string), MAX_FILE_BUFFER - f.occ)
           t == (f.tail + n) % Slots
           new == [i \in Slot |-> LET k == StepsAfter(f.tail, i)
                                  IN IF k <= n THEN string[k] ELSE f.buffer[i]]
<1>1. Sound(g)
  BY AddAppends
<1>2. f \in FileBuffer
  BY DEF Sound
<1>3. f.tail \in 0 .. MAX_FILE_BUFFER /\ f.occ \in 0 .. MAX_FILE_BUFFER /\ Len(string) \in Nat
  BY SoundNumbers
<1>4. n \in 0 .. MAX_FILE_BUFFER /\ n <= Len(string) /\ n <= MAX_FILE_BUFFER - f.occ
  BY <1>3, Sizes DEF Least
<1>5. g = [f EXCEPT !.tail = t, !.occ = f.occ + n, !.buffer = new]
  BY DEF file_buf_add
<1> HIDE DEF n
<1>6. t = Round(f.tail + n)
  <2>1. f.tail + n \in 0 .. 3 * MAX_FILE_BUFFER + 2
    BY <1>3, <1>4, Sizes
  <2>q. QED
    BY <2>1, RoundTheArray
<1> HIDE DEF t, new, g
<1>7. g.name = f.name /\ g.head = f.head /\ g.tail = t /\ g.occ = f.occ + n /\ g.buffer = new
  BY <1>2, <1>5 DEF FileBuffer
<1>q. QED
  BY <1>1, <1>4, <1>6, <1>7 DEF g, n, new

\* file_buf_add is its loop: one byte more in the string is one iteration more.
THEOREM AddIsLoop ==
  ASSUME NEW f, Sound(f), NEW string \in Seq(Byte), NEW byte \in Byte
  PROVE  file_buf_add(f, Append(string, byte)) = AddByte(file_buf_add(f, string), byte)
<1> DEFINE more == Append(string, byte)
           g == file_buf_add(f, string)
           h == file_buf_add(f, more)
           n == Least(Len(string), MAX_FILE_BUFFER - f.occ)
           m == Least(Len(more), MAX_FILE_BUFFER - f.occ)
<1>1. /\ more \in Seq(Byte) /\ Len(string) \in Nat /\ Len(more) = Len(string) + 1
      /\ more[Len(string) + 1] = byte /\ \A k \in 1 .. Len(string) : more[k] = string[k]
  OBVIOUS
<1>2. f.tail \in 0 .. MAX_FILE_BUFFER /\ f.occ \in 0 .. MAX_FILE_BUFFER
  BY SoundNumbers
<1>3. m = IF f.occ + n < MAX_FILE_BUFFER THEN n + 1 ELSE n
  BY <1>1, <1>2, Sizes DEF Least
<1>4. f.occ + n < MAX_FILE_BUFFER => n = Len(string)
  BY <1>1, <1>2, Sizes DEF Least
<1> HIDE DEF more
<1>5. /\ n \in 0 .. MAX_FILE_BUFFER /\ n <= Len(string) /\ n <= MAX_FILE_BUFFER - f.occ
      /\ Sound(g) /\ g.name = f.name /\ g.head = f.head
      /\ g.tail = Round(f.tail + n) /\ g.occ = f.occ + n
      /\ g.buffer = [i \in Slot |-> LET k == StepsAfter(f.tail, i)
                                    IN IF k <= n THEN string[k] ELSE f.buffer[i]]
  BY AddFields
<1>6. /\ Sound(h) /\ h.name = f.name /\ h.head = f.head
      /\ h.tail = Round(f.tail + m) /\ h.occ = f.occ + m
      /\ h.buffer = [i \in Slot |-> LET k == StepsAfter(f.tail, i)
                                    IN IF k <= m THEN more[k] ELSE f.buffer[i]]
  BY <1>1, AddFields
<1> HIDE DEF g, h, n, m
<1>a. /\ n \in Nat /\ n <= MAX_FILE_BUFFER /\ g.occ = f.occ + n /\ h.occ = f.occ + m
      /\ f.occ \in Nat /\ f.tail \in Nat /\ f.tail <= MAX_FILE_BUFFER
      /\ MAX_FILE_BUFFER \in Nat /\ Slots = MAX_FILE_BUFFER + 1
  BY <1>2, <1>5, <1>6, Sizes
<1>7. \A i \in Slot : StepsAfter(f.tail, i) \in 1 .. Slots
  BY <1>2, Sizes DEF StepsAfter
<1>8. g \in FileBuffer /\ h \in FileBuffer
  BY <1>5, <1>6 DEF Sound
<1>9. CASE f.occ + n >= MAX_FILE_BUFFER
  <2>1. m = n
    BY <1>2, <1>3, <1>5, <1>9, Sizes
  <2>2. \A i \in Slot : StepsAfter(f.tail, i) <= n =>
          more[StepsAfter(f.tail, i)] = string[StepsAfter(f.tail, i)]
    BY <1>1, <1>5, <1>7
  <2>3. h.buffer = g.buffer
    BY <1>5, <1>6, <2>1, <2>2
  <2>4. h = g
    BY <1>5, <1>6, <1>8, <2>1, <2>3, SameFields
  <2>5. ~(g.occ < MAX_FILE_BUFFER)
    BY <1>2, <1>5, <1>9, Sizes
  <2>6. AddByte(g, byte) = g
    BY <2>5 DEF AddByte
  <2>q. QED
    BY <2>4, <2>6 DEF g, h, more
<1>10. CASE f.occ + n < MAX_FILE_BUFFER
  <2> DEFINE t == (g.tail + 1) % Slots
             a == AddByte(g, byte)
  <2>1. m = n + 1 /\ n = Len(string) /\ n < MAX_FILE_BUFFER
    BY <1>2, <1>3, <1>4, <1>5, <1>10, Sizes
  <2>2. a = [g EXCEPT !.tail = t, !.occ = g.occ + 1, !.buffer = [g.buffer EXCEPT ![t] = byte]]
    BY <1>5, <1>8, <1>10 DEF AddByte, FileBuffer
  <2>3. t = Round(f.tail + m) /\ t \in 0 .. MAX_FILE_BUFFER
    <3>1. /\ f.tail + n \in Nat /\ 1 \in Nat /\ f.tail + n + 1 <= 3 * MAX_FILE_BUFFER + 2
          /\ f.tail + m \in Nat /\ f.tail + m + 0 <= 3 * MAX_FILE_BUFFER + 2
          /\ f.tail + n + 1 = f.tail + m
      BY <1>a, <2>1
    <3>2. g.tail \in 0 .. MAX_FILE_BUFFER
      BY <1>5, SoundNumbers
    <3>3. g.tail + 1 \in 0 .. 3 * MAX_FILE_BUFFER + 2
      BY <3>2, Sizes
    <3>4. t = Round(g.tail + 1)
      BY <3>3, RoundTheArray
    <3>5. t = Round(f.tail + n + 1)
      BY <1>5, <3>1, <3>4, RoundAgain
    <3>q. QED
      BY <3>1, <3>5, RoundAgain
  <2> HIDE DEF t, a
  <2>4. \A i \in Slot : StepsAfter(f.tail, i) = m <=> i = t
    <3>1. f.tail \in 0 .. MAX_FILE_BUFFER /\ m \in 1 .. MAX_FILE_BUFFER
      <4>1. f.tail \in 0 .. MAX_FILE_BUFFER
        BY <1>2
      <4>2. m \in 1 .. MAX_FILE_BUFFER
        BY <1>a, <2>1
      <4>q. QED
        BY <4>1, <4>2
    <3>q. QED
      BY <2>3, <3>1, StepsToNext
  <2>5. h.buffer = [g.buffer EXCEPT ![t] = byte]
    <3>1. \A i \in Slot : (IF StepsAfter(f.tail, i) <= m THEN more[StepsAfter(f.tail, i)]
                                                       ELSE f.buffer[i])
                        = IF i = t THEN byte ELSE g.buffer[i]
      <4> SUFFICES ASSUME NEW i \in Slot
                   PROVE  (IF StepsAfter(f.tail, i) <= m THEN more[StepsAfter(f.tail, i)]
                                                         ELSE f.buffer[i])
                          = IF i = t THEN byte ELSE g.buffer[i]
        OBVIOUS
      <4> DEFINE k == StepsAfter(f.tail, i)
      <4>1. k \in Nat /\ k >= 1
        BY <1>7, Sizes
      <4>2. k = m <=> i = t
        BY <2>4
      <4>3. g.buffer[i] = IF k <= n THEN string[k] ELSE f.buffer[i]
        BY <1>5
      <4>4. k <= n => more[k] = string[k]
        BY <1>1, <1>5, <4>1
      <4>5. k = m => more[k] = byte
        BY <1>1, <2>1
      <4> HIDE DEF k
      <4>6. k <= m <=> k <= n \/ k = m
        BY <1>5, <2>1, <4>1
      <4>7. k = m => ~(k <= n)
        BY <1>5, <2>1
      <4>8. (IF k <= m THEN more[k] ELSE f.buffer[i]) = IF i = t THEN byte ELSE g.buffer[i]
        BY <4>2, <4>3, <4>4, <4>5, <4>6, <4>7
      <4>q. QED
        BY <4>8 DEF k
    <3>2. h.buffer = [i \in Slot |-> IF i = t THEN byte ELSE g.buffer[i]]
      BY <1>6, <3>1
    <3>3. [g.buffer EXCEPT ![t] = byte] = [i \in Slot |-> IF i = t THEN byte ELSE g.buffer[i]]
      BY <1>5
    <3>q. QED
      BY <3>2, <3>3
  <2>6. /\ a \in FileBuffer /\ a.name = g.name /\ a.head = g.head /\ a.tail = t
        /\ a.occ = g.occ + 1 /\ a.buffer = [g.buffer EXCEPT ![t] = byte]
    <3>1. /\ t \in Slot /\ g.occ + 1 \in 0 .. MAX_FILE_BUFFER
          /\ [g.buffer EXCEPT ![t] = byte] \in [Slot -> Byte]
      <4>1. g.buffer \in [Slot -> Byte]
        BY <1>8 DEF FileBuffer
      <4>2. byte \in Byte /\ t \in Slot
        BY <2>3, Sizes
      <4>3. g.occ + 1 \in 0 .. MAX_FILE_BUFFER
        BY <1>a, <1>10
      <4>4. [g.buffer EXCEPT ![t] = byte] \in [Slot -> Byte]
        BY <4>1, <4>2
      <4>q. QED
        BY <4>2, <4>3, <4>4
    <3>q. QED
      BY <1>8, <2>2, <3>1 DEF FileBuffer
  <2>7. h.occ = a.occ
    BY <1>a, <2>1, <2>6
  <2>8. h = a
    BY <1>5, <1>6, <1>8, <2>3, <2>5, <2>6, <2>7, SameFields
  <2>q. QED
    BY <2>8 DEF g, h, more, a
<1>q. QED
  BY <1>2, <1>5, <1>9, <1>10, Sizes

--------------------------------------------------------------------------------
(* Natural numbers: the least one of a set, and a function that is iterated.    *)

LEMMA LeastIn ==
  ASSUME NEW S \in SUBSET Nat, S # {}
  PROVE  \E m \in S : \A i \in S : m <= i
<1>1. PICK m \in S : \A i \in S : ~(<<i, m>> \in OpToRel(<, Nat))
  BY WFMin, NatLessThanWellFounded, Zenon
<1>2. ASSUME NEW i \in S
      PROVE  m <= i
  <2>1. i \in Nat /\ m \in Nat
    OBVIOUS
  <2>2. ~(i < m)
    <3> SUFFICES ASSUME i < m PROVE FALSE
      OBVIOUS
    <3>1. <<i, m>> \in OpToRel(<, Nat)
      BY <2>1, Zenon DEF OpToRel
    <3>q. QED
      BY <1>1, <3>1
  <2>q. QED
    BY <2>1, <2>2
<1>q. QED
  BY <1>2

\* g holds the first n results of F, begun with a.
Prefix(S, a, F, n, g) ==
  g \in [0 .. n -> S] /\ g[0] = a /\ \A i \in 0 .. n - 1 : g[i + 1] = F[g[i]]

LEMMA PrefixExists ==
  ASSUME NEW S, NEW a \in S, NEW F \in [S -> S], NEW n \in Nat
  PROVE  \E g : Prefix(S, a, F, n, g)
<1> DEFINE Bad == {k \in Nat : ~ \E g : Prefix(S, a, F, k, g)}
<1> SUFFICES ASSUME Bad # {} PROVE FALSE
  OBVIOUS
<1>1. PICK m \in Bad : \A i \in Bad : m <= i
  <2>1. Bad \in SUBSET Nat
    OBVIOUS
  <2> HIDE DEF Bad
  <2>q. QED
    BY <2>1, LeastIn
<1>2. m \in Nat /\ ~ \E g : Prefix(S, a, F, m, g)
  BY <1>1
<1>3. CASE m = 0
  <2> DEFINE g == [i \in 0 .. 0 |-> a]
  <2>1. g \in [0 .. 0 -> S] /\ g[0] = a
    OBVIOUS
  <2> HIDE DEF g
  <2>2. Prefix(S, a, F, 0, g)
    BY <2>1 DEF Prefix
  <2>q. QED
    BY <1>2, <1>3, <2>2
<1>4. CASE m # 0
  <2>1. m - 1 \in Nat /\ m - 1 \notin Bad
    BY <1>1, <1>2, <1>4
  <2>2. PICK g : Prefix(S, a, F, m - 1, g)
    BY <2>1
  <2>3. /\ g \in [0 .. m - 1 -> S] /\ g[0] = a
        /\ \A i \in 0 .. m - 1 - 1 : g[i + 1] = F[g[i]]
    BY <2>2 DEF Prefix
  <2> DEFINE h == [i \in 0 .. m |-> IF i = m THEN F[g[m - 1]] ELSE g[i]]
  <2>4. g[m - 1] \in S /\ F[g[m - 1]] \in S
    BY <2>1, <2>3
  <2>5. \A i \in 0 .. m : i # m => i \in 0 .. m - 1 /\ g[i] \in S
    BY <1>2, <2>3
  <2>6. h \in [0 .. m -> S]
    BY <2>4, <2>5
  <2>7. h[0] = a
    BY <1>2, <1>4, <2>3
  <2>8. ASSUME NEW i \in 0 .. m - 1 PROVE h[i + 1] = F[h[i]]
    <3>1. i \in 0 .. m /\ i + 1 \in 0 .. m /\ i # m /\ h[i] = g[i]
      BY <1>2
    <3>2. CASE i = m - 1
      BY <1>2, <3>1, <3>2
    <3>3. CASE i # m - 1
      <4>1. i \in 0 .. m - 1 - 1 /\ i + 1 # m
        BY <1>2, <3>3
      <4>q. QED
        BY <2>3, <3>1, <4>1
    <3>q. QED
      BY <3>2, <3>3
  <2> HIDE DEF h
  <2>q. QED
    BY <1>2, <2>6, <2>7, <2>8 DEF Prefix
<1>q. QED
  BY <1>3, <1>4

LEMMA PrefixUnique ==
  ASSUME NEW S, NEW a \in S, NEW F \in [S -> S], NEW n \in Nat, NEW m \in Nat, n <= m,
         NEW g, Prefix(S, a, F, n, g), NEW h, Prefix(S, a, F, m, h)
  PROVE  g[n] = h[n]
<1> DEFINE Bad == {k \in 0 .. n : g[k] # h[k]}
<1> SUFFICES ASSUME Bad # {} PROVE FALSE
  OBVIOUS
<1>1. PICK k \in Bad : \A i \in Bad : k <= i
  <2>1. Bad \in SUBSET Nat
    OBVIOUS
  <2> HIDE DEF Bad
  <2>q. QED
    BY <2>1, LeastIn
<1>2. k \in 0 .. n /\ g[k] # h[k]
  BY <1>1
<1>3. /\ g[0] = a /\ \A i \in 0 .. n - 1 : g[i + 1] = F[g[i]]
      /\ h[0] = a /\ \A i \in 0 .. m - 1 : h[i + 1] = F[h[i]]
  BY DEF Prefix
<1>4. k # 0
  BY <1>2, <1>3
<1>5. /\ k - 1 \in 0 .. n /\ k - 1 \in 0 .. n - 1 /\ k - 1 \in 0 .. m - 1
      /\ k - 1 + 1 = k /\ ~(k <= k - 1)
  BY <1>2, <1>4
<1>6. g[k - 1] = h[k - 1]
  BY <1>1, <1>5
<1>q. QED
  BY <1>2, <1>3, <1>5, <1>6

\* f holds all of them.
Iterates(S, a, F, f) == f \in [Nat -> S] /\ f[0] = a /\ \A n \in Nat : f[n + 1] = F[f[n]]

LEMMA Iteration ==
  ASSUME NEW S, NEW a \in S, NEW F \in [S -> S]
  PROVE  \E f : Iterates(S, a, F, f)
<1> DEFINE G(n) == CHOOSE g : Prefix(S, a, F, n, g)
           f == [n \in Nat |-> G(n)[n]]
<1>1. ASSUME NEW n \in Nat PROVE Prefix(S, a, F, n, G(n))
  BY PrefixExists
<1>2. ASSUME NEW n \in Nat
      PROVE  G(n)[n] \in S /\ G(n + 1)[n + 1] = F[G(n)[n]]
  <2>1. n + 1 \in Nat /\ n <= n + 1 /\ n \in 0 .. n /\ n \in 0 .. n + 1 - 1
    OBVIOUS
  <2>2. Prefix(S, a, F, n, G(n)) /\ Prefix(S, a, F, n + 1, G(n + 1))
    BY <1>1, <2>1
  <2> HIDE DEF G
  <2>3. G(n)[n] = G(n + 1)[n]
    BY <2>1, <2>2, PrefixUnique
  <2>q. QED
    BY <2>1, <2>2, <2>3 DEF Prefix
<1>3. G(0)[0] = a
  <2>1. Prefix(S, a, F, 0, G(0))
    BY <1>1
  <2> HIDE DEF G
  <2>q. QED
    BY <2>1 DEF Prefix
<1> HIDE DEF G
<1>4. f \in [Nat -> S]
  BY <1>2
<1>5. f[0] = a /\ \A n \in Nat : f[n + 1] = F[f[n]]
  BY <1>2, <1>3
<1> HIDE DEF f
<1>6. Iterates(S, a, F, f)
  BY <1>4, <1>5 DEF Iterates
<1>q. QED
  BY <1>6

--------------------------------------------------------------------------------
(* Splitting a file.                                                            *)

Place == 0 .. MAX_FILE_BUFFER + MAX_MSG_LENGTH
Middles(n) == IF n = 0 THEN 0 ELSE (n - 1) \div MAX_MSG_LENGTH

LEMMA MiddlesFit ==
  ASSUME NEW n \in Nat
  PROVE  /\ Middles(n) \in Nat /\ Middles(n) * MAX_MSG_LENGTH \in Nat
         /\ Middles(n) * MAX_MSG_LENGTH <= n
         /\ n - Middles(n) * MAX_MSG_LENGTH <= MAX_MSG_LENGTH
         /\ n > 0 => Middles(n) * MAX_MSG_LENGTH < n
         /\ \A k \in 1 .. Middles(n) :
              /\ (k - 1) * MAX_MSG_LENGTH \in Nat
              /\ (k - 1) * MAX_MSG_LENGTH + MAX_MSG_LENGTH <= Middles(n) * MAX_MSG_LENGTH
<1> DEFINE M == MAX_MSG_LENGTH
<1>1. M \in Nat /\ M > 0
  BY TransferAssumption
<1>2. CASE n = 0
  BY <1>1, <1>2 DEF Middles
<1>3. CASE n # 0
  <2> DEFINE d == (n - 1) \div M
  <2>1. Middles(n) = d
    BY <1>3 DEF Middles
  <2>2. d \in Nat /\ d * M \in Nat /\ d * M <= n - 1 /\ n - 1 - d * M < M
    <3>1. ASSUME NEW a \in Nat, NEW b \in Nat, b > 0
          PROVE  a \div b \in Nat /\ (a \div b) * b \in Nat
                 /\ (a \div b) * b <= a /\ a - (a \div b) * b < b
      BY <3>1, SMTT(20)
    <3>2. n - 1 \in Nat
      BY <1>3
    <3>q. QED
      BY <1>1, <3>1, <3>2
  <2> HIDE DEF d
  <2>3. ASSUME NEW k \in 1 .. d
        PROVE  (k - 1) * M \in Nat /\ (k - 1) * M + M <= d * M
    <3>1. k \in Nat /\ k >= 1 /\ k <= d
      BY <2>2
    <3> HIDE DEF M
    <3>2. (k - 1) * M \in Nat /\ (k - 1) * M + M = k * M
      BY <1>1, <3>1, SMTT(20)
    <3>3. k * M <= d * M
      BY <1>1, <2>2, <3>1, SMTT(20)
    <3>q. QED
      BY <3>2, <3>3
  <2>q. QED
    BY <1>1, <1>3, <2>1, <2>2, <2>3
<1>q. QED
  BY <1>2, <1>3

LEMMA Buffers ==
  ASSUME NEW content \in Seq(Byte), Len(content) <= MAX_FILE_BUFFER
  PROVE  /\ ReadInto(content) \in [Place -> Byte]
         /\ \A b \in [Place -> Byte] : Shift(b) \in [Place -> Byte]
<1>1. NUL \in Byte /\ Junk \in Byte
  BY SizeAssumption, TransferAssumption
<1>2. \A i \in Place : i < Len(content) => content[i + 1] \in Byte
  BY Sizes, TransferAssumption DEF Place
<1>3. ReadInto(content) \in [Place -> Byte]
  BY <1>1, <1>2 DEF ReadInto, Place
<1>4. ASSUME NEW b \in [Place -> Byte] PROVE Shift(b) \in [Place -> Byte]
  <2>1. DOMAIN b = Place
    OBVIOUS
  <2>q. QED
    BY <2>1 DEF Shift
<1>q. QED
  BY <1>3, <1>4

\* buffer holds what is left after each packet.
Shifted(buffer, content) ==
  /\ buffer \in [Nat -> [Place -> Byte]]
  /\ buffer[0] = ReadInto(content)
  /\ \A k \in Nat : buffer[k + 1] = Shift(buffer[k])

LEMMA SplitShifted ==
  ASSUME NEW content \in Seq(Byte), Len(content) <= MAX_FILE_BUFFER
  PROVE  \E buffer :
           /\ Shifted(buffer, content)
           /\ LET n == Len(content)
              IN Split(content) =
                   [k \in 1 .. Middles(n) |-> strncpy(buffer[k - 1], MAX_MSG_LENGTH)] \o
                   <<[i \in 1 .. n - Middles(n) * MAX_MSG_LENGTH |-> buffer[Middles(n)][i - 1]]>>
<1> DEFINE buffer[k \in Nat] == IF k = 0 THEN ReadInto(content) ELSE Shift(buffer[k - 1])
           F == [b \in [Place -> Byte] |-> Shift(b)]
<1>1. /\ ReadInto(content) \in [Place -> Byte] /\ F \in [[Place -> Byte] -> [Place -> Byte]]
  BY Buffers
<1>2. PICK f \in [Nat -> [Place -> Byte]] :
        f[0] = ReadInto(content) /\ \A n \in Nat : f[n + 1] = F[f[n]]
  <2>1. \E f : Iterates([Place -> Byte], ReadInto(content), F, f)
    <3> HIDE DEF F
    <3>q. QED
      BY <1>1, Iteration
  <2>q. QED
    BY <2>1 DEF Iterates
<1>3. \A n \in Nat : f[n + 1] = Shift(f[n])
  BY <1>2
<1>4. f = [k \in Nat |-> IF k = 0 THEN ReadInto(content) ELSE Shift(f[k - 1])]
  <2>1. ASSUME NEW k \in Nat
        PROVE  f[k] = IF k = 0 THEN ReadInto(content) ELSE Shift(f[k - 1])
    <3>1. k # 0 => k - 1 \in Nat /\ k - 1 + 1 = k
      OBVIOUS
    <3>q. QED
      BY <1>2, <1>3, <3>1
  <2>2. DOMAIN f = Nat /\ f = [k \in Nat |-> f[k]]
    BY <1>2
  <2>q. QED
    BY <2>1, <2>2
<1>5. buffer = [k \in Nat |-> IF k = 0 THEN ReadInto(content) ELSE Shift(buffer[k - 1])]
  BY <1>4, Zenon
<1> DEFINE n == Len(content)
<1>6. Split(content) =
        [k \in 1 .. Middles(n) |-> strncpy(buffer[k - 1], MAX_MSG_LENGTH)] \o
        <<[i \in 1 .. n - Middles(n) * MAX_MSG_LENGTH |-> buffer[Middles(n)][i - 1]]>>
  BY Zenon DEF Split, Middles
<1> HIDE DEF buffer
<1>7. ASSUME NEW k \in Nat
      PROVE  buffer[k] = IF k = 0 THEN ReadInto(content) ELSE Shift(buffer[k - 1])
  BY <1>5
<1>8. \A k \in Nat : buffer[k] = f[k]
  <2> DEFINE Bad == {k \in Nat : buffer[k] # f[k]}
  <2> SUFFICES ASSUME Bad # {} PROVE FALSE
    OBVIOUS
  <2>1. PICK m \in Bad : \A i \in Bad : m <= i
    <3>1. Bad \in SUBSET Nat
      OBVIOUS
    <3> HIDE DEF Bad
    <3>q. QED
      BY <3>1, LeastIn
  <2>2. m \in Nat /\ buffer[m] # f[m]
    BY <2>1
  <2>3. m # 0
    BY <1>2, <1>7, <2>2
  <2>4. m - 1 \in Nat /\ m - 1 + 1 = m /\ ~(m <= m - 1)
    BY <2>2, <2>3
  <2>5. buffer[m - 1] = f[m - 1]
    BY <2>1, <2>4
  <2>6. f[m] = Shift(f[m - 1])
    BY <1>3, <2>4
  <2>q. QED
    BY <1>7, <2>2, <2>3, <2>5, <2>6
<1>9. buffer = f
  <2>1. buffer = [k \in Nat |-> buffer[k]]
    BY <1>5
  <2>2. f = [k \in Nat |-> f[k]]
    BY <1>2
  <2>q. QED
    BY <1>8, <2>1, <2>2
<1>10. Shifted(buffer, content)
  BY <1>2, <1>3, <1>9 DEF Shifted
<1>q. QED
  BY <1>6, <1>10

Clean == Byte \ {Junk}

\* (k + 1) * MAX_MSG_LENGTH without a product.
LEMMA NextPart ==
  ASSUME NEW k \in Nat
  PROVE  /\ k * MAX_MSG_LENGTH \in Nat /\ MAX_MSG_LENGTH \in Nat /\ MAX_MSG_LENGTH > 0
         /\ (k + 1) * MAX_MSG_LENGTH = k * MAX_MSG_LENGTH + MAX_MSG_LENGTH
<1>1. MAX_MSG_LENGTH \in Nat /\ MAX_MSG_LENGTH > 0
  BY TransferAssumption
<1>q. QED
  BY <1>1, SMTT(20)

\* What is in front of the end of the file is never Junk, ...
LEMMA BuffersClean ==
  ASSUME NEW content \in Seq(Clean), Len(content) <= MAX_FILE_BUFFER,
         NEW buffer, Shifted(buffer, content),
         NEW k \in Nat
  PROVE  \A j \in Place : j + k * MAX_MSG_LENGTH <= Len(content) => buffer[k][j] # Junk
<1> DEFINE M == MAX_MSG_LENGTH
           n == Len(content)
           Good(i) == \A j \in Place : j + i * M <= n => buffer[i][j] # Junk
           Bad == {i \in Nat : ~Good(i)}
<1>1. n \in Nat
  OBVIOUS
<1>2. Good(0)
  <2>1. ASSUME NEW j \in Place, j + 0 * M <= n PROVE buffer[0][j] # Junk
    <3>1. j \in Nat /\ j <= n
      BY <2>1, Sizes, NextPart DEF Place
    <3>2. buffer[0][j] = IF j < n THEN content[j + 1] ELSE IF j = n THEN NUL ELSE Junk
      BY <2>1 DEF Shifted, ReadInto, Place
    <3>3. CASE j < n
      <4>1. j + 1 \in 1 .. n
        BY <3>1, <3>3
      <4>2. content[j + 1] \in Clean
        BY <4>1
      <4>q. QED
        BY <3>2, <3>3, <4>2 DEF Clean
    <3>4. CASE j = n
      BY <3>2, <3>4, TransferAssumption
    <3>q. QED
      BY <1>1, <3>1, <3>3, <3>4
  <2>q. QED
    BY <2>1
<1>3. ASSUME NEW i \in Nat, Good(i) PROVE Good(i + 1)
  <2>1. ASSUME NEW j \in Place, j + (i + 1) * M <= n PROVE buffer[i + 1][j] # Junk
    <3>1. i * M \in Nat /\ M \in Nat /\ (i + 1) * M = i * M + M
      BY NextPart
    <3>2. j \in Nat
      BY <2>1, Sizes, NextPart DEF Place
    <3>3. j + i * M <= n /\ j + M + i * M <= n
      BY <1>1, <2>1, <3>1, <3>2
    <3>4. buffer[i + 1] = Shift(buffer[i]) /\ buffer[i] \in [Place -> Byte]
      BY DEF Shifted
    <3>5. buffer[i + 1][j] = buffer[i][j] \/ (j + M \in Place /\ buffer[i + 1][j] = buffer[i][j + M])
      BY <3>4 DEF Shift
    <3>q. QED
      BY <1>3, <2>1, <3>3, <3>5
  <2>q. QED
    BY <2>1
<1> SUFFICES ASSUME Bad # {} PROVE FALSE
  OBVIOUS
<1> HIDE DEF Good
<1>4. PICK m \in Bad : \A i \in Bad : m <= i
  <2>1. Bad \in SUBSET Nat
    OBVIOUS
  <2> HIDE DEF Bad
  <2>q. QED
    BY <2>1, LeastIn
<1>5. m \in Nat /\ ~Good(m) /\ m # 0
  BY <1>2, <1>4
<1>6. m - 1 \in Nat /\ m - 1 + 1 = m /\ ~(m <= m - 1)
  BY <1>5
<1>7. Good(m - 1)
  BY <1>4, <1>6
<1>q. QED
  BY <1>3, <1>5, <1>6, <1>7

\* ... and if no byte of the file is NUL, it is what comes next in the file.
LEMMA BuffersWhole ==
  ASSUME NEW content \in Seq(Byte), Len(content) <= MAX_FILE_BUFFER,
         \A i \in 1 .. Len(content) : content[i] # NUL,
         NEW buffer, Shifted(buffer, content),
         NEW k \in Nat
  PROVE  \A j \in Place :
           /\ j + k * MAX_MSG_LENGTH < Len(content) =>
                buffer[k][j] = content[j + k * MAX_MSG_LENGTH + 1]
           /\ j + k * MAX_MSG_LENGTH = Len(content) => buffer[k][j] = NUL
<1> DEFINE M == MAX_MSG_LENGTH
           n == Len(content)
           Good(i) == \A j \in Place :
                        /\ j + i * M < n => buffer[i][j] = content[j + i * M + 1]
                        /\ j + i * M = n => buffer[i][j] = NUL
           Bad == {i \in Nat : ~Good(i)}
<1>1. n \in Nat
  OBVIOUS
<1>2. Good(0)
  <2>1. ASSUME NEW j \in Place
        PROVE  /\ j + 0 * M < n => buffer[0][j] = content[j + 0 * M + 1]
               /\ j + 0 * M = n => buffer[0][j] = NUL
    <3>1. j \in Nat /\ j + 0 * M = j
      BY <2>1, Sizes, NextPart DEF Place
    <3>2. buffer[0][j] = IF j < n THEN content[j + 1] ELSE IF j = n THEN NUL ELSE Junk
      BY <2>1 DEF Shifted, ReadInto, Place
    <3>q. QED
      BY <1>1, <3>1, <3>2
  <2>q. QED
    BY <2>1
<1>3. ASSUME NEW i \in Nat, Good(i) PROVE Good(i + 1)
  <2>1. ASSUME NEW j \in Place, j + (i + 1) * M <= n
        PROVE  /\ j + (i + 1) * M < n => buffer[i + 1][j] = content[j + (i + 1) * M + 1]
               /\ j + (i + 1) * M = n => buffer[i + 1][j] = NUL
    <3>1. i * M \in Nat /\ M \in Nat /\ M > 0 /\ (i + 1) * M = i * M + M
      BY NextPart
    <3>2. j \in Nat /\ \A e \in Place : e \in Nat
      BY <2>1, Sizes, NextPart DEF Place
    <3>3. j + M + i * M <= n /\ j + M + i * M = j + (i + 1) * M
      BY <1>1, <2>1, <3>1, <3>2
    <3>4. j + M \in Place
      BY <1>1, <3>1, <3>2, <3>3, Sizes DEF Place
    <3>5. buffer[i + 1] = Shift(buffer[i]) /\ buffer[i] \in [Place -> Byte]
      BY DEF Shifted
    <3>6. ASSUME NEW e \in Place, e >= M, buffer[i][e] = NUL PROVE j < e
      <4>1. ~(e + i * M < n)
        <5> SUFFICES ASSUME e + i * M < n PROVE FALSE
          OBVIOUS
        <5>1. buffer[i][e] = content[e + i * M + 1]
          BY <1>3
        <5>2. e + i * M + 1 \in 1 .. n
          BY <1>1, <3>1, <3>2
        <5>3. content[e + i * M + 1] # NUL
          BY <5>2
        <5>q. QED
          BY <3>6, <5>1, <5>3
      <4>q. QED
        BY <1>1, <3>1, <3>2, <3>3, <4>1
    <3>7. buffer[i + 1][j] = buffer[i][j + M]
      <4>1. DOMAIN buffer[i] = Place
        BY <3>5
      <4>q. QED
        BY <3>4, <3>5, <3>6, <4>1 DEF Shift
    <3>8. /\ j + M + i * M < n => buffer[i][j + M] = content[j + M + i * M + 1]
          /\ j + M + i * M = n => buffer[i][j + M] = NUL
      BY <1>3, <3>4
    <3>q. QED
      BY <3>3, <3>7, <3>8
  <2>2. ASSUME NEW j \in Place, j + (i + 1) * M < n \/ j + (i + 1) * M = n
        PROVE  j + (i + 1) * M <= n
    <3>1. j \in Nat
      BY Sizes, NextPart DEF Place
    <3>2. (i + 1) * M \in Nat
      <4>1. i + 1 \in Nat
        OBVIOUS
      <4>q. QED
        BY <4>1, NextPart
    <3>q. QED
      BY <1>1, <2>2, <3>1, <3>2
  <2>q. QED
    BY <2>1, <2>2
<1> SUFFICES ASSUME Bad # {} PROVE FALSE
  OBVIOUS
<1> HIDE DEF Good
<1>4. PICK m \in Bad : \A i \in Bad : m <= i
  <2>1. Bad \in SUBSET Nat
    OBVIOUS
  <2> HIDE DEF Bad
  <2>q. QED
    BY <2>1, LeastIn
<1>5. m \in Nat /\ ~Good(m) /\ m # 0
  BY <1>2, <1>4
<1>6. m - 1 \in Nat /\ m - 1 + 1 = m /\ ~(m <= m - 1)
  BY <1>5
<1>7. Good(m - 1)
  BY <1>4, <1>6
<1>q. QED
  BY <1>3, <1>5, <1>6, <1>7

\* Each part is a piece of a buffer.
LEMMA SplitParts ==
  ASSUME NEW content \in Seq(Byte), Len(content) <= MAX_FILE_BUFFER
  PROVE  \E buffer :
           LET n == Len(content)
               m == Middles(n)
               last == [i \in 1 .. n - m * MAX_MSG_LENGTH |-> buffer[m][i - 1]]
           IN /\ Shifted(buffer, content)
              /\ last \in Seq(Byte)
              /\ \A k \in 1 .. m : strncpy(buffer[k - 1], MAX_MSG_LENGTH) \in Seq(Byte)
              /\ Split(content) \in Seq(Seq(Byte)) /\ Len(Split(content)) = m + 1
              /\ \A k : k = m + 1 => Split(content)[k] = last
              /\ \A k \in 1 .. m :
                   Split(content)[k] = strncpy(buffer[k - 1], MAX_MSG_LENGTH)
<1> DEFINE n == Len(content)
           m == Middles(n)
           M == MAX_MSG_LENGTH
<1>1. PICK buffer :
        /\ Shifted(buffer, content)
        /\ Split(content) = [k \in 1 .. m |-> strncpy(buffer[k - 1], M)] \o
                            <<[i \in 1 .. n - m * M |-> buffer[m][i - 1]]>>
  BY SplitShifted
<1> DEFINE last == [i \in 1 .. n - m * M |-> buffer[m][i - 1]]
           first == [k \in 1 .. m |-> strncpy(buffer[k - 1], M)]
<1>2. /\ n \in Nat /\ n <= MAX_FILE_BUFFER /\ m \in Nat /\ m * M \in Nat /\ m * M <= n
      /\ M \in Nat /\ M > 0 /\ n - m * M \in Nat /\ n - m * M <= M
  <2>1. n \in Nat /\ n <= MAX_FILE_BUFFER
    OBVIOUS
  <2>2. m \in Nat /\ m * M \in Nat /\ m * M <= n /\ n - m * M <= M
    BY <2>1, MiddlesFit
  <2>3. M \in Nat /\ M > 0
    BY TransferAssumption
  <2>q. QED
    BY <2>1, <2>2, <2>3
<1>3. ASSUME NEW i \in 1 .. M
      PROVE  i - 1 \in Place
  BY <1>2, Sizes DEF Place
<1>4. last \in Seq(Byte)
  <2>1. \A i \in 1 .. n - m * M : buffer[m][i - 1] \in Byte
    <3>1. \A i \in 1 .. n - m * M : i \in 1 .. M
      BY <1>2
    <3>2. buffer[m] \in [Place -> Byte]
      BY <1>1, <1>2 DEF Shifted
    <3>q. QED
      BY <1>3, <3>1, <3>2
  <2>2. last \in [1 .. n - m * M -> Byte]
    BY <2>1
  <2> HIDE DEF last
  <2>q. QED
    BY <1>2, <2>2, FunctionSeq
<1>5. ASSUME NEW k \in 1 .. m PROVE strncpy(buffer[k - 1], M) \in Seq(Byte)
  <2>1. buffer[k - 1] \in [Place -> Byte]
    BY <1>1, <1>2 DEF Shifted
  <2>2. \A i \in 1 .. M : buffer[k - 1][i - 1] \in Byte
    BY <1>3, <2>1
  <2>3. strncpy(buffer[k - 1], M) \in [1 .. M -> Byte]
    BY <2>2, TransferAssumption DEF strncpy
  <2>q. QED
    BY <1>2, <2>3, FunctionSeq
<1>6. first \in Seq(Seq(Byte)) /\ Len(first) = m
  <2>1. first \in [1 .. m -> Seq(Byte)]
    BY <1>5
  <2> HIDE DEF first
  <2>q. QED
    BY <1>2, <2>1, FunctionSeq
<1>7. \A k \in 1 .. m : first[k] = strncpy(buffer[k - 1], M)
  OBVIOUS
<1> HIDE DEF first, last
<1>8. Split(content) = first \o <<last>>
  BY <1>1 DEF first, last
<1>9. <<last>> \in Seq(Seq(Byte)) /\ Len(<<last>>) = 1 /\ <<last>>[1] = last
  BY <1>4
<1>10. /\ Split(content) \in Seq(Seq(Byte)) /\ Len(Split(content)) = m + 1
       /\ \A k \in 1 .. m + 1 :
            Split(content)[k] = IF k <= m THEN first[k] ELSE <<last>>[k - m]
  BY <1>6, <1>8, <1>9, BothParts
<1>11. ASSUME NEW k, k = m + 1 PROVE Split(content)[k] = last
  <2>1. k \in 1 .. m + 1 /\ ~(k <= m) /\ k - m = 1
    BY <1>2, <1>11
  <2>2. Split(content)[k] = <<last>>[k - m]
    BY <1>10, <2>1
  <2>q. QED
    BY <1>9, <2>1, <2>2
<1>12. \A k \in 1 .. m : Split(content)[k] = strncpy(buffer[k - 1], M)
  <2>1. \A k \in 1 .. m : k \in 1 .. m + 1 /\ k <= m
    BY <1>2
  <2>q. QED
    BY <1>7, <1>10, <2>1
<1>q. QED
  BY <1>1, <1>4, <1>5, <1>10, <1>11, <1>12 DEF last

\* Nothing from behind the terminator or the end of the array gets into a packet.
THEOREM SplitClean ==
  ASSUME NEW content \in Seq(Clean), Len(content) <= MAX_FILE_BUFFER
  PROVE  Split(content) \in Seq(Seq(Clean))
<1> DEFINE n == Len(content)
           m == Middles(n)
           M == MAX_MSG_LENGTH
<1>1. content \in Seq(Byte)
  BY DEF Clean
<1>2. PICK buffer :
        /\ Shifted(buffer, content)
        /\ [i \in 1 .. n - m * M |-> buffer[m][i - 1]] \in Seq(Byte)
        /\ \A k \in 1 .. m : strncpy(buffer[k - 1], M) \in Seq(Byte)
        /\ Split(content) \in Seq(Seq(Byte)) /\ Len(Split(content)) = m + 1
        /\ \A k : k = m + 1 => Split(content)[k] = [i \in 1 .. n - m * M |-> buffer[m][i - 1]]
        /\ \A k \in 1 .. m : Split(content)[k] = strncpy(buffer[k - 1], M)
  BY <1>1, SplitParts
<1>3. /\ n \in Nat /\ m \in Nat /\ m * M \in Nat /\ m * M <= n
      /\ M \in Nat /\ M > 0 /\ n - m * M \in Nat /\ n - m * M <= M
  <2>1. n \in Nat
    OBVIOUS
  <2>2. m \in Nat /\ m * M \in Nat /\ m * M <= n /\ n - m * M <= M
    BY <2>1, MiddlesFit
  <2>3. M \in Nat /\ M > 0
    BY TransferAssumption
  <2>q. QED
    BY <2>1, <2>2, <2>3
<1>4. ASSUME NEW i \in 1 .. M
      PROVE  i - 1 \in Place
  BY <1>3, Sizes DEF Place
<1>5. ASSUME NEW k, k = m + 1 PROVE Split(content)[k] \in Seq(Clean)
  <2> DEFINE last == [i \in 1 .. n - m * M |-> buffer[m][i - 1]]
  <2>1. ASSUME NEW i \in 1 .. n - m * M PROVE buffer[m][i - 1] \in Clean
    <3>1. i \in 1 .. M /\ i - 1 + m * M <= n
      BY <1>3
    <3>2. buffer[m][i - 1] # Junk
      BY <1>2, <1>3, <1>4, <3>1, BuffersClean
    <3>3. buffer[m] \in [Place -> Byte]
      BY <1>2, <1>3 DEF Shifted
    <3>q. QED
      BY <1>4, <3>1, <3>2, <3>3 DEF Clean
  <2>2. last \in [1 .. n - m * M -> Clean]
    BY <2>1
  <2>3. Split(content)[k] = last
    BY <1>2, <1>5
  <2> HIDE DEF last
  <2>q. QED
    BY <1>3, <2>2, <2>3, FunctionSeq
<1>6. ASSUME NEW k \in 1 .. m PROVE Split(content)[k] \in Seq(Clean)
  <2>1. /\ k - 1 \in Nat
        /\ (k - 1) * M \in Nat
        /\ (k - 1) * M + M <= n
    <3>1. (k - 1) * M \in Nat /\ (k - 1) * M + M <= m * M
      BY <1>3, MiddlesFit
    <3>q. QED
      BY <1>3, <3>1
  <2>2. ASSUME NEW i \in 1 .. M PROVE buffer[k - 1][i - 1] \in Clean
    <3>1. i - 1 + (k - 1) * M <= n
      BY <1>3, <2>1
    <3>2. buffer[k - 1][i - 1] # Junk
      BY <1>2, <1>4, <2>1, <3>1, BuffersClean
    <3>3. buffer[k - 1] \in [Place -> Byte]
      BY <1>2, <2>1 DEF Shifted
    <3>q. QED
      BY <1>4, <3>2, <3>3 DEF Clean
  <2>3. strncpy(buffer[k - 1], M) \in [1 .. M -> Clean]
    BY <2>2, TransferAssumption DEF strncpy, Clean
  <2>q. QED
    BY <1>2, <1>3, <2>3, FunctionSeq
<1>7. \A k \in 1 .. Len(Split(content)) : Split(content)[k] \in Seq(Clean)
  <2>1. \A k \in 1 .. m + 1 : k = m + 1 \/ k \in 1 .. m
    BY <1>3
  <2>q. QED
    BY <1>2, <1>5, <1>6, <2>1
<1> DEFINE w == Split(content)
<1>8. w \in Seq(Seq(Byte))
  BY <1>2
<1>9. w \in [1 .. Len(w) -> Seq(Clean)] /\ Len(w) \in Nat
  <2> HIDE DEF w
  <2>1. w = [k \in 1 .. Len(w) |-> w[k]] /\ Len(w) \in Nat
    BY <1>8
  <2>q. QED
    BY <1>7, <2>1 DEF w
<1> HIDE DEF w
<1>10. w \in Seq(Seq(Clean))
  BY <1>9, FunctionSeq
<1>q. QED
  BY <1>10 DEF w

\* A file in which no byte is NUL is cut into pieces that follow one another.
THEOREM SplitIsWhole ==
  ASSUME NEW content \in Seq(Byte), Len(content) <= MAX_FILE_BUFFER,
         \A i \in 1 .. Len(content) : content[i] # NUL
  PROVE  LET n == Len(content)
         IN /\ Len(Split(content)) = Middles(n) + 1
            /\ \A k \in 1 .. Middles(n) + 1 :
                 Split(content)[k] =
                   [i \in 1 .. Least(MAX_MSG_LENGTH, n - (k - 1) * MAX_MSG_LENGTH) |->
                      content[(k - 1) * MAX_MSG_LENGTH + i]]
<1> DEFINE n == Len(content)
           m == Middles(n)
           M == MAX_MSG_LENGTH
<1>2. PICK buffer :
        /\ Shifted(buffer, content)
        /\ [i \in 1 .. n - m * M |-> buffer[m][i - 1]] \in Seq(Byte)
        /\ \A k \in 1 .. m : strncpy(buffer[k - 1], M) \in Seq(Byte)
        /\ Split(content) \in Seq(Seq(Byte)) /\ Len(Split(content)) = m + 1
        /\ \A k : k = m + 1 => Split(content)[k] = [i \in 1 .. n - m * M |-> buffer[m][i - 1]]
        /\ \A k \in 1 .. m : Split(content)[k] = strncpy(buffer[k - 1], M)
  BY SplitParts
<1>3. /\ n \in Nat /\ m \in Nat /\ m * M \in Nat /\ m * M <= n
      /\ M \in Nat /\ M > 0 /\ n - m * M \in Nat /\ n - m * M <= M
  <2>1. n \in Nat
    OBVIOUS
  <2>2. m \in Nat /\ m * M \in Nat /\ m * M <= n /\ n - m * M <= M
    BY <2>1, MiddlesFit
  <2>3. M \in Nat /\ M > 0
    BY TransferAssumption
  <2>q. QED
    BY <2>1, <2>2, <2>3
<1>4. ASSUME NEW i \in 1 .. M
      PROVE  i - 1 \in Place
  BY <1>3, Sizes DEF Place
<1>b. \A k \in Nat : \A j \in Place :
        j + k * M < n => buffer[k][j] = content[j + k * M + 1]
  BY <1>2, BuffersWhole
<1>5. ASSUME NEW k, k = m + 1
      PROVE  Split(content)[k] = [i \in 1 .. Least(M, n - (k - 1) * M) |-> content[(k - 1) * M + i]]
  <2>1. k - 1 = m /\ Least(M, n - m * M) = n - m * M
    <3>1. k - 1 = m
      BY <1>3, <1>5
    <3>2. \A a, b \in Nat : b <= a => Least(a, b) = b
      BY DEF Least
    <3>q. QED
      BY <1>3, <3>1, <3>2
  <2>2. ASSUME NEW i \in 1 .. n - m * M PROVE buffer[m][i - 1] = content[m * M + i]
    <3>1. i \in 1 .. M /\ i - 1 + m * M < n /\ i - 1 + m * M + 1 = m * M + i
      BY <1>3
    <3>2. buffer[m][i - 1] = content[i - 1 + m * M + 1]
      BY <1>b, <1>3, <1>4, <3>1
    <3>q. QED
      BY <3>1, <3>2
  <2>3. Split(content)[k] = [i \in 1 .. n - m * M |-> content[m * M + i]]
    BY <1>2, <1>5, <2>2
  <2>q. QED
    BY <2>1, <2>3
<1>6. ASSUME NEW k \in 1 .. m
      PROVE  Split(content)[k] =
               [i \in 1 .. Least(M, n - (k - 1) * M) |-> content[(k - 1) * M + i]]
  <2>1. /\ k - 1 \in Nat
        /\ (k - 1) * M \in Nat
        /\ (k - 1) * M + M <= m * M
        /\ m * M < n
    <3>1. n > 0
      BY <1>3 DEF Middles
    <3>q. QED
      BY <1>3, <3>1, MiddlesFit
  <2>2. Least(M, n - (k - 1) * M) = M
    BY <1>3, <2>1 DEF Least
  <2>3. ASSUME NEW j \in 0 .. M - 1
        PROVE  /\ buffer[k - 1][j] = content[(k - 1) * M + (j + 1)]
               /\ buffer[k - 1][j] # NUL
    <3>1. /\ j \in Place /\ j + (k - 1) * M < n
          /\ j + (k - 1) * M + 1 = (k - 1) * M + (j + 1)
          /\ (k - 1) * M + (j + 1) \in 1 .. n
      <4> DEFINE r == (k - 1) * M
      <4>1. r \in Nat /\ r + M <= m * M
        BY <2>1
      <4>2. j + 1 \in 1 .. M /\ j + 1 - 1 = j /\ j \in Nat
        BY <1>3
      <4> HIDE DEF r, m, n, M
      <4>3. j \in Place
        BY <1>4, <4>2
      <4>4. j + r < n /\ j + r + 1 = r + (j + 1) /\ r + (j + 1) \in 1 .. n
        BY <1>3, <4>1, <4>2
      <4>q. QED
        BY <4>3, <4>4 DEF r
    <3>2. buffer[k - 1][j] = content[j + (k - 1) * M + 1]
      BY <1>b, <2>1, <3>1
    <3>q. QED
      BY <3>1, <3>2
  <2>4. ASSUME NEW i \in 1 .. M
        PROVE  /\ ~ \E j \in 0 .. i - 1 : buffer[k - 1][j] = NUL
               /\ buffer[k - 1][i - 1] = content[(k - 1) * M + i]
    <3>1. i - 1 \in 0 .. M - 1 /\ i - 1 + 1 = i /\ \A j \in 0 .. i - 1 : j \in 0 .. M - 1
      BY <1>3
    <3>2. buffer[k - 1][i - 1] = content[(k - 1) * M + (i - 1 + 1)]
      BY <2>3, <3>1
    <3>q. QED
      BY <2>3, <3>1, <3>2
  <2>5. strncpy(buffer[k - 1], M) = [i \in 1 .. M |-> content[(k - 1) * M + i]]
    BY <2>4 DEF strncpy
  <2>q. QED
    BY <1>2, <2>2, <2>5
<1>7. \A k \in 1 .. m + 1 : k = m + 1 \/ k \in 1 .. m
  BY <1>3
<1>8. ASSUME NEW k \in 1 .. m + 1
      PROVE  Split(content)[k] = [i \in 1 .. Least(M, n - (k - 1) * M) |-> content[(k - 1) * M + i]]
  <2>q. QED
    BY <1>5, <1>6, <1>7
<1>q. QED
  BY <1>2, <1>8, Zenon

--------------------------------------------------------------------------------
(* What is never Junk: packets, jobs, buffers, files.                           *)

CleanFilePacket ==
  [type : {"START", "MIDDLE", "END"}, src : Host, dst : Host, payload : Seq(Clean),
   upload : Nat, part : Nat]
CleanPacket == CleanFilePacket \cup RequestPacket
CleanJob ==
  [type : {"send", "receive"}, packet : CleanPacket] \cup
  [type : {"upload"}, name : Name, dst : Host]
CleanBuffer == {f \in FileBuffer : Sound(f) /\ Contents(f) \in Seq(Clean)}
CleanUpload ==
  [src : Host, dst : Host, name : Name, content : Seq(Clean), parts : Seq(Seq(Clean))]

CleanInv ==
  /\ dir \in [Host -> Dir \cup {"missing", NoDir}]
  /\ f_buf_upload \in [Host -> CleanBuffer]
  /\ jobs \in [Host -> Seq(CleanJob)]
  /\ scan \in [Host -> {"top", "execute", "write"}]
  /\ net \in [Host \X Host -> Seq(CleanPacket)]
  /\ disk \in [Dir \X Name -> Seq(Clean) \cup {NoFile}]
  /\ entered \in 0 .. MaxCommands
  /\ uploads \in Seq(CleanUpload)

LEMMA ListFacts ==
  ASSUME NEW S, NEW q \in Seq(S)
  PROVE  /\ q # <<>> => Head(q) \in S /\ Tail(q) \in Seq(S)
         /\ \A x \in S : Append(q, x) \in Seq(S) /\ <<x>> \in Seq(S)
         /\ <<>> \in Seq(S)
OBVIOUS

LEMMA CleanBytes ==
  /\ Clean \subseteq Byte /\ Seq(Clean) \subseteq Seq(Byte)
  /\ NoFile \notin Seq(Clean) /\ Name \subseteq Seq(Clean)
<1>1. Clean \subseteq Byte
  BY DEF Clean
<1>2. \A w \in Seq(Clean) : w \in Seq(Byte)
  BY <1>1
<1>q. QED
  BY <1>1, <1>2, TransferAssumption DEF Clean

\* A prefix of a file is as clean as the file.
LEMMA CleanPrefix ==
  ASSUME NEW S, NEW w \in Seq(S), NEW m \in Nat, m <= Len(w)
  PROVE  SubSeq(w, 1, m) \in Seq(S) /\ Len(SubSeq(w, 1, m)) = m
OBVIOUS

LEMMA CleanAdded ==
  ASSUME NEW f \in CleanBuffer, NEW string \in Seq(Clean)
  PROVE  file_buf_add(f, string) \in CleanBuffer
<1> DEFINE n == Least(Len(string), MAX_FILE_BUFFER - f.occ)
<1>1. f \in FileBuffer /\ Sound(f) /\ Contents(f) \in Seq(Clean) /\ string \in Seq(Byte)
  BY CleanBytes DEF CleanBuffer
<1>2. /\ Sound(file_buf_add(f, string))
      /\ Contents(file_buf_add(f, string)) = Contents(f) \o SubSeq(string, 1, n)
  BY <1>1, AddAppends
<1>3. n \in Nat /\ n <= Len(string)
  <2>1. f.occ \in 0 .. MAX_FILE_BUFFER
    BY <1>1, SoundNumbers
  <2>q. QED
    BY <2>1, Sizes DEF Least
<1>4. SubSeq(string, 1, n) \in Seq(Clean)
  BY <1>3, CleanPrefix
<1>5. Contents(f) \o SubSeq(string, 1, n) \in Seq(Clean)
  BY <1>1, <1>4, BothParts
<1>q. QED
  BY <1>2, <1>5 DEF CleanBuffer, Sound

LEMMA CleanRemoved ==
  ASSUME NEW f \in CleanBuffer
  PROVE  file_buf_remove(f, f.occ) \in CleanBuffer /\ Removed(f, f.occ) \in Seq(Clean)
<1> DEFINE g == file_buf_remove(f, f.occ)
<1>1. /\ f \in FileBuffer /\ Sound(f) /\ Contents(f) \in Seq(Clean) /\ f.occ \in Nat
  BY SoundNumbers DEF CleanBuffer
<1>2. Sound(g)
  BY <1>1, RemoveTakes
<1>3. Least(f.occ, f.occ) = f.occ /\ f.occ - f.occ = 0
  BY <1>1 DEF Least
<1>4. Removed(f, f.occ) = Contents(f)
  BY <1>3 DEF Removed, Contents
<1>5. g.occ = 0
  <2>1. g = [f EXCEPT !.head = (f.head + f.occ) % Slots, !.occ = 0]
    BY <1>3 DEF file_buf_remove
  <2>q. QED
    BY <1>1, <2>1 DEF FileBuffer
<1>6. Contents(g) = <<>>
  BY <1>5 DEF Contents
<1> HIDE DEF g
<1>7. g \in CleanBuffer
  BY <1>2, <1>6 DEF CleanBuffer, Sound
<1>q. QED
  BY <1>1, <1>4, <1>7 DEF g

LEMMA CleanBegun ==
  ASSUME NEW f \in FileBuffer, NEW name \in Seq(Clean)
  PROVE  Begun(f, name) \in CleanBuffer /\ file_buf_init(f) \in CleanBuffer
<1> DEFINE g == file_buf_init(f)
<1>1. Sound(g) /\ Contents(g) = <<>>
  BY InitEmpties
<1>2. g \in CleanBuffer
  BY <1>1 DEF CleanBuffer, Sound
<1> HIDE DEF g
<1>3. g \in FileBuffer /\ name \in Seq(Byte)
  BY <1>1, CleanBytes DEF Sound
<1> DEFINE b == [g EXCEPT !.name = name]
<1>4. /\ b \in FileBuffer /\ b.head = g.head /\ b.tail = g.tail /\ b.occ = g.occ
      /\ b.buffer = g.buffer
  BY <1>3 DEF FileBuffer
<1> HIDE DEF b
<1>5. Sound(b) /\ Contents(b) = Contents(g)
  BY <1>1, <1>4 DEF Sound, Contents
<1>6. b \in CleanBuffer
  BY <1>1, <1>4, <1>5 DEF CleanBuffer
<1>7. Begun(f, name) = b
  BY DEF Begun, file_buf_put_name, b, g
<1>q. QED
  BY <1>2, <1>6, <1>7 DEF g

LEMMA CleanInit == Init => CleanInv
<1> SUFFICES ASSUME Init PROVE CleanInv
  OBVIOUS
<1>1. file_buf_init(Uninitialized) \in CleanBuffer
  <2>1. Uninitialized \in FileBuffer
    BY Sizes, SizeAssumption DEF Uninitialized, FileBuffer
  <2>q. QED
    <3>1. <<>> \in Seq(Clean)
      OBVIOUS
    <3>q. QED
      BY <2>1, <3>1, CleanBegun
<1>2. dir \in [Host -> Dir \cup {"missing", NoDir}]
  BY TransferAssumption DEF Init
<1>3. disk \in [Dir \X Name -> Seq(Clean) \cup {NoFile}]
  BY TransferAssumption DEF Init, Clean
<1>4. jobs \in [Host -> Seq(CleanJob)] /\ net \in [Host \X Host -> Seq(CleanPacket)]
      /\ uploads \in Seq(CleanUpload)
  <2>1. <<>> \in Seq(CleanJob) /\ <<>> \in Seq(CleanPacket) /\ <<>> \in Seq(CleanUpload)
    BY ListFacts
  <2>q. QED
    BY <2>1 DEF Init
<1>5. entered \in 0 .. MaxCommands
  BY TransferAssumption DEF Init
<1>6. f_buf_upload \in [Host -> CleanBuffer] /\ scan \in [Host -> {"top", "execute", "write"}]
  BY <1>1 DEF Init
<1>q. QED
  BY <1>2, <1>3, <1>4, <1>5, <1>6 DEF CleanInv

\* The jobs a command makes.
LEMMA CommandClean ==
  ASSUME NEW h \in Host, NEW c \in CommandsOf(h) \cup {NoCommand}
  PROVE  /\ CommandJobs(h, c) \in Seq(CleanJob)
         /\ c.cmd = "m" => c.dir \in Dir \cup {"missing"}
<1>1. CASE c = NoCommand
  <2>1. c.cmd = "none"
    BY <1>1 DEF NoCommand
  <2>2. CommandJobs(h, c) = <<>>
    BY <2>1 DEF CommandJobs
  <2>q. QED
    BY <2>1, <2>2, ListFacts
<1>2. CASE c \in [cmd : {"m"}, dir : Dir \cup {"missing"}]
  <2>1. c.cmd = "m" /\ c.dir \in Dir \cup {"missing"}
    BY <1>2
  <2>2. CommandJobs(h, c) = <<>>
    BY <2>1 DEF CommandJobs
  <2>q. QED
    BY <2>1, <2>2, ListFacts
<1>3. CASE c \in [cmd : {"u", "d"}, dst : Host, name : Name]
  <2>1. c.cmd \in {"u", "d"} /\ c.dst \in Host /\ c.name \in Name
    BY <1>3
  <2> DEFINE up == [type |-> "upload", name |-> c.name, dst |-> c.dst]
             request == [type |-> "REQUEST", src |-> h, dst |-> c.dst, name |-> c.name]
             send == [type |-> "send", packet |-> request]
  <2>2. up \in CleanJob
    BY <2>1 DEF CleanJob
  <2>3. send \in CleanJob
    <3>1. request \in RequestPacket
      BY <2>1 DEF RequestPacket
    <3> HIDE DEF request
    <3>q. QED
      BY <3>1 DEF CleanJob, CleanPacket
  <2>4. CommandJobs(h, c) = IF c.cmd = "u" THEN <<up>> ELSE <<send>>
    BY <2>1 DEF CommandJobs
  <2> HIDE DEF up, send
  <2>5. <<up>> \in Seq(CleanJob) /\ <<send>> \in Seq(CleanJob)
    BY <2>2, <2>3
  <2>q. QED
    BY <2>1, <2>4, <2>5
<1>4. c = NoCommand \/ c \in Command
  BY DEF CommandsOf
<1>q. QED
  BY <1>1, <1>2, <1>3, <1>4 DEF Command

LEMMA BeginClean ==
  ASSUME CleanInv,
         NEW h \in Host, NEW c \in CommandsOf(h) \cup {NoCommand},
         NEW pollJobs \in Seq(CleanJob), Begin(h, c, pollJobs),
         net' \in [Host \X Host -> Seq(CleanPacket)]
  PROVE  CleanInv'
<1>1. scan' \in [Host -> {"top", "execute", "write"}]
  <2>1. scan' = [scan EXCEPT ![h] = "execute"]
    BY DEF Begin, Goto
  <2>q. QED
    BY <2>1 DEF CleanInv
<1>2. entered' \in 0 .. MaxCommands
  <2>1. entered' = entered \/ (entered < MaxCommands /\ entered' = entered + 1)
    BY DEF Begin
  <2>q. QED
    BY <2>1, TransferAssumption DEF CleanInv
<1>3. dir' \in [Host -> Dir \cup {"missing", NoDir}]
  <2>1. dir' = IF c.cmd = "m" THEN [dir EXCEPT ![h] = c.dir] ELSE dir
    BY DEF Begin
  <2>q. QED
    BY <2>1, CommandClean DEF CleanInv
<1>4. jobs' \in [Host -> Seq(CleanJob)]
  <2> DEFINE q == jobs[h] \o CommandJobs(h, c) \o pollJobs
  <2>1. q \in Seq(CleanJob)
    <3>1. jobs[h] \in Seq(CleanJob) /\ CommandJobs(h, c) \in Seq(CleanJob)
      BY CommandClean DEF CleanInv
    <3>2. jobs[h] \o CommandJobs(h, c) \in Seq(CleanJob)
      BY <3>1, BothParts
    <3>q. QED
      BY <3>2, BothParts
  <2>2. jobs' = [jobs EXCEPT ![h] = q]
    BY DEF Begin, Queue
  <2> HIDE DEF q
  <2>q. QED
    BY <2>1, <2>2 DEF CleanInv
<1>5. f_buf_upload' = f_buf_upload /\ disk' = disk /\ uploads' = uploads
  BY DEF Begin
<1>q. QED
  BY <1>1, <1>2, <1>3, <1>4, <1>5 DEF CleanInv

\* What arrives is a packet that was on its way.
LEMMA ArriveClean ==
  ASSUME CleanInv, NEW h \in Host, NEW from \in Host, NEW packets, Arrive(h, from, packets)
  PROVE  /\ Head(net[<<from, h>>]) \in CleanPacket
         /\ net' \in [Host \X Host -> Seq(CleanPacket)]
<1>1. net[<<from, h>>] \in Seq(CleanPacket) /\ net[<<from, h>>] # <<>>
  BY DEF CleanInv, Arrive
<1>2. Head(net[<<from, h>>]) \in CleanPacket /\ Tail(net[<<from, h>>]) \in Seq(CleanPacket)
  BY <1>1, ListFacts
<1>3. net' = [net EXCEPT ![<<from, h>>] = Tail(net[<<from, h>>])]
  BY DEF Arrive
<1>q. QED
  BY <1>2, <1>3 DEF CleanInv

LEMMA IterateClean ==
  ASSUME CleanInv, NEW h \in Host, NEW c \in CommandsOf(h) \cup {NoCommand}, Iterate(h, c)
  PROVE  CleanInv'
<1>1. CASE PollNothing(h, c)
  <2>1. <<>> \in Seq(CleanJob) /\ Begin(h, c, <<>>) /\ net' = net
    BY <1>1 DEF PollNothing
  <2>2. net' \in [Host \X Host -> Seq(CleanPacket)]
    BY <2>1 DEF CleanInv
  <2>q. QED
    BY <2>1, <2>2, BeginClean
<1>2. ASSUME NEW from \in Host, PollFile(h, c, from) PROVE CleanInv'
  <2> DEFINE p == Head(net[<<from, h>>])
             job == [type |-> "receive", packet |-> p]
  <2>1. p \in CleanPacket /\ net' \in [Host \X Host -> Seq(CleanPacket)]
    BY <1>2, ArriveClean DEF PollFile
  <2>2. Begin(h, c, <<job>>)
    BY <1>2 DEF PollFile
  <2> HIDE DEF p
  <2>3. job \in CleanJob
    BY <2>1 DEF CleanJob
  <2> HIDE DEF job
  <2>4. <<job>> \in Seq(CleanJob)
    BY <2>3
  <2>q. QED
    BY <2>1, <2>2, <2>4, BeginClean
<1>3. ASSUME NEW from \in Host, PollRequest(h, c, from) PROVE CleanInv'
  <2>1. /\ net' \in [Host \X Host -> Seq(CleanPacket)]
        /\ Head(net[<<from, h>>]) \in RequestPacket
    BY <1>3, ArriveClean DEF PollRequest, Arrive
  <2>2. Head(net[<<from, h>>]).name \in Name
    BY <2>1 DEF RequestPacket
  <2>3. PICK name \in ReadAs[Head(net[<<from, h>>]).name] :
          Begin(h, c, <<[type |-> "upload", name |-> name, dst |-> from]>>)
    BY <1>3 DEF PollRequest
  <2>4. name \in Name
    BY <2>2, <2>3, TransferAssumption
  <2> DEFINE job == [type |-> "upload", name |-> name, dst |-> from]
  <2>5. job \in CleanJob
    BY <2>4 DEF CleanJob
  <2>6. Begin(h, c, <<job>>)
    BY <2>3
  <2> HIDE DEF job
  <2>7. <<job>> \in Seq(CleanJob)
    BY <2>5
  <2>q. QED
    BY <2>1, <2>6, <2>7, BeginClean
<1>q. QED
  BY <1>1, <1>2, <1>3 DEF Iterate

\* The job that is executed, and the others.
LEMMA TakeClean ==
  ASSUME CleanInv, NEW h \in Host, NEW type, Take(h, type)
  PROVE  /\ Job1(h) \in CleanJob /\ Job1(h).type = type
         /\ Tail(jobs[h]) \in Seq(CleanJob)
         /\ dir' = dir /\ entered' = entered
<1>1. jobs[h] \in Seq(CleanJob) /\ jobs[h] # <<>>
  BY DEF CleanInv, Take
<1>q. QED
  BY <1>1, ListFacts DEF Take, Job1

LEMMA GotoTyped ==
  ASSUME CleanInv, NEW h \in Host, NEW from, NEW to \in {"top", "execute", "write"},
         Goto(h, from, to)
  PROVE  scan' \in [Host -> {"top", "execute", "write"}]
BY DEF CleanInv, Goto

LEMMA QueueTyped ==
  ASSUME CleanInv, NEW h \in Host, NEW q \in Seq(CleanJob), Queue(h, q)
  PROVE  jobs' \in [Host -> Seq(CleanJob)]
BY DEF CleanInv, Queue

LEMMA SendClean ==
  ASSUME CleanInv, NEW h \in Host, ExecuteSend(h)
  PROVE  CleanInv'
<1> DEFINE p == Job1(h).packet
<1>1. Take(h, "send")
  BY DEF ExecuteSend
<1>2. p \in CleanPacket
  BY <1>1, TakeClean DEF CleanJob
<1>3. p.dst \in Host
  BY <1>2 DEF CleanPacket, CleanFilePacket, RequestPacket
<1>4. net' = [net EXCEPT ![<<h, p.dst>>] = Append(net[<<h, p.dst>>], p)]
  BY DEF ExecuteSend
<1> HIDE DEF p
<1>5. net' \in [Host \X Host -> Seq(CleanPacket)]
  <2>1. net[<<h, p.dst>>] \in Seq(CleanPacket)
    BY <1>3 DEF CleanInv
  <2>2. Append(net[<<h, p.dst>>], p) \in Seq(CleanPacket)
    BY <1>2, <2>1, ListFacts
  <2>q. QED
    BY <1>4, <2>2 DEF CleanInv
<1>6. jobs' \in [Host -> Seq(CleanJob)]
  <2>1. Queue(h, Tail(jobs[h]))
    BY DEF ExecuteSend
  <2>q. QED
    BY <1>1, <2>1, TakeClean, QueueTyped
<1>7. scan' \in [Host -> {"top", "execute", "write"}]
  BY GotoTyped DEF ExecuteSend
<1>8. dir' = dir /\ entered' = entered
  BY <1>1, TakeClean
<1>9. f_buf_upload' = f_buf_upload /\ disk' = disk /\ uploads' = uploads
  BY DEF ExecuteSend
<1>q. QED
  BY <1>5, <1>6, <1>7, <1>8, <1>9 DEF CleanInv

LEMMA NothingClean ==
  ASSUME CleanInv, NEW h \in Host, ExecuteNothing(h) \/ UploadNothing(h)
  PROVE  CleanInv'
<1>1. CASE ExecuteNothing(h)
  <2>1. scan' \in [Host -> {"top", "execute", "write"}]
    BY <1>1, GotoTyped DEF ExecuteNothing
  <2>q. QED
    BY <1>1, <2>1 DEF ExecuteNothing, CleanInv
<1>2. CASE UploadNothing(h)
  <2>1. scan' \in [Host -> {"top", "execute", "write"}]
    BY <1>2, GotoTyped DEF UploadNothing
  <2>2. Take(h, "upload") /\ Queue(h, Tail(jobs[h]))
    BY <1>2 DEF UploadNothing
  <2>3. dir' = dir /\ entered' = entered /\ jobs' \in [Host -> Seq(CleanJob)]
    BY <2>2, TakeClean, QueueTyped
  <2>q. QED
    BY <1>2, <2>1, <2>3 DEF UploadNothing, CleanInv
<1>q. QED
  BY <1>1, <1>2

\* What is read of a file.
LEMMA ReadClean ==
  ASSUME CleanInv, NEW h \in Host, Job1(h).name \in Readable(h)
  PROVE  FileRead(h) \in Seq(Clean) /\ Len(FileRead(h)) <= MAX_FILE_BUFFER
<1> DEFINE content == disk[<<dir[h], Job1(h).name>>]
           m == Least(Len(content), MAX_FILE_BUFFER)
<1>1. /\ dir[h] \in Dir /\ Job1(h).name \in Name /\ content # NoFile
  BY DEF Readable
<1>2. content \in Seq(Clean)
  BY <1>1 DEF CleanInv
<1>3. FileRead(h) = SubSeq(content, 1, m)
  BY DEF FileRead
<1> HIDE DEF content
<1>4. Len(content) \in Nat
  BY <1>2
<1>5. m \in Nat /\ m <= Len(content) /\ m <= MAX_FILE_BUFFER
  BY <1>4, Sizes DEF Least
<1> HIDE DEF m
<1>q. QED
  BY <1>2, <1>3, <1>5, CleanPrefix

LEMMA UploadJobsClean ==
  ASSUME CleanInv, NEW h \in Host, NEW parts \in Seq(Seq(Clean)),
         Job1(h).name \in Name, Job1(h).dst \in Host
  PROVE  UploadJobs(h, parts) \in Seq(CleanJob)
<1> DEFINE Part(type, payload, k) ==
             [type |-> "send",
              packet |-> [type |-> type, src |-> h, dst |-> Job1(h).dst,
                          payload |-> payload, upload |-> Len(uploads) + 1, part |-> k]]
           rest == [k \in 1 .. Len(parts) |->
                      Part(IF k < Len(parts) THEN "MIDDLE" ELSE "END", parts[k], k)]
           start == Part("START", Job1(h).name, 0)
<1>1. Len(uploads) + 1 \in Nat
  BY DEF CleanInv
<1>2. ASSUME NEW type \in {"START", "MIDDLE", "END"}, NEW payload \in Seq(Clean), NEW k \in Nat
      PROVE  Part(type, payload, k) \in CleanJob
  <2> DEFINE p == [type |-> type, src |-> h, dst |-> Job1(h).dst,
                   payload |-> payload, upload |-> Len(uploads) + 1, part |-> k]
  <2>1. p \in CleanFilePacket
    BY <1>1 DEF CleanFilePacket
  <2> HIDE DEF p
  <2>2. [type |-> "send", packet |-> p] \in CleanJob
    BY <2>1 DEF CleanJob, CleanPacket
  <2>q. QED
    BY <2>2 DEF p
<1> HIDE DEF Part
<1>3. <<start>> \in Seq(CleanJob)
  <2>1. start \in CleanJob
    BY <1>2, CleanBytes
  <2> HIDE DEF start
  <2>q. QED
    BY <2>1
<1>4. rest \in Seq(CleanJob)
  <2>1. Len(parts) \in Nat /\ \A k \in 1 .. Len(parts) : parts[k] \in Seq(Clean) /\ k \in Nat
    OBVIOUS
  <2>2. rest \in [1 .. Len(parts) -> CleanJob]
    BY <1>2, <2>1
  <2> HIDE DEF rest
  <2>q. QED
    BY <2>1, <2>2, FunctionSeq
<1>5. UploadJobs(h, parts) = <<start>> \o rest
  BY DEF UploadJobs, Part
<1> HIDE DEF start, rest
<1>q. QED
  BY <1>3, <1>4, <1>5, BothParts

LEMMA UploadClean ==
  ASSUME CleanInv, NEW h \in Host, Upload(h)
  PROVE  CleanInv'
<1> DEFINE parts == Split(FileRead(h))
           u == [src |-> h, dst |-> Job1(h).dst, name |-> Job1(h).name,
                 content |-> FileRead(h), parts |-> parts]
<1>1. Take(h, "upload") /\ Job1(h).name \in Readable(h)
  BY DEF Upload
<1>2. Job1(h).name \in Name /\ Job1(h).dst \in Host
  BY <1>1, TakeClean DEF CleanJob
<1>3. FileRead(h) \in Seq(Clean) /\ parts \in Seq(Seq(Clean))
  BY <1>1, ReadClean, SplitClean
<1>4. uploads' = Append(uploads, u) /\ Queue(h, Tail(jobs[h]) \o UploadJobs(h, parts))
  BY DEF Upload
<1> HIDE DEF parts
<1>5. u \in CleanUpload
  BY <1>2, <1>3 DEF CleanUpload
<1> HIDE DEF u
<1>6. uploads' \in Seq(CleanUpload)
  BY <1>4, <1>5, ListFacts DEF CleanInv
<1>7. jobs' \in [Host -> Seq(CleanJob)]
  <2>1. Tail(jobs[h]) \in Seq(CleanJob) /\ UploadJobs(h, parts) \in Seq(CleanJob)
    BY <1>1, <1>2, <1>3, TakeClean, UploadJobsClean
  <2>2. Tail(jobs[h]) \o UploadJobs(h, parts) \in Seq(CleanJob)
    BY <2>1, BothParts
  <2>q. QED
    BY <1>4, <2>2, QueueTyped
<1>8. scan' \in [Host -> {"top", "execute", "write"}]
  BY GotoTyped DEF Upload
<1>9. dir' = dir /\ entered' = entered
  BY <1>1, TakeClean
<1>10. f_buf_upload' = f_buf_upload /\ net' = net /\ disk' = disk
  BY DEF Upload
<1>q. QED
  BY <1>6, <1>7, <1>8, <1>9, <1>10 DEF CleanInv

\* A part is received: the payload, and what does not change.
LEMMA ReceiveClean ==
  ASSUME CleanInv, NEW h \in Host, NEW type \in {"START", "MIDDLE", "END"}, Receive(h, type)
  PROVE  /\ Job1(h).packet.payload \in Seq(Clean)
         /\ f_buf_upload[h] \in CleanBuffer
         /\ jobs' \in [Host -> Seq(CleanJob)]
         /\ dir' = dir /\ entered' = entered /\ net' = net /\ uploads' = uploads
<1>1. Take(h, "receive") /\ Job1(h).packet.type = type /\ Queue(h, Tail(jobs[h]))
      /\ net' = net /\ uploads' = uploads
  BY DEF Receive
<1>2. Job1(h).packet \in CleanPacket
  BY <1>1, TakeClean DEF CleanJob
<1>3. Job1(h).packet.payload \in Seq(Clean)
  BY <1>1, <1>2 DEF CleanPacket, CleanFilePacket, RequestPacket
<1>4. jobs' \in [Host -> Seq(CleanJob)] /\ dir' = dir /\ entered' = entered
  BY <1>1, TakeClean, QueueTyped
<1>5. f_buf_upload[h] \in CleanBuffer
  BY DEF CleanInv
<1>q. QED
  BY <1>1, <1>3, <1>4, <1>5

LEMMA CollectClean ==
  ASSUME CleanInv, NEW h \in Host, NEW type \in {"START", "MIDDLE", "END"}, Receive(h, type),
         Collect(h)
  PROVE  f_buf_upload' \in [Host -> CleanBuffer]
<1>1. f_buf_upload' = [f_buf_upload EXCEPT ![h] =
                         file_buf_add(f_buf_upload[h], Job1(h).packet.payload)]
  BY DEF Collect
<1>2. file_buf_add(f_buf_upload[h], Job1(h).packet.payload) \in CleanBuffer
  BY ReceiveClean, CleanAdded
<1>q. QED
  BY <1>1, <1>2 DEF CleanInv

LEMMA ReceivePartClean ==
  ASSUME CleanInv, NEW h \in Host,
         \/ ReceiveStart(h) \/ ReceiveMiddle(h) \/ ReceiveEndUnwritten(h) \/ ReceiveEnd(h)
  PROVE  CleanInv'
<1>1. scan' \in [Host -> {"top", "execute", "write"}]
  BY GotoTyped DEF ReceiveStart, ReceiveMiddle, ReceiveEndUnwritten, ReceiveEnd
<1>2. CASE ReceiveStart(h)
  <2> DEFINE payload == Job1(h).packet.payload
  <2>1. Receive(h, "START")
        /\ f_buf_upload' = [f_buf_upload EXCEPT ![h] = Begun(f_buf_upload[h], payload)]
        /\ disk' = disk
    BY <1>2 DEF ReceiveStart
  <2>2. payload \in Seq(Clean) /\ f_buf_upload[h] \in FileBuffer
    BY <2>1, ReceiveClean DEF CleanBuffer
  <2>3. Begun(f_buf_upload[h], payload) \in CleanBuffer
    BY <2>2, CleanBegun
  <2>4. f_buf_upload' \in [Host -> CleanBuffer]
    BY <2>1, <2>3 DEF CleanInv
  <2>5. /\ jobs' \in [Host -> Seq(CleanJob)]
        /\ dir' = dir /\ entered' = entered /\ net' = net /\ uploads' = uploads
    BY <2>1, ReceiveClean
  <2>q. QED
    BY <1>1, <2>1, <2>4, <2>5 DEF CleanInv
<1>3. CASE ReceiveMiddle(h) \/ ReceiveEndUnwritten(h)
  <2>1. PICK type \in {"START", "MIDDLE", "END"} : Receive(h, type) /\ Collect(h)
    BY <1>3 DEF ReceiveMiddle, ReceiveEndUnwritten
  <2>2. /\ jobs' \in [Host -> Seq(CleanJob)]
        /\ dir' = dir /\ entered' = entered /\ net' = net /\ uploads' = uploads
    BY <2>1, ReceiveClean
  <2>3. f_buf_upload' \in [Host -> CleanBuffer]
    BY <2>1, CollectClean
  <2>4. disk' = disk
    BY <1>3 DEF ReceiveMiddle, ReceiveEndUnwritten
  <2>q. QED
    BY <1>1, <2>2, <2>3, <2>4 DEF CleanInv
<1>4. CASE ReceiveEnd(h)
  <2>1. Receive(h, "END") /\ Collect(h)
        /\ disk' = [disk EXCEPT ![<<dir[h], f_buf_upload[h].name>>] = <<>>]
    BY <1>4 DEF ReceiveEnd
  <2>2. /\ jobs' \in [Host -> Seq(CleanJob)]
        /\ dir' = dir /\ entered' = entered /\ net' = net /\ uploads' = uploads
    BY <2>1, ReceiveClean
  <2>3. f_buf_upload' \in [Host -> CleanBuffer]
    BY <2>1, CollectClean
  <2>4. disk' \in [Dir \X Name -> Seq(Clean) \cup {NoFile}]
    <3>1. <<>> \in Seq(Clean)
      OBVIOUS
    <3>q. QED
      BY <2>1, <3>1 DEF CleanInv
  <2>q. QED
    BY <1>1, <2>2, <2>3, <2>4 DEF CleanInv
<1>q. QED
  BY <1>2, <1>3, <1>4

LEMMA OverwriteClean ==
  ASSUME NEW old \in Seq(Clean) \cup {NoFile}, NEW new \in Seq(Clean)
  PROVE  Overwrite(old, new) \in Seq(Clean)
<1>1. CASE old = NoFile
  BY <1>1 DEF Overwrite
<1>2. CASE old # NoFile
  <2>1. old \in Seq(Clean) /\ Len(old) \in Nat /\ Len(new) \in Nat
    BY <1>2
  <2>2. SubSeq(old, Len(new) + 1, Len(old)) \in Seq(Clean)
    BY <2>1
  <2>3. new \o SubSeq(old, Len(new) + 1, Len(old)) \in Seq(Clean)
    BY <2>2, BothParts
  <2>q. QED
    BY <1>2, <2>3 DEF Overwrite
<1>q. QED
  BY <1>1, <1>2

LEMMA WriteClean ==
  ASSUME CleanInv, NEW h \in Host, Write(h)
  PROVE  CleanInv'
<1> DEFINE f == f_buf_upload[h]
           place == <<dir[h], f.name>>
<1>1. /\ Goto(h, "write", "top")
      /\ disk' = [disk EXCEPT ![place] = Overwrite(disk[place], Removed(f, f.occ))]
      /\ f_buf_upload' = [f_buf_upload EXCEPT ![h] = file_buf_remove(f, f.occ)]
      /\ dir' = dir /\ jobs' = jobs /\ net' = net /\ entered' = entered /\ uploads' = uploads
  BY DEF Write
<1>2. f \in CleanBuffer
  BY DEF CleanInv
<1>3. file_buf_remove(f, f.occ) \in CleanBuffer /\ Removed(f, f.occ) \in Seq(Clean)
  BY <1>2, CleanRemoved
<1> HIDE DEF f, place
<1>4. f_buf_upload' \in [Host -> CleanBuffer]
  BY <1>1, <1>3 DEF CleanInv
<1>5. disk' \in [Dir \X Name -> Seq(Clean) \cup {NoFile}]
  <2>1. place \in Dir \X Name => Overwrite(disk[place], Removed(f, f.occ)) \in Seq(Clean)
    BY <1>3, OverwriteClean DEF CleanInv
  <2>q. QED
    BY <1>1, <2>1 DEF CleanInv
<1>6. scan' \in [Host -> {"top", "execute", "write"}]
  BY <1>1, GotoTyped
<1>q. QED
  BY <1>1, <1>4, <1>5, <1>6 DEF CleanInv

LEMMA LoseClean ==
  ASSUME CleanInv, NEW from \in Host, NEW to \in Host, Lose(from, to)
  PROVE  CleanInv'
<1>1. net[<<from, to>>] \in Seq(CleanPacket) /\ net[<<from, to>>] # <<>>
      /\ net' = [net EXCEPT ![<<from, to>>] = Tail(net[<<from, to>>])]
  BY DEF CleanInv, Lose
<1>2. Tail(net[<<from, to>>]) \in Seq(CleanPacket)
  BY <1>1, ListFacts
<1>3. net' \in [Host \X Host -> Seq(CleanPacket)]
  BY <1>1, <1>2 DEF CleanInv
<1>q. QED
  BY <1>3 DEF Lose, local, CleanInv

LEMMA CleanStep == CleanInv /\ [Next]_vars => CleanInv'
<1> SUFFICES ASSUME CleanInv, [Next]_vars PROVE CleanInv'
  OBVIOUS
<1>1. ASSUME NEW h \in Host, Execute(h) PROVE CleanInv'
  <2>1. CASE ExecuteNothing(h) \/ UploadNothing(h)
    BY <2>1, NothingClean
  <2>2. CASE ExecuteSend(h)
    BY <2>2, SendClean
  <2>3. CASE Upload(h)
    BY <2>3, UploadClean
  <2>4. CASE ReceiveStart(h) \/ ReceiveMiddle(h) \/ ReceiveEndUnwritten(h) \/ ReceiveEnd(h)
    BY <2>4, ReceivePartClean
  <2>5. CASE Write(h)
    BY <2>5, WriteClean
  <2>q. QED
    BY <1>1, <2>1, <2>2, <2>3, <2>4, <2>5 DEF Execute
<1>2. ASSUME NEW h \in Host, NEW c \in CommandsOf(h) \cup {NoCommand}, Iterate(h, c)
      PROVE  CleanInv'
  BY <1>2, IterateClean
<1>3. ASSUME NEW from \in Host, NEW to \in Host, Lose(from, to) PROVE CleanInv'
  BY <1>3, LoseClean
<1>4. CASE UNCHANGED vars
  BY <1>4 DEF vars, local, CleanInv
<1>q. QED
  BY <1>1, <1>2, <1>3, <1>4 DEF Next

LEMMA CleanAlways == Spec => []CleanInv
BY CleanInit, CleanStep, PTL DEF Spec

LEMMA CleanTyped == CleanInv => TypeOK
<1> SUFFICES ASSUME CleanInv PROVE TypeOK
  OBVIOUS
<1>1. CleanPacket \subseteq Packet
  BY CleanBytes DEF CleanPacket, CleanFilePacket, Packet, FilePacket
<1>2. CleanJob \subseteq Job
  BY <1>1 DEF CleanJob, Job
<1>3. \A h \in Host : jobs[h] \in Seq(Job)
  <2>1. \A q \in Seq(CleanJob) : q \in Seq(Job)
    BY <1>2
  <2>q. QED
    BY <2>1 DEF CleanInv
<1>4. \A c \in Host \X Host : net[c] \in Seq(Packet)
  <2>1. \A q \in Seq(CleanPacket) : q \in Seq(Packet)
    BY <1>1
  <2>q. QED
    BY <2>1 DEF CleanInv
<1>5. disk \in [Dir \X Name -> Seq(Byte) \cup {NoFile}]
  BY CleanBytes DEF CleanInv
<1>6. \A h \in Host : Sound(f_buf_upload[h])
  BY DEF CleanInv, CleanBuffer
<1>q. QED
  BY <1>3, <1>4, <1>5, <1>6 DEF CleanInv, TypeOK

LEMMA CleanContains ==
  ASSUME NEW w \in Seq(Clean)
  PROVE  ~Contains(w, Junk)
<1>1. \A i \in 1 .. Len(w) : w[i] \in Clean /\ w[i] # Junk
  BY DEF Clean
<1>q. QED
  BY <1>1 DEF Contains

\* Every variable of the hosts keeps its type, and the head, tail and number of
\* bytes of every receive buffer stay in step through any transfers, complete or not.
THEOREM TransferTypeCorrect == Spec => []TypeOK
BY CleanAlways, CleanTyped, PTL

\* However uploads, downloads and losses mix: no packet, buffer or file ever
\* holds a byte that was not in a file, in a name or a terminator.
THEOREM NothingMadeUp == Spec => []NoJunk
<1>1. CleanInv => NoJunk
  <2> SUFFICES ASSUME CleanInv PROVE NoJunk
    OBVIOUS
  <2>1. ASSUME NEW i \in 1 .. Len(uploads), NEW k \in 1 .. Len(uploads[i].parts)
        PROVE  ~Contains(uploads[i].parts[k], Junk)
    <3>1. uploads[i] \in CleanUpload
      BY DEF CleanInv
    <3>2. uploads[i].parts \in Seq(Seq(Clean))
      BY <3>1 DEF CleanUpload
    <3>3. uploads[i].parts[k] \in Seq(Clean)
      BY <3>2
    <3>q. QED
      BY <3>3, CleanContains
  <2>2. ASSUME NEW h \in Host PROVE ~Contains(Contents(f_buf_upload[h]), Junk)
    <3>1. Contents(f_buf_upload[h]) \in Seq(Clean)
      BY DEF CleanInv, CleanBuffer
    <3>q. QED
      BY <3>1, CleanContains
  <2>q. QED
    BY <2>1, <2>2 DEF NoJunk
<1>q. QED
  BY <1>1, CleanAlways, PTL

--------------------------------------------------------------------------------
(* Sequences joined into one (FlattenSeq is defined by recursion).              *)

\* g holds the first 1, ..., n elements of s joined.
Joined(s, n, g) ==
  g = [i \in 1 .. n |-> IF i = 1 THEN s[i] ELSE g[i - 1] \o s[i]]

LEMMA JoinedExists ==
  ASSUME NEW S, NEW s \in Seq(Seq(S))
  PROVE  \E g : Joined(s, Len(s), g) /\ g \in [1 .. Len(s) -> Seq(S)]
<1> DEFINE Good(n) == \E g : Joined(s, n, g) /\ g \in [1 .. n -> Seq(S)]
           Bad == {n \in 0 .. Len(s) : ~Good(n)}
<1>1. Len(s) \in Nat /\ \A i \in 1 .. Len(s) : s[i] \in Seq(S)
  OBVIOUS
<1>2. Good(0)
  <2> DEFINE g == [i \in 1 .. 0 |-> IF i = 1 THEN s[i] ELSE <<>>]
  <2>1. g \in [1 .. 0 -> Seq(S)] /\ Joined(s, 0, g)
    BY DEF Joined
  <2> HIDE DEF g
  <2>q. QED
    BY <2>1
<1>3. ASSUME NEW n \in 0 .. Len(s), n # 0, Good(n - 1) PROVE Good(n)
  <2>1. PICK g : Joined(s, n - 1, g) /\ g \in [1 .. n - 1 -> Seq(S)]
    BY <1>3
  <2> DEFINE all == IF n = 1 THEN s[n] ELSE g[n - 1] \o s[n]
             f == [i \in 1 .. n |-> IF i = n THEN all ELSE g[i]]
  <2>2. n \in Nat /\ n \in 1 .. n /\ n <= Len(s) /\ s[n] \in Seq(S)
    BY <1>1, <1>3
  <2>3. all \in Seq(S)
    <3>1. n # 1 => g[n - 1] \in Seq(S)
      BY <2>1, <2>2
    <3>q. QED
      BY <2>2, <3>1, BothParts
  <2>g. \A i \in 1 .. n : i # n => i \in 1 .. n - 1 /\ g[i] \in Seq(S)
    BY <2>1, <2>2
  <2>e. f[n] = all /\ \A i \in 1 .. n : i # n => f[i] = g[i]
    BY <2>2
  <2> HIDE DEF all
  <2>4. f \in [1 .. n -> Seq(S)]
    BY <2>3, <2>g
  <2> HIDE DEF f
  <2>5. ASSUME NEW i \in 1 .. n PROVE f[i] = IF i = 1 THEN s[i] ELSE f[i - 1] \o s[i]
    <3>1. CASE i = n
      <4>1. n # 1 => n - 1 \in 1 .. n /\ n - 1 # n
        BY <2>2
      <4>2. n # 1 => f[n - 1] = g[n - 1]
        BY <2>e, <4>1
      <4>q. QED
        BY <2>e, <3>1, <4>2 DEF all
    <3>2. CASE i # n
      <4>1. i \in 1 .. n - 1 /\ i - 1 # n /\ (i # 1 => i - 1 \in 1 .. n)
        BY <2>2, <3>2
      <4>2. g[i] = IF i = 1 THEN s[i] ELSE g[i - 1] \o s[i]
        BY <2>1, <4>1 DEF Joined
      <4>q. QED
        BY <2>e, <3>2, <4>1, <4>2
    <3>q. QED
      BY <3>1, <3>2
  <2>6. Joined(s, n, f)
    <3>1. f = [i \in 1 .. n |-> f[i]]
      BY <2>4
    <3>q. QED
      BY <2>5, <3>1 DEF Joined
  <2>q. QED
    BY <2>4, <2>6
<1> SUFFICES ASSUME Bad # {} PROVE FALSE
  <2>1. Len(s) \in 0 .. Len(s)
    BY <1>1
  <2>q. QED
    BY <2>1
<1> HIDE DEF Good
<1>4. PICK n \in Bad : \A i \in Bad : n <= i
  <2>1. Bad \in SUBSET Nat
    OBVIOUS
  <2> HIDE DEF Bad
  <2>q. QED
    BY <2>1, LeastIn
<1>5. n \in 0 .. Len(s) /\ ~Good(n) /\ n # 0
  BY <1>2, <1>4
<1>6. n - 1 \in 0 .. Len(s) /\ ~(n <= n - 1)
  BY <1>1, <1>5
<1>7. Good(n - 1)
  BY <1>4, <1>6
<1>q. QED
  BY <1>3, <1>5, <1>7

Agree(r, s, m) == \A i \in 1 .. m : r[i] = s[i]

LEMMA JoinedUnique ==
  ASSUME NEW n \in Nat, NEW m \in Nat, m <= n, NEW r, NEW s, Agree(r, s, m),
         NEW g, Joined(s, n, g), NEW h, Joined(r, m, h)
  PROVE  \A k \in 1 .. m : g[k] = h[k]
<1> DEFINE Bad == {k \in 1 .. m : g[k] # h[k]}
<1> SUFFICES ASSUME Bad # {} PROVE FALSE
  OBVIOUS
<1>1. PICK k \in Bad : \A i \in Bad : k <= i
  <2>1. Bad \in SUBSET Nat
    OBVIOUS
  <2> HIDE DEF Bad
  <2>q. QED
    BY <2>1, LeastIn
<1>2. k \in 1 .. m /\ g[k] # h[k]
  BY <1>1
<1>3. /\ g[k] = IF k = 1 THEN s[k] ELSE g[k - 1] \o s[k]
      /\ h[k] = IF k = 1 THEN r[k] ELSE h[k - 1] \o r[k]
      /\ r[k] = s[k]
  <2>1. k \in 1 .. n
    BY <1>2
  <2>2. g[k] = IF k = 1 THEN s[k] ELSE g[k - 1] \o s[k]
    BY <2>1 DEF Joined
  <2>3. h[k] = IF k = 1 THEN r[k] ELSE h[k - 1] \o r[k]
    BY <1>2 DEF Joined
  <2>q. QED
    BY <1>2, <2>2, <2>3 DEF Agree
<1>4. k # 1
  BY <1>2, <1>3
<1>5. k - 1 \in 1 .. m /\ ~(k <= k - 1)
  BY <1>2, <1>4
<1>6. g[k - 1] = h[k - 1]
  BY <1>1, <1>5
<1>q. QED
  BY <1>2, <1>3, <1>4, <1>6

\* The last of them is what FlattenSeq gives.
LEMMA FlattenIsJoined ==
  ASSUME NEW S, NEW s \in Seq(Seq(S)), Len(s) # 0, NEW g, Joined(s, Len(s), g)
  PROVE  FlattenSeq(s) = g[Len(s)]
<1> DEFINE flatten[i \in 1 .. Len(s)] == IF i = 1 THEN s[i] ELSE flatten[i - 1] \o s[i]
<1>1. FlattenSeq(s) = flatten[Len(s)]
  BY Zenon DEF FlattenSeq
<1>2. flatten = [i \in 1 .. Len(s) |-> IF i = 1 THEN s[i] ELSE flatten[i - 1] \o s[i]]
  <2>1. g = [i \in 1 .. Len(s) |-> IF i = 1 THEN s[i] ELSE g[i - 1] \o s[i]]
    BY DEF Joined
  <2>q. QED
    BY <2>1, Zenon
<1> HIDE DEF flatten
<1>3. Joined(s, Len(s), flatten)
  BY <1>2 DEF Joined
<1>4. Len(s) \in Nat /\ Len(s) \in 1 .. Len(s)
  OBVIOUS
<1>5. flatten[Len(s)] = g[Len(s)]
  <2>1. Agree(s, s, Len(s))
    BY DEF Agree
  <2>q. QED
    BY <1>3, <1>4, <2>1, JoinedUnique
<1>q. QED
  BY <1>1, <1>5

LEMMA FlattenAppend ==
  ASSUME NEW S, NEW s \in Seq(Seq(S)), NEW w \in Seq(S)
  PROVE  /\ FlattenSeq(<<>>) = <<>>
         /\ FlattenSeq(s) \in Seq(S)
         /\ FlattenSeq(Append(s, w)) = FlattenSeq(s) \o w
<1> DEFINE n == Len(s)
           t == Append(s, w)
<1>1. FlattenSeq(<<>>) = <<>>
  BY DEF FlattenSeq
<1>2. /\ t \in Seq(Seq(S)) /\ Len(t) = n + 1 /\ n \in Nat
      /\ \A i \in 1 .. n : s[i] = t[i]
      /\ \A i : i = n + 1 => t[i] = w
  OBVIOUS
<1>3. PICK g : Joined(t, Len(t), g) /\ g \in [1 .. Len(t) -> Seq(S)]
  <2> HIDE DEF t
  <2>q. QED
    BY <1>2, JoinedExists
<1>4. PICK h : Joined(s, n, h) /\ h \in [1 .. n -> Seq(S)]
  BY JoinedExists
<1> HIDE DEF t
<1>5. \A k \in 1 .. n : g[k] = h[k]
  <2>1. PICK m : m = n + 1
    OBVIOUS
  <2>2. m \in Nat /\ n \in Nat /\ n <= m /\ Joined(t, m, g) /\ Joined(s, n, h)
    BY <1>2, <1>3, <1>4, <2>1
  <2>3. Agree(s, t, n)
    BY <1>2 DEF Agree
  <2> HIDE DEF n
  <2>q. QED
    BY <2>2, <2>3, JoinedUnique
<1>6. ASSUME NEW m, m = n + 1
      PROVE FlattenSeq(t) = g[m] /\ g[m] = IF m = 1 THEN t[m] ELSE g[n] \o t[m]
  <2>1. m \in 1 .. Len(t) /\ m - 1 = n /\ Len(t) # 0 /\ m = Len(t)
    BY <1>2, <1>6
  <2>2. FlattenSeq(t) = g[m]
    BY <1>2, <1>3, <2>1, FlattenIsJoined
  <2>3. g[m] = IF m = 1 THEN t[m] ELSE g[m - 1] \o t[m]
    BY <1>3, <2>1 DEF Joined
  <2>q. QED
    BY <2>1, <2>2, <2>3
<1>7. CASE n = 0
  <2>1. s = <<>> /\ FlattenSeq(s) = <<>> /\ <<>> \in Seq(S) /\ <<>> \o w = w
    BY <1>1, <1>7
  <2>2. FlattenSeq(t) = w
    BY <1>2, <1>6, <1>7
  <2>q. QED
    BY <1>1, <2>1, <2>2 DEF t
<1>8. CASE n # 0
  <2>1. FlattenSeq(s) = h[n] /\ n \in 1 .. n
    BY <1>2, <1>4, <1>8, FlattenIsJoined
  <2>2. h[n] \in Seq(S)
    BY <1>4, <2>1
  <2>3. FlattenSeq(t) = g[n] \o w
    <3>1. PICK m : m = n + 1
      OBVIOUS
    <3>2. m # 1
      BY <1>2, <1>8, <3>1
    <3>q. QED
      BY <1>2, <1>6, <3>1, <3>2
  <2>4. g[n] = h[n]
    BY <1>5, <2>1
  <2>q. QED
    BY <1>1, <2>1, <2>2, <2>3, <2>4 DEF t
<1>q. QED
  BY <1>7, <1>8

\* Numbers that grow from one to the next and stay in 1 .. n, n of them, are 1 .. n.
LEMMA CountedOff ==
  ASSUME NEW n \in Nat, NEW v \in [1 .. n -> 1 .. n],
         \A x, y \in 1 .. n : x < y => v[x] < v[y]
  PROVE  \A x \in 1 .. n : v[x] = x
<1>1. \A x \in 1 .. n : v[x] \in Nat /\ v[x] >= 1 /\ v[x] <= n /\ x \in Nat /\ x >= 1 /\ x <= n
  OBVIOUS
<1>2. ASSUME NEW x \in 1 .. n, v[x] < x PROVE FALSE
  <2> DEFINE Low == {y \in 1 .. n : v[y] < y}
  <2>1. PICK m \in Low : \A y \in Low : m <= y
    <3>1. Low \in SUBSET Nat /\ Low # {}
      BY <1>2
    <3> HIDE DEF Low
    <3>q. QED
      BY <3>1, LeastIn
  <2>2. m \in 1 .. n /\ v[m] < m /\ m # 1
    BY <1>1, <2>1
  <2>3. m - 1 \in 1 .. n /\ m - 1 < m /\ ~(m <= m - 1)
    BY <2>2
  <2>4. v[m - 1] < v[m]
    BY <2>2, <2>3
  <2>5. ~(v[m - 1] < m - 1)
    BY <2>1, <2>3
  <2>q. QED
    BY <1>1, <2>2, <2>3, <2>4, <2>5
<1>3. ASSUME NEW x \in 1 .. n, x < v[x] PROVE FALSE
  <2> DEFINE High == {d \in 0 .. n - 1 : n - d < v[n - d]}
  <2>1. PICK d \in High : \A e \in High : d <= e
    <3>1. n - x \in High
      <4>1. n - x \in 0 .. n - 1 /\ n - (n - x) = x
        BY <1>1
      <4>q. QED
        BY <1>3, <4>1
    <3>2. High \in SUBSET Nat
      OBVIOUS
    <3> HIDE DEF High
    <3>q. QED
      BY <3>1, <3>2, LeastIn
  <2>2. d \in 0 .. n - 1 /\ n - d < v[n - d] /\ n - d \in 1 .. n
    BY <2>1
  <2>3. d # 0
    BY <1>1, <2>2
  <2>4. /\ d - 1 \in 0 .. n - 1 /\ n - (d - 1) \in 1 .. n /\ n - d < n - (d - 1)
        /\ n - (d - 1) = n - d + 1 /\ ~(d <= d - 1)
    BY <2>2, <2>3
  <2>5. v[n - d] < v[n - (d - 1)]
    BY <2>2, <2>4
  <2>6. ~(n - (d - 1) < v[n - (d - 1)])
    BY <2>1, <2>4
  <2> DEFINE a == n - d
             b == n - (d - 1)
             va == v[a]
             vb == v[b]
  <2>7. /\ a \in Nat /\ b = a + 1 /\ va \in Nat /\ vb \in Nat
        /\ a < va /\ va < vb /\ ~(b < vb)
    BY <1>1, <2>2, <2>4, <2>5, <2>6
  <2> HIDE DEF a, b, va, vb
  <2>q. QED
    BY <2>7
<1>q. QED
  BY <1>1, <1>2, <1>3

--------------------------------------------------------------------------------
(* Where the parts of an upload are.                                            *)

IsPart(p, i, k) == p.type # "REQUEST" /\ p.upload = i /\ p.part = k

\* The numbers of the parts of upload i in a queue of jobs, and of packets.
JobNumbers(q, type, i) ==
  {k \in Nat : \E x \in 1 .. Len(q) : q[x].type = type /\ IsPart(q[x].packet, i, k)}
NetNumbers(q, i) == {k \in Nat : \E x \in 1 .. Len(q) : IsPart(q[x], i, k)}

\* The parts of upload i that have still to be sent, that are on the net, that
\* wait to be received, and that were lost.
ToSend(ups, jbs, i) == JobNumbers(jbs[ups[i].src], "send", i)
OnNet(ups, nt, i) == NetNumbers(nt[<<ups[i].src, ups[i].dst>>], i)
Arrived(ups, jbs, i) == JobNumbers(jbs[ups[i].dst], "receive", i)
Line(ups, jbs, nt, i) == ToSend(ups, jbs, i) \cup OnNet(ups, nt, i) \cup Arrived(ups, jbs, i)
LostOf(ls, i) == {k \in Nat : <<i, k>> \in ls}

Lines(ups, jbs, nt) == [i \in 1 .. Len(ups) |-> Line(ups, jbs, nt, i)]
Losses(ups, ls) == [i \in 1 .. Len(ups) |-> LostOf(ls, i)]

\* A packet is what it says.
Genuine(ups, p) ==
  p.type # "REQUEST" =>
    /\ p.upload \in 1 .. Len(ups)
    /\ LET u == ups[p.upload]
       IN /\ p.src = u.src /\ p.dst = u.dst
          /\ p.part \in 0 .. Len(u.parts)
          /\ p.type = IF p.part = 0 THEN "START"
                      ELSE IF p.part < Len(u.parts) THEN "MIDDLE" ELSE "END"
          /\ p.payload = IF p.part = 0 THEN u.name ELSE u.parts[p.part]

GenuineJob(ups, h, j) ==
  /\ j.type = "send" => Genuine(ups, j.packet) /\ j.packet.src = h
  /\ j.type = "receive" => Genuine(ups, j.packet) /\ j.packet.dst = h

\* Part b comes behind part a if they are of one upload.
Behind(a, b) ==
  a.type # "REQUEST" /\ b.type # "REQUEST" /\ a.upload = b.upload => a.part < b.part
BehindJob(a, b) == a.type = b.type /\ a.type # "upload" => Behind(a.packet, b.packet)

JobOrdered(q) == \A x, y \in 1 .. Len(q) : x < y => BehindJob(q[x], q[y])
NetOrdered(q) == \A x, y \in 1 .. Len(q) : x < y => Behind(q[x], q[y])

JobsInOrder(ups, jbs) ==
  \A h \in Host :
    JobOrdered(jbs[h]) /\ \A x \in 1 .. Len(jbs[h]) : GenuineJob(ups, h, jbs[h][x])
ChannelInOrder(ups, from, to, q) ==
  /\ NetOrdered(q)
  /\ \A x \in 1 .. Len(q) : Genuine(ups, q[x]) /\ q[x].src = from /\ q[x].dst = to
NetInOrder(ups, nt) ==
  \A from, to \in Host : ChannelInOrder(ups, from, to, nt[<<from, to>>])

\* The parts 0 .. n of an upload pass from S over N to R: none overtakes another,
\* and what comes behind a part is on its way too, or in L, the lost ones.
InLine(n, S, N, R, L) ==
  /\ S \subseteq 0 .. n /\ N \subseteq 0 .. n /\ R \subseteq 0 .. n
  /\ \A k \in R : \A m \in N \cup S : k < m
  /\ \A k \in N : \A m \in S : k < m
  /\ \A k \in S \cup N \cup R : \A m \in k + 1 .. n : m \in S \cup N \cup R \cup L
  /\ L \cap (S \cup N \cup R) = {}

LinesInOrder(ups, jbs, nt, ls) ==
  /\ ls \subseteq (1 .. Len(ups)) \X Nat
  /\ \A i \in 1 .. Len(ups) :
       InLine(Len(ups[i].parts), ToSend(ups, jbs, i), OnNet(ups, nt, i),
              Arrived(ups, jbs, i), LostOf(ls, i))

\* The parts of an upload have the lengths that they should have, and the
\* contents if no byte of the file is NUL.
Cut(content, parts) ==
  LET n == Len(parts)
  IN /\ n >= 1 /\ Len(content) <= MAX_FILE_BUFFER
     /\ (n - 1) * MAX_MSG_LENGTH <= Len(content)
     /\ \A k \in 1 .. n - 1 : Len(parts[k]) = MAX_MSG_LENGTH
     /\ Len(parts[n]) = Len(content) - (n - 1) * MAX_MSG_LENGTH
     /\ ~Contains(content, NUL) =>
          \A k \in 1 .. n : \A x \in 1 .. Len(parts[k]) :
            parts[k][x] = content[(k - 1) * MAX_MSG_LENGTH + x]

AllCut(ups) == \A i \in 1 .. Len(ups) : Cut(ups[i].content, ups[i].parts)

\* The bytes of an upload up to part m.
UpTo(u, m) == IF m < Len(u.parts) THEN m * MAX_MSG_LENGTH ELSE Len(u.content)

Places == Seq(Nat \X Nat)

\* w is upload i from its START on.
From(w, i) == w # <<>> /\ (\A x \in 1 .. Len(w) : w[x][1] = i) /\ w[1][2] = 0

LastPart(w) == w[Len(w)][2]

Join(ups, w) == FlattenSeq([x \in 1 .. Len(w) |-> ups[w[x][1]].parts[w[x][2]]])

\* Each of the n parts that w got past is in w, or was lost (is in L); the others
\* are in line, or lost.
Collected(n, w, ln, L) ==
  /\ \A x, y \in 1 .. Len(w) : x < y => w[x][2] < w[y][2]
  /\ \A x \in 1 .. Len(w) : w[x][2] \in 0 .. n /\ w[x][2] \notin L
  /\ \A x \in 1 .. Len(w) : \A k \in ln : w[x][2] < k
  /\ \A k \in 1 .. n : k \in ln \/ k \in L \/ \E x \in 1 .. Len(w) : w[x][2] = k

\* The buffer f holds the parts of w.
Kept(ups, f, i, w) ==
  /\ f.name = ups[i].name
  /\ Contents(f) = Join(ups, Tail(w))
  /\ f.occ <= UpTo(ups[i], LastPart(w))

\* w is what host h has received since the last START, and where in its loop it is.
HeldOK(h, ups, ln, L, w, f, at) ==
  /\ \A x \in 1 .. Len(w) : w[x][1] \in 1 .. Len(ups)
  /\ \A i \in 1 .. Len(ups) : From(w, i) =>
       /\ ups[i].dst = h
       /\ Collected(Len(ups[i].parts), w, ln[i], L[i])
       /\ LastPart(w) < Len(ups[i].parts) \/ at = "write" => Kept(ups, f, i, w)
  /\ at = "write" => w # <<>> /\ LastPart(w) = Len(ups[w[Len(w)][1]].parts)

\* w is what host h has written.
WrittenOK(h, ups, ln, L, w) ==
  LET i == w.parts[1][1]
  IN /\ w.parts # <<>> /\ i \in 1 .. Len(ups)
     /\ From(w.parts, i) =>
          /\ Collected(Len(ups[i].parts), w.parts, {}, L[i]) /\ ln[i] = {}
          /\ w.name = ups[i].name
          /\ w.content = Join(ups, Tail(w.parts))

Writing == [name : Seq(Byte), content : Seq(Byte), parts : Places]

Flow(ups, jbs, nt, ls) ==
  /\ ups \in Seq(CleanUpload)
  /\ jbs \in [Host -> Seq(CleanJob)] /\ nt \in [Host \X Host -> Seq(CleanPacket)]
  /\ JobsInOrder(ups, jbs) /\ NetInOrder(ups, nt) /\ LinesInOrder(ups, jbs, nt, ls)

HostsOK(ups, ln, L, hld, bufs, at, wrt) ==
  /\ hld \in [Host -> Places] /\ wrt \in [Host -> {<<>>} \cup Writing]
  /\ \A h \in Host : HeldOK(h, ups, ln, L, hld[h], bufs[h], at[h])
  /\ \A h \in Host : wrt[h] # <<>> => WrittenOK(h, ups, ln, L, wrt[h])

CopyInv ==
  /\ CleanInv
  /\ Flow(uploads, jobs, net, lost)
  /\ AllCut(uploads)
  /\ HostsOK(uploads, Lines(uploads, jobs, net), Losses(uploads, lost),
             held, f_buf_upload, scan, written)

--------------------------------------------------------------------------------
(* The parts of a file, and how they are joined.                                *)

LEMMA TimesGrows ==
  ASSUME NEW a \in Nat, NEW b \in Nat, a <= b
  PROVE  /\ a * MAX_MSG_LENGTH \in Nat /\ b * MAX_MSG_LENGTH \in Nat
         /\ a * MAX_MSG_LENGTH <= b * MAX_MSG_LENGTH
<1>1. MAX_MSG_LENGTH \in Nat
  BY TransferAssumption
<1>q. QED
  BY <1>1, SMTT(20)

LEMMA SplitCut ==
  ASSUME NEW content \in Seq(Byte), Len(content) <= MAX_FILE_BUFFER
  PROVE  Cut(content, Split(content))
<1> DEFINE n == Len(content)
           m == Middles(n)
           M == MAX_MSG_LENGTH
           parts == Split(content)
<1>1. PICK buffer :
        /\ Shifted(buffer, content)
        /\ [i \in 1 .. n - m * M |-> buffer[m][i - 1]] \in Seq(Byte)
        /\ \A k \in 1 .. m : strncpy(buffer[k - 1], M) \in Seq(Byte)
        /\ parts \in Seq(Seq(Byte)) /\ Len(parts) = m + 1
        /\ \A k : k = m + 1 => parts[k] = [i \in 1 .. n - m * M |-> buffer[m][i - 1]]
        /\ \A k \in 1 .. m : parts[k] = strncpy(buffer[k - 1], M)
  BY SplitParts
<1>2. n \in Nat /\ m \in Nat /\ m * M \in Nat /\ m * M <= n /\ n - m * M \in Nat /\ M \in Nat
  <2>1. n \in Nat
    OBVIOUS
  <2>2. m \in Nat /\ m * M \in Nat /\ m * M <= n
    BY <2>1, MiddlesFit
  <2>q. QED
    BY <2>1, <2>2, TransferAssumption
<1>3. ASSUME NEW k, k = m + 1 PROVE Len(parts[k]) = n - m * M
  <2> DEFINE last == [i \in 1 .. n - m * M |-> buffer[m][i - 1]]
  <2>1. parts[k] = last /\ last \in Seq(Byte)
    BY <1>1, <1>3
  <2>2. DOMAIN last = 1 .. n - m * M
    OBVIOUS
  <2> HIDE DEF last
  <2>q. QED
    BY <1>2, <2>1, <2>2
<1>4. ASSUME NEW k \in 1 .. m PROVE Len(parts[k]) = M
  <2>1. parts[k] = strncpy(buffer[k - 1], M) /\ strncpy(buffer[k - 1], M) \in Seq(Byte)
    BY <1>1
  <2>2. DOMAIN strncpy(buffer[k - 1], M) = 1 .. M
    BY DEF strncpy
  <2>q. QED
    BY <1>2, <2>1, <2>2
<1>5. ASSUME ~Contains(content, NUL), NEW k \in 1 .. m + 1, NEW x \in 1 .. Len(parts[k])
      PROVE  parts[k][x] = content[(k - 1) * M + x]
  <2>1. \A i \in 1 .. Len(content) : content[i] # NUL
    BY <1>5 DEF Contains
  <2>2. parts[k] = [i \in 1 .. Least(M, n - (k - 1) * M) |-> content[(k - 1) * M + i]]
    BY <2>1, SplitIsWhole
  <2>3. parts[k] \in Seq(Byte) /\ DOMAIN parts[k] = 1 .. Len(parts[k])
    BY <1>1
  <2>4. x \in 1 .. Least(M, n - (k - 1) * M)
    BY <2>2, <2>3
  <2>q. QED
    BY <2>2, <2>4
<1> HIDE DEF parts, m, n, M
<1>6. Len(parts) - 1 = m /\ Len(parts) = m + 1
  BY <1>1, <1>2
<1>7. /\ Len(parts) >= 1 /\ n <= MAX_FILE_BUFFER /\ (Len(parts) - 1) * M <= n
      /\ \A k \in 1 .. Len(parts) - 1 : Len(parts[k]) = M
  BY <1>2, <1>4, <1>6 DEF n
<1>8. Len(parts[Len(parts)]) = n - (Len(parts) - 1) * M
  BY <1>3, <1>6
<1>9. ~Contains(content, NUL) =>
        \A k \in 1 .. Len(parts) : \A x \in 1 .. Len(parts[k]) :
          parts[k][x] = content[(k - 1) * M + x]
  BY <1>5, <1>6
<1>q. QED
  BY <1>7, <1>8, <1>9 DEF Cut, n, M, parts

\* The parts of a file fill the buffer step by step, and never overfill it.
LEMMA CutFits ==
  ASSUME NEW u, u.content \in Seq(Byte), u.parts \in Seq(Seq(Byte)), Cut(u.content, u.parts),
         NEW l \in 0 .. Len(u.parts)
  PROVE  /\ UpTo(u, l) \in 0 .. MAX_FILE_BUFFER /\ UpTo(u, 0) = 0
         /\ UpTo(u, Len(u.parts)) = Len(u.content)
         /\ \A k \in 1 .. Len(u.parts) :
              l < k => UpTo(u, l) + Len(u.parts[k]) <= UpTo(u, k)
         /\ \A k \in 1 .. Len(u.parts) :
              /\ UpTo(u, k - 1) = (k - 1) * MAX_MSG_LENGTH
              /\ UpTo(u, k) = (k - 1) * MAX_MSG_LENGTH + Len(u.parts[k])
<1> DEFINE n == Len(u.parts)
           c == Len(u.content)
           M == MAX_MSG_LENGTH
           bytes(k) == Len(u.parts[k])
<1>1. /\ n \in Nat /\ n >= 1 /\ c \in Nat /\ c <= MAX_FILE_BUFFER /\ (n - 1) * M <= c
      /\ \A k \in 1 .. n - 1 : bytes(k) = M
      /\ bytes(n) = c - (n - 1) * M
  BY DEF Cut
<1>2. MAX_FILE_BUFFER \in Nat /\ M \in Nat
  BY Sizes, TransferAssumption
<1>3. \A k : UpTo(u, k) = IF k < n THEN k * M ELSE c
  BY DEF UpTo
<1> HIDE DEF n, c, M, bytes
<1>4. ASSUME NEW k \in 0 .. n - 1 PROVE k * M \in Nat /\ k * M <= c
  <2>1. k \in Nat /\ n - 1 \in Nat /\ k <= n - 1
    BY <1>1
  <2>2. k * M \in Nat /\ (n - 1) * M \in Nat /\ k * M <= (n - 1) * M
    BY <2>1, TimesGrows DEF M
  <2>q. QED
    BY <1>1, <2>2
<1>5. ASSUME NEW k \in 1 .. n
      PROVE  UpTo(u, k - 1) = (k - 1) * M /\ UpTo(u, k) = (k - 1) * M + bytes(k)
  <2>1. k - 1 < n /\ k - 1 \in Nat /\ k - 1 + 1 = k
    BY <1>1
  <2>2. UpTo(u, k - 1) = (k - 1) * M
    BY <1>3, <2>1
  <2>3. k * M = (k - 1) * M + M /\ (k - 1) * M \in Nat
    BY <2>1, NextPart DEF M
  <2>4. CASE k < n
    <3>1. UpTo(u, k) = k * M /\ k \in 1 .. n - 1
      BY <1>1, <1>3, <2>4
    <3>q. QED
      BY <1>1, <2>2, <2>3, <3>1
  <2>5. CASE k = n
    <3>1. UpTo(u, k) = c /\ bytes(k) = c - (k - 1) * M
      BY <1>1, <1>3, <2>5
    <3> DEFINE r == (k - 1) * M
    <3>2. r \in Nat
      BY <2>3
    <3> HIDE DEF r
    <3>3. c - r + r = c /\ r + (c - r) = c
      BY <1>1, <3>2
    <3>q. QED
      BY <2>2, <3>1, <3>3 DEF r
  <2>q. QED
    BY <1>1, <2>4, <2>5
<1>6. l \in 0 .. n
  BY DEF n
<1>7. UpTo(u, l) \in 0 .. MAX_FILE_BUFFER
  <2>1. l < n => l \in 0 .. n - 1
    BY <1>1, <1>6
  <2>2. l < n => l * M \in Nat /\ l * M <= c
    BY <1>4, <2>1
  <2> DEFINE r == l * M
  <2>3. l < n => r \in Nat /\ r <= c
    BY <2>2
  <2>4. UpTo(u, l) = IF l < n THEN r ELSE c
    BY <1>3
  <2> HIDE DEF r
  <2>q. QED
    BY <1>1, <1>2, <2>3, <2>4
<1>8. UpTo(u, 0) = 0
  <2>1. 0 < n /\ 0 * M = 0
    BY <1>1, <1>2
  <2>q. QED
    BY <1>3, <2>1
<1>9. UpTo(u, n) = c
  <2>1. ~(n < n)
    BY <1>1
  <2>q. QED
    BY <1>3, <2>1
<1>10. ASSUME NEW k \in 1 .. n, l < k PROVE UpTo(u, l) + bytes(k) <= UpTo(u, k)
  <2>1. l \in Nat /\ l < n /\ k - 1 \in Nat /\ l <= k - 1
    BY <1>1, <1>6, <1>10
  <2>2. UpTo(u, l) = l * M
    BY <1>3, <2>1
  <2>3. l * M \in Nat /\ (k - 1) * M \in Nat /\ l * M <= (k - 1) * M
    BY <2>1, TimesGrows DEF M
  <2>4. UpTo(u, k) = (k - 1) * M + bytes(k)
    BY <1>5
  <2>5. bytes(k) \in Nat
    <3>1. \A x \in 1 .. Len(u.parts) : Len(u.parts[x]) \in Nat
      <4>1. \A x \in 1 .. Len(u.parts) : u.parts[x] \in Seq(Byte)
        OBVIOUS
      <4>q. QED
        BY <4>1
    <3>q. QED
      BY <3>1 DEF bytes, n
  <2> DEFINE r == l * M
             q == (k - 1) * M
             b == bytes(k)
  <2>6. r \in Nat /\ q \in Nat /\ b \in Nat /\ r <= q
    BY <2>3, <2>5
  <2>7. r + b <= q + b
    <3> HIDE DEF r, q, b
    <3>q. QED
      BY <2>6
  <2>q. QED
    BY <2>2, <2>4, <2>7
<1>q. QED
  BY <1>5, <1>7, <1>8, <1>9, <1>10 DEF n, c, M, bytes

\* Without a NUL the parts are the file.
LEMMA CutIsWhole ==
  ASSUME NEW content \in Seq(Byte), NEW parts \in Seq(Seq(Byte)), Cut(content, parts),
         ~Contains(content, NUL)
  PROVE  FlattenSeq(parts) = content
<1> DEFINE u == [content |-> content, parts |-> parts]
           n == Len(parts)
           g == [k \in 1 .. n |-> SubSeq(content, 1, UpTo(u, k))]
           before(k) == (k - 1) * MAX_MSG_LENGTH
<1>1. u.content = content /\ u.parts = parts
  OBVIOUS
<1>2. /\ n \in Nat /\ n >= 1
      /\ \A k \in 1 .. n : \A x \in 1 .. Len(parts[k]) :
           parts[k][x] = content[before(k) + x]
  BY DEF Cut
<1> HIDE DEF u
<1>3. /\ UpTo(u, 0) = 0 /\ UpTo(u, n) = Len(content)
      /\ \A k \in 1 .. n : UpTo(u, k - 1) = before(k) /\ UpTo(u, k) = before(k) + Len(parts[k])
  <2>1. 0 \in 0 .. Len(u.parts)
    BY <1>1, <1>2
  <2>q. QED
    BY <1>1, <2>1, CutFits
<1>4. ASSUME NEW k \in 0 .. n PROVE UpTo(u, k) \in Nat
  <2>1. k \in 0 .. Len(u.parts)
    BY <1>1
  <2>2. UpTo(u, k) \in 0 .. MAX_FILE_BUFFER
    BY <1>1, <2>1, CutFits
  <2>q. QED
    BY <2>2, Sizes
<1>n. \A k \in 1 .. n : parts[k] \in Seq(Byte) /\ Len(parts[k]) \in Nat
  OBVIOUS
<1> HIDE DEF before
<1>5. \A k \in 0 .. n : UpTo(u, k) <= Len(content)
  <2>1. ASSUME NEW k \in 0 .. n, k # n PROVE UpTo(u, k) <= Len(content)
    <3>1. n \in 1 .. Len(u.parts) /\ k < n /\ k \in 0 .. Len(u.parts)
      BY <1>1, <1>2, <2>1
    <3>2. UpTo(u, k) + Len(u.parts[n]) <= UpTo(u, n)
      BY <1>1, <3>1, CutFits
    <3> DEFINE a == UpTo(u, k)
               b == Len(u.parts[n])
    <3>3. a \in Nat /\ b \in Nat /\ Len(content) \in Nat /\ a + b <= Len(content)
      BY <1>1, <1>3, <1>4, <1>n, <3>1, <3>2
    <3> HIDE DEF a, b
    <3>4. a <= Len(content)
      BY <3>3
    <3>q. QED
      BY <3>4 DEF a
  <2>2. UpTo(u, n) <= Len(content)
    <3>1. Len(content) \in Nat
      OBVIOUS
    <3>q. QED
      BY <1>3, <3>1
  <2>q. QED
    BY <2>1, <2>2
<1>6. ASSUME NEW k \in 1 .. n
      PROVE  g[k] = IF k = 1 THEN parts[k] ELSE g[k - 1] \o parts[k]
  <2> DEFINE a == UpTo(u, k - 1)
             b == UpTo(u, k)
             l == Len(parts[k])
  <2>1. k - 1 \in 0 .. n /\ k \in 0 .. n
    BY <1>2
  <2>2. a \in Nat /\ b \in Nat /\ l \in Nat /\ b = a + l /\ a = before(k) /\ b <= Len(content)
    BY <1>3, <1>4, <1>5, <1>n, <2>1
  <2> DEFINE first == SubSeq(content, 1, a)
             both == SubSeq(content, 1, b)
  <2> HIDE DEF a, b, l
  <2>3. /\ first \in Seq(Byte) /\ Len(first) = a /\ \A x \in 1 .. a : first[x] = content[x]
        /\ both \in Seq(Byte) /\ Len(both) = b /\ \A x \in 1 .. b : both[x] = content[x]
    <3>1. a <= Len(content) /\ b <= Len(content)
      BY <2>2
    <3>2. first \in Seq(Byte) /\ Len(first) = a /\ \A x \in 1 .. a : first[x] = content[x]
      BY <2>2, <3>1
    <3>3. both \in Seq(Byte) /\ Len(both) = b /\ \A x \in 1 .. b : both[x] = content[x]
      BY <2>2, <3>1
    <3>q. QED
      BY <3>2, <3>3
  <2> HIDE DEF first, both
  <2>4. \A x \in 1 .. l : parts[k][x] = content[a + x]
    BY <1>2, <2>2 DEF l
  <2>5. both = first \o parts[k]
    <3> DEFINE r == first \o parts[k]
    <3>1. /\ r \in Seq(Byte) /\ Len(r) = a + l
          /\ \A x \in 1 .. a + l : r[x] = IF x <= a THEN first[x] ELSE parts[k][x - a]
      <4>1. parts[k] \in Seq(Byte) /\ Len(parts[k]) = l
        BY <1>n DEF l
      <4>q. QED
        BY <2>3, <4>1, BothParts
    <3> HIDE DEF r
    <3>2. ASSUME NEW x \in 1 .. b PROVE r[x] = both[x]
      <4>1. CASE x <= a
        <5>1. x \in 1 .. a /\ x \in 1 .. a + l
          BY <2>2, <4>1
        <5>q. QED
          BY <2>3, <3>1, <4>1, <5>1
      <4>2. CASE ~(x <= a)
        <5>1. x \in 1 .. a + l /\ x - a \in 1 .. l /\ a + (x - a) = x
          BY <2>2, <4>2
        <5>2. r[x] = parts[k][x - a]
          BY <3>1, <4>2, <5>1
        <5>3. parts[k][x - a] = content[a + (x - a)]
          BY <2>4, <5>1
        <5>q. QED
          BY <2>3, <5>1, <5>2, <5>3
      <4>q. QED
        BY <4>1, <4>2
    <3>3. r = both
      BY <2>2, <2>3, <3>1, <3>2
    <3>q. QED
      BY <3>3 DEF r
  <2>6. g[k] = both
    BY DEF both, b
  <2>7. CASE k = 1
    <3>1. a = 0 /\ first = <<>>
      <4>1. a = 0
        BY <1>3, <2>7 DEF a
      <4>2. Len(first) = 0
        BY <2>3, <4>1
      <4>q. QED
        BY <2>3, <4>1, <4>2
    <3>2. <<>> \o parts[k] = parts[k]
      BY <1>n
    <3>q. QED
      BY <2>5, <2>6, <2>7, <3>1, <3>2
  <2>8. CASE k # 1
    <3>1. k - 1 \in 1 .. n
      BY <1>2, <2>8
    <3>2. g[k - 1] = first
      BY <3>1 DEF first, a
    <3>q. QED
      BY <2>5, <2>6, <2>8, <3>2
  <2>q. QED
    BY <2>7, <2>8
<1>7. g = [k \in 1 .. n |-> g[k]]
  OBVIOUS
<1>8. n \in 1 .. n /\ g[n] = SubSeq(content, 1, Len(content))
  BY <1>2, <1>3
<1>9. SubSeq(content, 1, Len(content)) = content
  OBVIOUS
<1> HIDE DEF g
<1>10. Joined(parts, n, g)
  BY <1>6, <1>7 DEF Joined
<1>11. FlattenSeq(parts) = g[n]
  BY <1>2, <1>10, FlattenIsJoined
<1>q. QED
  BY <1>8, <1>9, <1>11

\* The parts that are joined.
JoinedParts(ups, w) == [x \in 1 .. Len(w) |-> ups[w[x][1]].parts[w[x][2]]]

LEMMA JoinAppend ==
  ASSUME NEW ups, NEW w \in Places, NEW i \in Nat, NEW k \in Nat,
         \A x \in 1 .. Len(w) : ups[w[x][1]].parts[w[x][2]] \in Seq(Byte),
         ups[i].parts[k] \in Seq(Byte)
  PROVE  /\ Join(ups, <<>>) = <<>>
         /\ Join(ups, w) \in Seq(Byte)
         /\ Join(ups, Append(w, <<i, k>>)) = Join(ups, w) \o ups[i].parts[k]
<1> DEFINE v == Append(w, <<i, k>>)
           s == JoinedParts(ups, w)
           t == JoinedParts(ups, v)
           last == ups[i].parts[k]
<1>1. /\ v \in Places /\ Len(v) = Len(w) + 1 /\ Len(w) \in Nat
      /\ \A x \in 1 .. Len(w) : v[x] = w[x]
      /\ \A x : x = Len(w) + 1 => v[x] = <<i, k>>
  BY DEF Places
<1>2. s \in Seq(Seq(Byte)) /\ Len(s) = Len(w)
  <2>1. s \in [1 .. Len(w) -> Seq(Byte)]
    BY DEF JoinedParts
  <2> HIDE DEF s
  <2>q. QED
    BY <1>1, <2>1, FunctionSeq
<1>3. \A x \in 1 .. Len(w) : s[x] = ups[w[x][1]].parts[w[x][2]]
  BY DEF JoinedParts
<1> HIDE DEF v
<1>4. /\ DOMAIN t = 1 .. Len(v)
      /\ \A x \in 1 .. Len(v) : t[x] = ups[v[x][1]].parts[v[x][2]]
      /\ t = [x \in 1 .. Len(v) |-> t[x]]
  BY DEF JoinedParts
<1> DEFINE r == Append(s, last)
<1> HIDE DEF s, t
<1>5. /\ r \in Seq(Seq(Byte)) /\ Len(r) = Len(s) + 1
      /\ \A x \in 1 .. Len(s) : r[x] = s[x]
      /\ \A x : x = Len(s) + 1 => r[x] = last
  BY <1>2
<1> HIDE DEF r, last
<1>6. ASSUME NEW x \in 1 .. Len(v) PROVE t[x] = r[x]
  <2>1. CASE x = Len(w) + 1
    <3>1. v[x] = <<i, k>>
      BY <1>1, <2>1
    <3>2. t[x] = last
      BY <1>4, <3>1 DEF last
    <3>q. QED
      BY <1>2, <1>5, <2>1, <3>2
  <2>2. CASE x # Len(w) + 1
    <3>1. x \in 1 .. Len(w)
      BY <1>1, <2>2
    <3>2. t[x] = s[x]
      BY <1>1, <1>3, <1>4, <3>1
    <3>q. QED
      BY <1>2, <1>5, <3>1, <3>2
  <2>q. QED
    BY <2>1, <2>2
<1>7. t = r
  <2>1. r = [x \in 1 .. Len(v) |-> r[x]]
    BY <1>1, <1>2, <1>5
  <2>q. QED
    BY <1>4, <1>6, <2>1
<1>8. /\ FlattenSeq(<<>>) = <<>> /\ FlattenSeq(s) \in Seq(Byte)
      /\ FlattenSeq(r) = FlattenSeq(s) \o last
  <2>1. last \in Seq(Byte)
    BY DEF last
  <2>q. QED
    BY <1>2, <2>1, FlattenAppend DEF r
<1>9. Join(ups, <<>>) = <<>>
  <2> DEFINE e == JoinedParts(ups, <<>>)
  <2>1. e = <<>>
    BY DEF JoinedParts
  <2>2. Join(ups, <<>>) = FlattenSeq(e)
    BY DEF Join, JoinedParts
  <2>q. QED
    BY <1>8, <2>1, <2>2
<1>10. Join(ups, w) = FlattenSeq(s) /\ Join(ups, v) = FlattenSeq(t)
  BY DEF Join, JoinedParts, s, t
<1>q. QED
  BY <1>7, <1>8, <1>9, <1>10 DEF v, last

\* Uploads that begin later change nothing.
LEMMA JoinSame ==
  ASSUME NEW ups, NEW more, NEW w,
         \A x \in 1 .. Len(w) : more[w[x][1]] = ups[w[x][1]]
  PROVE  Join(more, w) = Join(ups, w)
<1>1. [x \in 1 .. Len(w) |-> ups[w[x][1]].parts[w[x][2]]]
      = [x \in 1 .. Len(w) |-> more[w[x][1]].parts[w[x][2]]]
  OBVIOUS
<1>q. QED
  BY <1>1, Zenon DEF Join

--------------------------------------------------------------------------------
(* Parts move along the line of their upload.                                   *)

LEMMA LineBegun ==
  ASSUME NEW n \in Nat
  PROVE  InLine(n, 0 .. n, {}, {}, {})
BY DEF InLine

SentPart(n, S, N, R, L, k) ==
  /\ InLine(n, S \ {k}, N \cup {k}, R, L)
  /\ (S \ {k}) \cup (N \cup {k}) \cup R = S \cup N \cup R
ArrivedPart(n, S, N, R, L, k) ==
  /\ InLine(n, S, N \ {k}, R \cup {k}, L)
  /\ S \cup (N \ {k}) \cup (R \cup {k}) = S \cup N \cup R
LostPart(n, S, N, R, L, k) ==
  /\ InLine(n, S, N \ {k}, R, L \cup {k})
  /\ S \cup (N \ {k}) \cup R = (S \cup N \cup R) \ {k}
TakenPart(n, S, N, R, L, k) ==
  /\ InLine(n, S, N, R \ {k}, L)
  /\ S \cup N \cup (R \ {k}) = (S \cup N \cup R) \ {k}
  /\ k \notin L /\ k \in 0 .. n
  /\ \A m \in (S \cup N \cup R) \ {k} : k < m
  /\ \A m \in k + 1 .. n : m \in ((S \cup N \cup R) \ {k}) \cup L

\* The first part that waits is sent, ...
LEMMA LineSent ==
  ASSUME NEW n \in Nat, NEW S, NEW N, NEW R, NEW L, InLine(n, S, N, R, L),
         NEW k \in S, \A m \in S : k <= m
  PROVE  SentPart(n, S, N, R, L, k)
<1>1. (S \ {k}) \cup (N \cup {k}) \cup R = S \cup N \cup R
  OBVIOUS
<1>2. S \subseteq 0 .. n /\ N \subseteq 0 .. n /\ R \subseteq 0 .. n
  BY DEF InLine
<1>3. \A m \in S \ {k} : k < m
  BY <1>2
<1>4. (\A x \in R : \A m \in (N \cup {k}) \cup (S \ {k}) : x < m)
      /\ \A x \in N \cup {k} : \A m \in S \ {k} : x < m
  BY <1>3 DEF InLine
<1>q. QED
  <2>1. InLine(n, S \ {k}, N \cup {k}, R, L)
    BY <1>1, <1>2, <1>4, Zenon DEF InLine
  <2>q. QED
    BY <1>1, <2>1, Zenon DEF SentPart

\* ... arrives, ...
LEMMA LineArrived ==
  ASSUME NEW n \in Nat, NEW S, NEW N, NEW R, NEW L, InLine(n, S, N, R, L),
         NEW k \in N, \A m \in N : k <= m
  PROVE  ArrivedPart(n, S, N, R, L, k)
<1>1. S \cup (N \ {k}) \cup (R \cup {k}) = S \cup N \cup R
  OBVIOUS
<1>2. S \subseteq 0 .. n /\ N \subseteq 0 .. n /\ R \subseteq 0 .. n
  BY DEF InLine
<1>3. \A m \in N \ {k} : k < m
  BY <1>2
<1>4. (\A x \in R \cup {k} : \A m \in (N \ {k}) \cup S : x < m)
      /\ \A x \in N \ {k} : \A m \in S : x < m
  BY <1>3 DEF InLine
<1>q. QED
  <2>1. InLine(n, S, N \ {k}, R \cup {k}, L)
    BY <1>1, <1>2, <1>4, Zenon DEF InLine
  <2>q. QED
    BY <1>1, <2>1, Zenon DEF ArrivedPart

\* ... or is lost, ...
LEMMA LineLost ==
  ASSUME NEW n \in Nat, NEW S, NEW N, NEW R, NEW L, InLine(n, S, N, R, L),
         NEW k \in N, \A m \in N : k <= m
  PROVE  LostPart(n, S, N, R, L, k)
<1>2. S \subseteq 0 .. n /\ N \subseteq 0 .. n /\ R \subseteq 0 .. n
  BY DEF InLine
<1>3. k \notin S /\ k \notin R
  BY <1>2 DEF InLine
<1>1. S \cup (N \ {k}) \cup R = (S \cup N \cup R) \ {k}
  BY <1>3
<1>4. (\A x \in R : \A m \in (N \ {k}) \cup S : x < m)
      /\ \A x \in N \ {k} : \A m \in S : x < m
  BY DEF InLine
<1>5. \A x \in S \cup (N \ {k}) \cup R : \A m \in x + 1 .. n :
        m \in S \cup (N \ {k}) \cup R \cup (L \cup {k})
  BY DEF InLine
<1>6. (L \cup {k}) \cap (S \cup (N \ {k}) \cup R) = {}
  BY <1>1 DEF InLine
<1>q. QED
  <2>1. InLine(n, S, N \ {k}, R, L \cup {k})
    BY <1>1, <1>2, <1>4, <1>5, <1>6 DEF InLine
  <2>q. QED
    BY <1>1, <2>1, Zenon DEF LostPart

\* ... and is received, before all the others.
LEMMA LineTaken ==
  ASSUME NEW n \in Nat, NEW S, NEW N, NEW R, NEW L, InLine(n, S, N, R, L),
         NEW k \in R, \A m \in R : k <= m
  PROVE  TakenPart(n, S, N, R, L, k)
<1>2. S \subseteq 0 .. n /\ N \subseteq 0 .. n /\ R \subseteq 0 .. n
  BY DEF InLine
<1>3. k \notin S /\ k \notin N /\ k \notin L
  BY <1>2 DEF InLine
<1>1. S \cup N \cup (R \ {k}) = (S \cup N \cup R) \ {k}
  BY <1>3
<1>4. (\A x \in R \ {k} : \A m \in N \cup S : x < m)
      /\ \A x \in N : \A m \in S : x < m
  BY DEF InLine
<1>5. \A m \in (S \cup N \cup R) \ {k} : k < m
  BY <1>2 DEF InLine
<1>6. \A m \in k + 1 .. n : m # k /\ m \in S \cup N \cup R \cup L
  BY <1>2 DEF InLine
<1>7. \A x \in (S \cup N \cup R) \ {k} : \A m \in x + 1 .. n :
        m # k /\ m \in S \cup N \cup R \cup L
  <2> SUFFICES ASSUME NEW x \in (S \cup N \cup R) \ {k}, NEW m \in x + 1 .. n
               PROVE  m # k /\ m \in S \cup N \cup R \cup L
    OBVIOUS
  <2>1. k < x /\ x \in Nat /\ k \in Nat
    BY <1>2, <1>5
  <2>2. m # k
    BY <2>1
  <2>q. QED
    BY <2>2 DEF InLine
<1>8. L \cap ((S \cup N \cup R) \ {k}) = {}
  BY DEF InLine
<1>9. R \ {k} \subseteq 0 .. n
  BY <1>2
<1>10. \A x \in S \cup N \cup (R \ {k}) : \A m \in x + 1 .. n :
         m \in S \cup N \cup (R \ {k}) \cup L
  BY <1>1, <1>7
<1>11. InLine(n, S, N, R \ {k}, L)
  BY <1>1, <1>2, <1>4, <1>8, <1>9, <1>10, Zenon DEF InLine
<1>q. QED
  <2>1. k \in 0 .. n /\ \A m \in k + 1 .. n : m \in ((S \cup N \cup R) \ {k}) \cup L
    BY <1>2, <1>6
  <2>q. QED
    BY <1>1, <1>3, <1>5, <1>11, <2>1, Zenon DEF TakenPart

--------------------------------------------------------------------------------
(* The parts in a queue, when its head is taken and when something is added.    *)

\* The elements of a queue that was cut or extended.
LEMMA TailElements ==
  ASSUME NEW S, NEW q \in Seq(S), q # <<>>
  PROVE  /\ Tail(q) \in Seq(S) /\ Len(Tail(q)) = Len(q) - 1 /\ Len(q) \in Nat /\ Len(q) >= 1
         /\ Head(q) = q[1]
         /\ \A x \in 1 .. Len(q) - 1 : x + 1 \in 1 .. Len(q) /\ Tail(q)[x] = q[x + 1]
         /\ \A y \in 1 .. Len(q) : y # 1 => y - 1 \in 1 .. Len(q) - 1 /\ Tail(q)[y - 1] = q[y]
OBVIOUS

LEMMA JobsTail ==
  ASSUME NEW q \in Seq(CleanJob), q # <<>>, JobOrdered(q)
  PROVE  /\ JobOrdered(Tail(q))
         /\ \A type, i : JobNumbers(q, type, i) =
              JobNumbers(Tail(q), type, i) \cup JobNumbers(<<Head(q)>>, type, i)
         /\ \A type, i : type # "upload" =>
              \A k \in JobNumbers(<<Head(q)>>, type, i) :
                \A m \in JobNumbers(Tail(q), type, i) : k < m
<1> DEFINE t == Tail(q)
           n == Len(q)
<1>1. /\ t \in Seq(CleanJob) /\ Len(t) = n - 1 /\ n \in Nat /\ n >= 1 /\ Head(q) = q[1]
      /\ \A x \in 1 .. n - 1 : x + 1 \in 1 .. n /\ t[x] = q[x + 1]
      /\ \A y \in 1 .. n : y # 1 => y - 1 \in 1 .. n - 1 /\ t[y - 1] = q[y]
  BY TailElements
<1> DEFINE f == <<Head(q)>>
<1>2. Len(f) = 1 /\ f[1] = q[1] /\ 1 .. 1 = {1} /\ 1 \in 1 .. n
  BY <1>1
<1> HIDE DEF t, n, f
<1>3. JobOrdered(t)
  <2> SUFFICES ASSUME NEW x \in 1 .. n - 1, NEW y \in 1 .. n - 1, x < y
               PROVE  BehindJob(t[x], t[y])
    BY <1>1 DEF JobOrdered
  <2>1. x + 1 \in 1 .. n /\ y + 1 \in 1 .. n /\ x + 1 < y + 1 /\ t[x] = q[x + 1] /\ t[y] = q[y + 1]
    BY <1>1
  <2>2. BehindJob(q[x + 1], q[y + 1])
    BY <2>1 DEF JobOrdered, n
  <2>q. QED
    BY <2>1, <2>2
<1>4. ASSUME NEW type, NEW i
      PROVE  JobNumbers(q, type, i) = JobNumbers(t, type, i) \cup JobNumbers(f, type, i)
  <2> DEFINE Is(j, k) == j.type = type /\ IsPart(j.packet, i, k)
  <2>1. ASSUME NEW k \in Nat
        PROVE  (\E x \in 1 .. n : Is(q[x], k)) <=>
                 (\E x \in 1 .. n - 1 : Is(t[x], k)) \/ \E x \in 1 .. 1 : Is(f[x], k)
    <3> HIDE DEF Is
    <3>1. ASSUME NEW x \in 1 .. n, Is(q[x], k)
          PROVE  (\E y \in 1 .. n - 1 : Is(t[y], k)) \/ \E y \in 1 .. 1 : Is(f[y], k)
      <4>1. CASE x = 1
        BY <1>2, <3>1, <4>1
      <4>2. CASE x # 1
        BY <1>1, <3>1, <4>2
      <4>q. QED
        BY <4>1, <4>2
    <3>2. ASSUME NEW x \in 1 .. n - 1, Is(t[x], k) PROVE \E y \in 1 .. n : Is(q[y], k)
      BY <1>1, <3>2
    <3>3. ASSUME NEW x \in 1 .. 1, Is(f[x], k) PROVE \E y \in 1 .. n : Is(q[y], k)
      BY <1>2, <3>3
    <3>q. QED
      BY <3>1, <3>2, <3>3
  <2>q. QED
    BY <1>1, <1>2, <2>1 DEF JobNumbers, n
<1>5. ASSUME NEW type, NEW i, type # "upload", NEW k \in JobNumbers(f, type, i),
             NEW m \in JobNumbers(t, type, i)
      PROVE  k < m
  <2>1. q[1].type = type /\ IsPart(q[1].packet, i, k)
    BY <1>2 DEF JobNumbers
  <2>2. PICK x \in 1 .. n - 1 : t[x].type = type /\ IsPart(t[x].packet, i, m)
    BY <1>1 DEF JobNumbers
  <2>3. x + 1 \in 1 .. n /\ 1 < x + 1 /\ t[x] = q[x + 1]
    BY <1>1
  <2>4. BehindJob(q[1], q[x + 1])
    BY <1>2, <2>3 DEF JobOrdered, n
  <2>5. BehindJob(q[1], t[x])
    BY <2>3, <2>4
  <2>q. QED
    BY <1>5, <2>1, <2>2, <2>5 DEF BehindJob, Behind, IsPart
<1>q. QED
  BY <1>3, <1>4, <1>5 DEF t, f

LEMMA NetTail ==
  ASSUME NEW q \in Seq(CleanPacket), q # <<>>, NetOrdered(q)
  PROVE  /\ NetOrdered(Tail(q))
         /\ \A i : NetNumbers(q, i) = NetNumbers(Tail(q), i) \cup NetNumbers(<<Head(q)>>, i)
         /\ \A i : \A k \in NetNumbers(<<Head(q)>>, i) :
              \A m \in NetNumbers(Tail(q), i) : k < m
<1> DEFINE t == Tail(q)
           n == Len(q)
<1>1. /\ t \in Seq(CleanPacket) /\ Len(t) = n - 1 /\ n \in Nat /\ n >= 1 /\ Head(q) = q[1]
      /\ \A x \in 1 .. n - 1 : x + 1 \in 1 .. n /\ t[x] = q[x + 1]
      /\ \A y \in 1 .. n : y # 1 => y - 1 \in 1 .. n - 1 /\ t[y - 1] = q[y]
  BY TailElements
<1> DEFINE f == <<Head(q)>>
<1>2. Len(f) = 1 /\ f[1] = q[1] /\ 1 .. 1 = {1} /\ 1 \in 1 .. n
  BY <1>1
<1> HIDE DEF t, n, f
<1>3. NetOrdered(t)
  <2> SUFFICES ASSUME NEW x \in 1 .. n - 1, NEW y \in 1 .. n - 1, x < y
               PROVE  Behind(t[x], t[y])
    BY <1>1 DEF NetOrdered
  <2>1. x + 1 \in 1 .. n /\ y + 1 \in 1 .. n /\ x + 1 < y + 1 /\ t[x] = q[x + 1] /\ t[y] = q[y + 1]
    BY <1>1
  <2>2. Behind(q[x + 1], q[y + 1])
    BY <2>1 DEF NetOrdered, n
  <2>q. QED
    BY <2>1, <2>2
<1>4. ASSUME NEW i
      PROVE  NetNumbers(q, i) = NetNumbers(t, i) \cup NetNumbers(f, i)
  <2>1. ASSUME NEW k \in Nat
        PROVE  (\E x \in 1 .. n : IsPart(q[x], i, k)) <=>
                 (\E x \in 1 .. n - 1 : IsPart(t[x], i, k)) \/ \E x \in 1 .. 1 : IsPart(f[x], i, k)
    <3>1. ASSUME NEW x \in 1 .. n, IsPart(q[x], i, k)
          PROVE  (\E y \in 1 .. n - 1 : IsPart(t[y], i, k)) \/ \E y \in 1 .. 1 : IsPart(f[y], i, k)
      <4>1. CASE x = 1
        BY <1>2, <3>1, <4>1
      <4>2. CASE x # 1
        BY <1>1, <3>1, <4>2
      <4>q. QED
        BY <4>1, <4>2
    <3>2. ASSUME NEW x \in 1 .. n - 1, IsPart(t[x], i, k) PROVE \E y \in 1 .. n : IsPart(q[y], i, k)
      BY <1>1, <3>2
    <3>3. ASSUME NEW x \in 1 .. 1, IsPart(f[x], i, k) PROVE \E y \in 1 .. n : IsPart(q[y], i, k)
      BY <1>2, <3>3
    <3>q. QED
      BY <3>1, <3>2, <3>3
  <2>q. QED
    BY <1>1, <1>2, <2>1 DEF NetNumbers, n
<1>5. ASSUME NEW i, NEW k \in NetNumbers(f, i), NEW m \in NetNumbers(t, i)
      PROVE  k < m
  <2>1. IsPart(q[1], i, k)
    BY <1>2 DEF NetNumbers
  <2>2. PICK x \in 1 .. n - 1 : IsPart(t[x], i, m)
    BY <1>1 DEF NetNumbers
  <2>3. x + 1 \in 1 .. n /\ 1 < x + 1 /\ t[x] = q[x + 1]
    BY <1>1
  <2>4. Behind(q[1], q[x + 1])
    BY <1>2, <2>3 DEF NetOrdered, n
  <2>5. Behind(q[1], t[x])
    BY <2>3, <2>4
  <2>q. QED
    BY <2>1, <2>2, <2>5 DEF Behind, IsPart
<1>q. QED
  BY <1>3, <1>4, <1>5 DEF t, f

\* q \o r, element by element.
LEMMA BothElements ==
  ASSUME NEW S, NEW q \in Seq(S), NEW r \in Seq(S)
  PROVE  /\ q \o r \in Seq(S) /\ Len(q \o r) = Len(q) + Len(r)
         /\ Len(q) \in Nat /\ Len(r) \in Nat
         /\ \A x \in 1 .. Len(q) : x \in 1 .. Len(q) + Len(r) /\ (q \o r)[x] = q[x]
         /\ \A y \in 1 .. Len(r) :
              Len(q) + y \in 1 .. Len(q) + Len(r) /\ (q \o r)[Len(q) + y] = r[y]
         /\ \A z \in 1 .. Len(q) + Len(r) :
              \/ z \in 1 .. Len(q) /\ (q \o r)[z] = q[z]
              \/ z - Len(q) \in 1 .. Len(r) /\ (q \o r)[z] = r[z - Len(q)]
OBVIOUS

LEMMA JobsBoth ==
  ASSUME NEW q \in Seq(CleanJob), NEW r \in Seq(CleanJob), JobOrdered(q), JobOrdered(r),
         \A x \in 1 .. Len(q) : \A y \in 1 .. Len(r) : BehindJob(q[x], r[y])
  PROVE  /\ JobOrdered(q \o r)
         /\ \A type, i :
              JobNumbers(q \o r, type, i) = JobNumbers(q, type, i) \cup JobNumbers(r, type, i)
<1> DEFINE b == q \o r
           n == Len(q)
           l == Len(r)
<1>1. /\ Len(b) = n + l /\ n \in Nat /\ l \in Nat
      /\ \A x \in 1 .. n : x \in 1 .. n + l /\ b[x] = q[x]
      /\ \A y \in 1 .. l : n + y \in 1 .. n + l /\ b[n + y] = r[y]
      /\ \A z \in 1 .. n + l :
           \/ z \in 1 .. n /\ b[z] = q[z]
           \/ z - n \in 1 .. l /\ b[z] = r[z - n]
  BY BothElements
<1> HIDE DEF b, n, l
<1>2. JobOrdered(b)
  <2> SUFFICES ASSUME NEW x \in 1 .. n + l, NEW y \in 1 .. n + l, x < y
               PROVE  BehindJob(b[x], b[y])
    BY <1>1 DEF JobOrdered
  <2>1. CASE x \in 1 .. n /\ b[x] = q[x] /\ y \in 1 .. n /\ b[y] = q[y]
    <3>1. BehindJob(q[x], q[y])
      BY <2>1 DEF JobOrdered, n
    <3>q. QED
      BY <2>1, <3>1
  <2>2. CASE x \in 1 .. n /\ b[x] = q[x] /\ y - n \in 1 .. l /\ b[y] = r[y - n]
    <3>1. BehindJob(q[x], r[y - n])
      BY <2>2 DEF n, l
    <3>q. QED
      BY <2>2, <3>1
  <2>3. CASE x - n \in 1 .. l /\ b[x] = r[x - n] /\ y - n \in 1 .. l /\ b[y] = r[y - n]
    <3>1. x - n < y - n
      BY <1>1
    <3>2. BehindJob(r[x - n], r[y - n])
      BY <2>3, <3>1 DEF JobOrdered, l
    <3>q. QED
      BY <2>3, <3>2
  <2>4. ~(x - n \in 1 .. l /\ y \in 1 .. n)
    BY <1>1
  <2>5. /\ (x \in 1 .. n /\ b[x] = q[x]) \/ (x - n \in 1 .. l /\ b[x] = r[x - n])
        /\ (y \in 1 .. n /\ b[y] = q[y]) \/ (y - n \in 1 .. l /\ b[y] = r[y - n])
    BY <1>1
  <2>q. QED
    BY <2>1, <2>2, <2>3, <2>4, <2>5
<1>3. ASSUME NEW type, NEW i
      PROVE  JobNumbers(b, type, i) = JobNumbers(q, type, i) \cup JobNumbers(r, type, i)
  <2> DEFINE Is(j, k) == j.type = type /\ IsPart(j.packet, i, k)
  <2>1. ASSUME NEW k \in Nat
        PROVE  (\E x \in 1 .. n + l : Is(b[x], k)) <=>
                 (\E x \in 1 .. n : Is(q[x], k)) \/ \E x \in 1 .. l : Is(r[x], k)
    <3> HIDE DEF Is
    <3>q. QED
      BY <1>1
  <2>q. QED
    BY <1>1, <2>1 DEF JobNumbers, n, l
<1>q. QED
  BY <1>2, <1>3 DEF b

LEMMA NetBoth ==
  ASSUME NEW q \in Seq(CleanPacket), NetOrdered(q), NEW p \in CleanPacket,
         \A x \in 1 .. Len(q) : Behind(q[x], p)
  PROVE  /\ Append(q, p) \in Seq(CleanPacket) /\ NetOrdered(Append(q, p))
         /\ \A i : NetNumbers(Append(q, p), i) = NetNumbers(q, i) \cup NetNumbers(<<p>>, i)
<1> DEFINE b == Append(q, p)
           n == Len(q)
           f == <<p>>
<1>1. /\ b \in Seq(CleanPacket) /\ Len(b) = n + 1 /\ n \in Nat
      /\ \A x \in 1 .. n : x \in 1 .. n + 1 /\ b[x] = q[x]
      /\ n + 1 \in 1 .. n + 1 /\ b[n + 1] = p
      /\ \A z \in 1 .. n + 1 : z \in 1 .. n \/ z = n + 1
  OBVIOUS
<1>2. Len(f) = 1 /\ f[1] = p /\ 1 .. 1 = {1}
  OBVIOUS
<1> HIDE DEF b, n, f
<1>3. NetOrdered(b)
  <2> SUFFICES ASSUME NEW x \in 1 .. n + 1, NEW y \in 1 .. n + 1, x < y
               PROVE  Behind(b[x], b[y])
    BY <1>1 DEF NetOrdered
  <2>1. x \in 1 .. n
    BY <1>1
  <2>2. CASE y = n + 1
    BY <1>1, <2>1, <2>2 DEF n
  <2>3. CASE y \in 1 .. n
    <3>1. Behind(q[x], q[y])
      BY <2>1, <2>3 DEF NetOrdered, n
    <3>q. QED
      BY <1>1, <2>1, <2>3, <3>1
  <2>q. QED
    BY <1>1, <2>2, <2>3
<1>4. ASSUME NEW i
      PROVE  NetNumbers(b, i) = NetNumbers(q, i) \cup NetNumbers(f, i)
  <2>1. ASSUME NEW k \in Nat
        PROVE  (\E x \in 1 .. n + 1 : IsPart(b[x], i, k)) <=>
                 (\E x \in 1 .. n : IsPart(q[x], i, k)) \/ \E x \in 1 .. 1 : IsPart(f[x], i, k)
    BY <1>1, <1>2
  <2>q. QED
    BY <1>1, <1>2, <2>1 DEF NetNumbers, n
<1>q. QED
  BY <1>1, <1>3, <1>4 DEF b, f

--------------------------------------------------------------------------------
(* All the queues, when one of them is cut or extended.                         *)

\* The part that a job, or a packet, is about.
JobPart(j, type, i) == {k \in Nat : j.type = type /\ IsPart(j.packet, i, k)}
NetPart(p, i) == {k \in Nat : IsPart(p, i, k)}

LEMMA OneNumber ==
  ASSUME NEW j, NEW i
  PROVE  NetNumbers(<<j>>, i) = NetPart(j, i)
         /\ \A type : JobNumbers(<<j>>, type, i) = JobPart(j, type, i)
<1>1. Len(<<j>>) = 1 /\ <<j>>[1] = j /\ 1 .. 1 = {1}
  OBVIOUS
<1>2. NetNumbers(<<j>>, i) = NetPart(j, i)
  BY <1>1 DEF NetNumbers, NetPart
<1>3. \A type : JobNumbers(<<j>>, type, i) = JobPart(j, type, i)
  BY <1>1 DEF JobNumbers, JobPart
<1>q. QED
  BY <1>2, <1>3

\* The jobs jbs when the job at the head of the queue of host h, j, is taken.
JobsCut(ups, jbs, h, j, new) ==
  /\ new \in [Host -> Seq(CleanJob)] /\ JobsInOrder(ups, new)
  /\ j \in CleanJob /\ GenuineJob(ups, h, j)
  /\ \A i : \A type \in {"send", "receive"} :
       /\ \A g \in Host :
            JobNumbers(new[g], type, i) =
              JobNumbers(jbs[g], type, i) \ (IF g = h THEN JobPart(j, type, i) ELSE {})
       /\ JobPart(j, type, i) \subseteq JobNumbers(jbs[h], type, i)
       /\ \A k \in JobPart(j, type, i) : \A m \in JobNumbers(jbs[h], type, i) : k <= m

LEMMA JobTaken ==
  ASSUME NEW ups, NEW jbs \in [Host -> Seq(CleanJob)], JobsInOrder(ups, jbs),
         NEW h \in Host, jbs[h] # <<>>,
         NEW new, new = [jbs EXCEPT ![h] = Tail(jbs[h])],
         NEW j, j = Head(jbs[h])
  PROVE  JobsCut(ups, jbs, h, j, new)
<1> DEFINE q == jbs[h]
<1>1. q \in Seq(CleanJob) /\ q # <<>> /\ JobOrdered(q)
      /\ \A x \in 1 .. Len(q) : GenuineJob(ups, h, q[x])
  BY DEF JobsInOrder
<1>2. /\ \A g \in Host : new[g] = IF g = h THEN Tail(q) ELSE jbs[g]
      /\ DOMAIN new = Host
  OBVIOUS
<1> HIDE DEF q
<1>3. /\ Tail(q) \in Seq(CleanJob) /\ Len(Tail(q)) = Len(q) - 1 /\ Len(q) \in Nat /\ Len(q) >= 1
      /\ j = q[1]
      /\ \A x \in 1 .. Len(q) - 1 : x + 1 \in 1 .. Len(q) /\ Tail(q)[x] = q[x + 1]
  <2>1. Head(q) = j
    BY DEF q
  <2>q. QED
    BY <1>1, <2>1, TailElements
<1>4. /\ JobOrdered(Tail(q))
      /\ \A type, i :
           JobNumbers(q, type, i) = JobNumbers(Tail(q), type, i) \cup JobPart(j, type, i)
      /\ \A type, i : type # "upload" =>
           \A k \in JobPart(j, type, i) : \A m \in JobNumbers(Tail(q), type, i) : k < m
  <2>1. \A type, i : JobNumbers(<<Head(q)>>, type, i) = JobPart(j, type, i)
    <3>1. Head(q) = j
      BY DEF q
    <3>q. QED
      BY <3>1, OneNumber
  <2>2. /\ JobOrdered(Tail(q))
        /\ \A type, i :
             JobNumbers(q, type, i) =
               JobNumbers(Tail(q), type, i) \cup JobNumbers(<<Head(q)>>, type, i)
        /\ \A type, i : type # "upload" =>
             \A k \in JobNumbers(<<Head(q)>>, type, i) :
               \A m \in JobNumbers(Tail(q), type, i) : k < m
    BY <1>1, JobsTail
  <2>q. QED
    BY <2>1, <2>2
<1>5. new \in [Host -> Seq(CleanJob)]
  BY <1>3
<1>6. JobsInOrder(ups, new)
  <2>1. \A x \in 1 .. Len(Tail(q)) : GenuineJob(ups, h, Tail(q)[x])
    BY <1>1, <1>3
  <2>q. QED
    BY <1>2, <1>4, <2>1 DEF JobsInOrder
<1>7. j \in CleanJob /\ GenuineJob(ups, h, j)
  <2>1. 1 \in 1 .. Len(q)
    BY <1>3
  <2>q. QED
    BY <1>1, <1>3, <2>1
<1>8. ASSUME NEW i, NEW type \in {"send", "receive"}
      PROVE  /\ \A g \in Host :
                  JobNumbers(new[g], type, i) =
                    JobNumbers(jbs[g], type, i) \ (IF g = h THEN JobPart(j, type, i) ELSE {})
             /\ JobPart(j, type, i) \subseteq JobNumbers(q, type, i)
             /\ \A k \in JobPart(j, type, i) : \A m \in JobNumbers(q, type, i) : k <= m
  <2> DEFINE P == JobPart(j, type, i)
             T == JobNumbers(Tail(q), type, i)
             Q == JobNumbers(q, type, i)
  <2>1. Q = T \cup P /\ \A k \in P : \A m \in T : k < m
    BY <1>4
  <2>2. P \subseteq Nat /\ T \subseteq Nat
    BY DEF JobPart, JobNumbers
  <2>3. \A k, m \in P : k = m
    BY DEF JobPart, IsPart
  <2> HIDE DEF P, T, Q
  <2>d. \A m \in T : m \notin P
    BY <2>1, <2>2
  <2>4. T = Q \ P
    BY <2>1, <2>d
  <2>5. \A k \in P : \A m \in Q : k <= m
    BY <2>1, <2>2, <2>3
  <2>6. \A g \in Host : JobNumbers(new[g], type, i) =
                          JobNumbers(jbs[g], type, i) \ (IF g = h THEN P ELSE {})
    <3>1. ASSUME NEW g \in Host, g # h
          PROVE  JobNumbers(new[g], type, i) = JobNumbers(jbs[g], type, i) \ {}
      BY <1>2, <3>1
    <3>2. JobNumbers(new[h], type, i) = JobNumbers(jbs[h], type, i) \ P
      BY <1>2, <2>4 DEF T, Q, q
    <3>q. QED
      BY <3>1, <3>2
  <2>q. QED
    BY <2>1, <2>5, <2>6 DEF P, Q
<1>q. QED
  BY <1>5, <1>6, <1>7, <1>8 DEF q, JobsCut

\* Job j would come behind the jobs of q.
Follows(q, j) ==
  j.type \in {"send", "receive"} /\ j.packet.type # "REQUEST" =>
    \A k \in JobNumbers(q, j.type, j.packet.upload) : k < j.packet.part

LEMMA FollowsAll ==
  ASSUME NEW q \in Seq(CleanJob), NEW j \in CleanJob, Follows(q, j), NEW x \in 1 .. Len(q)
  PROVE  BehindJob(q[x], j)
<1> SUFFICES ASSUME q[x].type = j.type, j.type # "upload",
                    q[x].packet.type # "REQUEST", j.packet.type # "REQUEST",
                    q[x].packet.upload = j.packet.upload
             PROVE  q[x].packet.part < j.packet.part
  BY DEF BehindJob, Behind
<1>1. q[x] \in CleanJob
  OBVIOUS
<1>2. j.type \in {"send", "receive"}
  BY DEF CleanJob
<1>3. q[x].packet.part \in Nat
  <2>1. q[x].packet \in CleanPacket
    BY <1>1, <1>2 DEF CleanJob
  <2>q. QED
    BY <2>1 DEF CleanPacket, CleanFilePacket, RequestPacket
<1>4. q[x].packet.part \in JobNumbers(q, j.type, j.packet.upload)
  BY <1>3 DEF JobNumbers, IsPart
<1>q. QED
  BY <1>2, <1>4 DEF Follows

\* The jobs jbs when the jobs r are put behind those of host h.
JobsMore(ups, jbs, h, r, new) ==
  /\ new \in [Host -> Seq(CleanJob)] /\ JobsInOrder(ups, new)
  /\ \A g \in Host : \A type, i :
       JobNumbers(new[g], type, i) =
         JobNumbers(jbs[g], type, i) \cup (IF g = h THEN JobNumbers(r, type, i) ELSE {})

LEMMA JobsAdded ==
  ASSUME NEW ups, NEW jbs \in [Host -> Seq(CleanJob)], JobsInOrder(ups, jbs),
         NEW h \in Host, NEW r \in Seq(CleanJob), JobOrdered(r),
         \A x \in 1 .. Len(r) : GenuineJob(ups, h, r[x]) /\ Follows(jbs[h], r[x]),
         NEW new, new = [jbs EXCEPT ![h] = jbs[h] \o r]
  PROVE  JobsMore(ups, jbs, h, r, new)
<1> DEFINE q == jbs[h]
           b == q \o r
<1>1. q \in Seq(CleanJob) /\ JobOrdered(q)
      /\ \A x \in 1 .. Len(q) : GenuineJob(ups, h, q[x])
  BY DEF JobsInOrder
<1>2. \A g \in Host : new[g] = IF g = h THEN b ELSE jbs[g]
  OBVIOUS
<1>3. \A x \in 1 .. Len(r) : r[x] \in CleanJob /\ Follows(q, r[x])
  OBVIOUS
<1> HIDE DEF q
<1>4. \A x \in 1 .. Len(q) : \A y \in 1 .. Len(r) : BehindJob(q[x], r[y])
  BY <1>1, <1>3, FollowsAll
<1>5. /\ JobOrdered(b)
      /\ \A type, i : JobNumbers(b, type, i) = JobNumbers(q, type, i) \cup JobNumbers(r, type, i)
  BY <1>1, <1>4, JobsBoth
<1>6. b \in Seq(CleanJob) /\ \A x \in 1 .. Len(b) : GenuineJob(ups, h, b[x])
  <2>1. /\ b \in Seq(CleanJob) /\ Len(b) = Len(q) + Len(r)
        /\ \A z \in 1 .. Len(q) + Len(r) :
              \/ z \in 1 .. Len(q) /\ b[z] = q[z]
              \/ z - Len(q) \in 1 .. Len(r) /\ b[z] = r[z - Len(q)]
    BY <1>1, BothElements
  <2> HIDE DEF b
  <2>q. QED
    BY <1>1, <2>1
<1> HIDE DEF b
<1>7. new \in [Host -> Seq(CleanJob)]
  <2>1. new = [jbs EXCEPT ![h] = b]
    BY DEF b, q
  <2>q. QED
    BY <1>6, <2>1
<1>8. JobsInOrder(ups, new)
  BY <1>2, <1>5, <1>6 DEF JobsInOrder
<1>9. ASSUME NEW g \in Host, NEW type, NEW i
      PROVE  JobNumbers(new[g], type, i) =
               JobNumbers(jbs[g], type, i) \cup (IF g = h THEN JobNumbers(r, type, i) ELSE {})
  <2>1. CASE g = h
    BY <1>2, <1>5, <2>1 DEF q
  <2>2. CASE g # h
    BY <1>2, <2>2
  <2>q. QED
    BY <2>1, <2>2
<1>q. QED
  BY <1>7, <1>8, <1>9 DEF JobsMore

\* The packets nt when the next one from one host to another, p, is taken.
NetCut(ups, nt, from, to, p, new) ==
  /\ new \in [Host \X Host -> Seq(CleanPacket)] /\ NetInOrder(ups, new)
  /\ p \in CleanPacket /\ Genuine(ups, p) /\ p.src = from /\ p.dst = to
  /\ \A i :
       /\ \A c \in Host \X Host :
            NetNumbers(new[c], i) =
              NetNumbers(nt[c], i) \ (IF c = <<from, to>> THEN NetPart(p, i) ELSE {})
       /\ NetPart(p, i) \subseteq NetNumbers(nt[<<from, to>>], i)
       /\ \A k \in NetPart(p, i) : \A m \in NetNumbers(nt[<<from, to>>], i) : k <= m

LEMMA NetTaken ==
  ASSUME NEW ups, NEW nt \in [Host \X Host -> Seq(CleanPacket)], NetInOrder(ups, nt),
         NEW from \in Host, NEW to \in Host, nt[<<from, to>>] # <<>>,
         NEW new, new = [nt EXCEPT ![<<from, to>>] = Tail(nt[<<from, to>>])],
         NEW p, p = Head(nt[<<from, to>>])
  PROVE  NetCut(ups, nt, from, to, p, new)
<1> DEFINE c == <<from, to>>
           q == nt[c]
<1>1. q \in Seq(CleanPacket) /\ q # <<>> /\ NetOrdered(q)
      /\ \A x \in 1 .. Len(q) : Genuine(ups, q[x]) /\ q[x].src = from /\ q[x].dst = to
  BY DEF NetInOrder, ChannelInOrder
<1>2. \A d \in Host \X Host : new[d] = IF d = c THEN Tail(q) ELSE nt[d]
  OBVIOUS
<1>c. c \in Host \X Host
  OBVIOUS
<1> HIDE DEF q
<1>3. /\ Tail(q) \in Seq(CleanPacket) /\ Len(Tail(q)) = Len(q) - 1 /\ Len(q) \in Nat /\ Len(q) >= 1
      /\ p = q[1] /\ p = Head(q)
      /\ \A x \in 1 .. Len(q) - 1 : x + 1 \in 1 .. Len(q) /\ Tail(q)[x] = q[x + 1]
  <2>1. Head(q) = p
    BY DEF q
  <2>q. QED
    BY <1>1, <2>1, TailElements
<1>4. /\ NetOrdered(Tail(q))
      /\ \A i : NetNumbers(q, i) = NetNumbers(Tail(q), i) \cup NetPart(p, i)
      /\ \A i : \A k \in NetPart(p, i) : \A m \in NetNumbers(Tail(q), i) : k < m
  <2>1. \A i : NetNumbers(<<Head(q)>>, i) = NetPart(p, i)
    BY <1>3, OneNumber
  <2>2. /\ NetOrdered(Tail(q))
        /\ \A i : NetNumbers(q, i) = NetNumbers(Tail(q), i) \cup NetNumbers(<<Head(q)>>, i)
        /\ \A i : \A k \in NetNumbers(<<Head(q)>>, i) : \A m \in NetNumbers(Tail(q), i) : k < m
    BY <1>1, NetTail
  <2>q. QED
    BY <2>1, <2>2
<1>5. new \in [Host \X Host -> Seq(CleanPacket)]
  <2>1. new = [nt EXCEPT ![c] = Tail(q)]
    BY DEF q
  <2>q. QED
    BY <1>3, <2>1
<1>6. NetInOrder(ups, new)
  <2>1. \A x \in 1 .. Len(Tail(q)) :
          Genuine(ups, Tail(q)[x]) /\ Tail(q)[x].src = from /\ Tail(q)[x].dst = to
    BY <1>1, <1>3
  <2>2. ASSUME NEW a \in Host, NEW b \in Host
        PROVE  ChannelInOrder(ups, a, b, new[<<a, b>>])
    <3>0. <<a, b>> \in Host \X Host
      OBVIOUS
    <3>1. CASE <<a, b>> = c
      <4>1. a = from /\ b = to
        BY <3>1
      <4>q. QED
        BY <1>2, <1>4, <2>1, <3>0, <3>1, <4>1 DEF ChannelInOrder
    <3>2. CASE <<a, b>> # c
      BY <1>2, <3>0, <3>2 DEF NetInOrder
    <3>q. QED
      BY <3>1, <3>2
  <2>q. QED
    BY <2>2 DEF NetInOrder
<1>7. p \in CleanPacket /\ Genuine(ups, p) /\ p.src = from /\ p.dst = to
  <2>1. 1 \in 1 .. Len(q)
    BY <1>3
  <2>q. QED
    BY <1>1, <1>3, <2>1
<1>8. ASSUME NEW i
      PROVE  /\ \A d \in Host \X Host :
                  NetNumbers(new[d], i) =
                    NetNumbers(nt[d], i) \ (IF d = c THEN NetPart(p, i) ELSE {})
             /\ NetPart(p, i) \subseteq NetNumbers(q, i)
             /\ \A k \in NetPart(p, i) : \A m \in NetNumbers(q, i) : k <= m
  <2> DEFINE P == NetPart(p, i)
             T == NetNumbers(Tail(q), i)
             Q == NetNumbers(q, i)
  <2>1. Q = T \cup P /\ \A k \in P : \A m \in T : k < m
    BY <1>4
  <2>2. P \subseteq Nat /\ T \subseteq Nat
    BY DEF NetPart, NetNumbers
  <2>3. \A k, m \in P : k = m
    BY DEF NetPart, IsPart
  <2>t. Tail(q) = new[c]
    BY <1>2, <1>c
  <2> HIDE DEF P, T, Q, c
  <2>d. \A m \in T : m \notin P
    BY <2>1, <2>2
  <2>4. T = Q \ P
    BY <2>1, <2>d
  <2>5. \A k \in P : \A m \in Q : k <= m
    BY <2>1, <2>2, <2>3
  <2>6. \A d \in Host \X Host :
          NetNumbers(new[d], i) = NetNumbers(nt[d], i) \ (IF d = c THEN P ELSE {})
    <3>1. ASSUME NEW d \in Host \X Host, d # c
          PROVE  NetNumbers(new[d], i) = NetNumbers(nt[d], i) \ {}
      BY <1>2, <3>1
    <3>2. NetNumbers(new[c], i) = NetNumbers(nt[c], i) \ P
      BY <2>t, <2>4 DEF T, Q, q
    <3>q. QED
      BY <3>1, <3>2
  <2>q. QED
    BY <2>1, <2>5, <2>6 DEF P, Q
<1>q. QED
  BY <1>5, <1>6, <1>7, <1>8 DEF q, NetCut

\* The packets nt when p is put behind those from its source to its destination.
NetMore(ups, nt, p, new) ==
  /\ new \in [Host \X Host -> Seq(CleanPacket)] /\ NetInOrder(ups, new)
  /\ \A i : \A c \in Host \X Host :
       NetNumbers(new[c], i) =
         NetNumbers(nt[c], i) \cup (IF c = <<p.src, p.dst>> THEN NetPart(p, i) ELSE {})

\* Packet p would come behind the packets of q.
NetFollows(q, p) ==
  p.type # "REQUEST" => \A k \in NetNumbers(q, p.upload) : k < p.part

LEMMA NetAdded ==
  ASSUME NEW ups, NEW nt \in [Host \X Host -> Seq(CleanPacket)], NetInOrder(ups, nt),
         NEW p \in CleanPacket, Genuine(ups, p), p.src \in Host, p.dst \in Host,
         NetFollows(nt[<<p.src, p.dst>>], p),
         NEW new, new = [nt EXCEPT ![<<p.src, p.dst>>] = Append(nt[<<p.src, p.dst>>], p)]
  PROVE  NetMore(ups, nt, p, new)
<1> DEFINE c == <<p.src, p.dst>>
           q == nt[c]
           r == Append(q, p)
<1>1. q \in Seq(CleanPacket) /\ NetOrdered(q)
      /\ \A x \in 1 .. Len(q) : Genuine(ups, q[x]) /\ q[x].src = p.src /\ q[x].dst = p.dst
  BY DEF NetInOrder, ChannelInOrder
<1>2. \A d \in Host \X Host : new[d] = IF d = c THEN r ELSE nt[d]
  OBVIOUS
<1>3. p.type # "REQUEST" => \A k \in NetNumbers(q, p.upload) : k < p.part
  BY DEF NetFollows
<1>c. c \in Host \X Host /\ new = [nt EXCEPT ![c] = r]
  OBVIOUS
<1> HIDE DEF q, c
<1>4. \A x \in 1 .. Len(q) : Behind(q[x], p)
  <2> SUFFICES ASSUME NEW x \in 1 .. Len(q), q[x].type # "REQUEST", p.type # "REQUEST",
                      q[x].upload = p.upload
               PROVE  q[x].part < p.part
    BY DEF Behind
  <2>1. q[x] \in CleanPacket
    BY <1>1
  <2>2. q[x].part \in Nat
    BY <2>1 DEF CleanPacket, CleanFilePacket, RequestPacket
  <2>3. q[x].part \in NetNumbers(q, p.upload)
    BY <2>2 DEF NetNumbers, IsPart
  <2>q. QED
    BY <1>3, <2>3
<1>5. /\ r \in Seq(CleanPacket) /\ NetOrdered(r)
      /\ \A i : NetNumbers(r, i) = NetNumbers(q, i) \cup NetPart(p, i)
  <2>1. \A i : NetNumbers(<<p>>, i) = NetPart(p, i)
    BY OneNumber
  <2>2. /\ r \in Seq(CleanPacket) /\ NetOrdered(r)
        /\ \A i : NetNumbers(r, i) = NetNumbers(q, i) \cup NetNumbers(<<p>>, i)
    BY <1>1, <1>4, NetBoth
  <2> HIDE DEF r
  <2>q. QED
    BY <2>1, <2>2
<1>6. \A x \in 1 .. Len(r) : Genuine(ups, r[x]) /\ r[x].src = p.src /\ r[x].dst = p.dst
  <2>1. \A x \in 1 .. Len(r) : r[x] = p \/ (x \in 1 .. Len(q) /\ r[x] = q[x])
    BY <1>1
  <2> HIDE DEF r
  <2>q. QED
    BY <1>1, <2>1
<1> HIDE DEF r
<1>7. new \in [Host \X Host -> Seq(CleanPacket)]
  BY <1>c, <1>5
<1>8. NetInOrder(ups, new)
  <2>1. ASSUME NEW a \in Host, NEW b \in Host
        PROVE  ChannelInOrder(ups, a, b, new[<<a, b>>])
    <3>0. <<a, b>> \in Host \X Host
      OBVIOUS
    <3>1. CASE <<a, b>> = c
      <4>1. a = p.src /\ b = p.dst
        BY <3>1 DEF c
      <4>2. new[<<a, b>>] = r
        BY <1>2, <3>0, <3>1
      <4>3. ChannelInOrder(ups, a, b, r)
        BY <1>5, <1>6, <4>1 DEF ChannelInOrder
      <4>q. QED
        BY <4>2, <4>3
    <3>2. CASE <<a, b>> # c
      BY <1>2, <3>0, <3>2 DEF NetInOrder
    <3>q. QED
      BY <3>1, <3>2
  <2>q. QED
    BY <2>1 DEF NetInOrder
<1>9. ASSUME NEW i, NEW d \in Host \X Host
      PROVE  NetNumbers(new[d], i) =
               NetNumbers(nt[d], i) \cup (IF d = c THEN NetPart(p, i) ELSE {})
  <2>1. CASE d = c
    BY <1>2, <1>5, <2>1 DEF q
  <2>2. CASE d # c
    BY <1>2, <2>2
  <2>q. QED
    BY <2>1, <2>2
<1>q. QED
  BY <1>7, <1>8, <1>9 DEF c, NetMore

\* The uploads more begin with the uploads ups.
Extends(more, ups) ==
  /\ Len(ups) \in Nat /\ Len(more) \in Nat /\ Len(ups) <= Len(more)
  /\ \A i \in 1 .. Len(ups) : i \in 1 .. Len(more) /\ more[i] = ups[i]

LEMMA GenuineStays ==
  ASSUME NEW ups, NEW more, Extends(more, ups)
  PROVE  /\ \A p : Genuine(ups, p) => Genuine(more, p)
         /\ \A jbs : JobsInOrder(ups, jbs) => JobsInOrder(more, jbs)
         /\ \A nt : NetInOrder(ups, nt) => NetInOrder(more, nt)
<1>1. ASSUME NEW p, Genuine(ups, p) PROVE Genuine(more, p)
  <2> SUFFICES ASSUME p.type # "REQUEST" PROVE Genuine(more, p)
    BY DEF Genuine
  <2>1. p.upload \in 1 .. Len(ups)
    BY <1>1 DEF Genuine
  <2>2. p.upload \in 1 .. Len(more) /\ more[p.upload] = ups[p.upload]
    BY <2>1 DEF Extends
  <2>q. QED
    BY <1>1, <2>2 DEF Genuine
<1>2. \A jbs : JobsInOrder(ups, jbs) => JobsInOrder(more, jbs)
  BY <1>1 DEF JobsInOrder, GenuineJob
<1>3. \A nt : NetInOrder(ups, nt) => NetInOrder(more, nt)
  <2> SUFFICES ASSUME NEW nt, NetInOrder(ups, nt), NEW from \in Host, NEW to \in Host
               PROVE  ChannelInOrder(more, from, to, nt[<<from, to>>])
    BY DEF NetInOrder
  <2>1. PICK q : q = nt[<<from, to>>]
    OBVIOUS
  <2>2. ChannelInOrder(ups, from, to, q)
    BY <2>1 DEF NetInOrder
  <2>3. ChannelInOrder(more, from, to, q)
    BY <1>1, <2>2 DEF ChannelInOrder
  <2>q. QED
    BY <2>1, <2>3
<1>q. QED
  BY <1>1, <1>2, <1>3

--------------------------------------------------------------------------------
(* What each kind of step does to the lines.                                    *)

LEMMA UploadFacts ==
  ASSUME NEW ups \in Seq(CleanUpload)
  PROVE  /\ Len(ups) \in Nat
         /\ \A i \in 1 .. Len(ups) :
              /\ ups[i] \in CleanUpload /\ ups[i].src \in Host /\ ups[i].dst \in Host
              /\ ups[i].content \in Seq(Byte) /\ ups[i].parts \in Seq(Seq(Byte))
              /\ Len(ups[i].parts) \in Nat
              /\ \A k \in 1 .. Len(ups[i].parts) : ups[i].parts[k] \in Seq(Byte)
<1> SUFFICES ASSUME NEW i \in 1 .. Len(ups)
             PROVE  /\ ups[i] \in CleanUpload /\ ups[i].src \in Host /\ ups[i].dst \in Host
                    /\ ups[i].content \in Seq(Byte) /\ ups[i].parts \in Seq(Seq(Byte))
                    /\ Len(ups[i].parts) \in Nat
                    /\ \A k \in 1 .. Len(ups[i].parts) : ups[i].parts[k] \in Seq(Byte)
  OBVIOUS
<1>1. ups[i] \in CleanUpload
  OBVIOUS
<1>2. /\ ups[i].src \in Host /\ ups[i].dst \in Host
      /\ ups[i].content \in Seq(Clean) /\ ups[i].parts \in Seq(Seq(Clean))
  BY <1>1 DEF CleanUpload
<1>3. \A w \in Seq(Clean) : w \in Seq(Byte)
  BY CleanBytes
<1>4. ups[i].parts \in Seq(Seq(Byte)) /\ ups[i].content \in Seq(Byte)
  <2>1. \A w \in Seq(Seq(Clean)) : w \in Seq(Seq(Byte))
    BY <1>3
  <2>q. QED
    BY <1>2, <1>3, <2>1
<1>5. Len(ups[i].parts) \in Nat /\ \A k \in 1 .. Len(ups[i].parts) : ups[i].parts[k] \in Seq(Byte)
  BY <1>4
<1>q. QED
  BY <1>1, <1>2, <1>4, <1>5

\* The parts of each upload are in line.
LEMMA FlowLine ==
  ASSUME NEW ups, NEW jbs, NEW nt, NEW ls, Flow(ups, jbs, nt, ls), NEW i \in 1 .. Len(ups)
  PROVE  InLine(Len(ups[i].parts), ToSend(ups, jbs, i), OnNet(ups, nt, i),
                Arrived(ups, jbs, i), LostOf(ls, i))
         /\ Len(ups[i].parts) \in Nat /\ ups[i].src \in Host /\ ups[i].dst \in Host
BY UploadFacts DEF Flow, LinesInOrder

\* No part joins or leaves a queue.
JobsStill(ups, jbs, new) ==
  /\ new \in [Host -> Seq(CleanJob)] /\ JobsInOrder(ups, new)
  /\ \A g \in Host : \A i \in Nat : \A type \in {"send", "receive"} :
       JobNumbers(new[g], type, i) = JobNumbers(jbs[g], type, i)
NetStill(ups, nt, mov) ==
  /\ mov \in [Host \X Host -> Seq(CleanPacket)] /\ NetInOrder(ups, mov)
  /\ \A c \in Host \X Host : \A i \in Nat : NetNumbers(mov[c], i) = NetNumbers(nt[c], i)

SameLines(ups, jbs, nt, new, mov) ==
  \A i \in 1 .. Len(ups) : Line(ups, new, mov, i) = Line(ups, jbs, nt, i)

LEMMA FlowStill ==
  ASSUME NEW ups, NEW jbs, NEW nt, NEW ls, Flow(ups, jbs, nt, ls),
         NEW new, JobsStill(ups, jbs, new), NEW mov, NetStill(ups, nt, mov)
  PROVE  Flow(ups, new, mov, ls) /\ SameLines(ups, jbs, nt, new, mov)
<1>1. ASSUME NEW i \in 1 .. Len(ups)
      PROVE  /\ ToSend(ups, new, i) = ToSend(ups, jbs, i)
             /\ OnNet(ups, mov, i) = OnNet(ups, nt, i)
             /\ Arrived(ups, new, i) = Arrived(ups, jbs, i)
  <2>1. ups[i].src \in Host /\ ups[i].dst \in Host /\ i \in Nat
    BY FlowLine
  <2>2. PICK c \in Host \X Host : c = <<ups[i].src, ups[i].dst>>
    BY <2>1
  <2>q. QED
    BY <2>1, <2>2 DEF ToSend, OnNet, Arrived, JobsStill, NetStill
<1>2. LinesInOrder(ups, new, mov, ls)
  BY <1>1 DEF Flow, LinesInOrder
<1>q. QED
  BY <1>1, <1>2 DEF Flow, Line, SameLines, JobsStill, NetStill

\* The packet of a job.
LEMMA PacketFacts ==
  ASSUME NEW j \in CleanJob, j.type \in {"send", "receive"}
  PROVE  /\ j.packet \in CleanPacket /\ j.packet.src \in Host /\ j.packet.dst \in Host
         /\ j.packet.type # "REQUEST" =>
              /\ j.packet.part \in Nat /\ j.packet.upload \in Nat /\ j.packet \in CleanFilePacket
         /\ \A i : \A type \in {"send", "receive"} :
              JobPart(j, type, i) =
                IF type = j.type /\ j.packet.type # "REQUEST" /\ i = j.packet.upload
                  THEN {j.packet.part} ELSE {}
         /\ \A i : NetPart(j.packet, i) = JobPart(j, j.type, i)
<1>1. j.packet \in CleanPacket
  BY DEF CleanJob
<1>2. /\ j.packet.src \in Host /\ j.packet.dst \in Host
      /\ j.packet.type # "REQUEST" =>
           j.packet.part \in Nat /\ j.packet.upload \in Nat /\ j.packet \in CleanFilePacket
  BY <1>1 DEF CleanPacket, CleanFilePacket, RequestPacket
<1>3. ASSUME NEW i, NEW type \in {"send", "receive"}
      PROVE  JobPart(j, type, i) =
               IF type = j.type /\ j.packet.type # "REQUEST" /\ i = j.packet.upload
                 THEN {j.packet.part} ELSE {}
  <2>1. CASE type = j.type /\ j.packet.type # "REQUEST" /\ i = j.packet.upload
    <3>1. JobPart(j, type, i) = {j.packet.part}
      BY <1>2, <2>1 DEF JobPart, IsPart
    <3>q. QED
      BY <2>1, <3>1
  <2>2. CASE ~(type = j.type /\ j.packet.type # "REQUEST" /\ i = j.packet.upload)
    <3>1. JobPart(j, type, i) = {}
      BY <2>2 DEF JobPart, IsPart
    <3>q. QED
      BY <2>2, <3>1
  <2>q. QED
    BY <2>1, <2>2
<1>4. \A i : NetPart(j.packet, i) = JobPart(j, j.type, i)
  BY DEF NetPart, JobPart
<1>q. QED
  BY <1>1, <1>2, <1>3, <1>4

LEMMA FlowSend ==
  ASSUME NEW ups, NEW jbs, NEW nt, NEW ls, Flow(ups, jbs, nt, ls),
         NEW h \in Host, jbs[h] # <<>>, NEW j, j = Head(jbs[h]), j.type = "send",
         NEW new, new = [jbs EXCEPT ![h] = Tail(jbs[h])],
         NEW mov, mov = [nt EXCEPT ![<<h, j.packet.dst>>] =
                           Append(nt[<<h, j.packet.dst>>], j.packet)]
  PROVE  Flow(ups, new, mov, ls) /\ SameLines(ups, jbs, nt, new, mov)
<1> DEFINE p == j.packet
           P(i) == JobPart(j, "send", i)
<1>1. j \in CleanJob
  <2>1. jbs[h] \in Seq(CleanJob)
    BY DEF Flow
  <2>q. QED
    BY <2>1, ListFacts
<1>2. /\ p \in CleanPacket /\ p.src \in Host /\ p.dst \in Host
      /\ p.type # "REQUEST" => p.part \in Nat /\ p.upload \in Nat
      /\ \A i : P(i) = IF p.type # "REQUEST" /\ i = p.upload THEN {p.part} ELSE {}
      /\ \A i : JobPart(j, "receive", i) = {} /\ NetPart(p, i) = P(i)
  BY <1>1, PacketFacts
<1>3. /\ new \in [Host -> Seq(CleanJob)] /\ JobsInOrder(ups, new) /\ GenuineJob(ups, h, j)
      /\ \A i : \A type \in {"send", "receive"} :
           /\ \A g \in Host :
                JobNumbers(new[g], type, i) =
                  JobNumbers(jbs[g], type, i) \ (IF g = h THEN JobPart(j, type, i) ELSE {})
           /\ JobPart(j, type, i) \subseteq JobNumbers(jbs[h], type, i)
           /\ \A k \in JobPart(j, type, i) : \A m \in JobNumbers(jbs[h], type, i) : k <= m
  <2>1. JobsCut(ups, jbs, h, j, new)
    BY JobTaken DEF Flow
  <2>q. QED
    BY <2>1 DEF JobsCut
<1>4. /\ Genuine(ups, p) /\ p.src = h
      /\ \A i : \A g \in Host :
           /\ JobNumbers(new[g], "send", i) =
                JobNumbers(jbs[g], "send", i) \ (IF g = h THEN P(i) ELSE {})
           /\ JobNumbers(new[g], "receive", i) = JobNumbers(jbs[g], "receive", i)
      /\ \A i : P(i) \subseteq JobNumbers(jbs[h], "send", i)
      /\ \A i : \A k \in P(i) : \A m \in JobNumbers(jbs[h], "send", i) : k <= m
  <2>1. Genuine(ups, p) /\ p.src = h
    BY <1>3 DEF GenuineJob
  <2>2. ASSUME NEW i, NEW g \in Host
        PROVE  /\ JobNumbers(new[g], "send", i) =
                    JobNumbers(jbs[g], "send", i) \ (IF g = h THEN P(i) ELSE {})
               /\ JobNumbers(new[g], "receive", i) = JobNumbers(jbs[g], "receive", i)
    <3>1. /\ JobNumbers(new[g], "send", i) =
               JobNumbers(jbs[g], "send", i) \ (IF g = h THEN JobPart(j, "send", i) ELSE {})
          /\ JobNumbers(new[g], "receive", i) =
               JobNumbers(jbs[g], "receive", i) \ (IF g = h THEN JobPart(j, "receive", i) ELSE {})
      BY <1>3
    <3>2. JobPart(j, "receive", i) = {}
      BY <1>2
    <3>q. QED
      BY <3>1, <3>2
  <2>3. ASSUME NEW i
        PROVE  /\ P(i) \subseteq JobNumbers(jbs[h], "send", i)
               /\ \A k \in P(i) : \A m \in JobNumbers(jbs[h], "send", i) : k <= m
    BY <1>3
  <2>q. QED
    BY <2>1, <2>2, <2>3
<1>d. mov = [nt EXCEPT ![<<p.src, p.dst>>] = Append(nt[<<p.src, p.dst>>], p)]
  BY <1>4
<1> HIDE DEF p, P
<1>5. p.type # "REQUEST" =>
        /\ p.upload \in 1 .. Len(ups)
        /\ ups[p.upload].src = h /\ ups[p.upload].dst = p.dst
        /\ p.part \in ToSend(ups, jbs, p.upload)
        /\ \A k \in NetNumbers(nt[<<p.src, p.dst>>], p.upload) : k < p.part
  <2> SUFFICES ASSUME p.type # "REQUEST"
               PROVE  /\ p.upload \in 1 .. Len(ups)
                      /\ ups[p.upload].src = h /\ ups[p.upload].dst = p.dst
                      /\ p.part \in ToSend(ups, jbs, p.upload)
                      /\ \A k \in NetNumbers(nt[<<p.src, p.dst>>], p.upload) : k < p.part
    OBVIOUS
  <2>1. p.upload \in 1 .. Len(ups) /\ ups[p.upload].src = h /\ ups[p.upload].dst = p.dst
    BY <1>4 DEF Genuine
  <2>2. p.part \in P(p.upload)
    BY <1>2
  <2>3. p.part \in ToSend(ups, jbs, p.upload)
    BY <1>4, <2>1, <2>2 DEF ToSend
  <2>4. \A k \in OnNet(ups, nt, p.upload) : \A m \in ToSend(ups, jbs, p.upload) : k < m
    BY <2>1, FlowLine DEF InLine
  <2>5. OnNet(ups, nt, p.upload) = NetNumbers(nt[<<p.src, p.dst>>], p.upload)
    BY <1>4, <2>1 DEF OnNet
  <2>q. QED
    BY <2>1, <2>3, <2>4, <2>5
<1>6. /\ mov \in [Host \X Host -> Seq(CleanPacket)] /\ NetInOrder(ups, mov)
      /\ \A i : \A c \in Host \X Host :
           NetNumbers(mov[c], i) =
             NetNumbers(nt[c], i) \cup (IF c = <<p.src, p.dst>> THEN NetPart(p, i) ELSE {})
  <2>1. nt \in [Host \X Host -> Seq(CleanPacket)] /\ NetInOrder(ups, nt)
    BY DEF Flow
  <2>2. NetFollows(nt[<<p.src, p.dst>>], p)
    BY <1>5 DEF NetFollows
  <2>3. NetMore(ups, nt, p, mov)
    BY <1>2, <1>4, <1>d, <2>1, <2>2, NetAdded
  <2>q. QED
    BY <2>3 DEF NetMore
<1>7. ASSUME NEW i \in 1 .. Len(ups)
      PROVE  /\ InLine(Len(ups[i].parts), ToSend(ups, new, i), OnNet(ups, mov, i),
                       Arrived(ups, new, i), LostOf(ls, i))
             /\ Line(ups, new, mov, i) = Line(ups, jbs, nt, i)
  <2> DEFINE n == Len(ups[i].parts)
             S == ToSend(ups, jbs, i)
             N == OnNet(ups, nt, i)
             R == Arrived(ups, jbs, i)
             L == LostOf(ls, i)
  <2>1. InLine(n, S, N, R, L) /\ n \in Nat /\ ups[i].src \in Host /\ ups[i].dst \in Host
    BY FlowLine
  <2>2. Arrived(ups, new, i) = R
    BY <1>4, <2>1 DEF Arrived
  <2>3. CASE p.type # "REQUEST" /\ i = p.upload
    <3>1. P(i) = {p.part} /\ NetPart(p, i) = {p.part}
      BY <1>2, <2>3
    <3>2. ups[i].src = h /\ ups[i].dst = p.dst /\ p.part \in S /\ p.src = h
      BY <1>4, <1>5, <2>3
    <3>3. ToSend(ups, new, i) = S \ {p.part}
      BY <1>4, <3>1, <3>2 DEF ToSend
    <3>4. OnNet(ups, mov, i) = N \cup {p.part}
      <4>0. <<p.src, p.dst>> \in Host \X Host
        BY <1>2
      <4>1. NetNumbers(mov[<<p.src, p.dst>>], i) =
              NetNumbers(nt[<<p.src, p.dst>>], i) \cup NetPart(p, i)
        BY <1>6, <4>0
      <4>2. <<ups[i].src, ups[i].dst>> = <<p.src, p.dst>>
        BY <3>2
      <4>q. QED
        BY <3>1, <4>1, <4>2 DEF OnNet
    <3>5. \A m \in S : p.part <= m
      BY <1>4, <3>1, <3>2 DEF ToSend
    <3>6. InLine(n, S \ {p.part}, N \cup {p.part}, R, L)
          /\ (S \ {p.part}) \cup (N \cup {p.part}) \cup R = S \cup N \cup R
      <4> HIDE DEF n, S, N, R, L
      <4>q. QED
        BY <2>1, <3>2, <3>5, LineSent DEF SentPart
    <3>q. QED
      BY <2>2, <3>3, <3>4, <3>6 DEF Line
  <2>4. CASE ~(p.type # "REQUEST" /\ i = p.upload)
    <3>1. P(i) = {} /\ NetPart(p, i) = {}
      BY <1>2, <2>4
    <3>2. ToSend(ups, new, i) = S
      <4>1. JobNumbers(new[ups[i].src], "send", i) =
              JobNumbers(jbs[ups[i].src], "send", i) \ (IF ups[i].src = h THEN P(i) ELSE {})
        BY <1>4, <2>1
      <4>q. QED
        BY <3>1, <4>1 DEF ToSend
    <3>3. OnNet(ups, mov, i) = N
      <4>1. PICK c \in Host \X Host : c = <<ups[i].src, ups[i].dst>>
        BY <2>1
      <4>2. NetNumbers(mov[c], i) =
              NetNumbers(nt[c], i) \cup (IF c = <<p.src, p.dst>> THEN NetPart(p, i) ELSE {})
        BY <1>6
      <4>q. QED
        BY <3>1, <4>1, <4>2 DEF OnNet
    <3>q. QED
      BY <2>1, <2>2, <3>2, <3>3 DEF Line
  <2>q. QED
    BY <2>3, <2>4
<1>8. LinesInOrder(ups, new, mov, ls)
  BY <1>7 DEF LinesInOrder, Flow
<1>q. QED
  BY <1>3, <1>6, <1>7, <1>8 DEF Flow, SameLines

\* Jobs that carry no part of a file.
IdleJob(h, j) ==
  /\ j \in CleanJob
  /\ \/ j.type = "upload"
     \/ j.type = "send" /\ j.packet.type = "REQUEST" /\ j.packet.src = h

LEMMA IdleJobs ==
  ASSUME NEW ups, NEW h \in Host, NEW q, NEW r \in Seq(CleanJob),
         \A x \in 1 .. Len(r) : IdleJob(h, r[x])
  PROVE  /\ JobOrdered(r)
         /\ \A x \in 1 .. Len(r) : GenuineJob(ups, h, r[x]) /\ Follows(q, r[x])
         /\ \A i : \A type \in {"send", "receive"} : JobNumbers(r, type, i) = {}
<1>1. ASSUME NEW j, IdleJob(h, j)
      PROVE  /\ j.type \in {"send", "receive"} => j.packet.type = "REQUEST"
             /\ GenuineJob(ups, h, j) /\ Follows(q, j)
  BY <1>1 DEF IdleJob, GenuineJob, Genuine, Follows
<1>2. \A x \in 1 .. Len(r) : r[x].type \in {"send", "receive"} => r[x].packet.type = "REQUEST"
  BY <1>1
<1>3. \A x \in 1 .. Len(r) : r[x].type # "upload" => r[x].type \in {"send", "receive"}
  BY DEF CleanJob
<1>4. JobOrdered(r)
  BY <1>2, <1>3 DEF JobOrdered, BehindJob, Behind
<1>5. \A i : \A type \in {"send", "receive"} : JobNumbers(r, type, i) = {}
  BY <1>2 DEF JobNumbers, IsPart
<1>q. QED
  BY <1>1, <1>4, <1>5

\* Jobs are added that carry no part.
LEMMA FlowIdle ==
  ASSUME NEW ups, NEW jbs, NEW nt, NEW ls, Flow(ups, jbs, nt, ls),
         NEW h \in Host, NEW r \in Seq(CleanJob), \A x \in 1 .. Len(r) : IdleJob(h, r[x]),
         NEW new, new = [jbs EXCEPT ![h] = jbs[h] \o r]
  PROVE  Flow(ups, new, nt, ls) /\ SameLines(ups, jbs, nt, new, nt)
<1>1. /\ JobOrdered(r)
      /\ \A x \in 1 .. Len(r) : GenuineJob(ups, h, r[x]) /\ Follows(jbs[h], r[x])
      /\ \A i : \A type \in {"send", "receive"} : JobNumbers(r, type, i) = {}
  <2>1. PICK q : q = jbs[h]
    OBVIOUS
  <2>2. /\ JobOrdered(r)
        /\ \A x \in 1 .. Len(r) : GenuineJob(ups, h, r[x]) /\ Follows(q, r[x])
        /\ \A i : \A type \in {"send", "receive"} : JobNumbers(r, type, i) = {}
    BY IdleJobs
  <2>q. QED
    BY <2>1, <2>2
<1>2. JobsMore(ups, jbs, h, r, new)
  BY <1>1, JobsAdded DEF Flow
<1>3. JobsStill(ups, jbs, new)
  <2>1. ASSUME NEW g \in Host, NEW i \in Nat, NEW type \in {"send", "receive"}
        PROVE  JobNumbers(new[g], type, i) = JobNumbers(jbs[g], type, i)
    <3>1. JobNumbers(new[g], type, i) =
            JobNumbers(jbs[g], type, i) \cup (IF g = h THEN JobNumbers(r, type, i) ELSE {})
      BY <1>2 DEF JobsMore
    <3>2. JobNumbers(r, type, i) = {}
      BY <1>1
    <3>q. QED
      BY <3>1, <3>2
  <2>q. QED
    BY <1>2, <2>1 DEF JobsMore, JobsStill
<1>4. NetStill(ups, nt, nt)
  BY DEF Flow, NetStill
<1>q. QED
  BY <1>3, <1>4, FlowStill

\* A job is taken that carries none.
LEMMA FlowJobGone ==
  ASSUME NEW ups, NEW jbs, NEW nt, NEW ls, Flow(ups, jbs, nt, ls),
         NEW h \in Host, jbs[h] # <<>>, Head(jbs[h]).type = "upload",
         NEW new, new = [jbs EXCEPT ![h] = Tail(jbs[h])]
  PROVE  Flow(ups, new, nt, ls) /\ SameLines(ups, jbs, nt, new, nt)
<1>1. PICK j : j = Head(jbs[h])
  OBVIOUS
<1>2. JobsCut(ups, jbs, h, j, new)
  BY <1>1, JobTaken DEF Flow
<1>3. \A i : \A type \in {"send", "receive"} : JobPart(j, type, i) = {}
  BY <1>1 DEF JobPart
<1>4. JobsStill(ups, jbs, new)
  <2>1. ASSUME NEW g \in Host, NEW i \in Nat, NEW type \in {"send", "receive"}
        PROVE  JobNumbers(new[g], type, i) = JobNumbers(jbs[g], type, i)
    <3>1. JobNumbers(new[g], type, i) =
            JobNumbers(jbs[g], type, i) \ (IF g = h THEN JobPart(j, type, i) ELSE {})
      BY <1>2 DEF JobsCut
    <3>2. JobPart(j, type, i) = {}
      BY <1>3
    <3>q. QED
      BY <3>1, <3>2
  <2>q. QED
    BY <1>2, <2>1 DEF JobsCut, JobsStill
<1>5. NetStill(ups, nt, nt)
  BY DEF Flow, NetStill
<1>q. QED
  BY <1>4, <1>5, FlowStill

\* A request arrives.
LEMMA FlowRequestGone ==
  ASSUME NEW ups, NEW jbs, NEW nt, NEW ls, Flow(ups, jbs, nt, ls),
         NEW from \in Host, NEW to \in Host, nt[<<from, to>>] # <<>>,
         Head(nt[<<from, to>>]).type = "REQUEST",
         NEW mov, mov = [nt EXCEPT ![<<from, to>>] = Tail(nt[<<from, to>>])]
  PROVE  Flow(ups, jbs, mov, ls) /\ SameLines(ups, jbs, nt, jbs, mov)
<1>1. PICK p : p = Head(nt[<<from, to>>])
  OBVIOUS
<1>2. NetCut(ups, nt, from, to, p, mov)
  BY <1>1, NetTaken DEF Flow
<1>3. \A i : NetPart(p, i) = {}
  BY <1>1 DEF NetPart, IsPart
<1>4. NetStill(ups, nt, mov)
  <2>1. ASSUME NEW c \in Host \X Host, NEW i \in Nat
        PROVE  NetNumbers(mov[c], i) = NetNumbers(nt[c], i)
    <3>1. NetNumbers(mov[c], i) =
            NetNumbers(nt[c], i) \ (IF c = <<from, to>> THEN NetPart(p, i) ELSE {})
      BY <1>2 DEF NetCut
    <3>2. NetPart(p, i) = {}
      BY <1>3
    <3>q. QED
      BY <3>1, <3>2
  <2>q. QED
    BY <1>2, <2>1 DEF NetCut, NetStill
<1>5. JobsStill(ups, jbs, jbs)
  BY DEF Flow, JobsStill
<1>q. QED
  BY <1>4, <1>5, FlowStill

\* The first packet p of a channel, if it carries a part: where it is in line.
Foremost(ups, nt, from, to, p, mov) ==
  /\ p.upload \in 1 .. Len(ups) /\ p.part \in Nat /\ p.upload \in Nat
  /\ p \in CleanFilePacket
  /\ ups[p.upload].src = from /\ ups[p.upload].dst = to
  /\ p.part \in OnNet(ups, nt, p.upload)
  /\ \A m \in OnNet(ups, nt, p.upload) : p.part <= m
  /\ OnNet(ups, mov, p.upload) = OnNet(ups, nt, p.upload) \ {p.part}
  /\ \A i \in 1 .. Len(ups) : i # p.upload => OnNet(ups, mov, i) = OnNet(ups, nt, i)

LEMMA FirstOnNet ==
  ASSUME NEW ups, NEW jbs, NEW nt, NEW ls, Flow(ups, jbs, nt, ls),
         NEW from \in Host, NEW to \in Host, NEW p, NEW mov,
         NetCut(ups, nt, from, to, p, mov), p.type # "REQUEST"
  PROVE  Foremost(ups, nt, from, to, p, mov)
<1>1. /\ p \in CleanPacket /\ Genuine(ups, p) /\ p.src = from /\ p.dst = to
      /\ \A i :
           /\ \A c \in Host \X Host :
                NetNumbers(mov[c], i) =
                  NetNumbers(nt[c], i) \ (IF c = <<from, to>> THEN NetPart(p, i) ELSE {})
           /\ NetPart(p, i) \subseteq NetNumbers(nt[<<from, to>>], i)
           /\ \A k \in NetPart(p, i) : \A m \in NetNumbers(nt[<<from, to>>], i) : k <= m
  BY DEF NetCut
<1>2. p.part \in Nat /\ p.upload \in Nat /\ p \in CleanFilePacket
  BY <1>1 DEF CleanPacket, CleanFilePacket, RequestPacket
<1>3. \A i : NetPart(p, i) = IF i = p.upload THEN {p.part} ELSE {}
  BY <1>2 DEF NetPart, IsPart
<1>4. p.upload \in 1 .. Len(ups) /\ ups[p.upload].src = from /\ ups[p.upload].dst = to
  BY <1>1 DEF Genuine
<1>5. OnNet(ups, nt, p.upload) = NetNumbers(nt[<<from, to>>], p.upload)
      /\ OnNet(ups, mov, p.upload) = NetNumbers(mov[<<from, to>>], p.upload)
  BY <1>4 DEF OnNet
<1>6. NetPart(p, p.upload) = {p.part}
  BY <1>3
<1>7. OnNet(ups, mov, p.upload) = OnNet(ups, nt, p.upload) \ {p.part}
  <2>1. PICK c \in Host \X Host : c = <<from, to>>
    OBVIOUS
  <2>2. NetNumbers(mov[c], p.upload) = NetNumbers(nt[c], p.upload) \ NetPart(p, p.upload)
    <3>1. NetNumbers(mov[c], p.upload) =
            NetNumbers(nt[c], p.upload) \
              (IF c = <<from, to>> THEN NetPart(p, p.upload) ELSE {})
      BY <1>1
    <3>q. QED
      BY <2>1, <3>1
  <2>q. QED
    BY <1>5, <1>6, <2>1, <2>2
<1>8. ASSUME NEW i \in 1 .. Len(ups), i # p.upload
      PROVE  OnNet(ups, mov, i) = OnNet(ups, nt, i)
  <2>1. PICK c \in Host \X Host : c = <<ups[i].src, ups[i].dst>>
    BY FlowLine
  <2>2. NetPart(p, i) = {}
    BY <1>3, <1>8
  <2>3. NetNumbers(mov[c], i) = NetNumbers(nt[c], i)
    <3>1. NetNumbers(mov[c], i) =
            NetNumbers(nt[c], i) \ (IF c = <<from, to>> THEN NetPart(p, i) ELSE {})
      BY <1>1
    <3>q. QED
      BY <2>2, <3>1
  <2>q. QED
    BY <2>1, <2>3 DEF OnNet
<1>9. p.part \in OnNet(ups, nt, p.upload) /\ \A m \in OnNet(ups, nt, p.upload) : p.part <= m
  BY <1>1, <1>5, <1>6
<1>q. QED
  BY <1>2, <1>4, <1>7, <1>8, <1>9 DEF Foremost

\* A part is lost.
Ebb(ups, jbs, nt, ls, mov, more) ==
  \A i \in 1 .. Len(ups) :
    /\ Line(ups, jbs, mov, i) \subseteq Line(ups, jbs, nt, i)
    /\ Line(ups, jbs, nt, i) \subseteq Line(ups, jbs, mov, i) \cup LostOf(more, i)
    /\ LostOf(ls, i) \subseteq LostOf(more, i)
    /\ LostOf(more, i) \subseteq LostOf(ls, i) \cup Line(ups, jbs, nt, i)

LEMMA FlowLose ==
  ASSUME NEW ups, NEW jbs, NEW nt, NEW ls, Flow(ups, jbs, nt, ls),
         NEW from \in Host, NEW to \in Host, nt[<<from, to>>] # <<>>,
         NEW p, p = Head(nt[<<from, to>>]), p.type # "REQUEST",
         NEW mov, mov = [nt EXCEPT ![<<from, to>>] = Tail(nt[<<from, to>>])],
         NEW more, more = ls \cup {<<p.upload, p.part>>}
  PROVE  Flow(ups, jbs, mov, more) /\ Ebb(ups, jbs, nt, ls, mov, more)
<1>1. NetCut(ups, nt, from, to, p, mov)
  BY NetTaken DEF Flow
<1>2. /\ p.upload \in 1 .. Len(ups) /\ p.part \in Nat /\ p.upload \in Nat
      /\ p.part \in OnNet(ups, nt, p.upload)
      /\ \A m \in OnNet(ups, nt, p.upload) : p.part <= m
      /\ OnNet(ups, mov, p.upload) = OnNet(ups, nt, p.upload) \ {p.part}
      /\ \A i \in 1 .. Len(ups) : i # p.upload => OnNet(ups, mov, i) = OnNet(ups, nt, i)
  <2>1. Foremost(ups, nt, from, to, p, mov)
    BY <1>1, FirstOnNet
  <2>q. QED
    BY <2>1 DEF Foremost
<1>3. \A i : LostOf(more, i) = LostOf(ls, i) \cup (IF i = p.upload THEN {p.part} ELSE {})
  BY <1>2 DEF LostOf
<1>4. ASSUME NEW i \in 1 .. Len(ups)
      PROVE  /\ InLine(Len(ups[i].parts), ToSend(ups, jbs, i), OnNet(ups, mov, i),
                       Arrived(ups, jbs, i), LostOf(more, i))
             /\ Line(ups, jbs, mov, i) \subseteq Line(ups, jbs, nt, i)
             /\ Line(ups, jbs, nt, i) \subseteq Line(ups, jbs, mov, i) \cup LostOf(more, i)
             /\ LostOf(ls, i) \subseteq LostOf(more, i)
             /\ LostOf(more, i) \subseteq LostOf(ls, i) \cup Line(ups, jbs, nt, i)
  <2> DEFINE n == Len(ups[i].parts)
             S == ToSend(ups, jbs, i)
             N == OnNet(ups, nt, i)
             R == Arrived(ups, jbs, i)
             L == LostOf(ls, i)
  <2>1. InLine(n, S, N, R, L) /\ n \in Nat
    BY FlowLine
  <2>2. CASE i = p.upload
    <3>1. OnNet(ups, mov, i) = N \ {p.part} /\ LostOf(more, i) = L \cup {p.part}
      BY <1>2, <1>3, <2>2
    <3>3. p.part \in N /\ \A m \in N : p.part <= m
      BY <1>2, <2>2
    <3>2. InLine(n, S, N \ {p.part}, R, L \cup {p.part})
          /\ S \cup (N \ {p.part}) \cup R = (S \cup N \cup R) \ {p.part}
      <4> HIDE DEF n, S, N, R, L
      <4>1. PICK k \in N : k = p.part
        BY <3>3
      <4>2. \A m \in N : k <= m
        BY <3>3, <4>1
      <4>3. LostPart(n, S, N, R, L, k)
        BY <2>1, <4>2, LineLost
      <4>q. QED
        BY <4>1, <4>3, Zenon DEF LostPart
    <3>q. QED
      BY <3>1, <3>2, <3>3 DEF Line
  <2>3. CASE i # p.upload
    <3>1. OnNet(ups, mov, i) = N
      BY <1>2, <2>3
    <3>2. LostOf(more, i) = L
      <4>1. LostOf(more, i) = L \cup {}
        BY <1>3, <2>3
      <4>q. QED
        BY <4>1
    <3>q. QED
      BY <2>1, <3>1, <3>2 DEF Line
  <2>q. QED
    BY <2>2, <2>3
<1>5. LinesInOrder(ups, jbs, mov, more)
  <2>1. more \subseteq (1 .. Len(ups)) \X Nat
    BY <1>2 DEF Flow, LinesInOrder
  <2>q. QED
    BY <1>4, <2>1 DEF LinesInOrder
<1>6. mov \in [Host \X Host -> Seq(CleanPacket)] /\ NetInOrder(ups, mov)
  BY <1>1 DEF NetCut
<1>q. QED
  BY <1>4, <1>5, <1>6 DEF Flow, Ebb

\* A part arrives.
LEMMA FlowArrive ==
  ASSUME NEW ups, NEW jbs, NEW nt, NEW ls, Flow(ups, jbs, nt, ls),
         NEW from \in Host, NEW to \in Host, nt[<<from, to>>] # <<>>,
         NEW p, p = Head(nt[<<from, to>>]), p.type # "REQUEST",
         NEW mov, mov = [nt EXCEPT ![<<from, to>>] = Tail(nt[<<from, to>>])],
         NEW new, new = [jbs EXCEPT ![to] = jbs[to] \o <<[type |-> "receive", packet |-> p]>>]
  PROVE  Flow(ups, new, mov, ls) /\ SameLines(ups, jbs, nt, new, mov)
<1> DEFINE j == [type |-> "receive", packet |-> p]
           r == <<j>>
<1>1. NetCut(ups, nt, from, to, p, mov)
  BY NetTaken DEF Flow
<1>2. /\ p.upload \in 1 .. Len(ups) /\ p.part \in Nat /\ p.upload \in Nat
      /\ p \in CleanFilePacket
      /\ ups[p.upload].src = from /\ ups[p.upload].dst = to
      /\ p.part \in OnNet(ups, nt, p.upload)
      /\ \A m \in OnNet(ups, nt, p.upload) : p.part <= m
      /\ OnNet(ups, mov, p.upload) = OnNet(ups, nt, p.upload) \ {p.part}
      /\ \A i \in 1 .. Len(ups) : i # p.upload => OnNet(ups, mov, i) = OnNet(ups, nt, i)
  <2>1. Foremost(ups, nt, from, to, p, mov)
    BY <1>1, FirstOnNet
  <2>q. QED
    BY <2>1 DEF Foremost
<1>3. Genuine(ups, p) /\ p.dst = to
  BY <1>1 DEF NetCut
<1>4. j \in CleanJob /\ j.type = "receive" /\ j.packet = p
  BY <1>2 DEF CleanJob, CleanPacket
<1>5. Arrived(ups, jbs, p.upload) = JobNumbers(jbs[to], "receive", p.upload)
  BY <1>2 DEF Arrived
<1>6. \A k \in JobNumbers(jbs[to], "receive", p.upload) : k < p.part
  <2>1. \A k \in Arrived(ups, jbs, p.upload) : \A m \in OnNet(ups, nt, p.upload) : k < m
    BY <1>2, FlowLine DEF InLine
  <2>q. QED
    BY <1>2, <1>5, <2>1
<1>j. jbs \in [Host -> Seq(CleanJob)] /\ JobsInOrder(ups, jbs)
  BY DEF Flow
<1> HIDE DEF j
<1>7. Follows(jbs[to], j) /\ GenuineJob(ups, to, j)
  BY <1>3, <1>4, <1>6 DEF Follows, GenuineJob
<1>8. /\ r \in Seq(CleanJob) /\ Len(r) = 1 /\ \A x \in 1 .. Len(r) : r[x] = j
  BY <1>4
<1>9. \A type, i : JobNumbers(r, type, i) =
        IF type = "receive" /\ i = p.upload THEN {p.part} ELSE {}
  <2> SUFFICES ASSUME NEW type, NEW i
               PROVE  JobNumbers(r, type, i) =
                        IF type = "receive" /\ i = p.upload THEN {p.part} ELSE {}
    OBVIOUS
  <2>1. JobNumbers(r, type, i) = JobPart(j, type, i)
    BY OneNumber
  <2>2. JobPart(j, type, i) = IF type = "receive" /\ i = p.upload THEN {p.part} ELSE {}
    BY <1>2, <1>4 DEF JobPart, IsPart
  <2> HIDE DEF r
  <2>q. QED
    BY <2>1, <2>2
<1>n. new = [jbs EXCEPT ![to] = jbs[to] \o r]
  BY DEF j
<1> HIDE DEF r
<1>10. JobsMore(ups, jbs, to, r, new)
  <2>1. JobOrdered(r)
    BY <1>8 DEF JobOrdered
  <2>2. \A x \in 1 .. Len(r) : GenuineJob(ups, to, r[x]) /\ Follows(jbs[to], r[x])
    BY <1>7, <1>8
  <2>q. QED
    BY <1>j, <1>8, <1>n, <2>1, <2>2, JobsAdded
<1>11. /\ new \in [Host -> Seq(CleanJob)] /\ JobsInOrder(ups, new)
       /\ \A g \in Host : \A type, i :
            JobNumbers(new[g], type, i) =
              JobNumbers(jbs[g], type, i) \cup (IF g = to THEN JobNumbers(r, type, i) ELSE {})
  BY <1>10 DEF JobsMore
<1>12. ASSUME NEW i \in 1 .. Len(ups)
       PROVE  /\ InLine(Len(ups[i].parts), ToSend(ups, new, i), OnNet(ups, mov, i),
                        Arrived(ups, new, i), LostOf(ls, i))
              /\ Line(ups, new, mov, i) = Line(ups, jbs, nt, i)
  <2> DEFINE n == Len(ups[i].parts)
             S == ToSend(ups, jbs, i)
             N == OnNet(ups, nt, i)
             R == Arrived(ups, jbs, i)
             L == LostOf(ls, i)
  <2>1. InLine(n, S, N, R, L) /\ n \in Nat /\ ups[i].src \in Host /\ ups[i].dst \in Host
    BY FlowLine
  <2>2. ToSend(ups, new, i) = S
    <3>1. JobNumbers(r, "send", i) = {}
      BY <1>9
    <3>2. PICK g \in Host : g = ups[i].src
      BY <2>1
    <3>3. JobNumbers(new[g], "send", i) =
            JobNumbers(jbs[g], "send", i) \cup (IF g = to THEN JobNumbers(r, "send", i) ELSE {})
      BY <1>11
    <3>q. QED
      BY <3>1, <3>2, <3>3 DEF ToSend
  <2>3. CASE i = p.upload
    <3>1. OnNet(ups, mov, i) = N \ {p.part}
      BY <1>2, <2>3
    <3>4. p.part \in N /\ \A m \in N : p.part <= m
      BY <1>2, <2>3
    <3>2. Arrived(ups, new, i) = R \cup {p.part}
      <4>1. JobNumbers(r, "receive", i) = {p.part} /\ ups[i].dst = to
        BY <1>2, <1>9, <2>3
      <4>2. JobNumbers(new[to], "receive", i) =
              JobNumbers(jbs[to], "receive", i) \cup JobNumbers(r, "receive", i)
        BY <1>11
      <4>q. QED
        BY <4>1, <4>2 DEF Arrived
    <3>3. InLine(n, S, N \ {p.part}, R \cup {p.part}, L)
          /\ S \cup (N \ {p.part}) \cup (R \cup {p.part}) = S \cup N \cup R
      <4> HIDE DEF n, S, N, R, L
      <4>1. PICK k \in N : k = p.part
        BY <3>4
      <4>2. \A m \in N : k <= m
        BY <3>4, <4>1
      <4>3. ArrivedPart(n, S, N, R, L, k)
        BY <2>1, <4>2, LineArrived
      <4>q. QED
        BY <4>1, <4>3, Zenon DEF ArrivedPart
    <3>q. QED
      BY <2>2, <3>1, <3>2, <3>3 DEF Line
  <2>4. CASE i # p.upload
    <3>1. OnNet(ups, mov, i) = N
      BY <1>2, <2>4
    <3>2. Arrived(ups, new, i) = R
      <4>1. JobNumbers(r, "receive", i) = {}
        BY <1>9, <2>4
      <4>2. PICK g \in Host : g = ups[i].dst
        BY <2>1
      <4>3. JobNumbers(new[g], "receive", i) =
              JobNumbers(jbs[g], "receive", i) \cup
                (IF g = to THEN JobNumbers(r, "receive", i) ELSE {})
        BY <1>11
      <4>q. QED
        BY <4>1, <4>2, <4>3 DEF Arrived
    <3>q. QED
      BY <2>1, <2>2, <3>1, <3>2 DEF Line
  <2>q. QED
    BY <2>3, <2>4
<1>13. LinesInOrder(ups, new, mov, ls)
  BY <1>12 DEF LinesInOrder, Flow
<1>14. mov \in [Host \X Host -> Seq(CleanPacket)] /\ NetInOrder(ups, mov)
  BY <1>1 DEF NetCut
<1>q. QED
  BY <1>11, <1>12, <1>13, <1>14 DEF Flow, SameLines

\* A part is received: p, the first of those that wait at host h, and of the
\* whole line of its upload.
Received(ups, jbs, nt, ls, h, p, new) ==
  /\ p.upload \in 1 .. Len(ups) /\ p.upload \in Nat /\ p.part \in 0 .. Len(ups[p.upload].parts)
  /\ ups[p.upload].dst = h /\ Genuine(ups, p)
  /\ \A i \in 1 .. Len(ups) : i # p.upload => Line(ups, new, nt, i) = Line(ups, jbs, nt, i)
  /\ Line(ups, new, nt, p.upload) = Line(ups, jbs, nt, p.upload) \ {p.part}
  /\ p.part \in Line(ups, jbs, nt, p.upload) /\ p.part \notin LostOf(ls, p.upload)
  /\ \A m \in Line(ups, new, nt, p.upload) : p.part < m
  /\ \A m \in p.part + 1 .. Len(ups[p.upload].parts) :
       m \in Line(ups, new, nt, p.upload) \cup LostOf(ls, p.upload)

LEMMA FlowTake ==
  ASSUME NEW ups, NEW jbs, NEW nt, NEW ls, Flow(ups, jbs, nt, ls),
         NEW h \in Host, jbs[h] # <<>>, NEW j, j = Head(jbs[h]),
         j.type = "receive", j.packet.type # "REQUEST",
         NEW new, new = [jbs EXCEPT ![h] = Tail(jbs[h])]
  PROVE  Flow(ups, new, nt, ls) /\ Received(ups, jbs, nt, ls, h, j.packet, new)
<1> DEFINE p == j.packet
           l == p.upload
<1>1. JobsCut(ups, jbs, h, j, new)
  BY JobTaken DEF Flow
<1>2. /\ new \in [Host -> Seq(CleanJob)] /\ JobsInOrder(ups, new)
      /\ j \in CleanJob /\ GenuineJob(ups, h, j)
  BY <1>1 DEF JobsCut
<1>3. Genuine(ups, p) /\ p.dst = h
  BY <1>2 DEF GenuineJob
<1>4. /\ p.part \in Nat /\ l \in Nat
      /\ \A i : \A type \in {"send", "receive"} :
           JobPart(j, type, i) =
             IF type = j.type /\ j.packet.type # "REQUEST" /\ i = j.packet.upload
               THEN {j.packet.part} ELSE {}
  BY <1>2, PacketFacts
<1>5. /\ \A i : JobPart(j, "send", i) = {}
      /\ \A i : i # l => JobPart(j, "receive", i) = {}
      /\ JobPart(j, "receive", l) = {p.part}
  BY <1>4
<1>6. l \in 1 .. Len(ups) /\ ups[l].dst = h /\ p.part \in 0 .. Len(ups[l].parts)
  BY <1>3 DEF Genuine
<1>7. ASSUME NEW g \in Host, NEW i
      PROVE  /\ JobNumbers(new[g], "send", i) = JobNumbers(jbs[g], "send", i)
             /\ i # l => JobNumbers(new[g], "receive", i) = JobNumbers(jbs[g], "receive", i)
  <2>1. JobNumbers(new[g], "send", i) =
          JobNumbers(jbs[g], "send", i) \ (IF g = h THEN JobPart(j, "send", i) ELSE {})
    BY <1>1 DEF JobsCut
  <2>2. JobNumbers(new[g], "receive", i) =
          JobNumbers(jbs[g], "receive", i) \ (IF g = h THEN JobPart(j, "receive", i) ELSE {})
    BY <1>1 DEF JobsCut
  <2>q. QED
    BY <1>5, <2>1, <2>2
<1>8. ASSUME NEW i \in 1 .. Len(ups)
      PROVE  /\ ToSend(ups, new, i) = ToSend(ups, jbs, i)
             /\ i # l => Arrived(ups, new, i) = Arrived(ups, jbs, i)
  <2>1. ups[i].src \in Host /\ ups[i].dst \in Host
    BY FlowLine
  <2>2. JobNumbers(new[ups[i].src], "send", i) = JobNumbers(jbs[ups[i].src], "send", i)
    BY <1>7, <2>1
  <2>3. i # l => JobNumbers(new[ups[i].dst], "receive", i) =
                   JobNumbers(jbs[ups[i].dst], "receive", i)
    BY <1>7, <2>1
  <2>q. QED
    BY <2>2, <2>3 DEF ToSend, Arrived
<1>9. /\ Arrived(ups, new, l) = Arrived(ups, jbs, l) \ {p.part}
      /\ p.part \in Arrived(ups, jbs, l)
      /\ \A m \in Arrived(ups, jbs, l) : p.part <= m
  <2>1. /\ JobNumbers(new[h], "receive", l) =
             JobNumbers(jbs[h], "receive", l) \ JobPart(j, "receive", l)
        /\ JobPart(j, "receive", l) \subseteq JobNumbers(jbs[h], "receive", l)
        /\ \A k \in JobPart(j, "receive", l) : \A m \in JobNumbers(jbs[h], "receive", l) : k <= m
    BY <1>1 DEF JobsCut
  <2>2. /\ Arrived(ups, new, l) = JobNumbers(new[h], "receive", l)
        /\ Arrived(ups, jbs, l) = JobNumbers(jbs[h], "receive", l)
    BY <1>6 DEF Arrived
  <2>q. QED
    BY <1>5, <2>1, <2>2
<1> HIDE DEF p, l
<1>10. ASSUME NEW i \in 1 .. Len(ups), i # l
       PROVE  Line(ups, new, nt, i) = Line(ups, jbs, nt, i)
              /\ InLine(Len(ups[i].parts), ToSend(ups, new, i), OnNet(ups, nt, i),
                        Arrived(ups, new, i), LostOf(ls, i))
  BY <1>8, <1>10, FlowLine DEF Line
<1> DEFINE n == Len(ups[l].parts)
           S == ToSend(ups, jbs, l)
           N == OnNet(ups, nt, l)
           R == Arrived(ups, jbs, l)
           L == LostOf(ls, l)
<1>11. TakenPart(n, S, N, R, L, p.part)
  <2>1. InLine(n, S, N, R, L) /\ n \in Nat
    BY <1>6, FlowLine
  <2>2. PICK k \in R : k = p.part
    BY <1>9
  <2>3. \A m \in R : k <= m
    BY <1>9, <2>2
  <2> HIDE DEF n, S, N, R, L
  <2>4. TakenPart(n, S, N, R, L, k)
    BY <2>1, <2>3, LineTaken
  <2>q. QED
    BY <2>2, <2>4
<1>12. /\ InLine(n, S, N, R \ {p.part}, L)
       /\ S \cup N \cup (R \ {p.part}) = (S \cup N \cup R) \ {p.part}
       /\ p.part \notin L
       /\ \A m \in (S \cup N \cup R) \ {p.part} : p.part < m
       /\ \A m \in p.part + 1 .. n : m \in ((S \cup N \cup R) \ {p.part}) \cup L
  <2> HIDE DEF n, S, N, R, L
  <2>q. QED
    BY <1>11, Zenon DEF TakenPart
<1>13. Line(ups, jbs, nt, l) = S \cup N \cup R
       /\ Line(ups, new, nt, l) = (S \cup N \cup R) \ {p.part}
  <2>1. ToSend(ups, new, l) = S /\ Arrived(ups, new, l) = R \ {p.part}
    BY <1>6, <1>8, <1>9
  <2>2. Line(ups, new, nt, l) = S \cup N \cup (R \ {p.part})
    BY <2>1 DEF Line
  <2>3. Line(ups, jbs, nt, l) = S \cup N \cup R
    BY DEF Line
  <2> HIDE DEF n, S, N, R, L
  <2>q. QED
    BY <1>12, <2>2, <2>3
<1>14. InLine(n, ToSend(ups, new, l), N, Arrived(ups, new, l), L)
  <2>1. ToSend(ups, new, l) = S /\ Arrived(ups, new, l) = R \ {p.part}
    BY <1>6, <1>8, <1>9
  <2> HIDE DEF n, S, N, R, L
  <2>q. QED
    BY <1>12, <2>1
<1>15. LinesInOrder(ups, new, nt, ls)
  <2>1. ASSUME NEW i \in 1 .. Len(ups)
        PROVE  InLine(Len(ups[i].parts), ToSend(ups, new, i), OnNet(ups, nt, i),
                      Arrived(ups, new, i), LostOf(ls, i))
    <3>1. CASE i = l
      BY <1>14, <3>1
    <3>2. CASE i # l
      BY <1>10, <3>2
    <3>q. QED
      BY <3>1, <3>2
  <2>q. QED
    BY <2>1 DEF LinesInOrder, Flow
<1>16. Flow(ups, new, nt, ls)
  BY <1>2, <1>15 DEF Flow
<1>17. /\ p.part \in Line(ups, jbs, nt, l) /\ p.part \notin LostOf(ls, l)
       /\ Line(ups, new, nt, l) = Line(ups, jbs, nt, l) \ {p.part}
       /\ \A m \in Line(ups, new, nt, l) : p.part < m
       /\ \A m \in p.part + 1 .. Len(ups[l].parts) :
            m \in Line(ups, new, nt, l) \cup LostOf(ls, l)
  <2>1. p.part \in R
    BY <1>9
  <2>2. n = Len(ups[l].parts) /\ L = LostOf(ls, l)
    OBVIOUS
  <2> HIDE DEF n, S, N, R, L
  <2>q. QED
    BY <1>12, <1>13, <2>1, <2>2
<1>18. Received(ups, jbs, nt, ls, h, p, new)
  BY <1>3, <1>4, <1>6, <1>10, <1>17 DEF Received, l
<1>q. QED
  BY <1>16, <1>18 DEF p

\* Nothing yet of an upload that has not begun.
LEMMA NoneYet ==
  ASSUME NEW ups, NEW jbs, NEW nt, NEW ls, Flow(ups, jbs, nt, ls), NEW i, i \notin 1 .. Len(ups)
  PROVE  /\ \A g \in Host : \A type \in {"send", "receive"} : JobNumbers(jbs[g], type, i) = {}
         /\ \A c \in Host \X Host : NetNumbers(nt[c], i) = {}
         /\ LostOf(ls, i) = {}
<1>1. ASSUME NEW g \in Host, NEW type \in {"send", "receive"}
      PROVE  JobNumbers(jbs[g], type, i) = {}
  <2>1. ASSUME NEW x \in 1 .. Len(jbs[g]), jbs[g][x].type = type
        PROVE  Genuine(ups, jbs[g][x].packet)
    <3>1. GenuineJob(ups, g, jbs[g][x])
      BY DEF Flow, JobsInOrder
    <3>q. QED
      BY <2>1, <3>1 DEF GenuineJob
  <2>q. QED
    BY <2>1 DEF JobNumbers, IsPart, Genuine
<1>2. ASSUME NEW c \in Host \X Host PROVE NetNumbers(nt[c], i) = {}
  <2>1. PICK from \in Host, to \in Host : c = <<from, to>>
    OBVIOUS
  <2>2. ChannelInOrder(ups, from, to, nt[c])
    BY <2>1 DEF Flow, NetInOrder
  <2>3. \A x \in 1 .. Len(nt[c]) : Genuine(ups, nt[c][x])
    BY <2>2 DEF ChannelInOrder
  <2>q. QED
    BY <2>3 DEF NetNumbers, IsPart, Genuine
<1>3. LostOf(ls, i) = {}
  BY DEF LostOf, Flow, LinesInOrder
<1>q. QED
  BY <1>1, <1>2, <1>3

\* The jobs r send the parts 0 .. n of upload i.
SendsAll(ups, i, r) ==
  /\ Len(r) = Len(ups[i].parts) + 1
  /\ \A x \in 1 .. Len(r) :
       /\ r[x].type = "send" /\ r[x].packet.type # "REQUEST"
       /\ r[x].packet.upload = i /\ r[x].packet.part = x - 1
       /\ Genuine(ups, r[x].packet)

\* The lines of the uploads before.
OldLines(ups, more, new, nt) ==
  \A i \in 1 .. Len(ups) : Line(more, new, nt, i) = Line(ups, new, nt, i)

\* An upload u begins, and r are its jobs.
Begins(ups, jbs, u, r, more, new) ==
  /\ u \in CleanUpload /\ more = Append(ups, u)
  /\ r \in Seq(CleanJob) /\ SendsAll(more, Len(ups) + 1, r)
  /\ new = [jbs EXCEPT ![u.src] = jbs[u.src] \o r]

LEMMA FlowUpload ==
  ASSUME NEW ups, NEW jbs, NEW nt, NEW ls, Flow(ups, jbs, nt, ls),
         NEW u, NEW r, NEW more, NEW new, Begins(ups, jbs, u, r, more, new)
  PROVE  Flow(more, new, nt, ls) /\ SameLines(ups, jbs, nt, new, nt) /\ Extends(more, ups)
         /\ OldLines(ups, more, new, nt)
<1>0. PICK i : i = Len(ups) + 1
  OBVIOUS
<1>b. /\ u \in CleanUpload /\ more = Append(ups, u)
      /\ r \in Seq(CleanJob) /\ SendsAll(more, i, r)
      /\ new = [jbs EXCEPT ![u.src] = jbs[u.src] \o r]
  BY <1>0 DEF Begins
<1> DEFINE h == u.src
           n == Len(u.parts)
<1>1. /\ ups \in Seq(CleanUpload) /\ jbs \in [Host -> Seq(CleanJob)]
      /\ nt \in [Host \X Host -> Seq(CleanPacket)]
      /\ JobsInOrder(ups, jbs) /\ NetInOrder(ups, nt)
  BY DEF Flow
<1>2. /\ more \in Seq(CleanUpload) /\ Len(ups) \in Nat /\ Len(more) = i /\ i \in Nat
      /\ more[i] = u /\ \A l \in 1 .. Len(ups) : more[l] = ups[l]
      /\ i \notin 1 .. Len(ups) /\ i \in 1 .. Len(more)
      /\ \A l \in 1 .. Len(more) : l \in 1 .. Len(ups) \/ l = i
  BY <1>0, <1>b, <1>1
<1>3. Extends(more, ups)
  BY <1>2 DEF Extends
<1>4. /\ h \in Host /\ u.dst \in Host /\ n \in Nat
  BY <1>b DEF CleanUpload
<1>5. JobsInOrder(more, jbs) /\ NetInOrder(more, nt)
  BY <1>1, <1>3, GenuineStays
<1>6. /\ Len(r) = n + 1
      /\ \A x \in 1 .. Len(r) :
           /\ r[x].type = "send" /\ r[x].packet.type # "REQUEST"
           /\ r[x].packet.upload = i /\ r[x].packet.part = x - 1
           /\ Genuine(more, r[x].packet)
  BY <1>b, <1>2 DEF SendsAll
<1>7. /\ \A g \in Host : \A type \in {"send", "receive"} : JobNumbers(jbs[g], type, i) = {}
      /\ \A c \in Host \X Host : NetNumbers(nt[c], i) = {}
      /\ LostOf(ls, i) = {}
  BY <1>0, <1>2, NoneYet
<1>8. JobOrdered(r)
  <2>1. \A x, y \in 1 .. Len(r) : x < y => x - 1 < y - 1
    BY <1>4, <1>6
  <2>q. QED
    BY <1>6, <2>1 DEF JobOrdered, BehindJob, Behind
<1>9. \A x \in 1 .. Len(r) : GenuineJob(more, h, r[x]) /\ Follows(jbs[h], r[x])
  <2> SUFFICES ASSUME NEW x \in 1 .. Len(r)
               PROVE  GenuineJob(more, h, r[x]) /\ Follows(jbs[h], r[x])
    OBVIOUS
  <2>1. r[x].packet.src = h
    BY <1>2, <1>6 DEF Genuine
  <2>2. GenuineJob(more, h, r[x])
    BY <1>6, <2>1 DEF GenuineJob
  <2>3. JobNumbers(jbs[h], "send", i) = {}
    BY <1>4, <1>7
  <2>4. Follows(jbs[h], r[x])
    BY <1>6, <2>3 DEF Follows
  <2>q. QED
    BY <2>2, <2>4
<1>10. JobsMore(more, jbs, h, r, new)
  BY <1>b, <1>1, <1>4, <1>5, <1>8, <1>9, JobsAdded
<1>11. /\ JobNumbers(r, "send", i) = 0 .. n
       /\ \A l : l # i => JobNumbers(r, "send", l) = {}
       /\ \A l : JobNumbers(r, "receive", l) = {}
  <2>1. \A k \in 0 .. n : k + 1 \in 1 .. Len(r) /\ k = (k + 1) - 1
    BY <1>4, <1>6
  <2>2. \A x \in 1 .. Len(r) : x - 1 \in 0 .. n
    BY <1>4, <1>6
  <2>3. JobNumbers(r, "send", i) \subseteq 0 .. n
    BY <1>6, <2>2 DEF JobNumbers, IsPart
  <2>4. 0 .. n \subseteq JobNumbers(r, "send", i)
    <3> SUFFICES ASSUME NEW k \in 0 .. n PROVE k \in JobNumbers(r, "send", i)
      OBVIOUS
    <3>1. PICK x \in 1 .. Len(r) : k = x - 1
      BY <2>1
    <3>2. r[x].type = "send" /\ IsPart(r[x].packet, i, k)
      BY <1>6, <3>1 DEF IsPart
    <3>q. QED
      BY <1>4, <3>2 DEF JobNumbers
  <2>5. (\A l : l # i => JobNumbers(r, "send", l) = {})
        /\ \A l : JobNumbers(r, "receive", l) = {}
    BY <1>6 DEF JobNumbers, IsPart
  <2>q. QED
    BY <2>3, <2>4, <2>5
<1>12. ASSUME NEW l \in 1 .. Len(more)
       PROVE  /\ ToSend(more, new, l) =
                   JobNumbers(jbs[more[l].src], "send", l) \cup
                     (IF l = i THEN 0 .. n ELSE {})
              /\ Arrived(more, new, l) = JobNumbers(jbs[more[l].dst], "receive", l)
              /\ more[l].src \in Host /\ more[l].dst \in Host /\ Len(more[l].parts) \in Nat
  <2>1. more[l].src \in Host /\ more[l].dst \in Host /\ Len(more[l].parts) \in Nat
    BY <1>2, UploadFacts
  <2>2. JobNumbers(new[more[l].src], "send", l) =
          JobNumbers(jbs[more[l].src], "send", l) \cup
            (IF more[l].src = h THEN JobNumbers(r, "send", l) ELSE {})
    BY <1>10, <2>1 DEF JobsMore
  <2>3. JobNumbers(new[more[l].dst], "receive", l) =
          JobNumbers(jbs[more[l].dst], "receive", l) \cup
            (IF more[l].dst = h THEN JobNumbers(r, "receive", l) ELSE {})
    BY <1>10, <2>1 DEF JobsMore
  <2>4. Arrived(more, new, l) = JobNumbers(jbs[more[l].dst], "receive", l)
    BY <1>11, <2>3 DEF Arrived
  <2>5. CASE l = i
    BY <1>2, <1>11, <2>1, <2>2, <2>4, <2>5 DEF ToSend
  <2>6. CASE l # i
    BY <1>11, <2>1, <2>2, <2>4, <2>6 DEF ToSend
  <2>q. QED
    BY <2>5, <2>6
<1>13. ASSUME NEW l \in 1 .. Len(ups)
       PROVE  /\ InLine(Len(more[l].parts), ToSend(more, new, l), OnNet(more, nt, l),
                        Arrived(more, new, l), LostOf(ls, l))
              /\ Line(more, new, nt, l) = Line(ups, jbs, nt, l)
              /\ Line(more, new, nt, l) = Line(ups, new, nt, l)
  <2>1. l # i /\ l \in 1 .. Len(more) /\ more[l] = ups[l]
    BY <1>2
  <2>2. /\ ToSend(more, new, l) = ToSend(ups, jbs, l)
        /\ Arrived(more, new, l) = Arrived(ups, jbs, l)
        /\ OnNet(more, nt, l) = OnNet(ups, nt, l)
    BY <1>12, <2>1 DEF ToSend, Arrived, OnNet
  <2>3. ToSend(more, new, l) = ToSend(ups, new, l) /\ Arrived(more, new, l) = Arrived(ups, new, l)
    BY <2>1 DEF ToSend, Arrived
  <2>4. InLine(Len(ups[l].parts), ToSend(ups, jbs, l), OnNet(ups, nt, l),
               Arrived(ups, jbs, l), LostOf(ls, l))
    BY FlowLine
  <2>q. QED
    BY <2>1, <2>2, <2>3, <2>4 DEF Line
<1>14. InLine(Len(more[i].parts), ToSend(more, new, i), OnNet(more, nt, i),
              Arrived(more, new, i), LostOf(ls, i))
  <2>1. more[i] = u /\ i \in 1 .. Len(more)
    BY <1>2
  <2>2. JobNumbers(jbs[h], "send", i) = {} /\ JobNumbers(jbs[u.dst], "receive", i) = {}
    BY <1>4, <1>7
  <2>3. ToSend(more, new, i) = 0 .. n /\ Arrived(more, new, i) = {}
    BY <1>12, <2>1, <2>2
  <2>4. OnNet(more, nt, i) = {}
    <3>1. PICK c \in Host \X Host : c = <<h, u.dst>>
      BY <1>4
    <3>q. QED
      BY <1>7, <2>1, <3>1 DEF OnNet
  <2>5. LostOf(ls, i) = {} /\ n = Len(more[i].parts)
    BY <1>7, <2>1
  <2>6. InLine(n, 0 .. n, {}, {}, {})
    BY <1>4, LineBegun
  <2> HIDE DEF n
  <2>q. QED
    BY <2>3, <2>4, <2>5, <2>6
<1>15. LinesInOrder(more, new, nt, ls)
  <2>1. ls \subseteq (1 .. Len(ups)) \X Nat
    BY DEF Flow, LinesInOrder
  <2>2. ls \subseteq (1 .. Len(more)) \X Nat
    BY <1>2, <2>1
  <2>q. QED
    BY <1>2, <1>13, <1>14, <2>2 DEF LinesInOrder
<1>16. new \in [Host -> Seq(CleanJob)] /\ JobsInOrder(more, new)
  BY <1>10 DEF JobsMore
<1>17. Flow(more, new, nt, ls)
  BY <1>1, <1>2, <1>5, <1>15, <1>16 DEF Flow
<1>18. SameLines(ups, jbs, nt, new, nt)
  BY <1>13 DEF SameLines
<1>19. OldLines(ups, more, new, nt)
  BY <1>13 DEF OldLines
<1>q. QED
  BY <1>3, <1>17, <1>18, <1>19

--------------------------------------------------------------------------------
(* What a host holds, and what it wrote.                                        *)

\* Uploads may begin, and parts go on, or are lost.
Drained(ups, ln, L, more, ln2, L2) ==
  /\ Extends(more, ups)
  /\ \A i \in 1 .. Len(ups) :
       ln2[i] \subseteq ln[i] /\ L[i] \subseteq L2[i] /\ L2[i] \subseteq L[i] \cup ln[i]

\* The parts that are no longer in line to host g were lost.
NotTaken(ups, ln, ln2, L2, g) ==
  \A i \in 1 .. Len(ups) : ups[i].dst = g => ln[i] \subseteq ln2[i] \cup L2[i]

\* The elements of w, of its tail, and of w when something is appended.
LEMMA PlaceFacts ==
  ASSUME NEW w \in Places
  PROVE  /\ Len(w) \in Nat
         /\ \A x \in 1 .. Len(w) : w[x] \in Nat \X Nat /\ w[x][1] \in Nat /\ w[x][2] \in Nat
         /\ w # <<>> => /\ 1 \in 1 .. Len(w) /\ Len(w) \in 1 .. Len(w)
                        /\ Tail(w) \in Places /\ Len(Tail(w)) = Len(w) - 1
                        /\ \A x \in 1 .. Len(Tail(w)) :
                             x + 1 \in 1 .. Len(w) /\ Tail(w)[x] = w[x + 1]
<1>1. /\ Len(w) \in Nat
      /\ \A x \in 1 .. Len(w) : w[x] \in Nat \X Nat
  BY DEF Places
<1>2. \A x \in 1 .. Len(w) : w[x][1] \in Nat /\ w[x][2] \in Nat
  BY <1>1
<1>3. ASSUME w # <<>>
      PROVE  /\ 1 \in 1 .. Len(w) /\ Len(w) \in 1 .. Len(w)
             /\ Tail(w) \in Places /\ Len(Tail(w)) = Len(w) - 1
             /\ \A x \in 1 .. Len(Tail(w)) : x + 1 \in 1 .. Len(w) /\ Tail(w)[x] = w[x + 1]
  <2>1. /\ Tail(w) \in Seq(Nat \X Nat) /\ Len(Tail(w)) = Len(w) - 1
        /\ Len(w) \in Nat /\ Len(w) >= 1
        /\ \A x \in 1 .. Len(w) - 1 : x + 1 \in 1 .. Len(w) /\ Tail(w)[x] = w[x + 1]
    BY <1>3, TailElements DEF Places
  <2>q. QED
    BY <2>1 DEF Places
<1>q. QED
  BY <1>1, <1>2, <1>3

LEMMA CollectedStays ==
  ASSUME NEW n \in Nat, NEW w, NEW ln, NEW L, Collected(n, w, ln, L),
         NEW ln2, NEW L2, ln2 \subseteq ln, L \subseteq L2, L2 \subseteq L \cup ln,
         ln \subseteq ln2 \cup L2
  PROVE  Collected(n, w, ln2, L2)
<1>1. \A x \in 1 .. Len(w) : w[x][2] \in 0 .. n /\ w[x][2] \notin L2
  <2> SUFFICES ASSUME NEW x \in 1 .. Len(w) PROVE w[x][2] \in 0 .. n /\ w[x][2] \notin L2
    OBVIOUS
  <2>1. w[x][2] \in 0 .. n /\ w[x][2] \notin L /\ \A k \in ln : w[x][2] < k
    BY DEF Collected
  <2>2. w[x][2] \notin ln
    BY <2>1
  <2>q. QED
    BY <2>1, <2>2
<1>2. \A x \in 1 .. Len(w) : \A k \in ln2 : w[x][2] < k
  BY DEF Collected
<1>3. \A k \in 1 .. n : k \in ln2 \/ k \in L2 \/ \E x \in 1 .. Len(w) : w[x][2] = k
  BY DEF Collected
<1>q. QED
  BY <1>1, <1>2, <1>3 DEF Collected

LEMMA HeldStays ==
  ASSUME NEW g \in Host, NEW ups, NEW ln, NEW L, NEW w \in Places, NEW f, NEW at,
         HeldOK(g, ups, ln, L, w, f, at),
         NEW more, NEW ln2, NEW L2, Drained(ups, ln, L, more, ln2, L2),
         NotTaken(ups, ln, ln2, L2, g), \A i \in 1 .. Len(ups) : Len(ups[i].parts) \in Nat,
         NEW to, to = "write" <=> at = "write"
  PROVE  HeldOK(g, more, ln2, L2, w, f, to)
<1>1. \A i \in 1 .. Len(ups) : i \in 1 .. Len(more) /\ more[i] = ups[i]
  BY DEF Drained, Extends
<1>2. \A x \in 1 .. Len(w) : w[x][1] \in 1 .. Len(ups)
  BY DEF HeldOK
<1>3. \A x \in 1 .. Len(w) : w[x][1] \in 1 .. Len(more)
  BY <1>1, <1>2
<1>4. ASSUME NEW i \in 1 .. Len(more), From(w, i)
      PROVE  /\ more[i].dst = g
             /\ Collected(Len(more[i].parts), w, ln2[i], L2[i])
             /\ LastPart(w) < Len(more[i].parts) \/ to = "write" => Kept(more, f, i, w)
  <2>1. w # <<>> /\ i \in 1 .. Len(ups)
    <3>1. w # <<>> /\ 1 \in 1 .. Len(w)
      BY <1>4, PlaceFacts DEF From
    <3>q. QED
      BY <1>2, <1>4, <3>1 DEF From
  <2>2. more[i] = ups[i]
    BY <1>1, <2>1
  <2>3. /\ ups[i].dst = g
        /\ Collected(Len(ups[i].parts), w, ln[i], L[i])
        /\ LastPart(w) < Len(ups[i].parts) \/ at = "write" => Kept(ups, f, i, w)
    BY <1>4, <2>1 DEF HeldOK
  <2>4. /\ ln2[i] \subseteq ln[i] /\ L[i] \subseteq L2[i] /\ L2[i] \subseteq L[i] \cup ln[i]
        /\ ln[i] \subseteq ln2[i] \cup L2[i] /\ Len(ups[i].parts) \in Nat
    BY <2>1, <2>3 DEF Drained, NotTaken
  <2>5. Collected(Len(ups[i].parts), w, ln2[i], L2[i])
    BY <2>3, <2>4, CollectedStays
  <2>6. Kept(ups, f, i, w) => Kept(more, f, i, w)
    <3>1. \A x \in 1 .. Len(Tail(w)) : Tail(w)[x][1] \in 1 .. Len(ups)
      BY <1>2, <2>1, PlaceFacts
    <3>2. \A x \in 1 .. Len(Tail(w)) : more[Tail(w)[x][1]] = ups[Tail(w)[x][1]]
      BY <1>1, <3>1
    <3>3. Join(more, Tail(w)) = Join(ups, Tail(w))
      BY <3>2, JoinSame
    <3>q. QED
      BY <2>2, <3>3 DEF Kept
  <2>q. QED
    BY <2>2, <2>3, <2>5, <2>6
<1>5. to = "write" => w # <<>> /\ LastPart(w) = Len(more[w[Len(w)][1]].parts)
  <2> SUFFICES ASSUME to = "write"
               PROVE  w # <<>> /\ LastPart(w) = Len(more[w[Len(w)][1]].parts)
    OBVIOUS
  <2>1. w # <<>> /\ LastPart(w) = Len(ups[w[Len(w)][1]].parts)
    BY DEF HeldOK
  <2>2. Len(w) \in 1 .. Len(w)
    BY <2>1, PlaceFacts
  <2>3. more[w[Len(w)][1]] = ups[w[Len(w)][1]]
    BY <1>1, <1>2, <2>2
  <2>q. QED
    BY <2>1, <2>3
<1>q. QED
  BY <1>3, <1>4, <1>5 DEF HeldOK

LEMMA WrittenStays ==
  ASSUME NEW g, NEW ups, NEW ln, NEW L, NEW w \in Writing, WrittenOK(g, ups, ln, L, w),
         NEW more, NEW ln2, NEW L2, Drained(ups, ln, L, more, ln2, L2)
  PROVE  WrittenOK(g, more, ln2, L2, w)
<1> DEFINE i == w.parts[1][1]
           p == w.parts
<1>1. \A l \in 1 .. Len(ups) : l \in 1 .. Len(more) /\ more[l] = ups[l]
  BY DEF Drained, Extends
<1>2. p # <<>> /\ i \in 1 .. Len(ups) /\ p \in Places
  BY DEF WrittenOK, Writing
<1>3. i \in 1 .. Len(more) /\ more[i] = ups[i]
  BY <1>1, <1>2
<1>4. ASSUME From(p, i)
      PROVE  /\ Collected(Len(more[i].parts), p, {}, L2[i]) /\ ln2[i] = {}
             /\ w.name = more[i].name /\ w.content = Join(more, Tail(p))
  <2>1. /\ Collected(Len(ups[i].parts), p, {}, L[i]) /\ ln[i] = {}
        /\ w.name = ups[i].name /\ w.content = Join(ups, Tail(p))
    BY <1>4 DEF WrittenOK
  <2>2. ln2[i] = {} /\ L2[i] = L[i]
    <3>1. ln2[i] \subseteq ln[i] /\ L[i] \subseteq L2[i] /\ L2[i] \subseteq L[i] \cup ln[i]
      BY <1>2 DEF Drained
    <3>q. QED
      BY <2>1, <3>1
  <2>3. Join(more, Tail(p)) = Join(ups, Tail(p))
    <3>1. \A x \in 1 .. Len(Tail(p)) : Tail(p)[x][1] = i
      BY <1>2, <1>4, PlaceFacts DEF From
    <3>2. \A x \in 1 .. Len(Tail(p)) : more[Tail(p)[x][1]] = ups[Tail(p)[x][1]]
      BY <1>3, <3>1
    <3>q. QED
      BY <3>2, JoinSame
  <2>q. QED
    BY <1>3, <2>1, <2>2, <2>3
<1>q. QED
  BY <1>2, <1>3, <1>4 DEF WrittenOK

\* A START: only this upload counts from now on.
LEMMA HeldBegun ==
  ASSUME NEW h \in Host, NEW ups \in Seq(CleanUpload), AllCut(ups), NEW ln, NEW L,
         NEW i \in 1 .. Len(ups), i \in Nat, ups[i].dst = h, 0 \notin L[i],
         \A m \in ln[i] : 0 < m,
         \A m \in 1 .. Len(ups[i].parts) : m \in ln[i] \cup L[i],
         NEW f, f.name = ups[i].name, Contents(f) = <<>>, f.occ = 0,
         NEW w, w = <<<<i, 0>>>>
  PROVE  HeldOK(h, ups, ln, L, w, f, "top") /\ w \in Places
<1>1. /\ w \in Places /\ Len(w) = 1 /\ w[1] = <<i, 0>> /\ w # <<>>
      /\ 1 .. Len(w) = {1} /\ w[1][1] = i /\ w[1][2] = 0 /\ Tail(w) = <<>>
      /\ LastPart(w) = 0
  BY DEF Places, LastPart
<1>2. Cut(ups[i].content, ups[i].parts) /\ ups[i].content \in Seq(Byte)
      /\ ups[i].parts \in Seq(Seq(Byte)) /\ Len(ups[i].parts) \in Nat
  BY UploadFacts DEF AllCut
<1>3. Len(ups[i].parts) >= 1
  BY <1>2 DEF Cut
<1>4. Collected(Len(ups[i].parts), w, ln[i], L[i])
  BY <1>1, <1>3 DEF Collected
<1>5. Kept(ups, f, i, w)
  <2>1. UpTo(ups[i], 0) = 0
    <3>1. 0 \in 0 .. Len(ups[i].parts)
      BY <1>3
    <3>q. QED
      BY <1>2, <3>1, CutFits
  <2>2. Join(ups, <<>>) = <<>>
    <3>1. [x \in 1 .. Len(<<>>) |-> ups[<<>>[x][1]].parts[<<>>[x][2]]] = <<>>
      OBVIOUS
    <3>q. QED
      BY <3>1 DEF Join, FlattenSeq
  <2>q. QED
    BY <1>1, <2>1, <2>2 DEF Kept
<1>6. \A l \in 1 .. Len(ups) : From(w, l) => l = i
  BY <1>1 DEF From
<1>q. QED
  BY <1>1, <1>4, <1>5, <1>6 DEF HeldOK

\* Any other part of an upload.
LEMMA CollectedMore ==
  ASSUME NEW n \in Nat, NEW w \in Places, NEW ln, NEW L, Collected(n, w, ln, L),
         NEW k \in ln, k \in 0 .. n, k \notin L, NEW i \in Nat,
         NEW ln2, ln2 = ln \ {k}, \A m \in ln2 : k < m,
         NEW v, v = Append(w, <<i, k>>)
  PROVE  Collected(n, v, ln2, L)
<1>1. /\ Len(v) = Len(w) + 1 /\ Len(w) \in Nat
      /\ \A x \in 1 .. Len(w) : x \in 1 .. Len(v) /\ v[x] = w[x]
      /\ \A x \in 1 .. Len(v) : x \in 1 .. Len(w) \/ x = Len(v)
      /\ Len(v) \in 1 .. Len(v) /\ v[Len(v)] = <<i, k>>
  BY DEF Places
<1>2. \A x \in 1 .. Len(w) : w[x][2] \in 0 .. n /\ w[x][2] \notin L /\ w[x][2] < k
  BY DEF Collected
<1>3. v[Len(v)][2] = k
  BY <1>1
<1>4. ASSUME NEW x \in 1 .. Len(v), NEW y \in 1 .. Len(v), x < y PROVE v[x][2] < v[y][2]
  <2>1. x \in 1 .. Len(w)
    BY <1>1, <1>4
  <2>2. CASE y = Len(v)
    BY <1>1, <1>2, <1>3, <2>1, <2>2
  <2>3. CASE y \in 1 .. Len(w)
    <3>1. w[x][2] < w[y][2]
      BY <1>4, <2>1, <2>3 DEF Collected
    <3>q. QED
      BY <1>1, <2>1, <2>3, <3>1
  <2>q. QED
    BY <1>1, <2>2, <2>3
<1>5. ASSUME NEW x \in 1 .. Len(v)
      PROVE  v[x][2] \in 0 .. n /\ v[x][2] \notin L /\ \A m \in ln2 : v[x][2] < m
  <2>1. CASE x = Len(v)
    BY <1>3, <2>1
  <2>2. CASE x \in 1 .. Len(w)
    <3>1. \A m \in ln : w[x][2] < m
      BY <2>2 DEF Collected
    <3>q. QED
      BY <1>1, <1>2, <2>2, <3>1
  <2>q. QED
    BY <1>1, <2>1, <2>2
<1>6. ASSUME NEW m \in 1 .. n
      PROVE  m \in ln2 \/ m \in L \/ \E x \in 1 .. Len(v) : v[x][2] = m
  <2>1. m \in ln \/ m \in L \/ \E x \in 1 .. Len(w) : w[x][2] = m
    BY DEF Collected
  <2>2. CASE m = k
    BY <1>1, <1>3, <2>2
  <2>3. CASE \E x \in 1 .. Len(w) : w[x][2] = m
    BY <1>1, <2>3
  <2>q. QED
    BY <2>1, <2>2, <2>3
<1>q. QED
  BY <1>4, <1>5, <1>6 DEF Collected

LEMMA TailAppend ==
  ASSUME NEW S, NEW w \in Seq(S), w # <<>>, NEW e \in S
  PROVE  Tail(Append(w, e)) = Append(Tail(w), e)
<1> DEFINE a == Tail(Append(w, e))
           b == Append(Tail(w), e)
           n == Len(w)
<1>1. /\ n \in Nat /\ n >= 1 /\ Tail(w) \in Seq(S) /\ Len(Tail(w)) = n - 1
      /\ \A x \in 1 .. n - 1 : Tail(w)[x] = w[x + 1]
  OBVIOUS
<1>2. /\ a \in Seq(S) /\ Len(a) = n
      /\ \A x \in 1 .. n : a[x] = Append(w, e)[x + 1]
  OBVIOUS
<1>3. /\ b \in Seq(S) /\ Len(b) = n
      /\ \A x \in 1 .. n - 1 : b[x] = w[x + 1]
      /\ b[n] = e
  BY <1>1
<1>4. (\A x \in 1 .. n - 1 : Append(w, e)[x + 1] = w[x + 1])
      /\ \A x : x = n + 1 => Append(w, e)[x] = e
  OBVIOUS
<1>5. \A x \in 1 .. n : a[x] = b[x]
  <2> HIDE DEF a, b, n
  <2> SUFFICES ASSUME NEW x \in 1 .. n PROVE a[x] = b[x]
    OBVIOUS
  <2>1. CASE x = n
    BY <1>1, <1>2, <1>3, <1>4, <2>1
  <2>2. CASE x # n
    <3>1. x \in 1 .. n - 1
      BY <1>1, <2>2
    <3>2. a[x] = Append(w, e)[x + 1] /\ Append(w, e)[x + 1] = w[x + 1]
      BY <1>2, <1>4, <3>1, Zenon
    <3>3. b[x] = w[x + 1]
      BY <1>3, <3>1, Zenon
    <3>q. QED
      BY <3>2, <3>3, Zenon
  <2>q. QED
    BY <2>1, <2>2
<1> HIDE DEF a, b, n
<1>6. a = b
  BY <1>2, <1>3, <1>5
<1>q. QED
  BY <1>6 DEF a, b

\* The whole part fits into the buffer, behind those before it.
LEMMA KeptMore ==
  ASSUME NEW ups \in Seq(CleanUpload), AllCut(ups), NEW i \in 1 .. Len(ups), i \in Nat,
         NEW w \in Places, w # <<>>, \A x \in 1 .. Len(w) : w[x][1] = i,
         \A x \in 1 .. Len(Tail(w)) : Tail(w)[x][2] \in 1 .. Len(ups[i].parts),
         LastPart(w) \in 0 .. Len(ups[i].parts),
         NEW k \in 1 .. Len(ups[i].parts), LastPart(w) < k, k \in Nat,
         NEW f, Sound(f), Kept(ups, f, i, w)
  PROVE  Kept(ups, file_buf_add(f, ups[i].parts[k]), i, Append(w, <<i, k>>))
<1> DEFINE u == ups[i]
           string == u.parts[k]
           n == Least(Len(string), MAX_FILE_BUFFER - f.occ)
           g == file_buf_add(f, string)
           v == Append(w, <<i, k>>)
<1>1. /\ u.content \in Seq(Byte) /\ u.parts \in Seq(Seq(Byte)) /\ Cut(u.content, u.parts)
      /\ \A m \in 1 .. Len(u.parts) : u.parts[m] \in Seq(Byte)
  BY UploadFacts DEF AllCut
<1>2. string \in Seq(Byte) /\ Len(string) \in Nat
  BY <1>1
<1> HIDE DEF u
<1>3. /\ UpTo(u, LastPart(w)) \in 0 .. MAX_FILE_BUFFER
      /\ UpTo(u, LastPart(w)) + Len(string) <= UpTo(u, k)
  <2>1. LastPart(w) \in 0 .. Len(u.parts) /\ k \in 1 .. Len(u.parts)
    BY DEF u
  <2>q. QED
    BY <1>1, <2>1, CutFits
<1>4. UpTo(u, k) \in 0 .. MAX_FILE_BUFFER
  <2>1. k \in 0 .. Len(u.parts)
    BY DEF u
  <2>q. QED
    BY <1>1, <2>1, CutFits
<1>5. f.name = u.name /\ Contents(f) = Join(ups, Tail(w)) /\ f.occ <= UpTo(u, LastPart(w))
  BY DEF Kept, u
<1>6. f.occ \in 0 .. MAX_FILE_BUFFER
  BY SoundNumbers
<1> HIDE DEF string
<1>7. n = Len(string)
  <2> DEFINE a == UpTo(u, LastPart(w))
             b == UpTo(u, k)
             l == Len(string)
  <2>1. a \in Nat /\ b \in Nat /\ l \in Nat /\ b <= MAX_FILE_BUFFER /\ a + l <= b /\ f.occ <= a
        /\ MAX_FILE_BUFFER \in Nat /\ f.occ \in Nat
    BY <1>2, <1>3, <1>4, <1>5, <1>6, Sizes
  <2> HIDE DEF a, b, l
  <2>2. l <= MAX_FILE_BUFFER - f.occ
    BY <2>1
  <2>q. QED
    BY <2>2 DEF Least, l
<1>8. /\ g.name = f.name /\ g.occ = f.occ + n
      /\ Contents(g) = Contents(f) \o SubSeq(string, 1, n)
  BY <1>2, AddFields, AddAppends
<1> HIDE DEF g, n
<1>9. g.occ <= UpTo(u, k)
  BY <1>2, <1>3, <1>4, <1>5, <1>6, <1>7, <1>8
<1>10. Contents(g) = Join(ups, Tail(w)) \o string
  BY <1>2, <1>5, <1>7, <1>8
<1>11. Tail(v) = Append(Tail(w), <<i, k>>) /\ LastPart(v) = k
  <2>1. w \in Seq(Nat \X Nat) /\ <<i, k>> \in Nat \X Nat /\ Len(w) \in Nat
    BY DEF Places
  <2>2. Tail(v) = Append(Tail(w), <<i, k>>)
    BY <2>1, TailAppend
  <2>3. Len(v) = Len(w) + 1 /\ v[Len(v)] = <<i, k>>
    BY <2>1
  <2> HIDE DEF v
  <2>q. QED
    BY <2>2, <2>3 DEF LastPart
<1>12. Join(ups, Append(Tail(w), <<i, k>>)) = Join(ups, Tail(w)) \o string
  <2>1. Tail(w) \in Places
    BY PlaceFacts
  <2>2. \A x \in 1 .. Len(Tail(w)) : Tail(w)[x][1] = i /\ Tail(w)[x][2] \in 1 .. Len(u.parts)
    BY PlaceFacts DEF u
  <2>3. \A x \in 1 .. Len(Tail(w)) : ups[Tail(w)[x][1]].parts[Tail(w)[x][2]] \in Seq(Byte)
    BY <1>1, <2>2 DEF u
  <2>4. ups[i].parts[k] \in Seq(Byte)
    BY <1>2 DEF string, u
  <2>5. Join(ups, Append(Tail(w), <<i, k>>)) = Join(ups, Tail(w)) \o ups[i].parts[k]
    <3>1. PICK t \in Places : t = Tail(w)
      BY <2>1
    <3>2. \A x \in 1 .. Len(t) : ups[t[x][1]].parts[t[x][2]] \in Seq(Byte)
      BY <2>3, <3>1
    <3>3. Join(ups, Append(t, <<i, k>>)) = Join(ups, t) \o ups[i].parts[k]
      BY <2>4, <3>2, JoinAppend
    <3>q. QED
      BY <3>1, <3>3
  <2>q. QED
    BY <2>5 DEF string, u
<1>13. Kept(ups, g, i, v)
  BY <1>5, <1>8, <1>9, <1>10, <1>11, <1>12 DEF Kept, u
<1>q. QED
  BY <1>13 DEF g, v, string, u

LEMMA HeldMore ==
  ASSUME NEW h \in Host, NEW ups \in Seq(CleanUpload), AllCut(ups), NEW ln, NEW L,
         NEW w \in Places, NEW f, Sound(f), HeldOK(h, ups, ln, L, w, f, "execute"),
         NEW i \in 1 .. Len(ups), i \in Nat,
         NEW k \in 1 .. Len(ups[i].parts), k \in Nat, k \in ln[i], k \notin L[i],
         NEW ln2, ln2[i] = ln[i] \ {k}, \A m \in ln2[i] : k < m,
         NEW at, at = "write" => k = Len(ups[i].parts)
  PROVE  /\ HeldOK(h, ups, ln2, L, Append(w, <<i, k>>), file_buf_add(f, ups[i].parts[k]), at)
         /\ Append(w, <<i, k>>) \in Places
<1> DEFINE v == Append(w, <<i, k>>)
           g == file_buf_add(f, ups[i].parts[k])
           n == Len(ups[i].parts)
<1>1. /\ v \in Places /\ Len(v) = Len(w) + 1 /\ Len(w) \in Nat /\ v # <<>>
      /\ \A x \in 1 .. Len(w) : x \in 1 .. Len(v) /\ v[x] = w[x]
      /\ \A x \in 1 .. Len(v) : x \in 1 .. Len(w) \/ x = Len(v)
      /\ Len(v) \in 1 .. Len(v) /\ v[Len(v)] = <<i, k>>
  BY DEF Places
<1>2. LastPart(v) = k /\ v[Len(v)][1] = i
  BY <1>1 DEF LastPart
<1>3. n \in Nat
  BY UploadFacts
<1> HIDE DEF v, g
<1>4. \A x \in 1 .. Len(v) : v[x][1] \in 1 .. Len(ups)
  <2>1. \A x \in 1 .. Len(w) : w[x][1] \in 1 .. Len(ups)
    BY DEF HeldOK
  <2>q. QED
    BY <1>1, <1>2, <2>1
<1>5. ASSUME NEW l \in 1 .. Len(ups), From(v, l)
      PROVE  l = i /\ From(w, i)
  <2>1. l = i
    BY <1>1, <1>2, <1>5 DEF From
  <2>2. 1 \in 1 .. Len(v) /\ v[1][2] = 0
    BY <1>1, <1>5 DEF From
  <2>3. w # <<>>
    <3> SUFFICES ASSUME w = <<>> PROVE FALSE
      OBVIOUS
    <3>1. Len(v) = 1
      BY <1>1
    <3>2. v[1][2] = k
      BY <1>1, <3>1
    <3>q. QED
      BY <2>2, <3>2
  <2>4. 1 \in 1 .. Len(w)
    BY <2>3, PlaceFacts
  <2>5. \A x \in 1 .. Len(w) : w[x][1] = i
    BY <1>1, <1>5, <2>1 DEF From
  <2>6. w[1][2] = 0
    BY <1>1, <2>2, <2>4
  <2>q. QED
    BY <2>1, <2>3, <2>5, <2>6 DEF From
<1>6. ASSUME From(w, i)
      PROVE  ups[i].dst = h /\ Collected(n, v, ln2[i], L[i]) /\ Kept(ups, g, i, v)
  <2>1. /\ ups[i].dst = h
        /\ Collected(n, w, ln[i], L[i])
        /\ LastPart(w) < n => Kept(ups, f, i, w)
    BY <1>6 DEF HeldOK
  <2>2. Collected(n, v, ln2[i], L[i])
    <3>1. k \in 0 .. n
      BY <1>3
    <3> DEFINE a == ln[i]
               b == ln2[i]
               c == L[i]
    <3>2. b = a \ {k} /\ k \in a /\ k \notin c /\ (\A m \in b : k < m) /\ Collected(n, w, a, c)
      BY <2>1
    <3>3. v = Append(w, <<i, k>>)
      BY DEF v
    <3> HIDE DEF a, b, c, n
    <3>4. Collected(n, v, b, c)
      BY <1>3, <3>1, <3>2, <3>3, CollectedMore
    <3>q. QED
      BY <3>4 DEF a, b, c
  <2>3. w # <<>> /\ (\A x \in 1 .. Len(w) : w[x][1] = i) /\ w[1][2] = 0
    BY <1>6 DEF From
  <2>4. LastPart(w) < k /\ LastPart(w) \in 0 .. n
    <3>1. Len(w) \in 1 .. Len(w)
      BY <2>3, PlaceFacts
    <3>q. QED
      BY <2>1, <3>1 DEF Collected, LastPart
  <2>5. Kept(ups, f, i, w)
    BY <1>3, <2>1, <2>4
  <2>6. \A x \in 1 .. Len(Tail(w)) : Tail(w)[x][2] \in 1 .. n
    <3> SUFFICES ASSUME NEW x \in 1 .. Len(Tail(w)) PROVE Tail(w)[x][2] \in 1 .. n
      OBVIOUS
    <3>1. x + 1 \in 1 .. Len(w) /\ 1 \in 1 .. Len(w) /\ Tail(w)[x] = w[x + 1] /\ Len(Tail(w)) \in Nat
      BY <2>3, PlaceFacts
    <3>2. 1 < x + 1
      BY <3>1
    <3>3. w[1][2] < w[x + 1][2] /\ w[x + 1][2] \in 0 .. n
      BY <2>1, <3>1, <3>2 DEF Collected
    <3>4. Tail(w)[x][2] \in 0 .. n /\ 0 < Tail(w)[x][2]
      BY <2>3, <3>1, <3>3
    <3>q. QED
      BY <1>3, <3>4
  <2>7. Kept(ups, g, i, v)
    BY <2>3, <2>4, <2>5, <2>6, KeptMore DEF g, v
  <2>q. QED
    BY <2>1, <2>2, <2>7
<1>7. HeldOK(h, ups, ln2, L, v, g, at)
  <2>1. ASSUME NEW l \in 1 .. Len(ups), From(v, l)
        PROVE  /\ ups[l].dst = h
               /\ Collected(Len(ups[l].parts), v, ln2[l], L[l])
               /\ LastPart(v) < Len(ups[l].parts) \/ at = "write" => Kept(ups, g, l, v)
    BY <1>5, <1>6, <2>1
  <2>2. at = "write" => v # <<>> /\ LastPart(v) = Len(ups[v[Len(v)][1]].parts)
    BY <1>1, <1>2
  <2>q. QED
    BY <1>4, <2>1, <2>2 DEF HeldOK
<1>q. QED
  BY <1>1, <1>7 DEF v, g

\* The contents of the buffer are written.
LEMMA HeldWritten ==
  ASSUME NEW h \in Host, NEW ups \in Seq(CleanUpload), NEW ln, NEW L, NEW w \in Places,
         NEW f, HeldOK(h, ups, ln, L, w, f, "write"),
         \A i \in 1 .. Len(ups) : ln[i] \subseteq 0 .. Len(ups[i].parts),
         NEW r, r.name = f.name, r.content = Contents(f), r.parts = w, NEW g
  PROVE  WrittenOK(h, ups, ln, L, r) /\ HeldOK(h, ups, ln, L, w, g, "top")
<1>1. w # <<>> /\ LastPart(w) = Len(ups[w[Len(w)][1]].parts)
      /\ \A x \in 1 .. Len(w) : w[x][1] \in 1 .. Len(ups)
  BY DEF HeldOK
<1>2. 1 \in 1 .. Len(w) /\ Len(w) \in 1 .. Len(w)
  BY <1>1, PlaceFacts
<1>3. ASSUME NEW i \in 1 .. Len(ups), From(w, i)
      PROVE  /\ ups[i].dst = h
             /\ Collected(Len(ups[i].parts), w, ln[i], L[i])
             /\ Kept(ups, f, i, w) /\ LastPart(w) = Len(ups[i].parts) /\ ln[i] = {}
  <2>1. /\ ups[i].dst = h
        /\ Collected(Len(ups[i].parts), w, ln[i], L[i])
        /\ Kept(ups, f, i, w)
    BY <1>3 DEF HeldOK
  <2>2. LastPart(w) = Len(ups[i].parts)
    BY <1>1, <1>2, <1>3 DEF From
  <2>3. ln[i] = {}
    <3>1. \A k \in ln[i] : k \in 0 .. Len(ups[i].parts)
      OBVIOUS
    <3>2. \A k \in ln[i] : LastPart(w) < k
      BY <1>2, <2>1 DEF Collected, LastPart
    <3>3. Len(ups[i].parts) \in Nat
      BY UploadFacts
    <3>q. QED
      BY <2>2, <3>1, <3>2, <3>3
  <2>q. QED
    BY <2>1, <2>2, <2>3
<1>4. HeldOK(h, ups, ln, L, w, g, "top")
  <2>1. ASSUME NEW i \in 1 .. Len(ups), From(w, i)
        PROVE  /\ ups[i].dst = h
               /\ Collected(Len(ups[i].parts), w, ln[i], L[i])
               /\ ~(LastPart(w) < Len(ups[i].parts))
    <3>1. Len(ups[i].parts) \in Nat
      BY UploadFacts
    <3>q. QED
      BY <1>3, <2>1, <3>1
  <2>q. QED
    BY <1>1, <2>1 DEF HeldOK
<1>5. WrittenOK(h, ups, ln, L, r)
  <2>1. w[1][1] \in 1 .. Len(ups)
    BY <1>1, <1>2
  <2>2. ASSUME From(w, w[1][1])
        PROVE  /\ Collected(Len(ups[w[1][1]].parts), w, {}, L[w[1][1]]) /\ ln[w[1][1]] = {}
               /\ f.name = ups[w[1][1]].name
               /\ Contents(f) = Join(ups, Tail(w))
    BY <1>3, <2>1, <2>2 DEF Kept
  <2>q. QED
    BY <1>1, <2>1, <2>2 DEF WrittenOK
<1>q. QED
  BY <1>4, <1>5

\* Nothing changes for the hosts.
LEMMA HostsStay ==
  ASSUME NEW ups, NEW ln, NEW L, NEW hld, NEW bufs, NEW at, NEW wrt,
         HostsOK(ups, ln, L, hld, bufs, at, wrt),
         NEW more, NEW ln2, NEW L2, Drained(ups, ln, L, more, ln2, L2),
         \A g \in Host : NotTaken(ups, ln, ln2, L2, g),
         \A i \in 1 .. Len(ups) : Len(ups[i].parts) \in Nat,
         NEW to, \A g \in Host : to[g] = "write" <=> at[g] = "write"
  PROVE  HostsOK(more, ln2, L2, hld, bufs, to, wrt)
<1>1. hld \in [Host -> Places] /\ wrt \in [Host -> {<<>>} \cup Writing]
  BY DEF HostsOK
<1>2. ASSUME NEW g \in Host PROVE HeldOK(g, more, ln2, L2, hld[g], bufs[g], to[g])
  <2>1. HeldOK(g, ups, ln, L, hld[g], bufs[g], at[g]) /\ hld[g] \in Places
    BY <1>1 DEF HostsOK
  <2>q. QED
    BY <2>1, HeldStays
<1>3. ASSUME NEW g \in Host, wrt[g] # <<>> PROVE WrittenOK(g, more, ln2, L2, wrt[g])
  <2>1. WrittenOK(g, ups, ln, L, wrt[g]) /\ wrt[g] \in Writing
    BY <1>1, <1>3 DEF HostsOK
  <2>q. QED
    BY <2>1, WrittenStays
<1>q. QED
  BY <1>1, <1>2, <1>3 DEF HostsOK

\* One host receives or writes; the others stay.
LEMMA HostsBut ==
  ASSUME NEW ups, NEW ln, NEW L, NEW hld, NEW bufs, NEW at, NEW wrt,
         HostsOK(ups, ln, L, hld, bufs, at, wrt), NEW h \in Host,
         NEW ln2, Drained(ups, ln, L, ups, ln2, L),
         \A g \in Host : g # h => NotTaken(ups, ln, ln2, L, g),
         \A i \in 1 .. Len(ups) : Len(ups[i].parts) \in Nat,
         NEW hld2 \in [Host -> Places], NEW wrt2 \in [Host -> {<<>>} \cup Writing],
         NEW bufs2, NEW at2,
         \A g \in Host : g # h => /\ hld2[g] = hld[g] /\ wrt2[g] = wrt[g]
                                  /\ bufs2[g] = bufs[g] /\ at2[g] = at[g],
         HeldOK(h, ups, ln2, L, hld2[h], bufs2[h], at2[h]),
         wrt2[h] # wrt[h] => WrittenOK(h, ups, ln2, L, wrt2[h])
  PROVE  HostsOK(ups, ln2, L, hld2, bufs2, at2, wrt2)
<1>1. hld \in [Host -> Places] /\ wrt \in [Host -> {<<>>} \cup Writing]
  BY DEF HostsOK
<1>2. ASSUME NEW g \in Host PROVE HeldOK(g, ups, ln2, L, hld2[g], bufs2[g], at2[g])
  <2>1. HeldOK(g, ups, ln, L, hld[g], bufs[g], at[g]) /\ hld[g] \in Places
    BY <1>1 DEF HostsOK
  <2>2. ASSUME g # h PROVE HeldOK(g, ups, ln2, L, hld[g], bufs[g], at[g])
    <3>1. NotTaken(ups, ln, ln2, L, g)
      BY <2>2
    <3>q. QED
      BY <2>1, <3>1, HeldStays
  <2>q. QED
    BY <2>2
<1>3. ASSUME NEW g \in Host, wrt2[g] # <<>> PROVE WrittenOK(g, ups, ln2, L, wrt2[g])
  <2>1. CASE wrt2[g] = wrt[g]
    <3>1. WrittenOK(g, ups, ln, L, wrt[g]) /\ wrt[g] \in Writing
      BY <1>1, <1>3, <2>1 DEF HostsOK
    <3>2. WrittenOK(g, ups, ln2, L, wrt[g])
      BY <3>1, WrittenStays
    <3>q. QED
      BY <2>1, <3>2
  <2>2. CASE wrt2[g] # wrt[g]
    BY <2>2
  <2>q. QED
    BY <2>1, <2>2
<1>q. QED
  BY <1>2, <1>3 DEF HostsOK

\* Lines that are the same.
LEMMA SameDrained ==
  ASSUME NEW ups, Len(ups) \in Nat, NEW jbs, NEW nt, NEW ls, NEW new, NEW mov,
         SameLines(ups, jbs, nt, new, mov)
  PROVE  /\ Drained(ups, Lines(ups, jbs, nt), Losses(ups, ls),
                    ups, Lines(ups, new, mov), Losses(ups, ls))
         /\ \A g : NotTaken(ups, Lines(ups, jbs, nt), Lines(ups, new, mov), Losses(ups, ls), g)
BY DEF SameLines, Lines, Losses, Drained, NotTaken, Extends

--------------------------------------------------------------------------------
(* Every step keeps the parts in line.                                          *)

LEMMA CopyFacts ==
  ASSUME CopyInv
  PROVE  /\ CleanInv /\ Flow(uploads, jobs, net, lost) /\ AllCut(uploads)
         /\ HostsOK(uploads, Lines(uploads, jobs, net), Losses(uploads, lost),
                    held, f_buf_upload, scan, written)
         /\ Len(uploads) \in Nat /\ uploads \in Seq(CleanUpload)
         /\ \A i \in 1 .. Len(uploads) : Len(uploads[i].parts) \in Nat
<1>1. uploads \in Seq(CleanUpload)
  BY DEF CopyInv, CleanInv
<1>2. Len(uploads) \in Nat /\ \A i \in 1 .. Len(uploads) : Len(uploads[i].parts) \in Nat
  BY <1>1, UploadFacts
<1>q. QED
  BY <1>1, <1>2 DEF CopyInv

\* A step in which no part moves past the end of a queue to another place.
LEMMA CopyQuiet ==
  ASSUME CopyInv, CleanInv', uploads' = uploads, lost' = lost,
         Flow(uploads, jobs', net', lost), SameLines(uploads, jobs, net, jobs', net'),
         held' = held, written' = written, f_buf_upload' = f_buf_upload,
         \A g \in Host : scan'[g] = "write" <=> scan[g] = "write"
  PROVE  CopyInv'
<1> DEFINE ln == Lines(uploads, jobs, net)
           ln2 == Lines(uploads, jobs', net')
           L == Losses(uploads, lost)
<1>1. /\ AllCut(uploads) /\ HostsOK(uploads, ln, L, held, f_buf_upload, scan, written)
      /\ Len(uploads) \in Nat /\ \A i \in 1 .. Len(uploads) : Len(uploads[i].parts) \in Nat
  BY CopyFacts
<1>2. Drained(uploads, ln, L, uploads, ln2, L) /\ \A g : NotTaken(uploads, ln, ln2, L, g)
  BY <1>1, SameDrained
<1>3. HostsOK(uploads, ln2, L, held, f_buf_upload, scan', written)
  <2> HIDE DEF ln, ln2, L
  <2>1. \A g \in Host : NotTaken(uploads, ln, ln2, L, g)
    BY <1>2
  <2>q. QED
    BY <1>1, <1>2, <2>1, HostsStay
<1>q. QED
  BY <1>1, <1>3 DEF CopyInv

LEMMA GotoKeeps ==
  ASSUME CleanInv, NEW h \in Host, NEW from, NEW to, Goto(h, from, to),
         from # "write", to # "write"
  PROVE  \A g \in Host : scan'[g] = "write" <=> scan[g] = "write"
BY DEF CleanInv, Goto

\* The jobs of a command carry no part.
LEMMA CommandIdle ==
  ASSUME NEW h \in Host, NEW c \in CommandsOf(h) \cup {NoCommand}
  PROVE  /\ CommandJobs(h, c) \in Seq(CleanJob)
         /\ \A x \in 1 .. Len(CommandJobs(h, c)) : IdleJob(h, CommandJobs(h, c)[x])
<1> DEFINE q == CommandJobs(h, c)
<1>1. q \in Seq(CleanJob)
  BY CommandClean
<1>2. c.cmd \in {"none", "m", "u", "d"}
  BY CommandAssumption DEF CommandsOf, NoCommand, Command
<1>3. CASE c.cmd \in {"none", "m"}
  <2>1. q = <<>>
    BY <1>3 DEF CommandJobs
  <2>q. QED
    BY <1>1, <2>1
<1>4. ASSUME NEW j, q = <<j>>, IdleJob(h, j) PROVE \A x \in 1 .. Len(q) : IdleJob(h, q[x])
  <2>1. Len(q) = 1 /\ q[1] = j /\ 1 .. 1 = {1}
    BY <1>4
  <2> HIDE DEF q
  <2>q. QED
    BY <1>4, <2>1
<1>5. CASE c.cmd = "u"
  <2> DEFINE j == [type |-> "upload", name |-> c.name, dst |-> c.dst]
  <2>1. q = <<j>>
    BY <1>5 DEF CommandJobs
  <2>2. j \in CleanJob
    <3>1. Len(q) = 1 /\ q[1] = j
      BY <2>1
    <3> HIDE DEF q, j
    <3>q. QED
      BY <1>1, <3>1
  <2>3. IdleJob(h, j)
    BY <2>2 DEF IdleJob
  <2> HIDE DEF q, j
  <2>q. QED
    BY <1>1, <1>4, <2>1, <2>3 DEF q
<1>6. CASE c.cmd = "d"
  <2> DEFINE p == [type |-> "REQUEST", src |-> h, dst |-> c.dst, name |-> c.name]
             j == [type |-> "send", packet |-> p]
  <2>1. q = <<j>>
    BY <1>6 DEF CommandJobs
  <2>2. j \in CleanJob
    <3>1. Len(q) = 1 /\ q[1] = j
      BY <2>1
    <3> HIDE DEF q, j
    <3>q. QED
      BY <1>1, <3>1
  <2>3. IdleJob(h, j)
    BY <2>2 DEF IdleJob
  <2> HIDE DEF q, j
  <2>q. QED
    BY <1>1, <1>4, <2>1, <2>3 DEF q
<1>q. QED
  BY <1>1, <1>2, <1>3, <1>5, <1>6 DEF q

\* The first half of the loop: the jobs of the command are added, then those
\* of the packet.
LEMMA BeginFlow ==
  ASSUME CopyInv, NEW h \in Host, NEW c \in CommandsOf(h) \cup {NoCommand},
         NEW pollJobs, Begin(h, c, pollJobs)
  PROVE  \E mid :
           /\ Flow(uploads, mid, net, lost) /\ SameLines(uploads, jobs, net, mid, net)
           /\ jobs' = [mid EXCEPT ![h] = mid[h] \o pollJobs]
<1> DEFINE r == CommandJobs(h, c)
           mid == [jobs EXCEPT ![h] = jobs[h] \o r]
<1>1. r \in Seq(CleanJob) /\ \A x \in 1 .. Len(r) : IdleJob(h, r[x])
  BY CommandIdle
<1>2. jobs' = [jobs EXCEPT ![h] = (jobs[h] \o r) \o pollJobs]
  BY DEF Begin, Queue
<1> HIDE DEF r
<1>3. Flow(uploads, mid, net, lost) /\ SameLines(uploads, jobs, net, mid, net)
  BY <1>1, CopyFacts, FlowIdle
<1>4. jobs' = [mid EXCEPT ![h] = mid[h] \o pollJobs]
  BY <1>2 DEF CopyInv, CleanInv
<1>q. QED
  BY <1>3, <1>4

LEMMA SameTwice ==
  ASSUME NEW ups, NEW jbs, NEW nt, NEW mid, NEW new, NEW mov,
         SameLines(ups, jbs, nt, mid, nt), SameLines(ups, mid, nt, new, mov)
  PROVE  SameLines(ups, jbs, nt, new, mov)
BY DEF SameLines

LEMMA CopyBegin ==
  ASSUME CopyInv, CleanInv', NEW h \in Host, NEW c, NEW pollJobs, Begin(h, c, pollJobs),
         Flow(uploads, jobs', net', lost), SameLines(uploads, jobs, net, jobs', net')
  PROVE  CopyInv'
<1>1. /\ uploads' = uploads /\ lost' = lost /\ held' = held /\ written' = written
      /\ f_buf_upload' = f_buf_upload /\ Goto(h, "top", "execute")
  BY DEF Begin
<1>2. \A g \in Host : scan'[g] = "write" <=> scan[g] = "write"
  BY <1>1, GotoKeeps, CopyFacts
<1>q. QED
  BY <1>1, <1>2, CopyQuiet

LEMMA IterateCopies ==
  ASSUME CopyInv, NEW h \in Host, NEW c \in CommandsOf(h) \cup {NoCommand}, Iterate(h, c)
  PROVE  CopyInv'
<1>c. CleanInv'
  BY CopyFacts, IterateClean
<1>1. CASE PollNothing(h, c)
  <2>1. Begin(h, c, <<>>) /\ net' = net
    BY <1>1 DEF PollNothing
  <2>2. PICK mid :
          /\ Flow(uploads, mid, net, lost) /\ SameLines(uploads, jobs, net, mid, net)
          /\ jobs' = [mid EXCEPT ![h] = mid[h] \o <<>>]
    BY <2>1, BeginFlow
  <2>3. <<>> \in Seq(CleanJob) /\ \A x \in 1 .. Len(<<>>) : IdleJob(h, <<>>[x])
    OBVIOUS
  <2>4. Flow(uploads, jobs', net, lost) /\ SameLines(uploads, mid, net, jobs', net)
    BY <2>2, <2>3, FlowIdle
  <2>5. SameLines(uploads, jobs, net, jobs', net)
    BY <2>2, <2>4, SameTwice
  <2>q. QED
    BY <1>c, <2>1, <2>4, <2>5, CopyBegin
<1>2. ASSUME NEW from \in Host, PollFile(h, c, from) PROVE CopyInv'
  <2> DEFINE p == Head(net[<<from, h>>])
             j == [type |-> "receive", packet |-> p]
  <2>1. /\ net[<<from, h>>] # <<>> /\ p \in FilePacket
        /\ net' = [net EXCEPT ![<<from, h>>] = Tail(net[<<from, h>>])]
        /\ Begin(h, c, <<j>>)
    BY <1>2 DEF PollFile, Arrive
  <2>2. p.type # "REQUEST"
    BY <2>1 DEF FilePacket
  <2>3. PICK mid :
          /\ Flow(uploads, mid, net, lost) /\ SameLines(uploads, jobs, net, mid, net)
          /\ jobs' = [mid EXCEPT ![h] = mid[h] \o <<j>>]
    BY <2>1, BeginFlow
  <2> HIDE DEF p
  <2>4. Flow(uploads, jobs', net', lost) /\ SameLines(uploads, mid, net, jobs', net')
    BY <2>1, <2>2, <2>3, FlowArrive DEF p
  <2>5. SameLines(uploads, jobs, net, jobs', net')
    BY <2>3, <2>4, SameTwice
  <2> HIDE DEF j
  <2>q. QED
    BY <1>c, <2>1, <2>4, <2>5, CopyBegin
<1>3. ASSUME NEW from \in Host, PollRequest(h, c, from) PROVE CopyInv'
  <2>1. /\ net[<<from, h>>] # <<>> /\ Head(net[<<from, h>>]) \in RequestPacket
        /\ net' = [net EXCEPT ![<<from, h>>] = Tail(net[<<from, h>>])]
    BY <1>3 DEF PollRequest, Arrive
  <2>2. PICK name \in ReadAs[Head(net[<<from, h>>]).name] :
          Begin(h, c, <<[type |-> "upload", name |-> name, dst |-> from]>>)
    BY <1>3 DEF PollRequest
  <2>t. Head(net[<<from, h>>]).type = "REQUEST" /\ Head(net[<<from, h>>]).name \in Name
    BY <2>1 DEF RequestPacket
  <2>n. name \in Name
    BY <2>2, <2>t, TransferAssumption
  <2> DEFINE j == [type |-> "upload", name |-> name, dst |-> from]
             r == <<j>>
  <2>3. IdleJob(h, j)
    BY <2>n DEF IdleJob, CleanJob
  <2>b. Begin(h, c, r)
    BY <2>2
  <2> HIDE DEF j
  <2>4. r \in Seq(CleanJob) /\ \A x \in 1 .. Len(r) : IdleJob(h, r[x])
    <3>1. Len(r) = 1 /\ r[1] = j /\ 1 .. 1 = {1} /\ j \in CleanJob
      BY <2>3 DEF IdleJob
    <3>2. r \in Seq(CleanJob)
      BY <3>1
    <3> HIDE DEF r
    <3>q. QED
      BY <2>3, <3>1, <3>2
  <2> HIDE DEF r
  <2>5. PICK mid :
          /\ Flow(uploads, mid, net, lost) /\ SameLines(uploads, jobs, net, mid, net)
          /\ jobs' = [mid EXCEPT ![h] = mid[h] \o r]
    BY <2>b, BeginFlow
  <2>6. Flow(uploads, mid, net', lost) /\ SameLines(uploads, mid, net, mid, net')
    BY <2>1, <2>t, <2>5, FlowRequestGone
  <2>7. Flow(uploads, jobs', net', lost) /\ SameLines(uploads, mid, net', jobs', net')
    BY <2>4, <2>5, <2>6, FlowIdle
  <2>8. SameLines(uploads, jobs, net, jobs', net')
    BY <2>5, <2>6, <2>7 DEF SameLines
  <2>q. QED
    BY <1>c, <2>b, <2>7, <2>8, CopyBegin
<1>q. QED
  BY <1>1, <1>2, <1>3 DEF Iterate

LEMMA SendCopies ==
  ASSUME CopyInv, NEW h \in Host, ExecuteNothing(h) \/ ExecuteSend(h) \/ UploadNothing(h)
  PROVE  CopyInv'
<1>f. CleanInv /\ Flow(uploads, jobs, net, lost)
  BY CopyFacts
<1>1. CASE ExecuteNothing(h)
  <2>1. /\ uploads' = uploads /\ lost' = lost /\ held' = held /\ written' = written
        /\ f_buf_upload' = f_buf_upload /\ jobs' = jobs /\ net' = net
        /\ Goto(h, "execute", "top")
    BY <1>1 DEF ExecuteNothing
  <2>2. SameLines(uploads, jobs, net, jobs, net)
    BY DEF SameLines
  <2>3. CleanInv' /\ \A g \in Host : scan'[g] = "write" <=> scan[g] = "write"
    BY <1>1, <1>f, <2>1, NothingClean, GotoKeeps
  <2>q. QED
    BY <1>f, <2>1, <2>2, <2>3, CopyQuiet
<1>2. CASE ExecuteSend(h)
  <2> DEFINE j == Job1(h)
  <2>1. /\ uploads' = uploads /\ lost' = lost /\ held' = held /\ written' = written
        /\ f_buf_upload' = f_buf_upload /\ Goto(h, "execute", "top")
        /\ jobs[h] # <<>> /\ j.type = "send" /\ j = Head(jobs[h])
        /\ jobs' = [jobs EXCEPT ![h] = Tail(jobs[h])]
        /\ net' = [net EXCEPT ![<<h, j.packet.dst>>] =
                     Append(net[<<h, j.packet.dst>>], j.packet)]
    BY <1>2 DEF ExecuteSend, Take, Queue, Job1
  <2> HIDE DEF j
  <2>2. Flow(uploads, jobs', net', lost) /\ SameLines(uploads, jobs, net, jobs', net')
    BY <1>f, <2>1, FlowSend
  <2>3. CleanInv' /\ \A g \in Host : scan'[g] = "write" <=> scan[g] = "write"
    BY <1>2, <1>f, <2>1, SendClean, GotoKeeps
  <2>q. QED
    BY <2>1, <2>2, <2>3, CopyQuiet
<1>3. CASE UploadNothing(h)
  <2>1. /\ uploads' = uploads /\ lost' = lost /\ held' = held /\ written' = written
        /\ f_buf_upload' = f_buf_upload /\ net' = net /\ Goto(h, "execute", "top")
        /\ jobs[h] # <<>> /\ Head(jobs[h]).type = "upload"
        /\ jobs' = [jobs EXCEPT ![h] = Tail(jobs[h])]
    BY <1>3 DEF UploadNothing, Take, Queue, Job1
  <2>2. Flow(uploads, jobs', net, lost) /\ SameLines(uploads, jobs, net, jobs', net)
    BY <1>f, <2>1, FlowJobGone
  <2>3. CleanInv' /\ \A g \in Host : scan'[g] = "write" <=> scan[g] = "write"
    BY <1>3, <1>f, <2>1, NothingClean, GotoKeeps
  <2>q. QED
    BY <2>1, <2>2, <2>3, CopyQuiet
<1>q. QED
  BY <1>1, <1>2, <1>3

LEMMA FirstElement ==
  ASSUME NEW S, NEW q \in Seq(S), NEW a
  PROVE  /\ Len(<<a>> \o q) = Len(q) + 1 /\ (<<a>> \o q)[1] = a
         /\ \A y \in 1 .. Len(q) : (<<a>> \o q)[1 + y] = q[y]
<1>1. PICK T, f : /\ f \in Seq(T) /\ Len(f) = 1 /\ f[1] = a /\ f = <<a>>
                  /\ q \in Seq(T)
  <2>1. PICK T : a \in T /\ S \subseteq T
    <3>1. a \in S \cup {a} /\ S \subseteq S \cup {a}
      OBVIOUS
    <3>q. QED
      BY <3>1
  <2>2. <<a>> \in Seq(T) /\ Len(<<a>>) = 1 /\ <<a>>[1] = a
    BY <2>1
  <2>3. q \in Seq(T)
    BY <2>1
  <2>q. QED
    BY <2>2, <2>3
<1>2. /\ Len(f \o q) = Len(f) + Len(q) /\ Len(q) \in Nat
      /\ (\A x \in 1 .. Len(f) : (f \o q)[x] = f[x])
      /\ (\A y \in 1 .. Len(q) : (f \o q)[Len(f) + y] = q[y])
  <2>1. f \in Seq(T) /\ q \in Seq(T)
    BY <1>1
  <2>q. QED
    BY <2>1, BothElements
<1>3. 1 \in 1 .. Len(f)
  BY <1>1
<1>4. /\ Len(f \o q) = Len(q) + 1 /\ (f \o q)[1] = a
      /\ \A y \in 1 .. Len(q) : (f \o q)[1 + y] = q[y]
  BY <1>1, <1>2, <1>3
<1>q. QED
  BY <1>1, <1>4

\* The jobs of an upload send all its parts.
LEMMA UploadSends ==
  ASSUME NEW h \in Host, NEW parts \in Seq(Seq(Clean)), Len(parts) >= 1,
         Len(uploads) \in Nat, NEW i, i = Len(uploads) + 1,
         NEW more, Len(more) = i,
         more[i].src = h, more[i].dst = Job1(h).dst, more[i].name = Job1(h).name,
         more[i].parts = parts
  PROVE  SendsAll(more, i, UploadJobs(h, parts))
<1> DEFINE n == Len(parts)
           Type(k) == IF k < n THEN "MIDDLE" ELSE "END"
           Part(type, payload, k) ==
             [type |-> "send",
              packet |-> [type |-> type, src |-> h, dst |-> Job1(h).dst,
                          payload |-> payload, upload |-> i, part |-> k]]
           rest == [k \in 1 .. n |-> Part(Type(k), parts[k], k)]
           start == Part("START", Job1(h).name, 0)
           r == UploadJobs(h, parts)
           All(j, k) == /\ j.type = "send" /\ j.packet.type # "REQUEST"
                        /\ j.packet.upload = i /\ j.packet.part = k
                        /\ Genuine(more, j.packet)
<1>1. n \in Nat /\ n >= 1 /\ i \in Nat /\ i \in 1 .. i
  OBVIOUS
<1>2. r = <<start>> \o rest
  BY DEF UploadJobs
<1>3. ASSUME NEW type \in {"START", "MIDDLE", "END"}, NEW payload, NEW k \in 0 .. n,
             type = IF k = 0 THEN "START" ELSE IF k < n THEN "MIDDLE" ELSE "END",
             payload = IF k = 0 THEN Job1(h).name ELSE parts[k]
      PROVE  All(Part(type, payload, k), k)
  <2> DEFINE p == [type |-> type, src |-> h, dst |-> Job1(h).dst,
                   payload |-> payload, upload |-> i, part |-> k]
  <2>1. /\ p.type = type /\ p.src = h /\ p.dst = Job1(h).dst /\ p.payload = payload
        /\ p.upload = i /\ p.part = k
    OBVIOUS
  <2> HIDE DEF p
  <2>2. Genuine(more, p)
    BY <1>1, <1>3, <2>1 DEF Genuine
  <2>3. All([type |-> "send", packet |-> p], k)
    BY <1>3, <2>1, <2>2
  <2>q. QED
    BY <2>3 DEF p
<1>4. All(start, 0)
  <2>1. 0 \in 0 .. n
    BY <1>1
  <2> HIDE DEF All, Part
  <2>q. QED
    BY <1>3, <2>1
<1>5. ASSUME NEW k \in 1 .. n PROVE All(rest[k], k)
  <2>1. k \in 0 .. n /\ k # 0
    BY <1>1
  <2>2. Type(k) \in {"START", "MIDDLE", "END"}
        /\ Type(k) = (IF k = 0 THEN "START" ELSE IF k < n THEN "MIDDLE" ELSE "END")
    BY <2>1
  <2>3. rest[k] = Part(Type(k), parts[k], k)
    OBVIOUS
  <2> HIDE DEF All, Part, Type, rest
  <2>4. All(Part(Type(k), parts[k], k), k)
    BY <1>3, <2>1, <2>2
  <2>q. QED
    BY <2>3, <2>4
<1>6. Len(r) = n + 1 /\ r[1] = start /\ \A x \in 1 .. n + 1 : x # 1 => r[x] = rest[x - 1]
  <2>1. rest \in Seq({Part(Type(k), parts[k], k) : k \in 1 .. n}) /\ Len(rest) = n
    <3> DEFINE S == {Part(Type(k), parts[k], k) : k \in 1 .. n}
    <3>1. rest \in [1 .. n -> S]
      OBVIOUS
    <3> HIDE DEF rest, S
    <3>q. QED
      BY <1>1, <3>1, FunctionSeq DEF S
  <2>2. PICK S : rest \in Seq(S) /\ Len(rest) = n
    BY <2>1
  <2> HIDE DEF rest, start, r, n
  <2>4. /\ Len(<<start>> \o rest) = Len(rest) + 1
        /\ (<<start>> \o rest)[1] = start
        /\ \A y \in 1 .. Len(rest) : (<<start>> \o rest)[1 + y] = rest[y]
    BY <2>2, FirstElement
  <2>6. Len(r) = 1 + n /\ r[1] = start /\ \A y \in 1 .. n : r[1 + y] = rest[y]
    BY <1>1, <1>2, <2>2, <2>4
  <2>7. ASSUME NEW x \in 1 .. n + 1, x # 1 PROVE r[x] = rest[x - 1]
    <3>1. PICK y \in 1 .. n : x = 1 + y /\ y = x - 1
      BY <1>1, <2>7
    <3>q. QED
      BY <2>6, <3>1
  <2>q. QED
    BY <1>1, <2>6, <2>7
<1> HIDE DEF All, rest, start, r
<1>7. \A x \in 1 .. Len(r) : All(r[x], x - 1)
  <2> SUFFICES ASSUME NEW x \in 1 .. Len(r) PROVE All(r[x], x - 1)
    OBVIOUS
  <2>1. CASE x = 1
    BY <1>4, <1>6, <2>1
  <2>2. CASE x # 1
    <3>1. x - 1 \in 1 .. n /\ x \in 1 .. n + 1
      BY <1>1, <1>6, <2>2
    <3>2. r[x] = rest[x - 1]
      BY <1>6, <2>2, <3>1
    <3>q. QED
      BY <1>5, <3>1, <3>2
  <2>q. QED
    BY <2>1, <2>2
<1>8. Len(r) = Len(more[i].parts) + 1
  BY <1>6
<1>9. SendsAll(more, i, r)
  BY <1>7, <1>8 DEF SendsAll, All
<1>q. QED
  BY <1>9 DEF r

LEMMA UploadCopies ==
  ASSUME CopyInv, NEW h \in Host, Upload(h)
  PROVE  CopyInv'
<1> DEFINE parts == Split(FileRead(h))
           content == FileRead(h)
           u == [src |-> h, dst |-> Job1(h).dst, name |-> Job1(h).name,
                 content |-> content, parts |-> parts]
           i == Len(uploads) + 1
           r == UploadJobs(h, parts)
           mid == [jobs EXCEPT ![h] = Tail(jobs[h])]
<1>1. /\ Take(h, "upload") /\ Job1(h).name \in Readable(h) /\ Goto(h, "execute", "top")
      /\ uploads' = Append(uploads, u) /\ jobs' = [jobs EXCEPT ![h] = Tail(jobs[h]) \o r]
      /\ lost' = lost /\ net' = net /\ held' = held /\ written' = written
      /\ f_buf_upload' = f_buf_upload
      /\ jobs[h] # <<>> /\ Head(jobs[h]).type = "upload"
  BY DEF Upload, Take, Queue, Job1
<1>2. /\ CleanInv /\ Flow(uploads, jobs, net, lost) /\ AllCut(uploads)
      /\ HostsOK(uploads, Lines(uploads, jobs, net), Losses(uploads, lost),
                 held, f_buf_upload, scan, written)
      /\ Len(uploads) \in Nat /\ uploads \in Seq(CleanUpload)
      /\ \A l \in 1 .. Len(uploads) : Len(uploads[l].parts) \in Nat
  BY CopyFacts
<1>3. Job1(h).name \in Name /\ Job1(h).dst \in Host
  BY <1>1, <1>2, TakeClean DEF CleanJob
<1>4. /\ content \in Seq(Clean) /\ Len(content) <= MAX_FILE_BUFFER
      /\ parts \in Seq(Seq(Clean)) /\ content \in Seq(Byte)
  BY <1>1, <1>2, ReadClean, SplitClean, CleanBytes
<1>5. Cut(content, parts)
  BY <1>4, SplitCut
<1>6. Len(parts) >= 1
  BY <1>5 DEF Cut
<1> HIDE DEF parts, content
<1>7. /\ u \in CleanUpload /\ u.src = h /\ u.dst = Job1(h).dst /\ u.name = Job1(h).name
      /\ u.content = content /\ u.parts = parts
  BY <1>3, <1>4, CleanBytes DEF CleanUpload
<1> HIDE DEF u
<1>8. /\ Len(uploads') = i /\ uploads'[i] = u
      /\ \A l \in 1 .. Len(uploads') : (l \in 1 .. Len(uploads) /\ uploads'[l] = uploads[l]) \/ l = i
  BY <1>1, <1>2
<1>9. SendsAll(uploads', i, r)
  <2>1. PICK more : more = uploads'
    OBVIOUS
  <2>2. SendsAll(more, i, r)
    BY <1>2, <1>4, <1>6, <1>7, <1>8, <2>1, UploadSends
  <2>q. QED
    BY <2>1, <2>2
<1>10. r \in Seq(CleanJob)
  BY <1>2, <1>3, <1>4, UploadJobsClean
<1> HIDE DEF r
<1>11. Flow(uploads, mid, net, lost) /\ SameLines(uploads, jobs, net, mid, net)
  BY <1>1, <1>2, FlowJobGone
<1>12. jobs' = [mid EXCEPT ![u.src] = mid[u.src] \o r]
  BY <1>1, <1>2, <1>7 DEF CleanInv
<1> HIDE DEF mid
<1>13. /\ Flow(uploads', jobs', net, lost) /\ SameLines(uploads, mid, net, jobs', net)
       /\ Extends(uploads', uploads)
       /\ OldLines(uploads, uploads', jobs', net)
  <2>1. Begins(uploads, mid, u, r, uploads', jobs')
    BY <1>1, <1>7, <1>9, <1>10, <1>12 DEF Begins
  <2>q. QED
    BY <1>11, <2>1, FlowUpload
<1>14. SameLines(uploads, jobs, net, jobs', net)
  BY <1>11, <1>13, SameTwice
<1>15. AllCut(uploads')
  BY <1>2, <1>5, <1>7, <1>8 DEF AllCut
<1> DEFINE ln == Lines(uploads, jobs, net)
           ln2 == Lines(uploads', jobs', net)
           L == Losses(uploads, lost)
           L2 == Losses(uploads', lost)
<1>16. \A l \in 1 .. Len(uploads) : ln2[l] = ln[l] /\ L2[l] = L[l]
  BY <1>13, <1>14 DEF SameLines, OldLines, Lines, Losses, Extends
<1>17. Drained(uploads, ln, L, uploads', ln2, L2) /\ \A g \in Host : NotTaken(uploads, ln, ln2, L2, g)
  <2> HIDE DEF ln, ln2, L, L2
  <2>q. QED
    BY <1>13, <1>16 DEF Drained, NotTaken
<1>18. \A g \in Host : scan'[g] = "write" <=> scan[g] = "write"
  BY <1>1, <1>2, GotoKeeps
<1>19. HostsOK(uploads', ln2, L2, held, f_buf_upload, scan', written)
  <2> HIDE DEF ln, ln2, L2
  <2>1. HostsOK(uploads, ln, L, held, f_buf_upload, scan, written)
    BY <1>2 DEF ln
  <2> HIDE DEF L
  <2>q. QED
    BY <1>2, <1>17, <1>18, <2>1, HostsStay
<1>20. CleanInv'
  BY <1>2, UploadClean
<1>q. QED
  BY <1>1, <1>13, <1>15, <1>19, <1>20 DEF CopyInv

LEMMA LoseCopies ==
  ASSUME CopyInv, NEW from \in Host, NEW to \in Host, Lose(from, to)
  PROVE  CopyInv'
<1> DEFINE p == Head(net[<<from, to>>])
<1>1. /\ net[<<from, to>>] # <<>> /\ p \in FilePacket
      /\ lost' = lost \cup {<<p.upload, p.part>>}
      /\ net' = [net EXCEPT ![<<from, to>>] = Tail(net[<<from, to>>])]
      /\ jobs' = jobs /\ scan' = scan /\ f_buf_upload' = f_buf_upload
      /\ uploads' = uploads /\ held' = held /\ written' = written
  BY DEF Lose, local
<1>2. /\ CleanInv /\ Flow(uploads, jobs, net, lost) /\ AllCut(uploads)
      /\ HostsOK(uploads, Lines(uploads, jobs, net), Losses(uploads, lost),
                 held, f_buf_upload, scan, written)
      /\ Len(uploads) \in Nat
      /\ \A l \in 1 .. Len(uploads) : Len(uploads[l].parts) \in Nat
  BY CopyFacts
<1>3. p.type # "REQUEST"
  BY <1>1 DEF FilePacket
<1> DEFINE ln == Lines(uploads, jobs, net)
           ln2 == Lines(uploads, jobs, net')
           L == Losses(uploads, lost)
           L2 == Losses(uploads, lost')
<1>4. /\ Flow(uploads, jobs, net', lost')
      /\ Ebb(uploads, jobs, net, lost, net', lost')
  BY <1>1, <1>2, <1>3, FlowLose
<1>5. Drained(uploads, ln, L, uploads, ln2, L2)
  BY <1>2, <1>4 DEF Ebb, Drained, Lines, Losses, Extends
<1>6. \A g \in Host : NotTaken(uploads, ln, ln2, L2, g)
  BY <1>4 DEF Ebb, NotTaken, Lines, Losses
<1>7. HostsOK(uploads, ln2, L2, held, f_buf_upload, scan, written)
  <2> HIDE DEF ln, ln2, L2
  <2>1. HostsOK(uploads, ln, L, held, f_buf_upload, scan, written)
    BY <1>2 DEF ln
  <2> HIDE DEF L
  <2>q. QED
    BY <1>2, <1>5, <1>6, <2>1, HostsStay
<1>8. CleanInv'
  BY <1>2, LoseClean
<1>q. QED
  BY <1>1, <1>2, <1>4, <1>7, <1>8 DEF CopyInv

\* What a part that is received does to the lines.
Taken(ups, ln, L, ln2, h, i, k) ==
  /\ Drained(ups, ln, L, ups, ln2, L)
  /\ \A g \in Host : g # h => NotTaken(ups, ln, ln2, L, g)
  /\ ups[i].dst = h /\ i \in 1 .. Len(ups) /\ i \in Nat
  /\ k \in 0 .. Len(ups[i].parts)
  /\ k \in ln[i] /\ k \notin L[i] /\ ln2[i] = ln[i] \ {k}
  /\ \A m \in ln2[i] : k < m
  /\ \A m \in k + 1 .. Len(ups[i].parts) : m \in ln2[i] \cup L[i]

LEMMA TakenLines ==
  ASSUME NEW ups, NEW jbs, NEW nt, NEW ls, Len(ups) \in Nat, NEW h, NEW p, NEW new,
         Received(ups, jbs, nt, ls, h, p, new)
  PROVE  Taken(ups, Lines(ups, jbs, nt), Losses(ups, ls), Lines(ups, new, nt),
               h, p.upload, p.part)
<1>0. PICK ln, ln2, L, i, k :
        /\ ln = Lines(ups, jbs, nt) /\ ln2 = Lines(ups, new, nt)
        /\ L = Losses(ups, ls) /\ i = p.upload /\ k = p.part
  OBVIOUS
<1>1. /\ i \in 1 .. Len(ups) /\ i \in Nat /\ k \in 0 .. Len(ups[i].parts)
      /\ ups[i].dst = h
      /\ \A l \in 1 .. Len(ups) : l # i => Line(ups, new, nt, l) = Line(ups, jbs, nt, l)
      /\ Line(ups, new, nt, i) = Line(ups, jbs, nt, i) \ {k}
      /\ k \in Line(ups, jbs, nt, i) /\ k \notin LostOf(ls, i)
      /\ \A m \in Line(ups, new, nt, i) : k < m
      /\ \A m \in k + 1 .. Len(ups[i].parts) : m \in Line(ups, new, nt, i) \cup LostOf(ls, i)
  BY <1>0 DEF Received
<1>2. \A l \in 1 .. Len(ups) :
        /\ ln[l] = Line(ups, jbs, nt, l) /\ ln2[l] = Line(ups, new, nt, l)
        /\ L[l] = LostOf(ls, l)
  BY <1>0 DEF Lines, Losses
<1>3. /\ \A l \in 1 .. Len(ups) : l # i => ln2[l] = ln[l]
      /\ ln2[i] = ln[i] \ {k}
  BY <1>1, <1>2
<1>4. Extends(ups, ups)
  BY DEF Extends
<1>5. Drained(ups, ln, L, ups, ln2, L)
  <2> SUFFICES ASSUME NEW l \in 1 .. Len(ups) PROVE ln2[l] \subseteq ln[l]
    BY <1>4 DEF Drained
  <2>q. QED
    BY <1>3
<1>6. ASSUME NEW g \in Host, g # h PROVE NotTaken(ups, ln, ln2, L, g)
  <2> SUFFICES ASSUME NEW l \in 1 .. Len(ups), ups[l].dst = g
               PROVE  ln[l] \subseteq ln2[l] \cup L[l]
    BY DEF NotTaken
  <2>1. l # i
    BY <1>1, <1>6
  <2>q. QED
    BY <1>3, <2>1
<1>7. Taken(ups, ln, L, ln2, h, i, k)
  BY <1>1, <1>2, <1>3, <1>5, <1>6 DEF Taken
<1>q. QED
  BY <1>0, <1>7

LEMMA ReceiveFacts ==
  ASSUME CopyInv, NEW h \in Host, NEW type \in {"START", "MIDDLE", "END"}, Receive(h, type)
  PROVE  /\ Flow(uploads, jobs', net, lost)
         /\ Received(uploads, jobs, net, lost, h, Job1(h).packet, jobs')
         /\ Job1(h).packet.type = type
         /\ uploads' = uploads /\ net' = net /\ lost' = lost /\ written' = written
<1>1. /\ jobs[h] # <<>> /\ Job1(h) = Head(jobs[h])
      /\ Job1(h).type = "receive" /\ Job1(h).packet.type = type
      /\ jobs' = [jobs EXCEPT ![h] = Tail(jobs[h])]
      /\ uploads' = uploads /\ net' = net /\ lost' = lost /\ written' = written
  BY DEF Receive, Take, Queue, Job1
<1>2. Job1(h).packet.type # "REQUEST"
  BY <1>1
<1>3. Flow(uploads, jobs, net, lost)
  BY CopyFacts
<1>4. PICK j : j = Job1(h)
  OBVIOUS
<1>5. Flow(uploads, jobs', net, lost)
      /\ Received(uploads, jobs, net, lost, h, j.packet, jobs')
  BY <1>1, <1>2, <1>3, <1>4, FlowTake
<1>q. QED
  BY <1>1, <1>4, <1>5

\* Host h receives part p; then it holds w in buffer b.
LEMMA ReceivedCopies ==
  ASSUME CopyInv, CleanInv', NEW h \in Host, NEW p,
         Flow(uploads, jobs', net, lost), Received(uploads, jobs, net, lost, h, p, jobs'),
         uploads' = uploads, net' = net, lost' = lost, written' = written,
         NEW w \in Places, held' = [held EXCEPT ![h] = w],
         NEW b, f_buf_upload' = [f_buf_upload EXCEPT ![h] = b],
         NEW to, scan' = [scan EXCEPT ![h] = to],
         HeldOK(h, uploads, Lines(uploads, jobs', net), Losses(uploads, lost), w, b, to)
  PROVE  CopyInv'
<1> DEFINE ln == Lines(uploads, jobs, net)
           ln2 == Lines(uploads, jobs', net)
           L == Losses(uploads, lost)
<1>1. /\ CleanInv /\ AllCut(uploads) /\ Len(uploads) \in Nat
      /\ HostsOK(uploads, ln, L, held, f_buf_upload, scan, written)
      /\ \A i \in 1 .. Len(uploads) : Len(uploads[i].parts) \in Nat
  BY CopyFacts
<1>2. /\ held \in [Host -> Places] /\ written \in [Host -> {<<>>} \cup Writing]
      /\ DOMAIN scan = Host /\ DOMAIN f_buf_upload = Host
  BY <1>1 DEF HostsOK, CleanInv
<1>3. /\ held' \in [Host -> Places] /\ held'[h] = w /\ f_buf_upload'[h] = b /\ scan'[h] = to
      /\ \A g \in Host : g # h => /\ held'[g] = held[g] /\ f_buf_upload'[g] = f_buf_upload[g]
                                  /\ scan'[g] = scan[g]
  BY <1>2
<1>4. Drained(uploads, ln, L, uploads, ln2, L)
      /\ \A g \in Host : g # h => NotTaken(uploads, ln, ln2, L, g)
  <2>1. Taken(uploads, ln, L, ln2, h, p.upload, p.part)
    BY <1>1, TakenLines
  <2>q. QED
    BY <2>1 DEF Taken
<1>5. HeldOK(h, uploads, ln2, L, held'[h], f_buf_upload'[h], scan'[h])
  BY <1>3
<1> HIDE DEF ln, ln2, L
<1>6. HostsOK(uploads, ln2, L, held', f_buf_upload', scan', written)
  <2>1. PICK hld2, bufs2, at2 : hld2 = held' /\ bufs2 = f_buf_upload' /\ at2 = scan'
    OBVIOUS
  <2>2. /\ hld2 \in [Host -> Places]
        /\ \A g \in Host : g # h => /\ hld2[g] = held[g] /\ written[g] = written[g]
                                    /\ bufs2[g] = f_buf_upload[g] /\ at2[g] = scan[g]
        /\ HeldOK(h, uploads, ln2, L, hld2[h], bufs2[h], at2[h])
    BY <1>3, <1>5, <2>1
  <2>3. HostsOK(uploads, ln2, L, hld2, bufs2, at2, written)
    BY <1>1, <1>2, <1>4, <2>2, HostsBut
  <2>q. QED
    BY <2>1, <2>3
<1>q. QED
  BY <1>1, <1>6 DEF CopyInv, ln2, L

\* The buffer after a START.
LEMMA BegunBuffer ==
  ASSUME NEW f \in FileBuffer, NEW name \in Seq(Byte)
  PROVE  /\ Begun(f, name).name = name /\ Begun(f, name).occ = 0
         /\ Contents(Begun(f, name)) = <<>>
<1> DEFINE b == Begun(f, name)
<1>1. b.name = name /\ b.occ = 0
  BY DEF Begun, file_buf_put_name, file_buf_init, FileBuffer
<1> HIDE DEF b
<1>2. Contents(b) = <<>>
  BY <1>1 DEF Contents
<1>q. QED
  BY <1>1, <1>2 DEF b

LEMMA StartCopies ==
  ASSUME CopyInv, NEW h \in Host, ReceiveStart(h)
  PROVE  CopyInv'
<1> DEFINE p == Job1(h).packet
           f == f_buf_upload[h]
           b == Begun(f, p.payload)
           ln == Lines(uploads, jobs, net)
           ln2 == Lines(uploads, jobs', net)
           L == Losses(uploads, lost)
<1>1. /\ Receive(h, "START") /\ Goto(h, "execute", "top")
      /\ f_buf_upload' = [f_buf_upload EXCEPT ![h] = b]
      /\ held' = [held EXCEPT ![h] = <<<<p.upload, p.part>>>>]
  BY DEF ReceiveStart, Part1
<1>2. /\ Flow(uploads, jobs', net, lost)
      /\ Received(uploads, jobs, net, lost, h, p, jobs')
      /\ p.type = "START"
      /\ uploads' = uploads /\ net' = net /\ lost' = lost /\ written' = written
  BY <1>1, ReceiveFacts
<1>3. CleanInv' /\ p.payload \in Seq(Byte) /\ f \in FileBuffer
  BY <1>1, CopyFacts, ReceivePartClean, ReceiveClean, CleanBytes DEF CleanBuffer
<1>4. b.name = p.payload /\ b.occ = 0 /\ Contents(b) = <<>>
  BY <1>3, BegunBuffer
<1>5. PICK i, k : i = p.upload /\ k = p.part
  OBVIOUS
<1>6. Genuine(uploads, p) /\ p.type # "REQUEST"
  BY <1>2 DEF Received
<1>7. k = 0 /\ p.payload = uploads[i].name
  BY <1>2, <1>5, <1>6 DEF Genuine
<1> HIDE DEF p, f, b, ln, ln2, L
<1>8. /\ uploads[i].dst = h /\ i \in 1 .. Len(uploads) /\ i \in Nat
      /\ k \notin L[i] /\ (\A m \in ln2[i] : k < m)
      /\ \A m \in k + 1 .. Len(uploads[i].parts) : m \in ln2[i] \cup L[i]
  <2>1. Taken(uploads, ln, L, ln2, h, i, k)
    BY <1>2, <1>5, CopyFacts, TakenLines DEF ln, ln2, L
  <2>q. QED
    BY <2>1 DEF Taken
<1>9. \A m \in 1 .. Len(uploads[i].parts) : m \in ln2[i] \cup L[i]
  BY <1>7, <1>8
<1>10. PICK w : w = <<<<i, 0>>>>
  OBVIOUS
<1>11. HeldOK(h, uploads, ln2, L, w, b, "top") /\ w \in Places
  <2>1. AllCut(uploads) /\ uploads \in Seq(CleanUpload)
    BY CopyFacts
  <2>2. 0 \notin L[i] /\ (\A m \in ln2[i] : 0 < m) /\ b.name = uploads[i].name
    BY <1>4, <1>7, <1>8
  <2>q. QED
    BY <1>4, <1>8, <1>9, <1>10, <2>1, <2>2, HeldBegun
<1>12. /\ held' = [held EXCEPT ![h] = w] /\ scan' = [scan EXCEPT ![h] = "top"]
  BY <1>1, <1>5, <1>7, <1>10 DEF Goto
<1>q. QED
  BY <1>1, <1>2, <1>3, <1>11, <1>12, ReceivedCopies DEF ln2, L

\* A part of the contents, after which h goes to this place of its loop.
LEMMA CollectCopies ==
  ASSUME CopyInv, CleanInv', NEW h \in Host, NEW type \in {"MIDDLE", "END"},
         Receive(h, type), Collect(h), NEW to, Goto(h, "execute", to),
         to = "write" => type = "END"
  PROVE  CopyInv'
<1> DEFINE p == Job1(h).packet
           f == f_buf_upload[h]
           b == file_buf_add(f, p.payload)
           ln == Lines(uploads, jobs, net)
           ln2 == Lines(uploads, jobs', net)
           L == Losses(uploads, lost)
<1>1. /\ f_buf_upload' = [f_buf_upload EXCEPT ![h] = b]
      /\ held' = [held EXCEPT ![h] = Append(held[h], <<p.upload, p.part>>)]
      /\ scan[h] = "execute" /\ scan' = [scan EXCEPT ![h] = to]
  BY DEF Collect, Part1, Goto
<1>2. /\ Flow(uploads, jobs', net, lost)
      /\ Received(uploads, jobs, net, lost, h, p, jobs')
      /\ p.type = type
      /\ uploads' = uploads /\ net' = net /\ lost' = lost /\ written' = written
  BY ReceiveFacts
<1>3. /\ CleanInv /\ AllCut(uploads) /\ uploads \in Seq(CleanUpload) /\ Len(uploads) \in Nat
      /\ HostsOK(uploads, ln, L, held, f_buf_upload, scan, written)
      /\ \A i \in 1 .. Len(uploads) : Len(uploads[i].parts) \in Nat
  BY CopyFacts
<1>4. Sound(f)
  BY <1>3 DEF CleanInv, CleanBuffer
<1>5. PICK i, k : i = p.upload /\ k = p.part
  OBVIOUS
<1>6. Genuine(uploads, p) /\ p.type # "REQUEST"
  BY <1>2 DEF Received
<1>7. /\ held[h] \in Places
      /\ HeldOK(h, uploads, ln, L, held[h], f, "execute")
  BY <1>1, <1>3 DEF HostsOK
<1> HIDE DEF ln, ln2, L
<1>8. /\ i \in 1 .. Len(uploads) /\ i \in Nat /\ k \in 0 .. Len(uploads[i].parts)
      /\ k \in ln[i] /\ k \notin L[i] /\ ln2[i] = ln[i] \ {k} /\ \A m \in ln2[i] : k < m
  <2> HIDE DEF p
  <2>1. Taken(uploads, ln, L, ln2, h, i, k)
    BY <1>2, <1>3, <1>5, TakenLines DEF ln, ln2, L
  <2>q. QED
    BY <2>1 DEF Taken
<1>9. /\ p.type = IF k = 0 THEN "START" ELSE IF k < Len(uploads[i].parts) THEN "MIDDLE" ELSE "END"
      /\ p.payload = IF k = 0 THEN uploads[i].name ELSE uploads[i].parts[k]
  BY <1>5, <1>6 DEF Genuine
<1> HIDE DEF p, f, b
<1>10. k # 0 /\ p.payload = uploads[i].parts[k] /\ (to = "write" => ~(k < Len(uploads[i].parts)))
  BY <1>2, <1>9
<1>11. /\ k \in 1 .. Len(uploads[i].parts) /\ k \in Nat
       /\ to = "write" => k = Len(uploads[i].parts)
  <2>1. Len(uploads[i].parts) \in Nat
    BY <1>3, <1>8
  <2>q. QED
    BY <1>8, <1>10, <2>1
<1>12. PICK w : w = held[h]
  OBVIOUS
<1>13. /\ HeldOK(h, uploads, ln2, L, Append(w, <<i, k>>),
                 file_buf_add(f, uploads[i].parts[k]), to)
       /\ Append(w, <<i, k>>) \in Places
  BY <1>3, <1>4, <1>7, <1>8, <1>11, <1>12, HeldMore
<1>14. PICK v : v = Append(w, <<i, k>>)
  OBVIOUS
<1>15. HeldOK(h, uploads, ln2, L, v, b, to) /\ v \in Places
       /\ held' = [held EXCEPT ![h] = v]
  BY <1>1, <1>5, <1>10, <1>12, <1>13, <1>14 DEF b
<1>q. QED
  BY <1>1, <1>2, <1>15, ReceivedCopies DEF ln2, L

LEMMA ReceiveCopies ==
  ASSUME CopyInv, NEW h \in Host,
         \/ ReceiveStart(h) \/ ReceiveMiddle(h) \/ ReceiveEndUnwritten(h) \/ ReceiveEnd(h)
  PROVE  CopyInv'
<1>1. CleanInv'
  BY CopyFacts, ReceivePartClean
<1>2. CASE ReceiveStart(h)
  BY <1>2, StartCopies
<1>3. CASE ReceiveMiddle(h)
  <2>1. Receive(h, "MIDDLE") /\ Collect(h) /\ Goto(h, "execute", "top")
    BY <1>3 DEF ReceiveMiddle
  <2>q. QED
    BY <1>1, <2>1, CollectCopies
<1>4. CASE ReceiveEndUnwritten(h)
  <2>1. Receive(h, "END") /\ Collect(h) /\ Goto(h, "execute", "top")
    BY <1>4 DEF ReceiveEndUnwritten
  <2>q. QED
    BY <1>1, <2>1, CollectCopies
<1>5. CASE ReceiveEnd(h)
  <2>1. Receive(h, "END") /\ Collect(h) /\ Goto(h, "execute", "write")
    BY <1>5 DEF ReceiveEnd
  <2>q. QED
    BY <1>1, <2>1, CollectCopies
<1>q. QED
  BY <1>2, <1>3, <1>4, <1>5

LEMMA WriteCopies ==
  ASSUME CopyInv, NEW h \in Host, Write(h)
  PROVE  CopyInv'
<1> DEFINE f == f_buf_upload[h]
           b == file_buf_remove(f, f.occ)
           r == [name |-> f.name, content |-> Removed(f, f.occ), parts |-> held[h]]
           ln == Lines(uploads, jobs, net)
           L == Losses(uploads, lost)
<1>1. /\ scan[h] = "write" /\ scan' = [scan EXCEPT ![h] = "top"]
      /\ f_buf_upload' = [f_buf_upload EXCEPT ![h] = b]
      /\ written' = [written EXCEPT ![h] = r]
      /\ jobs' = jobs /\ net' = net /\ uploads' = uploads /\ lost' = lost /\ held' = held
  BY DEF Write, Goto
<1>2. /\ CleanInv /\ AllCut(uploads) /\ uploads \in Seq(CleanUpload) /\ Len(uploads) \in Nat
      /\ Flow(uploads, jobs, net, lost)
      /\ HostsOK(uploads, ln, L, held, f_buf_upload, scan, written)
      /\ \A i \in 1 .. Len(uploads) : Len(uploads[i].parts) \in Nat
  BY CopyFacts
<1>3. f \in CleanBuffer /\ f.name \in Seq(Byte) /\ f.occ \in Nat
  <2>1. f \in CleanBuffer
    BY <1>2 DEF CleanInv
  <2>q. QED
    BY <2>1, SoundNumbers DEF CleanBuffer, FileBuffer
<1>4. Removed(f, f.occ) = Contents(f) /\ Contents(f) \in Seq(Byte)
  <2>1. Least(f.occ, f.occ) = f.occ
    BY <1>3 DEF Least
  <2>q. QED
    BY <1>3, <2>1, CleanBytes DEF Removed, Contents, CleanBuffer
<1>5. r.name = f.name /\ r.content = Contents(f) /\ r.parts = held[h]
  BY <1>4
<1>6. held[h] \in Places /\ HeldOK(h, uploads, ln, L, held[h], f, "write")
  BY <1>1, <1>2 DEF HostsOK
<1>7. r \in Writing
  BY <1>3, <1>4, <1>6 DEF Writing
<1>8. \A i \in 1 .. Len(uploads) : ln[i] \subseteq 0 .. Len(uploads[i].parts)
  BY <1>2, FlowLine DEF InLine, Lines, Line
<1>9. Drained(uploads, ln, L, uploads, ln, L) /\ \A g : NotTaken(uploads, ln, ln, L, g)
  BY <1>2, SameDrained DEF SameLines
<1> HIDE DEF f, b, r, ln, L
<1>10. WrittenOK(h, uploads, ln, L, r) /\ HeldOK(h, uploads, ln, L, held[h], b, "top")
  <2>1. PICK w : w = held[h]
    OBVIOUS
  <2>2. WrittenOK(h, uploads, ln, L, r) /\ HeldOK(h, uploads, ln, L, w, b, "top")
    BY <1>2, <1>5, <1>6, <1>8, <2>1, HeldWritten
  <2>q. QED
    BY <2>1, <2>2
<1>11. /\ held \in [Host -> Places] /\ written \in [Host -> {<<>>} \cup Writing]
       /\ DOMAIN scan = Host /\ DOMAIN f_buf_upload = Host
  BY <1>2 DEF HostsOK, CleanInv
<1>12. /\ written' \in [Host -> {<<>>} \cup Writing]
       /\ written'[h] = r /\ f_buf_upload'[h] = b /\ scan'[h] = "top"
       /\ \A g \in Host : g # h => /\ written'[g] = written[g] /\ scan'[g] = scan[g]
                                   /\ f_buf_upload'[g] = f_buf_upload[g]
  BY <1>1, <1>7, <1>11
<1>13. HostsOK(uploads, ln, L, held, f_buf_upload', scan', written')
  <2>1. PICK wrt2, bufs2, at2 : wrt2 = written' /\ bufs2 = f_buf_upload' /\ at2 = scan'
    OBVIOUS
  <2>2. /\ wrt2 \in [Host -> {<<>>} \cup Writing]
        /\ \A g \in Host : g # h => /\ held[g] = held[g] /\ wrt2[g] = written[g]
                                    /\ bufs2[g] = f_buf_upload[g] /\ at2[g] = scan[g]
        /\ HeldOK(h, uploads, ln, L, held[h], bufs2[h], at2[h])
        /\ WrittenOK(h, uploads, ln, L, wrt2[h])
    BY <1>10, <1>12, <2>1
  <2>3. \A g \in Host : g # h => NotTaken(uploads, ln, ln, L, g)
    BY <1>9
  <2>4. HostsOK(uploads, ln, L, held, bufs2, at2, wrt2)
    BY <1>2, <1>9, <1>11, <2>2, <2>3, HostsBut
  <2>q. QED
    BY <2>1, <2>4
<1>14. CleanInv'
  BY <1>2, WriteClean
<1>q. QED
  BY <1>1, <1>2, <1>13, <1>14 DEF CopyInv, ln, L

LEMMA CopyInit == Init => CopyInv
<1> SUFFICES ASSUME Init PROVE CopyInv
  OBVIOUS
<1>1. /\ jobs = [h \in Host |-> <<>>] /\ net = [c \in Host \X Host |-> <<>>]
      /\ uploads = <<>> /\ lost = {} /\ scan = [h \in Host |-> "top"]
      /\ held = [h \in Host |-> <<>>] /\ written = [h \in Host |-> <<>>]
      /\ Len(uploads) = 0 /\ 1 .. Len(uploads) = {}
  BY DEF Init
<1>2. CleanInv
  BY CleanInit
<1>3. JobsInOrder(uploads, jobs) /\ NetInOrder(uploads, net)
  <2>1. \A h \in Host : jobs[h] = <<>> /\ Len(jobs[h]) = 0 /\ 1 .. Len(jobs[h]) = {}
    BY <1>1
  <2>2. \A c \in Host \X Host : net[c] = <<>> /\ Len(net[c]) = 0 /\ 1 .. Len(net[c]) = {}
    BY <1>1
  <2>3. JobsInOrder(uploads, jobs)
    BY <2>1 DEF JobsInOrder, JobOrdered
  <2>4. ASSUME NEW from \in Host, NEW to \in Host
        PROVE  ChannelInOrder(uploads, from, to, net[<<from, to>>])
    <3>1. 1 .. Len(net[<<from, to>>]) = {}
      BY <2>2
    <3>q. QED
      BY <3>1 DEF ChannelInOrder, NetOrdered
  <2>q. QED
    BY <2>3, <2>4 DEF NetInOrder
<1>4. LinesInOrder(uploads, jobs, net, lost) /\ AllCut(uploads)
  BY <1>1 DEF LinesInOrder, AllCut
<1>5. Flow(uploads, jobs, net, lost)
  BY <1>2, <1>3, <1>4 DEF Flow, CleanInv
<1>6. HostsOK(uploads, Lines(uploads, jobs, net), Losses(uploads, lost),
              held, f_buf_upload, scan, written)
  <2>1. <<>> \in Places
    BY DEF Places
  <2>2. held \in [Host -> Places] /\ written \in [Host -> {<<>>} \cup Writing]
    BY <1>1, <2>1
  <2>3. \A h \in Host : held[h] = <<>> /\ written[h] = <<>> /\ scan[h] = "top"
                        /\ 1 .. Len(held[h]) = {}
    BY <1>1
  <2>4. ASSUME NEW h \in Host
        PROVE  HeldOK(h, uploads, Lines(uploads, jobs, net), Losses(uploads, lost),
                      held[h], f_buf_upload[h], scan[h])
    BY <1>1, <2>3 DEF HeldOK
  <2>q. QED
    BY <2>2, <2>3, <2>4 DEF HostsOK
<1>q. QED
  BY <1>2, <1>4, <1>5, <1>6 DEF CopyInv

LEMMA CopyStep == CopyInv /\ [Next]_vars => CopyInv'
<1> SUFFICES ASSUME CopyInv, [Next]_vars PROVE CopyInv'
  OBVIOUS
<1>1. ASSUME NEW h \in Host, Execute(h) PROVE CopyInv'
  <2>1. CASE ExecuteNothing(h) \/ ExecuteSend(h) \/ UploadNothing(h)
    BY <2>1, SendCopies
  <2>2. CASE Upload(h)
    BY <2>2, UploadCopies
  <2>3. CASE ReceiveStart(h) \/ ReceiveMiddle(h) \/ ReceiveEndUnwritten(h) \/ ReceiveEnd(h)
    BY <2>3, ReceiveCopies
  <2>4. CASE Write(h)
    BY <2>4, WriteCopies
  <2>q. QED
    BY <1>1, <2>1, <2>2, <2>3, <2>4 DEF Execute
<1>2. ASSUME NEW h \in Host, NEW c \in CommandsOf(h) \cup {NoCommand}, Iterate(h, c)
      PROVE  CopyInv'
  BY <1>2, IterateCopies
<1>3. ASSUME NEW from \in Host, NEW to \in Host, Lose(from, to) PROVE CopyInv'
  BY <1>3, LoseCopies
<1>4. CASE UNCHANGED vars
  <2>1. CleanInv'
    BY <1>4, CopyFacts, CleanStep
  <2>q. QED
    BY <1>4, <2>1 DEF vars, local, CopyInv
<1>q. QED
  BY <1>1, <1>2, <1>3, <1>4 DEF Next

LEMMA CopyAlways == Spec => []CopyInv
BY CopyInit, CopyStep, PTL DEF Spec

\* The parts without the START.
ArrivedOK(n, i, ls, t) ==
  /\ t \in Places /\ Len(t) \in Nat
  /\ \A x \in 1 .. Len(t) : t[x][1] = i /\ t[x][2] \in 1 .. n
  /\ \A x, y \in 1 .. Len(t) : x < y => t[x][2] < t[y][2]
  /\ Range(t) = {<<i, k>> : k \in 1 .. n} \ ls

LEMMA ArrivedParts ==
  ASSUME NEW n \in Nat, NEW w \in Places, NEW i \in Nat, From(w, i),
         NEW ls, Collected(n, w, {}, LostOf(ls, i))
  PROVE  ArrivedOK(n, i, ls, Tail(w))
<1>0. PICK t : t = Tail(w)
  OBVIOUS
<1>1. /\ Len(w) \in Nat /\ 1 \in 1 .. Len(w) /\ t \in Places /\ Len(t) = Len(w) - 1
      /\ \A x \in 1 .. Len(t) : x + 1 \in 1 .. Len(w) /\ t[x] = w[x + 1]
      /\ \A x \in 1 .. Len(w) : w[x] \in Nat \X Nat /\ w[x][1] \in Nat /\ w[x][2] \in Nat
  BY <1>0, PlaceFacts DEF From
<1>2. /\ w[1][2] = 0 /\ (\A x \in 1 .. Len(w) : w[x][1] = i)
      /\ (\A x, y \in 1 .. Len(w) : x < y => w[x][2] < w[y][2])
      /\ (\A x \in 1 .. Len(w) : w[x][2] \in 0 .. n /\ w[x][2] \notin LostOf(ls, i))
      /\ (\A k \in 1 .. n : k \in LostOf(ls, i) \/ \E x \in 1 .. Len(w) : w[x][2] = k)
  BY DEF From, Collected
<1>3. Len(t) \in Nat
  BY <1>1
<1>4. ASSUME NEW x \in 1 .. Len(t)
      PROVE  /\ t[x][1] = i /\ t[x][2] \in 1 .. n
             /\ t[x][2] \notin LostOf(ls, i)
  <2>1. x + 1 \in 1 .. Len(w) /\ t[x] = w[x + 1] /\ 1 < x + 1
    BY <1>1
  <2>2. PICK y \in 1 .. Len(w) : y = x + 1
    BY <2>1
  <2>3. w[1][2] < w[y][2] /\ w[y][2] \in 0 .. n /\ w[y][2] \notin LostOf(ls, i)
        /\ w[y][1] = i /\ w[y] \in Nat \X Nat
    BY <1>1, <1>2, <2>1, <2>2
  <2>5. w[y][2] \in 1 .. n
    BY <1>2, <2>3
  <2>q. QED
    BY <2>1, <2>2, <2>3, <2>5
<1>5. ASSUME NEW x \in 1 .. Len(t), NEW y \in 1 .. Len(t), x < y PROVE t[x][2] < t[y][2]
  <2>1. PICK a \in 1 .. Len(w), b \in 1 .. Len(w) : a = x + 1 /\ b = y + 1
    BY <1>1
  <2>2. a < b /\ t[x] = w[a] /\ t[y] = w[b]
    <3>1. t[x] = w[x + 1] /\ t[y] = w[y + 1]
      BY <1>1
    <3>2. a < b
      <4>1. x \in Int /\ y \in Int
        OBVIOUS
      <4>q. QED
        BY <1>5, <2>1, <4>1
    <3>q. QED
      BY <2>1, <3>1, <3>2
  <2>q. QED
    BY <1>2, <2>2
<1>6. Range(t) = {t[x] : x \in 1 .. Len(t)}
  <2>1. DOMAIN t = 1 .. Len(t)
    BY <1>1 DEF Places
  <2>q. QED
    BY <2>1 DEF Range
<1>p. ASSUME NEW x \in 1 .. Len(t), NEW k, k = t[x][2] PROVE t[x] = <<i, k>>
  <2>1. PICK e \in Nat \X Nat : e = t[x]
    BY <1>1
  <2>2. e = <<e[1], e[2]>>
    OBVIOUS
  <2>q. QED
    BY <1>4, <1>p, <2>1, <2>2
<1>7. Range(t) \subseteq {<<i, k>> : k \in 1 .. n} \ ls
  <2> SUFFICES ASSUME NEW x \in 1 .. Len(t)
               PROVE  t[x] \in {<<i, k>> : k \in 1 .. n} /\ t[x] \notin ls
    BY <1>6
  <2>1. PICK k \in 1 .. n : k = t[x][2]
    BY <1>4
  <2>2. t[x] = <<i, k>> /\ k \notin LostOf(ls, i) /\ k \in Nat
    BY <1>4, <1>p, <2>1
  <2>q. QED
    BY <2>2 DEF LostOf
<1>8. {<<i, k>> : k \in 1 .. n} \ ls \subseteq Range(t)
  <2> SUFFICES ASSUME NEW k \in 1 .. n, <<i, k>> \notin ls PROVE <<i, k>> \in Range(t)
    OBVIOUS
  <2>1. k \notin LostOf(ls, i)
    BY DEF LostOf
  <2>2. PICK y \in 1 .. Len(w) : w[y][2] = k
    BY <1>2, <2>1
  <2>3. y # 1
    BY <1>2, <2>2
  <2>4. PICK x \in 1 .. Len(t) : y = x + 1
    <3>1. y - 1 \in 1 .. Len(t) /\ y = (y - 1) + 1
      BY <1>1, <2>3
    <3>q. QED
      BY <3>1
  <2>5. t[x] = w[y]
    BY <1>1, <2>4
  <2>6. t[x] = <<i, k>>
    BY <1>p, <2>2, <2>5
  <2>q. QED
    BY <1>6, <2>6
<1>9. Range(t) = {<<i, k>> : k \in 1 .. n} \ ls
  BY <1>7, <1>8
<1>q. QED
  BY <1>0, <1>1, <1>3, <1>4, <1>5, <1>9 DEF ArrivedOK

\* All parts, in order, are the file.
LEMMA ArrivedWhole ==
  ASSUME NEW ups, NEW i \in Nat, ups[i] \in CleanUpload,
         Cut(ups[i].content, ups[i].parts), ~Contains(ups[i].content, NUL),
         NEW t \in Places, Len(t) = Len(ups[i].parts),
         NEW ls, ArrivedOK(Len(ups[i].parts), i, ls, t)
  PROVE  Join(ups, t) = ups[i].content
<1> DEFINE parts == ups[i].parts
           n == Len(parts)
           v == [x \in 1 .. n |-> t[x][2]]
<1>1. /\ ups[i].content \in Seq(Byte) /\ parts \in Seq(Seq(Byte)) /\ n \in Nat
  <2>1. parts \in Seq(Seq(Clean)) /\ ups[i].content \in Seq(Clean)
    BY DEF CleanUpload
  <2> HIDE DEF parts
  <2>2. parts \in Seq(Seq(Byte))
    BY <2>1, CleanBytes
  <2>q. QED
    BY <2>1, <2>2, CleanBytes
<1>2. v \in [1 .. n -> 1 .. n] /\ \A x, y \in 1 .. n : x < y => v[x] < v[y]
  BY DEF ArrivedOK
<1>3. \A x \in 1 .. n : v[x] = x
  <2> HIDE DEF v, n
  <2>q. QED
    BY <1>1, <1>2, CountedOff
<1>4. \A x \in 1 .. n : t[x][1] = i /\ t[x][2] = x
  BY <1>3 DEF ArrivedOK
<1>5. [x \in 1 .. Len(t) |-> ups[t[x][1]].parts[t[x][2]]] = [x \in 1 .. n |-> parts[x]]
  BY <1>4
<1>6. [x \in 1 .. n |-> parts[x]] = parts
  BY <1>1
<1>7. FlattenSeq(parts) = ups[i].content
  BY <1>1, CutIsWhole
<1>q. QED
  BY <1>5, <1>6, <1>7 DEF Join

LEMMA CopyFaithful == CopyInv => FaithfulCopy
<1> SUFFICES ASSUME CopyInv, NEW h \in Host, written[h] # <<>>
             PROVE  LET w == written[h]
                        i == w.parts[1][1]
                        u == uploads[i]
                        arrived == Tail(w.parts)
                    IN (\A k \in 1 .. Len(w.parts) : w.parts[k][1] = i) /\ w.parts[1][2] = 0 =>
                         /\ w.name = u.name
                         /\ \A j, k \in 1 .. Len(arrived) : j < k => arrived[j][2] < arrived[k][2]
                         /\ Range(arrived) = {<<i, k>> : k \in 1 .. Len(u.parts)} \ lost
                         /\ w.content = Payloads(arrived)
                         /\ Len(arrived) = Len(u.parts) /\ ~Contains(u.content, NUL) =>
                              w.content = u.content
  BY DEF FaithfulCopy
<1>w. PICK w, i, t : w = written[h] /\ i = w.parts[1][1] /\ t = Tail(w.parts)
  OBVIOUS
<1> SUFFICES ASSUME \A k \in 1 .. Len(w.parts) : w.parts[k][1] = i, w.parts[1][2] = 0
             PROVE  /\ w.name = uploads[i].name
                    /\ \A j, k \in 1 .. Len(t) : j < k => t[j][2] < t[k][2]
                    /\ Range(t) = {<<i, k>> : k \in 1 .. Len(uploads[i].parts)} \ lost
                    /\ w.content = Payloads(t)
                    /\ Len(t) = Len(uploads[i].parts) /\ ~Contains(uploads[i].content, NUL) =>
                         w.content = uploads[i].content
  BY <1>w
<1> DEFINE ln == Lines(uploads, jobs, net)
           L == Losses(uploads, lost)
<1>1. /\ AllCut(uploads) /\ uploads \in Seq(CleanUpload)
      /\ HostsOK(uploads, ln, L, held, f_buf_upload, scan, written)
      /\ \A l \in 1 .. Len(uploads) : Len(uploads[l].parts) \in Nat
  BY CopyFacts
<1> HIDE DEF ln
<1>2. w \in Writing /\ WrittenOK(h, uploads, ln, L, w)
  BY <1>1, <1>w DEF HostsOK
<1>3. w.parts \in Places
  BY <1>2 DEF Writing
<1>4. i \in 1 .. Len(uploads) /\ From(w.parts, i) /\ i \in Nat
  <2>1. w.parts # <<>> /\ i \in 1 .. Len(uploads)
    BY <1>2, <1>w DEF WrittenOK
  <2>q. QED
    BY <2>1 DEF From
<1>5. /\ Collected(Len(uploads[i].parts), w.parts, {}, L[i])
      /\ w.name = uploads[i].name /\ w.content = Join(uploads, t)
  BY <1>2, <1>4, <1>w DEF WrittenOK
<1>6. L[i] = LostOf(lost, i)
  BY <1>4 DEF Losses
<1> HIDE DEF L
<1>7. PICK p, n : p = w.parts /\ n = Len(uploads[i].parts)
  OBVIOUS
<1>8. ArrivedOK(n, i, lost, t)
  <2>1. p \in Places /\ From(p, i) /\ Collected(n, p, {}, LostOf(lost, i)) /\ t = Tail(p)
        /\ n \in Nat /\ i \in Nat
    BY <1>1, <1>3, <1>4, <1>5, <1>6, <1>7, <1>w
  <2>q. QED
    BY <2>1, ArrivedParts
<1>9. ASSUME Len(t) = n, ~Contains(uploads[i].content, NUL)
      PROVE  Join(uploads, t) = uploads[i].content
  <2>1. uploads[i] \in CleanUpload /\ Cut(uploads[i].content, uploads[i].parts)
    BY <1>1, <1>4 DEF AllCut
  <2>q. QED
    <3>1. t \in Places /\ Len(t) = Len(uploads[i].parts)
          /\ ArrivedOK(Len(uploads[i].parts), i, lost, t)
      BY <1>7, <1>8, <1>9 DEF ArrivedOK
    <3>q. QED
      BY <1>4, <1>9, <2>1, <3>1, ArrivedWhole
<1>10. Payloads(t) = Join(uploads, t)
  BY DEF Payloads, Join
<1>q. QED
  BY <1>5, <1>7, <1>8, <1>9, <1>10 DEF ArrivedOK

\* A host that has received nothing but parts of one upload since its START writes
\* the parts that were not lost, in order and each once, under the name of the
\* file - and the file itself if none was lost and no byte of it is NUL: for
\* any hosts, files, commands and losses, and all lengths of packets and buffers.
THEOREM CopiesFaithful == Spec => []FaithfulCopy
BY CopyAlways, CopyFaithful, PTL
================================================================================
