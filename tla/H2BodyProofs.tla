----------------------------- MODULE H2BodyProofs -----------------------------
(***************************************************************************)
(* Theorems about H2Body for any channel, window and sizes of frames: a    *)
(* body has no hole that the code does not know of, and an echo that was   *)
(* not cut short is as long as the body, less the frames that the copy had *)
(* no room for, with no byte older than its own.                           *)
(***************************************************************************)
EXTENDS H2Body, InductionLemmas, SequenceTheorems, TLAPS

-----------------------------------------------------------------------------
(* The bytes of a list                                                     *)

\* Bytes is the last of the sums.
LEMMA BytesIsSum ==
  ASSUME NEW n \in Nat, NEW list, Len(list) = n,
         \A i \in 1..n : list[i].size \in Nat
  PROVE  \E f \in [0..n -> Nat] :
           /\ IsSum(f, n, [i \in 1..n |-> list[i].size])
           /\ Bytes(list) = f[n]
<1>. DEFINE size == [i \in 1..n |-> list[i].size]
            Sums(f) == [i \in 0..n |-> IF i = 0 THEN 0 ELSE f[i - 1] + list[i].size]
            s == CHOOSE f : f = Sums(f)
<1>1. size \in [1..n -> Nat]
  OBVIOUS
<1>2. PICK f \in [0..n -> Nat] : IsSum(f, n, size)
  <2>. HIDE DEF size
  <2>. QED
    BY <1>1, SumExists
<1>3. f = Sums(f)
  <2>1. \A i \in 1..n : size[i] = list[i].size
    OBVIOUS
  <2>. HIDE DEF size
  <2>2. \A i \in 0..n : f[i] = IF i = 0 THEN 0 ELSE f[i - 1] + list[i].size
    BY <1>2, <2>1 DEF IsSum
  <2>. QED
    BY <2>2
<1>4. s = Sums(s)
  BY <1>3
<1>5. Bytes(list) = s[n]
  BY DEF Bytes
<1>6. IsSum(s, n, size)
  <2>. HIDE DEF s
  <2>1. DOMAIN s = 0..n /\ \A i \in 0..n : s[i] = IF i = 0 THEN 0 ELSE s[i - 1] + size[i]
    BY <1>4
  <2>2. s = [i \in 0..n |-> s[i]]
    BY <1>4
  <2>. HIDE DEF size
  <2>. QED
    BY <2>1, <2>2 DEF IsSum
<1>7. s[n] = f[n]
  <2>. HIDE DEF s, size
  <2>. QED
    BY <1>1, <1>2, <1>6, SumUnique
<1>. QED
  BY <1>2, <1>5, <1>7

\* An empty list has no bytes.
LEMMA BytesOfNone == Bytes(<<>>) = 0
<1>1. Len(<<>>) = 0 /\ 0 \in Nat /\ \A i \in 1..0 : <<>>[i].size \in Nat
  OBVIOUS
<1>2. PICK f \in [0..0 -> Nat] :
        /\ IsSum(f, 0, [i \in 1..0 |-> <<>>[i].size])
        /\ Bytes(<<>>) = f[0]
  BY <1>1, BytesIsSum, Zenon
<1>. QED
  BY <1>2 DEF IsSum

\* A frame more.
LEMMA BytesOfAppend ==
  ASSUME NEW R, \A r \in R : r.size \in Nat, NEW list \in Seq(R), NEW r \in R
  PROVE  /\ Bytes(list) \in Nat
         /\ Bytes(Append(list, r)) = Bytes(list) + r.size
<1>1. PICK n \in Nat : n = Len(list)
  OBVIOUS
<1>. DEFINE longer == Append(list, r)
            size == [i \in 1..n |-> list[i].size]
            sizes == [i \in 1..(n + 1) |-> longer[i].size]
<1>2. /\ Len(longer) = n + 1 /\ longer[n + 1] = r
      /\ \A i \in 1..n : longer[i] = list[i]
  BY <1>1, AppendProperties
<1>3. /\ \A i \in 1..n : list[i].size \in Nat
      /\ \A i \in 1..(n + 1) : longer[i].size \in Nat
  <2>1. \A i \in 1..n : list[i] \in R
    BY <1>1, ElementOfSeq
  <2>. HIDE DEF longer
  <2>. QED
    BY <1>2, <2>1
<1>4. PICK f \in [0..n -> Nat] : IsSum(f, n, size) /\ Bytes(list) = f[n]
  BY <1>1, <1>3, BytesIsSum
<1>5. PICK g \in [0..(n + 1) -> Nat] :
        IsSum(g, n + 1, sizes) /\ Bytes(longer) = g[n + 1]
  <2>1. n + 1 \in Nat
    OBVIOUS
  <2>. HIDE DEF longer
  <2>. QED
    BY <1>2, <1>3, <2>1, BytesIsSum
<1>6. g[n + 1] = g[n] + r.size
  <2>1. sizes[n + 1] = r.size
    BY <1>2
  <2>. HIDE DEF sizes
  <2>2. g[n + 1] = g[n] + sizes[n + 1]
    BY <1>5 DEF IsSum
  <2>. QED
    BY <2>1, <2>2
<1>7. g[n] = f[n]
  <2>. DEFINE h == [i \in 0..n |-> g[i]]
  <2>1. ASSUME NEW i \in 1..n PROVE sizes[i] = size[i]
    BY <1>2
  <2>2. IsSum(h, n, size)
    <3>. HIDE DEF sizes, size
    <3>. QED
      BY <1>5, <2>1 DEF IsSum
  <2>3. size \in [1..n -> Nat]
    BY <1>3
  <2>4. h[n] = f[n]
    <3>. HIDE DEF h, size
    <3>. QED
      BY <1>4, <2>2, <2>3, SumUnique
  <2>. QED
    BY <2>4
<1>. QED
  BY <1>4, <1>5, <1>6, <1>7

-----------------------------------------------------------------------------
(* The bytes of a list of frames, one after another                        *)

LEMMA FlattenedIsWhole ==
  ASSUME NEW T, NEW n \in Nat \ {0}, NEW seqs \in [1..n -> Seq(T)], NEW sum,
         IsSum(sum, n, [i \in 1..n |-> Len(seqs[i])])
  PROVE  FlattenSeq(seqs) \in Seq(T) /\ Len(FlattenSeq(seqs)) = sum[n]
<1>. DEFINE Flat(f) == [i \in 1..n |-> IF i = 1 THEN seqs[i] ELSE f[i - 1] \o seqs[i]]
            flat == CHOOSE f : f = Flat(f)
            size == [i \in 1..n |-> Len(seqs[i])]
            step == [i \in 1..n |-> [x \in Seq(T) |-> x \o seqs[i]]]
<1>1. Len(seqs) = n /\ DOMAIN seqs = 1..n /\ n # 0
  <2>1. DOMAIN seqs = 1..n
    OBVIOUS
  <2>2. seqs \in Seq(Seq(T))
    BY IsASeq
  <2>. QED
    BY <2>1, <2>2, LenProperties
<1>2. step \in [1..n -> [Seq(T) -> Seq(T)]]
  <2>1. ASSUME NEW i \in 1..n, NEW x \in Seq(T) PROVE x \o seqs[i] \in Seq(T)
    BY ConcatProperties
  <2>. QED
    BY <2>1
<1>3. PICK f \in [0..n -> Seq(T)] : IsRecursion(f, <<>>, n, step)
  <2>1. <<>> \in Seq(T)
    BY EmptySeq
  <2>. HIDE DEF step
  <2>. QED
    BY <1>2, <2>1, RecursionExists
<1>4. \A i \in 1..n : f[i] = f[i - 1] \o seqs[i]
  <2>1. ASSUME NEW i \in 1..n PROVE step[i][f[i - 1]] = f[i - 1] \o seqs[i]
    <3>1. f[i - 1] \in Seq(T)
      OBVIOUS
    <3>. QED
      BY <3>1
  <2>. HIDE DEF step
  <2>. QED
    BY <1>3, <2>1 DEF IsRecursion
<1>5. f[1] = seqs[1]
  <2>1. 1 \in 1..n /\ f[0] = <<>> /\ 1 - 1 = 0 /\ seqs[1] \in Seq(T)
    BY <1>3 DEF IsRecursion
  <2>2. f[1] = <<>> \o seqs[1]
    BY <1>4, <2>1
  <2>3. <<>> \o seqs[1] = seqs[1]
    BY <2>1, ConcatEmptySeq
  <2>. QED
    BY <2>2, <2>3
<1>6. [i \in 1..n |-> f[i]] = Flat([i \in 1..n |-> f[i]])
  <2>. DEFINE g == [i \in 1..n |-> f[i]]
  <2>1. ASSUME NEW i \in 1..n, i # 1 PROVE g[i] = g[i - 1] \o seqs[i]
    <3>1. i - 1 \in 1..n
      BY <2>1
    <3>2. g[i] = f[i] /\ g[i - 1] = f[i - 1]
      BY <3>1
    <3>. QED
      BY <1>4, <3>2
  <2>2. 1 \in 1..n => g[1] = seqs[1]
    BY <1>5
  <2>3. g = [i \in 1..n |-> g[i]]
    OBVIOUS
  <2>. HIDE DEF g
  <2>4. \A i \in 1..n : g[i] = IF i = 1 THEN seqs[i] ELSE g[i - 1] \o seqs[i]
    BY <2>1, <2>2
  <2>5. g = Flat(g)
    BY <2>3, <2>4
  <2>. QED
    BY <2>5 DEF g
<1>7. flat = Flat(flat)
  BY <1>6
<1>8. FlattenSeq(seqs) = flat[n]
  BY <1>1 DEF FlattenSeq
<1>. DEFINE S == {i \in 0..n :
              i # 0 => /\ flat[i] \in Seq(T)
                       /\ Len(flat[i]) = sum[i]}
<1>9. 0 \in S
  OBVIOUS
<1>10. ASSUME NEW i \in 1..n, i - 1 \in S PROVE i \in S
  <2>. HIDE DEF flat
  <2>1. seqs[i] \in Seq(T) /\ sum[0] = 0 /\ sum[i] = sum[i - 1] + Len(seqs[i])
    <3>1. size[i] = Len(seqs[i])
      OBVIOUS
    <3>2. IsSum(sum, n, size)
      OBVIOUS
    <3>. HIDE DEF size
    <3>3. n \in Nat /\ i \in 0..n /\ i - 1 \in 0..n /\ i # 0
      OBVIOUS
    <3>4. sum[0] = 0 /\ sum[i] = sum[i - 1] + size[i]
      BY <3>2, <3>3, SumStep
    <3>. QED
      BY <3>1, <3>4
  <2>2. CASE i = 1
    <3>1. flat[i] = seqs[i]
      BY <1>7, <2>2
    <3>. QED
      BY <2>1, <2>2, <3>1, LenProperties
  <2>3. CASE i # 1
    <3>1. flat[i] = flat[i - 1] \o seqs[i]
      BY <1>7, <2>3
    <3>2. flat[i - 1] \in Seq(T) /\ Len(flat[i - 1]) = sum[i - 1]
      BY <1>10, <2>3
    <3>3. /\ flat[i - 1] \o seqs[i] \in Seq(T)
          /\ Len(flat[i - 1] \o seqs[i]) = Len(flat[i - 1]) + Len(seqs[i])
      BY <2>1, <3>2, ConcatProperties
    <3>4. flat[i] \in Seq(T) /\ Len(flat[i]) = sum[i]
      BY <2>1, <3>1, <3>2, <3>3
    <3>. QED
      BY <3>4
  <2>. QED
    BY <2>2, <2>3
<1>11. n \in S
  <2>. HIDE DEF S
  <2>1. n \in Nat /\ n \in 0..n
    OBVIOUS
  <2>2. 0..n \subseteq S
    BY <1>9, <1>10, <2>1, IntervalInduction
  <2>. QED
    BY <2>1, <2>2
<1>. QED
  BY <1>1, <1>8, <1>11

\* Stored frames, and where a byte of one is.
Stored == [n : Nat, size : Sizes \cup {0}, array : Nat]

LEMMA StoredSizes == \A r \in Stored : r.size \in Nat
<1>1. Sizes \subseteq Nat
  BY BodyAssumption
<1>2. Sizes \cup {0} \subseteq Nat
  BY <1>1
<1>. QED
  BY <1>2 DEF Stored

Slot(frame, i) == [of |-> frame.n, array |-> frame.array, at |-> i]

LEMMA SlotsAreWhole ==
  ASSUME NEW list \in Seq(Stored), NEW T,
         \A k \in DOMAIN list : \A i \in 1..list[k].size : Slot(list[k], i) \in T
  PROVE  Slots(list) \in Seq(T) /\ Len(Slots(list)) = Bytes(list)
<1>. DEFINE seqs == [k \in DOMAIN list |->
                       [i \in 1..list[k].size |->
                          [of |-> list[k].n, array |-> list[k].array, at |-> i]]]
<1>1. PICK n \in Nat : n = Len(list) /\ DOMAIN list = 1..n
  BY LenProperties
<1>2. ASSUME NEW k \in 1..n
      PROVE  seqs[k] \in Seq(T) /\ Len(seqs[k]) = list[k].size /\ list[k].size \in Nat
  <2>. DEFINE s == [i \in 1..list[k].size |-> Slot(list[k], i)]
  <2>1. list[k] \in Stored
    BY <1>1, ElementOfSeq
  <2>2. list[k].size \in Nat
    BY <2>1, StoredSizes
  <2>3. \A i \in 1..list[k].size : Slot(list[k], i) \in T
    BY <1>1
  <2>4. s \in Seq(T)
    BY <2>2, <2>3, IsASeq
  <2>5. Len(s) = list[k].size
    BY <2>2, <2>4, LenProperties
  <2>6. seqs[k] = s
    BY <1>1 DEF Slot
  <2>. HIDE DEF s, seqs
  <2>. QED
    BY <2>2, <2>4, <2>5, <2>6
<1>3. Slots(list) = FlattenSeq(seqs)
  BY DEF Slots
<1>4. CASE n = 0
  <2>1. list = <<>> /\ seqs = <<>>
    BY <1>1, <1>4, LenProperties
  <2>. HIDE DEF seqs
  <2>2. Slots(list) = <<>>
    BY <1>3, <2>1 DEF FlattenSeq
  <2>. QED
    BY <2>1, <2>2, BytesOfNone, EmptySeq
<1>5. CASE n # 0
  <2>1. PICK sum \in [0..n -> Nat] :
          /\ IsSum(sum, n, [i \in 1..n |-> list[i].size])
          /\ Bytes(list) = sum[n]
    BY <1>1, <1>2, BytesIsSum
  <2>2. [i \in 1..n |-> Len(seqs[i])] = [i \in 1..n |-> list[i].size]
    <3>. HIDE DEF seqs
    <3>. QED
      BY <1>2
  <2>3. seqs \in [1..n -> Seq(T)]
    <3>1. seqs = [k \in 1..n |-> seqs[k]]
      BY <1>1
    <3>. HIDE DEF seqs
    <3>. QED
      BY <1>2, <3>1
  <2>. HIDE DEF seqs
  <2>4. n \in Nat \ {0} /\ IsSum(sum, n, [i \in 1..n |-> Len(seqs[i])])
    BY <1>5, <2>1, <2>2
  <2>5. FlattenSeq(seqs) \in Seq(T) /\ Len(FlattenSeq(seqs)) = sum[n]
    BY <2>3, <2>4, FlattenedIsWhole, Zenon
  <2>. QED
    BY <1>3, <2>1, <2>5
<1>. QED
  BY <1>4, <1>5

-----------------------------------------------------------------------------
(* Type correctness                                                        *)

BodyTypes ==
  /\ want \in Nat /\ window \in Int /\ count \in Nat
  /\ sent \in Seq([n : Nat, size : Sizes])
  /\ arrays \in Seq(Seq(Nat)) /\ arrays # <<>>
  /\ frames \in Seq(Stored)
  /\ response \in Seq(Nat) /\ body \in Seq(Nat)
  /\ closed \in BOOLEAN /\ overflowed \in BOOLEAN /\ timedOut \in BOOLEAN
  /\ pc \in {"waiting", "ended", "counted", "copying", "echoing", "answered", "panicked"}
  /\ late \in Nat /\ room \in Nat

-----------------------------------------------------------------------------
(* The pieces of the body, taken or still in the channel                   *)

Pieces == body \o response

(***************************************************************************)
(* The pieces come in order, from frames that were read; all of them are   *)
(* there while nothing was dropped; and without the timeout the wait is    *)
(* over only when the channel is closed and has nothing more.              *)
(***************************************************************************)
PiecesInOrder ==
  /\ \A i \in 1..Len(Pieces) : Pieces[i] <= count
  /\ \A i, j \in 1..Len(Pieces) : i < j => Pieces[i] < Pieces[j]

NothingLost == ~overflowed => Pieces = Numbers(sent)

WaitedForAll == Ended /\ ~timedOut => closed /\ response = <<>>

HolesInv == BodyTypes /\ PiecesInOrder /\ NothingLost /\ WaitedForAll

-----------------------------------------------------------------------------
(* The bytes of the frames kept, and of their copies                       *)

\* A byte in an array, and whether it is that of a frame or of a later one.
Held(slot, in) ==
  /\ slot.array \in 1..Len(in)
  /\ slot.at \in 1..Len(in[slot.array])
  /\ in[slot.array][slot.at] >= slot.of

BytesRead ==
  \A a \in 1..Len(arrays) : \A i \in 1..Len(arrays[a]) : arrays[a][i] <= count

FramesHeld ==
  \A k \in 1..Len(frames) : \A i \in 1..frames[k].size :
    Held(Slot(frames[k], i), arrays)

CopiesHeld ==
  /\ allFrames \in Seq([of : Nat, array : Nat, at : Nat])
  /\ \A k \in 1..Len(allFrames) : Held(allFrames[k], arrays)

EchoHeld ==
  /\ echo \in Seq([of : Nat, is : Nat])
  /\ \A k \in 1..Len(echo) : echo[k].is >= echo[k].of /\ echo[k].is <= count

\* The stream's list has each frame sent, and the last one closed the channel.
ListWhole ==
  /\ Bytes(frames) = Bytes(sent)
  /\ closed => Bytes(sent) = want

\* The copy has room for the stream's list as it was, and HEADERS begins that.
Counted ==
  /\ pc \in {"waiting", "ended"} => late = 0
  /\ 1 <= Len(frames)
  /\ pc \notin {"waiting", "ended", "counted"} => room \in 1..Len(frames)
  /\ pc \in {"echoing", "answered"} => late <= room
  /\ pc = "panicked" => late > room

\* What is not yet echoed of what there was room for is still to come.
EchoWhole ==
  /\ pc \in {"waiting", "ended", "counted", "copying"} => echo = <<>>
  /\ pc \in {"echoing", "answered"} =>
       Len(echo) + Len(allFrames) = Bytes(SubSeq(frames, 1, room - late))
  /\ pc = "answered" => allFrames = <<>>
  /\ pc \in {"copying", "echoing", "answered"} /\ ~timedOut =>
       Bytes(SubSeq(frames, 1, room)) = want

EchoInv ==
  /\ HolesInv /\ BytesRead /\ FramesHeld /\ CopiesHeld /\ EchoHeld
  /\ ListWhole /\ Counted /\ EchoWhole

-----------------------------------------------------------------------------
(* What a read does to the arrays                                          *)

(***************************************************************************)
(* The arrays keep their lengths; a byte of one is the old one or that of  *)
(* the frame read, and the last array starts with the frame's bytes.       *)
(***************************************************************************)
ReadArrays(new, size) ==
  /\ new \in Seq(Seq(Nat)) /\ new # <<>>
  /\ Len(arrays) <= Len(new)
  /\ \A a \in 1..Len(arrays) : Len(new[a]) = Len(arrays[a])
  /\ \A a \in 1..Len(new) : \A i \in 1..Len(new[a]) :
       \/ new[a][i] = count + 1
       \/ a <= Len(arrays) /\ new[a][i] = arrays[a][i]
  /\ size <= Len(new[Len(new)])
  /\ \A i \in 1..size : new[Len(new)][i] = count + 1

LEMMA ReadIntoArrays ==
  ASSUME BodyTypes, NEW size \in Sizes
  PROVE  ReadArrays(ReadInto(size), size)
<1>. DEFINE last == arrays[Len(arrays)]
            again == [i \in DOMAIN last |-> IF i <= size THEN count + 1 ELSE last[i]]
            fresh == [i \in 1..size |-> count + 1]
<1>1. arrays \in Seq(Seq(Nat)) /\ arrays # <<>> /\ count + 1 \in Nat /\ size \in Nat
  BY BodyAssumption DEF BodyTypes
<1>2. PICK n \in Nat \ {0} : n = Len(arrays) /\ n \in 1..Len(arrays)
  BY <1>1
<1>3. last \in Seq(Nat) /\ \A a \in 1..n : arrays[a] \in Seq(Nat)
  BY <1>1, <1>2, ElementOfSeq
<1>4. CASE size <= Len(last)
  <2>1. ReadInto(size) = [arrays EXCEPT ![n] = again]
    BY <1>2, <1>4 DEF ReadInto, Last
  <2>2. /\ again \in Seq(Nat) /\ Len(again) = Len(last)
        /\ \A i \in 1..Len(last) : again[i] = IF i <= size THEN count + 1 ELSE last[i]
    <3>1. PICK m \in Nat : m = Len(last) /\ DOMAIN last = 1..m
      BY <1>3, LenProperties
    <3>2. \A i \in 1..m : last[i] \in Nat
      BY <1>3, <3>1, ElementOfSeq
    <3>3. again \in [1..m -> Nat]
      <4>. HIDE DEF last
      <4>. QED
        BY <1>1, <3>1, <3>2
    <3>4. again \in Seq(Nat) /\ Len(again) = m
      <4>. HIDE DEF again
      <4>1. again \in Seq(Nat) /\ DOMAIN again = 1..m
        BY <3>3, IsASeq
      <4>. QED
        BY <4>1, LenProperties
    <3>5. \A i \in 1..m : again[i] = IF i <= size THEN count + 1 ELSE last[i]
      BY <3>1
    <3>. HIDE DEF again, last
    <3>. QED
      BY <3>1, <3>4, <3>5
  <2>. HIDE DEF again
  <2>. DEFINE new == [arrays EXCEPT ![n] = again]
  <2>3. /\ new \in Seq(Seq(Nat)) /\ Len(new) = n
        /\ \A a \in 1..n : new[a] = IF a = n THEN again ELSE arrays[a]
    BY <1>1, <1>2, <2>2, ExceptSeq
  <2>. HIDE DEF new, last
  <2>4. ReadArrays(new, size)
    <3>1. new # <<>> /\ Len(arrays) <= Len(new)
      BY <1>2, <2>3
    <3>2. \A a \in 1..Len(arrays) : Len(new[a]) = Len(arrays[a])
      BY <1>2, <2>2, <2>3 DEF last
    <3>3. ASSUME NEW a \in 1..Len(new), NEW i \in 1..Len(new[a])
          PROVE  \/ new[a][i] = count + 1
                 \/ a <= Len(arrays) /\ new[a][i] = arrays[a][i]
      BY <1>2, <2>2, <2>3 DEF last
    <3>4. /\ size <= Len(new[Len(new)])
          /\ \A i \in 1..size : new[Len(new)][i] = count + 1
      <4>1. new[Len(new)] = again
        BY <1>2, <2>3
      <4>2. Len(last) \in Nat
        BY <1>3
      <4>3. 1..size \subseteq 1..Len(last) /\ \A i \in 1..size : i <= size
        BY <1>1, <1>4, <4>2
      <4>4. \A i \in 1..size : again[i] = count + 1
        BY <2>2, <4>3
      <4>. QED
        BY <1>4, <2>2, <4>1, <4>4
    <3>. QED
      BY <2>3, <3>1, <3>2, <3>3, <3>4 DEF ReadArrays
  <2>. QED
    BY <2>1, <2>4 DEF new
<1>5. CASE ~(size <= Len(last))
  <2>1. ReadInto(size) = Append(arrays, fresh)
    BY <1>2, <1>5 DEF ReadInto, Last
  <2>2. /\ fresh \in Seq(Nat) /\ Len(fresh) = size
        /\ \A i \in 1..size : fresh[i] = count + 1
    BY <1>1
  <2>. HIDE DEF fresh
  <2>. DEFINE new == Append(arrays, fresh)
  <2>3. /\ new \in Seq(Seq(Nat)) /\ Len(new) = n + 1
        /\ \A a \in 1..n : new[a] = arrays[a]
        /\ new[n + 1] = fresh
    BY <1>1, <1>2, <2>2, AppendProperties
  <2>. HIDE DEF new, last
  <2>4. ReadArrays(new, size)
    <3>1. new # <<>> /\ Len(arrays) <= Len(new)
      BY <1>2, <2>3
    <3>2. \A a \in 1..Len(arrays) : Len(new[a]) = Len(arrays[a])
      BY <1>2, <2>3
    <3>3. ASSUME NEW a \in 1..Len(new), NEW i \in 1..Len(new[a])
          PROVE  \/ new[a][i] = count + 1
                 \/ a <= Len(arrays) /\ new[a][i] = arrays[a][i]
      <4>1. CASE a = n + 1
        BY <2>2, <2>3, <4>1
      <4>2. CASE a # n + 1
        BY <1>2, <2>3, <4>2
      <4>. QED
        BY <4>1, <4>2
    <3>4. /\ size <= Len(new[Len(new)])
          /\ \A i \in 1..size : new[Len(new)][i] = count + 1
      BY <1>1, <2>2, <2>3
    <3>. QED
      BY <2>3, <3>1, <3>2, <3>3, <3>4 DEF ReadArrays
  <2>. QED
    BY <2>1, <2>4 DEF new
<1>. QED
  BY <1>4, <1>5

-----------------------------------------------------------------------------
(* What a step does to the pieces                                          *)

LEMMA PieceMoves ==
  ASSUME NEW s \in Seq(Nat), NEW t \in Seq(Nat), t # <<>>
  PROVE  Append(s, Head(t)) \o Tail(t) = s \o t
<1>1. Head(t) \in Nat /\ Tail(t) \in Seq(Nat) /\ <<Head(t)>> \in Seq(Nat)
  BY HeadTailProperties
<1>2. <<Head(t)>> \o Tail(t) = t
  BY SMT
<1>3. Append(s, Head(t)) = s \o <<Head(t)>>
  BY <1>1, AppendIsConcat
<1>4. (s \o <<Head(t)>>) \o Tail(t) = s \o (<<Head(t)>> \o Tail(t))
  BY <1>1, ConcatAssociative
<1>. QED
  BY <1>2, <1>3, <1>4

LEMMA PieceComes ==
  ASSUME NEW s \in Seq(Nat), NEW t \in Seq(Nat), NEW k \in Nat
  PROVE  s \o Append(t, k) = Append(s \o t, k)
<1>1. <<k>> \in Seq(Nat) /\ s \o t \in Seq(Nat)
  BY ConcatProperties
<1>2. s \o (t \o <<k>>) = (s \o t) \o <<k>>
  BY <1>1, ConcatAssociative
<1>. QED
  BY <1>1, <1>2, AppendIsConcat

LEMMA NumbersOfAppend ==
  ASSUME NEW list \in Seq([n : Nat, size : Sizes]),
         NEW frame \in [n : Nat, size : Sizes]
  PROVE  Numbers(Append(list, frame)) = Append(Numbers(list), frame.n)
<1>. DEFINE longer == Append(list, frame)
            whole == Numbers(longer)
            numbers == Numbers(list)
<1>1. PICK m \in Nat : m = Len(list) /\ DOMAIN list = 1..m
  BY LenProperties
<1>2. /\ longer \in Seq([n : Nat, size : Sizes]) /\ DOMAIN longer = 1..(m + 1)
      /\ longer[m + 1] = frame /\ \A i \in 1..m : longer[i] = list[i]
  BY <1>1, AppendProperties, LenProperties
<1>3. \A i \in 1..(m + 1) : longer[i].n \in Nat
  <2>. HIDE DEF longer
  <2>1. Len(longer) = m + 1
    BY <1>1, <1>2, LenProperties
  <2>2. \A i \in 1..(m + 1) : longer[i] \in [n : Nat, size : Sizes]
    BY <1>2, <2>1, ElementOfSeq
  <2>. QED
    BY <2>2
<1>. HIDE DEF longer
<1>4. /\ whole \in Seq(Nat) /\ Len(whole) = m + 1
      /\ \A i \in 1..(m + 1) : whole[i] = longer[i].n
  BY <1>1, <1>2, <1>3 DEF Numbers
<1>5. /\ numbers \in Seq(Nat) /\ Len(numbers) = m
      /\ \A i \in 1..m : numbers[i] = list[i].n
  <2>1. \A i \in 1..m : list[i].n \in Nat
    BY <1>1, <1>2, <1>3
  <2>. QED
    BY <1>1, <2>1 DEF Numbers
<1>. HIDE DEF whole, numbers
<1>6. /\ Append(numbers, frame.n) \in Seq(Nat)
      /\ Len(Append(numbers, frame.n)) = m + 1
      /\ \A i \in 1..m : Append(numbers, frame.n)[i] = numbers[i]
      /\ Append(numbers, frame.n)[m + 1] = frame.n
  BY <1>5, AppendProperties
<1>7. ASSUME NEW i \in 1..(m + 1) PROVE whole[i] = Append(numbers, frame.n)[i]
  <2>1. whole[i] = longer[i].n
    BY <1>4
  <2>2. CASE i = m + 1
    BY <1>2, <1>6, <2>1, <2>2
  <2>3. CASE i \in 1..m
    <3>1. longer[i] = list[i]
      BY <1>2, <2>3
    <3>2. Append(numbers, frame.n)[i] = list[i].n
      BY <1>5, <1>6, <2>3
    <3>. QED
      BY <2>1, <3>1, <3>2
  <2>4. i = m + 1 \/ i \in 1..m
    OBVIOUS
  <2>. QED
    BY <2>2, <2>3, <2>4
<1>8. whole = Append(numbers, frame.n)
  BY <1>1, <1>4, <1>6, <1>7, SeqEqual
<1>. QED
  BY <1>8 DEF whole, numbers, longer

-----------------------------------------------------------------------------
(* The body has no unknown hole                                            *)

LEMMA HolesInit == Init => HolesInv
<1>. SUFFICES ASSUME Init PROVE HolesInv
  OBVIOUS
<1>1. PICK size \in Sizes : arrays = <<[i \in 1..size |-> 0]>>
  BY DEF Init
<1>2. arrays \in Seq(Seq(Nat)) /\ arrays # <<>>
  <2>1. size \in Nat
    BY BodyAssumption
  <2>2. [i \in 1..size |-> 0] \in Seq(Nat)
    BY <2>1
  <2>. QED
    BY <1>1, <2>2
<1>3. BodyTypes
  <2>1. want \in Nat /\ window \in Int
    BY BodyAssumption DEF Init
  <2>2. frames \in Seq(Stored)
    BY DEF Init, Stored
  <2>. QED
    BY <1>2, <2>1, <2>2, EmptySeq DEF Init, BodyTypes
<1>4. Pieces = <<>>
  BY DEF Init, Pieces
<1>5. Numbers(sent) = <<>>
  BY DEF Init, Numbers
<1>6. ~Ended
  BY DEF Init, Ended
<1>. QED
  BY <1>3, <1>4, <1>5, <1>6 DEF HolesInv, PiecesInOrder, NothingLost, WaitedForAll

\* A frame's number comes last among the pieces.
LEMMA OrderGrows ==
  ASSUME BodyTypes, PiecesInOrder,
         Pieces' = Append(Pieces, count + 1), count' = count + 1
  PROVE  PiecesInOrder'
<1>1. Pieces \in Seq(Nat) /\ count + 1 \in Nat /\ count \in Nat
  BY ConcatProperties DEF BodyTypes, Pieces
<1>2. PICK n \in Nat : n = Len(Pieces)
  BY <1>1, LenProperties
<1>3. /\ Len(Pieces') = n + 1 /\ Pieces'[n + 1] = count + 1
      /\ \A i \in 1..n : Pieces'[i] = Pieces[i]
  BY <1>1, <1>2, AppendProperties
<1>4. \A i \in 1..n : Pieces[i] \in Nat
  BY <1>1, <1>2, ElementOfSeq
<1>5. ASSUME NEW i \in 1..Len(Pieces') PROVE Pieces'[i] <= count + 1
  BY <1>1, <1>2, <1>3, <1>4 DEF PiecesInOrder
<1>6. ASSUME NEW i \in 1..Len(Pieces'), NEW j \in 1..Len(Pieces'), i < j
      PROVE  Pieces'[i] < Pieces'[j]
  <2>1. i \in 1..n /\ Pieces'[i] = Pieces[i] /\ Pieces[i] <= count
    BY <1>2, <1>3, <1>6 DEF PiecesInOrder
  <2>2. CASE j = n + 1
    BY <1>1, <1>3, <1>4, <2>1, <2>2
  <2>3. CASE j # n + 1
    <3>1. j \in 1..n /\ Pieces'[j] = Pieces[j]
      BY <1>3, <2>3
    <3>. QED
      BY <1>2, <1>6, <2>1, <3>1 DEF PiecesInOrder
  <2>. QED
    BY <2>2, <2>3
<1>. QED
  BY <1>5, <1>6 DEF PiecesInOrder

\* More frames may have been read.
LEMMA OrderStays ==
  ASSUME BodyTypes, PiecesInOrder, Pieces' = Pieces, count' \in {count, count + 1}
  PROVE  PiecesInOrder'
<1>1. Pieces \in Seq(Nat) /\ count \in Nat
  BY ConcatProperties DEF BodyTypes, Pieces
<1>2. \A i \in 1..Len(Pieces) : Pieces[i] \in Nat
  BY <1>1, ElementOfSeq
<1>. QED
  BY <1>1, <1>2 DEF PiecesInOrder

LEMMA ReadDataKeepsHoles ==
  ASSUME HolesInv, NEW size \in Sizes, ReadData(size)
  PROVE  HolesInv'
<1>. DEFINE frame == [n |-> count + 1, size |-> size]
            stored == [n |-> count + 1, size |-> size, array |-> Len(arrays')]
<1>1. BodyTypes /\ count + 1 \in Nat /\ size \in Nat
  BY BodyAssumption DEF HolesInv, BodyTypes
<1>2. ReadArrays(arrays', size)
  BY <1>1, ReadIntoArrays DEF ReadData, ReadFrame
<1>3. /\ frames' = Append(frames, stored) /\ sent' = Append(sent, frame)
      /\ ~closed /\ count' = count + 1 /\ window' = window - size
      /\ UNCHANGED <<want, body, timedOut, pc, late, room, allFrames, echo>>
  BY DEF ReadData, Store, ReadFrame, requestVars, copyVars
<1>4. \/ response' = Append(response, count + 1) /\ overflowed' = overflowed
      \/ response' = response /\ overflowed' = TRUE
  BY DEF ReadData, HandleData
<1>5. closed' \in BOOLEAN
  BY <1>1 DEF ReadData, HandleData, BodyTypes
<1>6. BodyTypes'
  <2>1. stored \in Stored /\ frame \in [n : Nat, size : Sizes]
    <3>1. Len(arrays') \in Nat
      BY <1>2, LenProperties DEF ReadArrays
    <3>. QED
      BY <1>1, <3>1 DEF Stored
  <2>. HIDE DEF stored, frame
  <2>2. frames' \in Seq(Stored) /\ sent' \in Seq([n : Nat, size : Sizes])
    BY <1>1, <1>3, <2>1, AppendProperties DEF BodyTypes
  <2>3. response' \in Seq(Nat)
    <3>1. response \in Seq(Nat) /\ Append(response, count + 1) \in Seq(Nat)
      BY <1>1, AppendProperties DEF BodyTypes
    <3>. QED
      BY <1>4, <3>1, Zenon
  <2>4. arrays' \in Seq(Seq(Nat)) /\ arrays' # <<>>
    BY <1>2 DEF ReadArrays
  <2>5. overflowed' \in BOOLEAN
    BY <1>1, <1>4, Zenon DEF BodyTypes
  <2>6. window' \in Int
    BY <1>1, <1>3 DEF BodyTypes
  <2>. QED
    BY <1>1, <1>3, <1>5, <2>2, <2>3, <2>4, <2>5, <2>6 DEF BodyTypes
<1>7. PiecesInOrder' /\ NothingLost'
  <2>1. PiecesInOrder /\ NothingLost
    BY DEF HolesInv
  <2>2. CASE response' = Append(response, count + 1) /\ overflowed' = overflowed
    <3>1. Pieces' = Append(Pieces, count + 1)
      BY <1>1, <1>3, <2>2, PieceComes DEF BodyTypes, Pieces
    <3>2. Numbers(sent') = Append(Numbers(sent), count + 1)
      <4>1. frame \in [n : Nat, size : Sizes] /\ frame.n = count + 1
        BY <1>1
      <4>. HIDE DEF frame
      <4>. QED
        BY <1>1, <1>3, <4>1, NumbersOfAppend DEF BodyTypes
    <3>3. PiecesInOrder'
      BY <1>1, <1>3, <2>1, <3>1, OrderGrows
    <3>4. NothingLost'
      BY <2>1, <2>2, <3>1, <3>2 DEF NothingLost
    <3>. QED
      BY <3>3, <3>4
  <2>3. CASE response' = response /\ overflowed' = TRUE
    <3>1. Pieces' = Pieces
      BY <1>3, <2>3 DEF Pieces
    <3>. QED
      BY <1>1, <1>3, <2>1, <2>3, <3>1, OrderStays DEF NothingLost
  <2>. QED
    BY <1>4, <2>2, <2>3
<1>8. WaitedForAll'
  BY <1>3 DEF HolesInv, WaitedForAll, Ended
<1>. QED
  BY <1>6, <1>7, <1>8 DEF HolesInv

LEMMA HolesInductive ==
  ASSUME HolesInv, [Next]_vars
  PROVE  HolesInv'
<1>1. BodyTypes /\ PiecesInOrder /\ NothingLost /\ WaitedForAll
  BY DEF HolesInv
<1>2. ASSUME NEW size \in Sizes,
             ReadOther(size) \/ ReadOnConnection(size) \/ ReadOnStream(size)
      PROVE  HolesInv'
  <2>1. ReadArrays(arrays', size)
    BY <1>1, <1>2, ReadIntoArrays DEF ReadOther, ReadOnConnection, ReadOnStream, ReadFrame
  <2>. DEFINE stored == [n |-> count + 1, size |-> 0, array |-> Len(arrays')]
  <2>2. /\ count' = count + 1 /\ UNCHANGED <<clientVars, requestVars>>
        /\ UNCHANGED <<response, closed, overflowed>>
        /\ late' \in {late, late + 1}
        /\ frames' \in {frames, Append(frames, stored)}
    BY <1>2 DEF ReadOther, ReadOnConnection, ReadOnStream, ReadFrame
  <2>6. frames' \in Seq(Stored)
    <3>1. stored \in Stored
      <4>1. Len(arrays') \in Nat
        BY <2>1, LenProperties DEF ReadArrays
      <4>. QED
        BY <1>1, <4>1 DEF Stored, BodyTypes
    <3>. HIDE DEF stored
    <3>2. frames \in Seq(Stored)
      BY <1>1 DEF BodyTypes
    <3>3. Append(frames, stored) \in Seq(Stored)
      BY <3>1, <3>2, AppendProperties
    <3>. QED
      BY <2>2, <3>2, <3>3
  <2>. HIDE DEF stored
  <2>7. late' \in Nat
    BY <1>1, <2>2 DEF BodyTypes
  <2>3. BodyTypes'
    BY <1>1, <2>1, <2>2, <2>6, <2>7
       DEF BodyTypes, ReadArrays, clientVars, requestVars, copyVars
  <2>4. Pieces' = Pieces
    BY <2>2 DEF Pieces, requestVars
  <2>5. PiecesInOrder'
    BY <1>1, <2>2, <2>4, OrderStays
  <2>. QED
    BY <1>1, <2>2, <2>3, <2>4, <2>5
       DEF HolesInv, NothingLost, WaitedForAll, Ended, clientVars, requestVars
<1>3. CASE ReceiveBody
  <2>1. /\ response # <<>> /\ body' = Append(body, Head(response))
        /\ response' = Tail(response)
        /\ UNCHANGED <<clientVars, count, arrays, frames, closed, overflowed,
                       timedOut, pc, late, room, allFrames, echo>>
    BY <1>3 DEF ReceiveBody, copyVars
  <2>2. response \in Seq(Nat) /\ body \in Seq(Nat)
    BY <1>1 DEF BodyTypes
  <2>3. Head(response) \in Nat /\ Tail(response) \in Seq(Nat)
    BY <2>1, <2>2, HeadTailProperties
  <2>4. BodyTypes'
    BY <1>1, <2>1, <2>2, <2>3, AppendProperties DEF BodyTypes, clientVars
  <2>5. Pieces' = Pieces
    BY <2>1, <2>2, PieceMoves DEF Pieces
  <2>6. PiecesInOrder'
    BY <1>1, <2>1, <2>5, OrderStays
  <2>. QED
    BY <1>1, <1>3, <2>1, <2>4, <2>5, <2>6
       DEF HolesInv, NothingLost, WaitedForAll, Ended, clientVars, ReceiveBody
<1>4. CASE BodyEnded \/ BodyTimeout
  <2>1. /\ UNCHANGED <<clientVars, readerVars, body, late, room, allFrames, echo>>
        /\ pc' = "ended" /\ timedOut' \in BOOLEAN
        /\ ~timedOut' => closed /\ response = <<>>
    BY <1>1, <1>4 DEF BodyEnded, BodyTimeout, BodyTypes, copyVars
  <2>2. BodyTypes' /\ Pieces' = Pieces
    BY <1>1, <2>1 DEF BodyTypes, Pieces, clientVars, readerVars
  <2>3. PiecesInOrder'
    BY <1>1, <2>1, <2>2, OrderStays DEF readerVars
  <2>. QED
    BY <1>1, <2>1, <2>2, <2>3
       DEF HolesInv, NothingLost, WaitedForAll, clientVars, readerVars
<1>5. CASE CountConnection \/ CountStream \/ CopyFrames \/ EchoByte \/ Respond
  <2>1. /\ UNCHANGED <<clientVars, readerVars, body, timedOut, late>>
        /\ pc # "waiting"
        /\ pc' \in {"counted", "copying", "echoing", "answered", "panicked"}
    BY <1>5 DEF CountConnection, CountStream, CopyFrames, EchoByte, Respond
  <2>5. room' \in Nat
    <3>1. Len(frames) \in Nat
      BY <1>1, LenProperties DEF BodyTypes
    <3>. QED
      BY <1>1, <1>5, <3>1
         DEF CountConnection, CountStream, CopyFrames, EchoByte, Respond, BodyTypes, copyVars
  <2>3. BodyTypes' /\ Pieces' = Pieces
    BY <1>1, <2>1, <2>5 DEF BodyTypes, Pieces, clientVars, readerVars
  <2>4. PiecesInOrder'
    BY <1>1, <2>1, <2>3, OrderStays DEF readerVars
  <2>. QED
    BY <1>1, <2>1, <2>3, <2>4
       DEF HolesInv, NothingLost, WaitedForAll, Ended, clientVars, readerVars
<1>6. CASE UNCHANGED vars
  BY <1>1, <1>6 DEF HolesInv, BodyTypes, PiecesInOrder, Pieces, NothingLost, WaitedForAll,
     Ended, vars, clientVars, readerVars, requestVars, copyVars
<1>7. ASSUME NEW size \in Sizes, ReadData(size) PROVE HolesInv'
  BY <1>7, ReadDataKeepsHoles
<1>. QED
  BY <1>2, <1>3, <1>4, <1>5, <1>6, <1>7 DEF Next, Reader, HandleRequest

(***************************************************************************)
(* For any channel, window and frames, what waitForStreamBody has is in    *)
(* the order the client sent it, and once its wait is over it has every    *)
(* DATA frame, unless it ran out of time or the channel was full.          *)
(***************************************************************************)
THEOREM HolesAreKnown == Spec => []HolesOnlyWhenFull
<1>1. HolesInv => HolesOnlyWhenFull
  <2>. SUFFICES ASSUME HolesInv PROVE HolesOnlyWhenFull
    OBVIOUS
  <2>1. body \in Seq(Nat) /\ response \in Seq(Nat)
    BY DEF HolesInv, BodyTypes
  <2>2. PICK n \in Nat : n = Len(body) /\ DOMAIN body = 1..n
    BY <2>1, LenProperties
  <2>3. Len(Pieces) >= n /\ \A i \in 1..n : Pieces[i] = body[i]
    BY <2>1, <2>2, ConcatProperties, LenProperties DEF Pieces
  <2>4. Len(Pieces) \in Nat
    BY <2>1, ConcatProperties, LenProperties DEF Pieces
  <2>5. ASSUME NEW i \in DOMAIN body, NEW j \in DOMAIN body, i < j
        PROVE  body[i] < body[j]
    BY <2>2, <2>3, <2>4, <2>5 DEF HolesInv, PiecesInOrder
  <2>6. ASSUME Ended, ~timedOut, ~overflowed PROVE body = Numbers(sent)
    <3>1. response = <<>> /\ Pieces = Numbers(sent)
      BY <2>6 DEF HolesInv, WaitedForAll, NothingLost
    <3>. QED
      BY <2>1, <3>1, ConcatEmptySeq DEF Pieces
  <2>. QED
    BY <2>5, <2>6 DEF HolesOnlyWhenFull
<1>. QED
  BY <1>1, HolesInit, HolesInductive, PTL DEF Spec

-----------------------------------------------------------------------------
(* An echo is as long as what was copied of the body, and not older        *)

\* What came after a part of a list is not in it.
LEMMA PartStays ==
  ASSUME NEW R, NEW list \in Seq(R), NEW r \in R, NEW k \in 0..Len(list)
  PROVE  SubSeq(Append(list, r), 1, k) = SubSeq(list, 1, k)
<1>. DEFINE longer == Append(list, r)
<1>1. PICK n \in Nat : n = Len(list)
  BY LenProperties
<1>2. /\ longer \in Seq(R) /\ Len(longer) = n + 1
      /\ \A i \in 1..n : longer[i] = list[i]
  BY <1>1, AppendProperties
<1>3. k \in Nat /\ k <= n /\ 1 \in Int /\ k \in Int
  BY <1>1
<1>4. /\ \A i \in 1..k : list[i] \in R
      /\ \A i \in 1..k : longer[i] \in R
  <2>. HIDE DEF longer
  <2>1. \A i \in 1..k : i \in 1..n
    BY <1>3
  <2>. QED
    BY <1>1, <1>2, <2>1, ElementOfSeq
<1>. HIDE DEF longer
<1>5. /\ SubSeq(list, 1, k) \in Seq(R)
      /\ Len(SubSeq(list, 1, k)) = IF 1 <= k THEN k - 1 + 1 ELSE 0
      /\ \A i \in 1..(k - 1 + 1) : SubSeq(list, 1, k)[i] = list[1 + i - 1]
  BY <1>3, <1>4, SubSeqProperties
<1>6. /\ SubSeq(longer, 1, k) \in Seq(R)
      /\ Len(SubSeq(longer, 1, k)) = IF 1 <= k THEN k - 1 + 1 ELSE 0
      /\ \A i \in 1..(k - 1 + 1) : SubSeq(longer, 1, k)[i] = longer[1 + i - 1]
  BY <1>3, <1>4, SubSeqProperties
<1>7. ASSUME NEW i \in 1..Len(SubSeq(longer, 1, k))
      PROVE  SubSeq(longer, 1, k)[i] = SubSeq(list, 1, k)[i]
  <2>1. i \in 1..k /\ i \in 1..n /\ i \in 1..(k - 1 + 1) /\ 1 + i - 1 = i
    BY <1>3, <1>6
  <2>. QED
    BY <1>2, <1>5, <1>6, <2>1
<1>8. SubSeq(longer, 1, k) = SubSeq(list, 1, k)
  BY <1>5, <1>6, <1>7, SeqEqual
<1>. QED
  BY <1>8 DEF longer

LEMMA EchoInit == Init => EchoInv
<1>. SUFFICES ASSUME Init PROVE EchoInv
  OBVIOUS
<1>1. HolesInv
  BY HolesInit
<1>2. BytesRead
  <2>1. PICK size \in Sizes : arrays = <<[i \in 1..size |-> 0]>>
    BY DEF Init
  <2>2. size \in Nat
    BY BodyAssumption
  <2>. DEFINE first == [i \in 1..size |-> 0]
  <2>3. Len(first) = size /\ \A i \in 1..size : first[i] = 0
    BY <2>2
  <2>. HIDE DEF first
  <2>4. Len(arrays) = 1 /\ arrays[1] = first
    BY <2>1 DEF first
  <2>5. \A a \in 1..Len(arrays) : a = 1
    BY <2>4
  <2>6. count = 0
    BY DEF Init
  <2>. QED
    BY <2>2, <2>3, <2>4, <2>5, <2>6 DEF BytesRead
<1>3. FramesHeld /\ CopiesHeld /\ EchoHeld
  <2>1. allFrames = <<>> /\ echo = <<>>
    BY DEF Init
  <2>2. Len(allFrames) = 0 /\ Len(echo) = 0
        /\ echo \in Seq([of : Nat, is : Nat])
    BY <2>1, EmptySeq
  <2>3. \A k \in 1..Len(frames) : frames[k].size = 0
    BY DEF Init
  <2>. QED
    BY <2>2, <2>3 DEF FramesHeld, CopiesHeld, EchoHeld
<1>4. ListWhole
  <2>. DEFINE headers == [n |-> 0, size |-> 0, array |-> 1]
  <2>1. /\ <<>> \in Seq(Stored) /\ headers \in Stored
        /\ \A r \in Stored : r.size \in Nat
    BY StoredSizes, EmptySeq DEF Stored
  <2>2. headers.size = 0 /\ frames = Append(<<>>, headers)
    BY DEF Init
  <2>. HIDE DEF headers
  <2>3. Bytes(frames) = Bytes(<<>>) + headers.size
    BY <2>1, <2>2, BytesOfAppend
  <2>. QED
    BY <2>2, <2>3, BytesOfNone DEF Init, ListWhole
<1>5. Counted /\ EchoWhole
  BY DEF Init, Counted, EchoWhole
<1>. QED
  BY <1>1, <1>2, <1>3, <1>4, <1>5 DEF EchoInv

\* A byte in an array may only become a later frame's.
LEMMA HeldStays ==
  ASSUME BodyTypes, BytesRead, NEW size \in Sizes, ReadArrays(arrays', size),
         NEW slot, slot.of \in Nat, Held(slot, arrays)
  PROVE  Held(slot, arrays')
<1>1. PICK a, i : a = slot.array /\ i = slot.at
  OBVIOUS
<1>2. /\ a \in 1..Len(arrays) /\ i \in 1..Len(arrays[a])
      /\ arrays[a][i] >= slot.of /\ arrays[a][i] <= count
  BY <1>1 DEF Held, BytesRead
<1>3. arrays[a][i] \in Nat /\ count \in Nat
  <2>1. arrays[a] \in Seq(Nat)
    BY <1>2, ElementOfSeq DEF BodyTypes
  <2>. QED
    BY <1>2, <2>1, ElementOfSeq DEF BodyTypes
<1>4. /\ a \in 1..Len(arrays') /\ i \in 1..Len(arrays'[a])
      /\ arrays'[a][i] = count + 1 \/ arrays'[a][i] = arrays[a][i]
  <2>1. Len(arrays) \in Nat /\ Len(arrays') \in Nat
    BY LenProperties DEF BodyTypes, ReadArrays
  <2>2. Len(arrays) <= Len(arrays') /\ Len(arrays'[a]) = Len(arrays[a])
    BY <1>2 DEF ReadArrays
  <2>3. a \in 1..Len(arrays') /\ i \in 1..Len(arrays'[a])
    BY <1>2, <2>1, <2>2
  <2>4. arrays'[a][i] = count + 1 \/ arrays'[a][i] = arrays[a][i]
    BY <2>3 DEF ReadArrays
  <2>. QED
    BY <2>3, <2>4
<1>5. arrays'[a][i] >= slot.of
  BY <1>2, <1>3, <1>4
<1>. QED
  BY <1>1, <1>4, <1>5 DEF Held

\* What a read does to all the bytes held.
LEMMA ReadKeepsBytes ==
  ASSUME BodyTypes, BytesRead, FramesHeld, CopiesHeld,
         NEW size \in Sizes, ReadArrays(arrays', size),
         count' = count + 1, allFrames' = allFrames
  PROVE  /\ BytesRead' /\ CopiesHeld'
         /\ \A k \in 1..Len(frames) : \A i \in 1..frames[k].size :
              Held(Slot(frames[k], i), arrays')
<1>1. count \in Nat /\ Len(arrays) \in Nat /\ Len(arrays') \in Nat
  BY LenProperties DEF BodyTypes, ReadArrays
<1>2. BytesRead'
  <2>1. ASSUME NEW a \in 1..Len(arrays'), NEW i \in 1..Len(arrays'[a])
        PROVE  arrays'[a][i] <= count + 1
    <3>1. CASE arrays'[a][i] = count + 1
      BY <1>1, <3>1
    <3>2. CASE arrays'[a][i] # count + 1
      <4>0. a <= Len(arrays) /\ arrays'[a][i] = arrays[a][i]
        BY <3>2 DEF ReadArrays
      <4>1. a \in 1..Len(arrays) /\ arrays'[a][i] = arrays[a][i]
        BY <1>1, <4>0
      <4>2. i \in 1..Len(arrays[a])
        BY <4>1 DEF ReadArrays
      <4>3. arrays[a][i] <= count /\ arrays[a][i] \in Nat
        <5>1. arrays[a] \in Seq(Nat)
          BY <4>1, ElementOfSeq DEF BodyTypes
        <5>. QED
          BY <4>1, <4>2, <5>1, ElementOfSeq DEF BytesRead
      <4>. QED
        BY <1>1, <4>1, <4>3
    <3>. QED
      BY <3>1, <3>2
  <2>. QED
    BY <2>1 DEF BytesRead
<1>3. CopiesHeld'
  <2>1. ASSUME NEW k \in 1..Len(allFrames) PROVE Held(allFrames[k], arrays')
    <3>1. allFrames[k] \in [of : Nat, array : Nat, at : Nat]
      BY ElementOfSeq DEF CopiesHeld
    <3>2. PICK slot : slot = allFrames[k]
      OBVIOUS
    <3>3. slot.of \in Nat /\ Held(slot, arrays)
      BY <3>1, <3>2 DEF CopiesHeld
    <3>. QED
      BY <3>2, <3>3, HeldStays
  <2>. QED
    BY <2>1 DEF CopiesHeld
<1>4. ASSUME NEW k \in 1..Len(frames), NEW i \in 1..frames[k].size
      PROVE  Held(Slot(frames[k], i), arrays')
  <2>1. frames[k] \in Stored
    BY ElementOfSeq DEF BodyTypes
  <2>2. PICK slot : slot = Slot(frames[k], i)
    OBVIOUS
  <2>3. slot.of \in Nat /\ Held(slot, arrays)
    BY <2>1, <2>2 DEF FramesHeld, Slot, Stored
  <2>. QED
    BY <2>2, <2>3, HeldStays
<1>. QED
  BY <1>2, <1>3, <1>4

LEMMA EchoedStays ==
  ASSUME BodyTypes, EchoHeld, echo' = echo, count' \in {count, count + 1}
  PROVE  EchoHeld'
<1>1. ASSUME NEW k \in 1..Len(echo) PROVE echo[k] \in [of : Nat, is : Nat]
  BY ElementOfSeq DEF EchoHeld
<1>2. count \in Nat
  BY DEF BodyTypes
<1>. QED
  BY <1>1, <1>2 DEF EchoHeld

\* What a frame more in the stream's list does to it and to its copy.
LEMMA AppendKeepsEcho ==
  ASSUME EchoInv, NEW size \in Sizes, NEW part \in {0, size},
         ReadArrays(arrays', size), count' = count + 1,
         frames' = Append(frames, [n |-> count + 1, size |-> part, array |-> Len(arrays')]),
         UNCHANGED <<want, timedOut, pc, late, room, allFrames, echo>>
  PROVE  /\ BytesRead' /\ FramesHeld' /\ CopiesHeld' /\ EchoHeld'
         /\ Counted' /\ EchoWhole' /\ Bytes(frames') = Bytes(frames) + part
<1>. DEFINE stored == [n |-> count + 1, size |-> part, array |-> Len(arrays')]
<1>1. /\ BodyTypes /\ BytesRead /\ FramesHeld /\ CopiesHeld /\ EchoHeld
      /\ Counted /\ EchoWhole
      /\ count + 1 \in Nat /\ size \in Nat /\ part \in Nat /\ part <= size
  BY BodyAssumption DEF EchoInv, HolesInv, BodyTypes
<1>2. /\ stored \in Stored /\ stored.size = part /\ frames' = Append(frames, stored)
      /\ Len(arrays') \in Nat \ {0}
  <2>1. Len(arrays') \in Nat \ {0}
    BY EmptySeq DEF ReadArrays
  <2>. QED
    BY <1>1, <2>1 DEF Stored
<1>3. /\ BytesRead' /\ CopiesHeld'
      /\ \A k \in 1..Len(frames) : \A i \in 1..frames[k].size :
           Held(Slot(frames[k], i), arrays')
  BY <1>1, ReadKeepsBytes
<1>4. ASSUME NEW i \in 1..part PROVE Held(Slot(stored, i), arrays')
  <2>1. /\ Slot(stored, i).of = count + 1 /\ Slot(stored, i).at = i
        /\ Slot(stored, i).array = Len(arrays')
    BY DEF Slot
  <2>2. i \in 1..Len(arrays'[Len(arrays')]) /\ arrays'[Len(arrays')][i] = count + 1
    <3>1. Len(arrays'[Len(arrays')]) \in Nat
      BY <1>2, ElementOfSeq, LenProperties DEF ReadArrays
    <3>2. i \in 1..size
      BY <1>1
    <3>. QED
      BY <1>1, <3>1, <3>2 DEF ReadArrays
  <2>3. Len(arrays') \in 1..Len(arrays') /\ count + 1 >= count + 1
    BY <1>1, <1>2
  <2>. QED
    BY <2>1, <2>2, <2>3 DEF Held
<1>5. PICK n \in Nat : n = Len(frames)
  BY <1>1, LenProperties DEF BodyTypes
<1>. HIDE DEF stored
<1>6. /\ Len(frames') = n + 1 /\ frames'[n + 1] = stored
      /\ \A k \in 1..n : frames'[k] = frames[k]
  BY <1>1, <1>2, <1>5, AppendProperties DEF BodyTypes
<1>7. FramesHeld'
  <2>1. ASSUME NEW k \in 1..Len(frames'), NEW i \in 1..frames'[k].size
        PROVE  Held(Slot(frames'[k], i), arrays')
    <3>1. CASE k = n + 1
      BY <1>2, <1>4, <1>6, <3>1
    <3>2. CASE k # n + 1
      <4>1. k \in 1..n
        BY <1>6, <3>2
      <4>. QED
        BY <1>3, <1>5, <1>6, <4>1
    <3>. QED
      BY <3>1, <3>2
  <2>. QED
    BY <2>1 DEF FramesHeld, Slot
<1>8. EchoHeld'
  BY <1>1, EchoedStays
<1>9. Bytes(frames') = Bytes(frames) + part
  <2>1. frames \in Seq(Stored) /\ \A r \in Stored : r.size \in Nat
    BY <1>1, StoredSizes DEF BodyTypes
  <2>2. Bytes(Append(frames, stored)) = Bytes(frames) + stored.size
    BY <1>2, <2>1, BytesOfAppend
  <2>. QED
    BY <1>2, <2>2
<1>10. Counted'
  BY <1>1, <1>5, <1>6 DEF Counted
<1>11. EchoWhole'
  <2>1. ASSUME NEW k \in 0..n PROVE SubSeq(frames', 1, k) = SubSeq(frames, 1, k)
    <3>1. frames \in Seq(Stored)
      BY <1>1 DEF BodyTypes
    <3>. QED
      BY <1>2, <1>5, <3>1, PartStays
  <2>2. pc \in {"copying", "echoing", "answered"} => room \in 0..n
    BY <1>1, <1>5 DEF Counted
  <2>3. pc \in {"echoing", "answered"} => room - late \in 0..n
    BY <1>1, <1>5, <2>2 DEF Counted, BodyTypes
  <2>. QED
    BY <1>1, <2>1, <2>2, <2>3 DEF EchoWhole
<1>. QED
  BY <1>3, <1>7, <1>8, <1>9, <1>10, <1>11

LEMMA ReadDataKeepsEcho ==
  ASSUME EchoInv, HolesInv', NEW size \in Sizes, ReadData(size)
  PROVE  EchoInv'
<1>. DEFINE frame == [n |-> count + 1, size |-> size]
<1>1. BodyTypes /\ ListWhole /\ count + 1 \in Nat /\ size \in Nat
  BY BodyAssumption DEF EchoInv, HolesInv, BodyTypes
<1>2. ReadArrays(arrays', size)
  BY <1>1, ReadIntoArrays DEF ReadData, ReadFrame
<1>3. /\ frames' = Append(frames, [n |-> count + 1, size |-> size, array |-> Len(arrays')])
      /\ sent' = Append(sent, frame)
      /\ ~closed /\ count' = count + 1
      /\ UNCHANGED <<want, body, timedOut, pc, late, room, allFrames, echo>>
      /\ closed' => Bytes(sent) + size = want
  BY <1>1 DEF ReadData, Store, ReadFrame, requestVars, copyVars, HandleData, BodyTypes
<1>4. /\ BytesRead' /\ FramesHeld' /\ CopiesHeld' /\ EchoHeld'
      /\ Counted' /\ EchoWhole' /\ Bytes(frames') = Bytes(frames) + size
  BY <1>2, <1>3, AppendKeepsEcho
<1>5. ListWhole'
  <2>1. /\ frame \in [n : Nat, size : Sizes] /\ frame.size = size
        /\ \A r \in [n : Nat, size : Sizes] : r.size \in Nat
    BY <1>1, BodyAssumption
  <2>. HIDE DEF frame
  <2>2. sent \in Seq([n : Nat, size : Sizes])
    BY <1>1 DEF BodyTypes
  <2>3. Bytes(Append(sent, frame)) = Bytes(sent) + frame.size
    BY <2>1, <2>2, BytesOfAppend
  <2>. QED
    BY <1>1, <1>3, <1>4, <2>1, <2>3 DEF ListWhole
<1>. QED
  BY <1>4, <1>5 DEF EchoInv

LEMMA ReadOnStreamKeepsEcho ==
  ASSUME EchoInv, HolesInv', NEW size \in Sizes, ReadOnStream(size)
  PROVE  EchoInv'
<1>1. BodyTypes /\ ListWhole
  BY DEF EchoInv, HolesInv
<1>2. ReadArrays(arrays', size)
  BY <1>1, ReadIntoArrays DEF ReadOnStream, ReadFrame
<1>3. /\ frames' = Append(frames, [n |-> count + 1, size |-> 0, array |-> Len(arrays')])
      /\ count' = count + 1
      /\ UNCHANGED <<want, sent, closed, timedOut, pc, late, room, allFrames, echo>>
  BY DEF ReadOnStream, ReadFrame, clientVars, requestVars, copyVars
<1>4. /\ BytesRead' /\ FramesHeld' /\ CopiesHeld' /\ EchoHeld'
      /\ Counted' /\ EchoWhole' /\ Bytes(frames') = Bytes(frames) + 0
  BY <1>2, <1>3, AppendKeepsEcho
<1>5. Bytes(frames) \in Nat
  <2>1. frames \in Seq(Stored) /\ \A r \in Stored : r.size \in Nat
    BY <1>1, StoredSizes DEF BodyTypes
  <2>2. [n |-> 0, size |-> 0, array |-> 0] \in Stored
    BY DEF Stored
  <2>. QED
    BY <2>1, <2>2, BytesOfAppend
<1>6. ListWhole'
  BY <1>1, <1>3, <1>4, <1>5 DEF ListWhole
<1>. QED
  BY <1>4, <1>6 DEF EchoInv

LEMMA CopyKeepsEcho ==
  ASSUME EchoInv, HolesInv', CopyFrames
  PROVE  EchoInv'
<1>. DEFINE k == room - late
            some == SubSeq(frames, 1, k)
            T == {slot \in [of : Nat, array : Nat, at : Nat] : Held(slot, arrays)}
<1>1. /\ BodyTypes /\ BytesRead /\ FramesHeld /\ CopiesHeld /\ EchoHeld
      /\ ListWhole /\ Counted /\ EchoWhole /\ late \in Nat /\ room \in Nat
  BY DEF EchoInv, HolesInv, BodyTypes
<1>2. /\ pc = "copying"
      /\ UNCHANGED <<want, sent, count, arrays, frames, closed, timedOut, late, room, echo>>
  BY DEF CopyFrames, clientVars, readerVars
<1>3. BytesRead' /\ FramesHeld' /\ EchoHeld' /\ ListWhole'
  <2>1. EchoHeld'
    BY <1>1, <1>2, EchoedStays
  <2>. QED
    BY <1>1, <1>2, <2>1 DEF BytesRead, FramesHeld, Slot, ListWhole
<1>4. CASE late > room
  <2>1. pc' = "panicked" /\ allFrames' = allFrames
    BY <1>4 DEF CopyFrames
  <2>2. CopiesHeld' /\ Counted' /\ EchoWhole'
    BY <1>1, <1>2, <1>4, <2>1 DEF CopiesHeld, Counted, EchoWhole
  <2>. QED
    BY <1>3, <2>2 DEF EchoInv
<1>5. CASE ~(late > room)
  <2>1. pc' = "echoing" /\ allFrames' = Slots(some)
    BY <1>5 DEF CopyFrames
  <2>2. PICK n \in Nat : n = Len(frames)
    BY <1>1, LenProperties DEF BodyTypes
  <2>3. k \in Nat /\ k <= n /\ k \in Int
    BY <1>1, <1>2, <1>5, <2>2 DEF Counted
  <2>. HIDE DEF k
  <2>4. /\ some \in Seq(Stored) /\ Len(some) = k
        /\ \A j \in 1..k : some[j] = frames[j] /\ j \in 1..n
    <3>1. \A j \in 1..k : frames[j] \in Stored
      <4>1. frames \in Seq(Stored)
        BY <1>1 DEF BodyTypes
      <4>2. \A j \in 1..k : j \in 1..Len(frames)
        BY <2>2, <2>3
      <4>. QED
        BY <4>1, <4>2, ElementOfSeq
    <3>2. /\ some \in Seq(Stored)
          /\ Len(some) = IF 1 <= k THEN k - 1 + 1 ELSE 0
          /\ \A j \in 1..(k - 1 + 1) : some[j] = frames[1 + j - 1]
      <4>1. 1 \in Int
        OBVIOUS
      <4>. QED
        BY <2>3, <3>1, <4>1, SubSeqProperties
    <3>. HIDE DEF some
    <3>3. ASSUME NEW j \in 1..k PROVE some[j] = frames[j] /\ j \in 1..n
      <4>1. j \in 1..(k - 1 + 1) /\ 1 + j - 1 = j
        BY <2>3
      <4>. QED
        BY <2>3, <3>2, <4>1
    <3>. QED
      BY <2>3, <3>2, <3>3
  <2>. HIDE DEF some
  <2>5. Slots(some) \in Seq(T) /\ Len(Slots(some)) = Bytes(some)
    <3>1. ASSUME NEW j \in DOMAIN some, NEW i \in 1..some[j].size
          PROVE  Slot(some[j], i) \in T
      <4>1. j \in 1..k /\ some[j] \in Stored
        BY <2>4, ElementOfSeq, LenProperties
      <4>2. some[j] = frames[j] /\ j \in 1..Len(frames)
        BY <2>2, <2>4, <4>1
      <4>3. Slot(some[j], i) \in [of : Nat, array : Nat, at : Nat]
        BY <4>1 DEF Stored, Slot
      <4>4. Held(Slot(some[j], i), arrays)
        BY <1>1, <4>2 DEF FramesHeld
      <4>. QED
        BY <4>3, <4>4
    <3>. HIDE DEF T
    <3>. QED
      BY <2>4, <3>1, SlotsAreWhole
  <2>6. CopiesHeld'
    <3>1. ASSUME NEW j \in 1..Len(allFrames') PROVE Held(allFrames'[j], arrays')
      <4>1. allFrames'[j] \in T
        <5>. HIDE DEF T
        <5>. QED
          BY <2>1, <2>5, ElementOfSeq
      <4>. QED
        BY <1>2, <4>1
    <3>2. allFrames' \in Seq([of : Nat, array : Nat, at : Nat])
      <4>1. T \subseteq [of : Nat, array : Nat, at : Nat]
        OBVIOUS
      <4>. HIDE DEF T
      <4>. QED
        BY <2>1, <2>5, <4>1, SeqMonotonic
    <3>. QED
      BY <3>1, <3>2 DEF CopiesHeld
  <2>7. Counted'
    BY <1>1, <1>2, <1>5, <2>1 DEF Counted
  <2>8. EchoWhole'
    <3>1. echo = <<>> /\ Len(echo) = 0
      BY <1>1, <1>2 DEF EchoWhole
    <3>2. Len(Slots(some)) \in Nat
      BY <2>5, LenProperties
    <3>3. Len(echo') + Len(allFrames') = Bytes(SubSeq(frames, 1, room - late))'
      BY <1>2, <2>1, <2>5, <3>1, <3>2 DEF some, k
    <3>. QED
      BY <1>1, <1>2, <2>1, <3>3 DEF EchoWhole
  <2>. QED
    BY <1>3, <2>6, <2>7, <2>8 DEF EchoInv
<1>. QED
  BY <1>4, <1>5

LEMMA EchoInductive ==
  ASSUME EchoInv, [Next]_vars
  PROVE  EchoInv'
<1>1. /\ BodyTypes /\ BytesRead /\ FramesHeld /\ CopiesHeld /\ EchoHeld
      /\ ListWhole /\ Counted /\ EchoWhole /\ WaitedForAll /\ HolesInv
  BY DEF EchoInv, HolesInv
<1>2. HolesInv'
  BY <1>1, HolesInductive
<1>3. ASSUME NEW size \in Sizes, ReadData(size) \/ ReadOnStream(size) PROVE EchoInv'
  BY <1>2, <1>3, ReadDataKeepsEcho, ReadOnStreamKeepsEcho
<1>4. ASSUME NEW size \in Sizes, ReadOther(size) \/ ReadOnConnection(size) PROVE EchoInv'
  <2>1. ReadArrays(arrays', size)
    BY <1>1, <1>4, ReadIntoArrays DEF ReadOther, ReadOnConnection, ReadFrame
  <2>2. /\ count' = count + 1 /\ UNCHANGED <<clientVars, requestVars>>
        /\ UNCHANGED <<frames, response, closed, overflowed>>
        /\ late' = late \/ (pc \in {"counted", "copying"} /\ late' = late + 1)
    BY <1>4 DEF ReadOther, ReadOnConnection, ReadFrame
  <2>3. UNCHANGED <<pc, timedOut, room, allFrames, echo, frames>>
    BY <2>2 DEF requestVars, copyVars
  <2>4. /\ BytesRead' /\ CopiesHeld'
        /\ \A k \in 1..Len(frames) : \A i \in 1..frames[k].size :
             Held(Slot(frames[k], i), arrays')
    BY <1>1, <2>1, <2>2, <2>3, ReadKeepsBytes
  <2>5. FramesHeld'
    BY <2>3, <2>4 DEF FramesHeld, Slot
  <2>6. EchoHeld'
    BY <1>1, <2>2, <2>3, EchoedStays
  <2>7. ListWhole' /\ Counted' /\ EchoWhole'
    BY <1>1, <2>2, <2>3 DEF ListWhole, Counted, EchoWhole, clientVars
  <2>. QED
    BY <1>2, <2>4, <2>5, <2>6, <2>7 DEF EchoInv
<1>5. CASE ReceiveBody \/ BodyEnded \/ BodyTimeout \/ CountConnection
  <2>1. /\ UNCHANGED <<clientVars, count, arrays, frames, closed, late, room, allFrames, echo>>
        /\ \/ pc = "waiting" /\ pc' \in {"waiting", "ended"}
           \/ pc = "ended" /\ pc' = "counted"
    BY <1>5 DEF ReceiveBody, BodyEnded, BodyTimeout, CountConnection, readerVars, copyVars
  <2>2. BytesRead' /\ FramesHeld' /\ CopiesHeld'
    BY <1>1, <2>1 DEF BytesRead, FramesHeld, CopiesHeld, Slot
  <2>3. EchoHeld'
    BY <1>1, <2>1, EchoedStays
  <2>4. ListWhole' /\ Counted' /\ EchoWhole'
    BY <1>1, <2>1 DEF ListWhole, Counted, EchoWhole, clientVars
  <2>. QED
    BY <1>2, <2>2, <2>3, <2>4 DEF EchoInv
<1>10. CASE CountStream
  <2>1. /\ pc = "counted" /\ pc' = "copying" /\ room' = Len(frames)
        /\ UNCHANGED <<want, sent, count, arrays, frames, response, closed, timedOut,
                       late, allFrames, echo>>
    BY <1>10 DEF CountStream, clientVars, readerVars
  <2>2. BytesRead' /\ FramesHeld' /\ CopiesHeld'
    BY <1>1, <2>1 DEF BytesRead, FramesHeld, CopiesHeld, Slot
  <2>3. EchoHeld'
    BY <1>1, <2>1, EchoedStays
  <2>4. frames \in Seq(Stored) /\ Len(frames) \in Nat
    BY <1>1, LenProperties DEF BodyTypes
  <2>5. ListWhole' /\ Counted'
    BY <1>1, <2>1, <2>4 DEF ListWhole, Counted
  <2>6. EchoWhole'
    <3>1. SubSeq(frames, 1, Len(frames)) = frames
      BY <2>4, SubSeqFull
    <3>2. ~timedOut => Bytes(frames) = want
      BY <1>1, <2>1 DEF WaitedForAll, Ended, ListWhole
    <3>. QED
      BY <1>1, <2>1, <3>1, <3>2 DEF EchoWhole
  <2>. QED
    BY <1>2, <2>2, <2>3, <2>5, <2>6 DEF EchoInv
<1>6. CASE CopyFrames
  BY <1>2, <1>6, CopyKeepsEcho
<1>7. CASE EchoByte
  <2>. DEFINE head == Head(allFrames)
              byte == [of |-> head.of, is |-> arrays[head.array][head.at]]
  <2>1. /\ pc = "echoing" /\ allFrames # <<>> /\ allFrames' = Tail(allFrames)
        /\ echo' = Append(echo, byte)
        /\ UNCHANGED <<clientVars, readerVars, body, timedOut, pc, late, room>>
    BY <1>7 DEF EchoByte
  <2>2. UNCHANGED <<want, sent, count, arrays, frames, closed, timedOut, pc, late, room>>
    BY <2>1 DEF clientVars, readerVars
  <2>3. PICK n \in Nat : n + 1 = Len(allFrames)
    <3>1. Len(allFrames) \in Nat \ {0}
      BY <1>1, <2>1, EmptySeq DEF CopiesHeld
    <3>. QED
      BY <3>1
  <2>4. /\ head = allFrames[1] /\ head \in [of : Nat, array : Nat, at : Nat]
        /\ Len(allFrames') = n /\ allFrames' \in Seq([of : Nat, array : Nat, at : Nat])
        /\ \A k \in 1..n : allFrames'[k] = allFrames[k + 1]
    <3>1. allFrames \in Seq([of : Nat, array : Nat, at : Nat])
      BY <1>1 DEF CopiesHeld
    <3>2. head = allFrames[1] /\ 1 \in 1..Len(allFrames)
      BY <2>3
    <3>3. head \in [of : Nat, array : Nat, at : Nat]
      BY <3>1, <3>2, ElementOfSeq
    <3>4. /\ Tail(allFrames) \in Seq([of : Nat, array : Nat, at : Nat])
          /\ Len(Tail(allFrames)) = Len(allFrames) - 1
          /\ \A k \in 1..Len(Tail(allFrames)) : Tail(allFrames)[k] = allFrames[k + 1]
      BY <2>1, <3>1, HeadTailProperties
    <3>5. Len(allFrames) - 1 = n
      BY <2>3
    <3>. HIDE DEF head
    <3>. QED
      BY <2>1, <3>2, <3>3, <3>4, <3>5
  <2>5. Held(head, arrays)
    <3>1. 1 \in 1..Len(allFrames)
      BY <2>3
    <3>2. Held(allFrames[1], arrays)
      BY <1>1, <3>1 DEF CopiesHeld
    <3>. QED
      BY <2>4, <3>2
  <2>6. byte \in [of : Nat, is : Nat] /\ byte.is >= byte.of /\ byte.is <= count
    <3>1. PICK slot : slot = head
      OBVIOUS
    <3>2. /\ slot.array \in 1..Len(arrays) /\ slot.at \in 1..Len(arrays[slot.array])
          /\ arrays[slot.array][slot.at] >= slot.of
      BY <2>5, <3>1 DEF Held
    <3>3. arrays[slot.array][slot.at] \in Nat
      <4>1. arrays[slot.array] \in Seq(Nat)
        BY <1>1, <3>2, ElementOfSeq DEF BodyTypes
      <4>. QED
        BY <3>2, <4>1, ElementOfSeq
    <3>4. arrays[slot.array][slot.at] <= count
      BY <1>1, <3>2 DEF BytesRead
    <3>. QED
      BY <2>4, <3>1, <3>2, <3>3, <3>4
  <2>. HIDE DEF byte
  <2>7. PICK m \in Nat : m = Len(echo)
    BY <1>1, LenProperties DEF EchoHeld
  <2>8. /\ echo' \in Seq([of : Nat, is : Nat]) /\ Len(echo') = m + 1
        /\ echo'[m + 1] = byte /\ \A k \in 1..m : echo'[k] = echo[k]
    BY <1>1, <2>1, <2>6, <2>7, AppendProperties DEF EchoHeld
  <2>9. EchoHeld'
    <3>1. ASSUME NEW k \in 1..Len(echo')
          PROVE  echo'[k].is >= echo'[k].of /\ echo'[k].is <= count
      <4>1. CASE k = m + 1
        BY <2>6, <2>8, <4>1
      <4>2. CASE k # m + 1
        <5>1. k \in 1..m
          BY <2>8, <4>2
        <5>. QED
          BY <1>1, <2>7, <2>8, <5>1 DEF EchoHeld
      <4>. QED
        BY <4>1, <4>2
    <3>. QED
      BY <2>2, <2>8, <3>1 DEF EchoHeld
  <2>10. BytesRead' /\ FramesHeld'
    BY <1>1, <2>2 DEF BytesRead, FramesHeld, Slot
  <2>11. CopiesHeld'
    <3>1. ASSUME NEW k \in 1..n PROVE Held(allFrames'[k], arrays)
      <4>1. k + 1 \in 1..Len(allFrames)
        BY <2>3
      <4>. QED
        BY <1>1, <2>4, <4>1 DEF CopiesHeld
    <3>. QED
      BY <2>2, <2>4, <3>1 DEF CopiesHeld
  <2>12. ListWhole' /\ Counted' /\ EchoWhole'
    BY <1>1, <2>1, <2>2, <2>3, <2>4, <2>7, <2>8 DEF ListWhole, Counted, EchoWhole
  <2>. QED
    BY <1>2, <2>9, <2>10, <2>11, <2>12 DEF EchoInv
<1>8. CASE Respond
  <2>1. /\ pc = "echoing" /\ pc' = "answered" /\ allFrames = <<>>
        /\ UNCHANGED <<clientVars, readerVars, timedOut, late, room, allFrames, echo>>
    BY <1>8 DEF Respond, copyVars
  <2>2. UNCHANGED <<want, sent, count, arrays, frames, closed>>
    BY <2>1 DEF clientVars, readerVars
  <2>3. BytesRead' /\ FramesHeld' /\ CopiesHeld'
    BY <1>1, <2>1, <2>2 DEF BytesRead, FramesHeld, CopiesHeld, Slot
  <2>4. EchoHeld'
    BY <1>1, <2>1, <2>2, EchoedStays
  <2>5. ListWhole' /\ Counted' /\ EchoWhole'
    BY <1>1, <2>1, <2>2 DEF ListWhole, Counted, EchoWhole
  <2>. QED
    BY <1>2, <2>3, <2>4, <2>5 DEF EchoInv
<1>9. CASE UNCHANGED vars
  BY <1>1, <1>2, <1>9 DEF EchoInv, BytesRead, FramesHeld, CopiesHeld, EchoHeld, Slot,
     ListWhole, Counted, EchoWhole, vars, clientVars, readerVars, requestVars, copyVars
<1>. QED
  BY <1>3, <1>4, <1>5, <1>6, <1>7, <1>8, <1>9, <1>10 DEF Next, Reader, HandleRequest

(***************************************************************************)
(* For any channel, window and frames, an echo that was not cut short by   *)
(* the timeout is as long as the client's body, whatever the channel       *)
(* dropped, when no frame of the connection came during the copy, and      *)
(* without the last so many of the stream's frames when some did; the copy *)
(* panics only when two did.  Each byte is the one sent or that of a later *)
(* frame, and the one sent when no frame came after its own.               *)
(***************************************************************************)
THEOREM EchoIsWhole == Spec => []EchoKeepsLength
<1>1. EchoInv => EchoKeepsLength
  <2>. SUFFICES ASSUME EchoInv PROVE EchoKeepsLength
    OBVIOUS
  <2>0. EchoWhole /\ Counted /\ room \in Nat /\ late \in Nat /\ Len(frames) \in Nat
    BY LenProperties DEF EchoInv, HolesInv, BodyTypes
  <2>1. ASSUME pc = "answered", ~timedOut
        PROVE  /\ Len(echo) = Bytes(SubSeq(frames, 1, room - late))
               /\ late = 0 => Len(echo) = want
    <3>1. /\ Len(echo) + Len(allFrames) = Bytes(SubSeq(frames, 1, room - late))
          /\ allFrames = <<>> /\ Bytes(SubSeq(frames, 1, room)) = want
      BY <2>0, <2>1 DEF EchoWhole
    <3>2. Len(echo) \in Nat /\ Len(allFrames) = 0
      BY <3>1, LenProperties, EmptySeq DEF EchoInv, EchoHeld
    <3>3. late = 0 => room - late = room
      BY <2>0
    <3>. QED
      BY <3>1, <3>2, <3>3
  <2>3. pc = "panicked" => late >= 2
    BY <2>0 DEF Counted
  <2>2. ASSUME NEW i \in DOMAIN echo
        PROVE  echo[i].is >= echo[i].of /\ (echo[i].of = count => echo[i].is = echo[i].of)
    <3>1. echo \in Seq([of : Nat, is : Nat]) /\ i \in 1..Len(echo) /\ count \in Nat
      BY LenProperties DEF EchoInv, EchoHeld, HolesInv, BodyTypes
    <3>2. echo[i] \in [of : Nat, is : Nat]
      BY <3>1, ElementOfSeq
    <3>. QED
      BY <3>1, <3>2 DEF EchoInv, EchoHeld
  <2>. QED
    BY <2>1, <2>2, <2>3 DEF EchoKeepsLength
<1>. QED
  BY <1>1, EchoInit, EchoInductive, PTL DEF Spec
=============================================================================
