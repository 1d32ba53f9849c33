---------------------------- MODULE StreamProofs ----------------------------
(***************************************************************************)
(* Proofs about the components that carry data: that ODGrowBuffer is the   *)
(* sequence of its content, that the receive loop with its packet rule     *)
(* loses no byte and hands over whole messages in the order of sending,    *)
(* and that the log reader replays whole records in order and in time.     *)
(*                                                                         *)
(* The definitions over a list of packets are recursive functions.  What   *)
(* they compute is shown by the least-number principle: there is a least   *)
(* length for which a claim fails, and none that can be it.                *)
(***************************************************************************)
EXTENDS GrowBuffer, PacketStream, LogReplay, SequenceTheorems, WellFoundedInduction, TLAPS

-----------------------------------------------------------------------------
(* ODGrowBuffer                                                            *)

(* What is asked for fits into the packets that are taken. *)
LEMMA EnoughPackets ==
    ASSUME NEW p \in Nat \ {0}, NEW n \in Nat
    PROVE  p * PacketCount(p, n) \in Nat /\ p * PacketCount(p, n) >= n
<1>1. n \div p \in Nat /\ n % p \in 0 .. p - 1
  OBVIOUS
<1>2. p * (n \div p) + (n % p) = n
  OBVIOUS
<1>3. p * (n \div p + 1) = p * (n \div p) + p
  BY <1>1
<1>4. p * (n \div p) \in Nat
  BY <1>1
<1> QED BY <1>1, <1>2, <1>3, <1>4 DEF PacketCount

(* Arrays of a given length are sequences. *)
LEMMA SetNumIsArray ==
    ASSUME NEW a \in Seq(Bytes), NEW n \in Nat, n >= Len(a)
    PROVE  /\ SetNum(a, n) \in Seq(Bytes) /\ Len(SetNum(a, n)) = n
           /\ \A i \in 1 .. Len(a) : SetNum(a, n)[i] = a[i]
<1>1. ASSUME NEW i \in 1 .. n PROVE (IF i <= Len(a) THEN a[i] ELSE 0) \in Bytes
  <2>1. CASE i <= Len(a)
    <3>1. i \in 1 .. Len(a)
      BY <2>1, LenProperties
    <3> QED BY <2>1, <3>1
  <2>2. CASE ~(i <= Len(a))
    BY <2>2 DEF Bytes
  <2> QED BY <2>1, <2>2
<1>2. SetNum(a, n) \in [1 .. n -> Bytes]
  BY <1>1 DEF SetNum
<1>3. SetNum(a, n) \in Seq(Bytes) /\ Len(SetNum(a, n)) = n
  BY <1>2
<1>4. ASSUME NEW i \in 1 .. Len(a) PROVE SetNum(a, n)[i] = a[i]
  <2>1. i \in 1 .. n /\ i <= Len(a)
    BY LenProperties
  <2> QED BY <2>1 DEF SetNum
<1> QED BY <1>3, <1>4

(* Copying changes the elements it copies to and no others.                *)
LEMMA CopiedIsArray ==
    ASSUME NEW a \in Seq(Bytes), NEW from \in Seq(Bytes), NEW position \in Nat,
           position + Len(from) <= Len(a)
    PROVE  /\ CopiedInto(a, position, from) \in Seq(Bytes)
           /\ Len(CopiedInto(a, position, from)) = Len(a)
           /\ \A i \in 1 .. Len(a) :
                 CopiedInto(a, position, from)[i] =
                     IF i \in position + 1 .. position + Len(from) THEN from[i - position] ELSE a[i]
<1>1. ASSUME NEW i \in 1 .. Len(a)
      PROVE  (IF i \in position + 1 .. position + Len(from) THEN from[i - position] ELSE a[i])
                \in Bytes
  <2>1. CASE i \in position + 1 .. position + Len(from)
    <3>1. i - position \in 1 .. Len(from)
      BY <2>1, LenProperties
    <3> QED BY <2>1, <3>1
  <2>2. CASE i \notin position + 1 .. position + Len(from)
    BY <2>2
  <2> QED BY <2>1, <2>2
<1>2. CopiedInto(a, position, from) \in [1 .. Len(a) -> Bytes]
  BY <1>1 DEF CopiedInto
<1>3. Len(a) \in Nat
  BY LenProperties
<1> QED BY <1>2, <1>3 DEF CopiedInto

(* A buffer and what it holds. *)
LEMMA ContentIs ==
    ASSUME NEW b \in Buffers
    PROVE  /\ b.innerBuffer \in Seq(Bytes) /\ b.currentSize \in Nat
           /\ Len(b.innerBuffer) \in Nat /\ b.currentSize <= Len(b.innerBuffer)
           /\ Content(b) \in Seq(Bytes) /\ Len(Content(b)) = b.currentSize
           /\ \A i \in 1 .. b.currentSize : Content(b)[i] = b.innerBuffer[i]
<1>1. /\ b.innerBuffer \in Seq(Bytes) /\ b.currentSize \in Nat
      /\ Len(b.innerBuffer) \in Nat /\ b.currentSize <= Len(b.innerBuffer)
  BY LenProperties DEF Buffers
<1>2. Content(b) = SubSeq(b.innerBuffer, 1, b.currentSize)
  BY <1>1 DEF Content, AsSpan
<1>3. \A i \in 1 .. b.currentSize : b.innerBuffer[i] \in Bytes
  BY <1>1
<1> QED BY <1>1, <1>2, <1>3, SubSeqProperties

-----------------------------------------------------------------------------
(* SetLength keeps what there is room for, whether the array grows or not:  *)
(* Recv, which fills a buffer from its start, may be told a length first    *)
(* and a smaller one afterwards.                                            *)
THEOREM SetLengthKeeps ==
    ASSUME NEW b \in Buffers, NEW p \in Nat \ {0}, NEW n \in Nat
    PROVE  /\ SetLength(b, p, n) \in Buffers /\ Len(Content(SetLength(b, p, n))) = n
           /\ \A i \in 1 .. b.currentSize :
                 i <= n => Content(SetLength(b, p, n))[i] = Content(b)[i]
           /\ \A i \in 1 .. Len(b.innerBuffer) :
                 SetLength(b, p, n).innerBuffer[i] = b.innerBuffer[i]
<1> DEFINE new == SetLength(b, p, n)
<1>1. new.currentSize = n
  BY DEF SetLength
<1>2. /\ new.innerBuffer \in Seq(Bytes) /\ Len(new.innerBuffer) \in Nat
      /\ Len(new.innerBuffer) >= n
      /\ \A i \in 1 .. Len(b.innerBuffer) : new.innerBuffer[i] = b.innerBuffer[i]
  <2>1. CASE Len(b.innerBuffer) < n
    <3>1. PICK m \in Nat : m = p * PacketCount(p, n) /\ m >= n
      BY EnoughPackets
    <3>2. new.innerBuffer = SetNum(b.innerBuffer, m)
      BY <2>1, <3>1 DEF SetLength
    <3>3. m >= Len(b.innerBuffer)
      BY <2>1, <3>1, ContentIs
    <3> QED BY <3>1, <3>2, <3>3, ContentIs, SetNumIsArray
  <2>2. CASE Len(b.innerBuffer) >= n
    BY <2>2, ContentIs DEF SetLength
  <2> QED BY <2>1, <2>2, ContentIs
<1>3. new \in Buffers
  BY <1>1, <1>2 DEF Buffers, SetLength
<1>4. ASSUME NEW i \in 1 .. b.currentSize, i <= n PROVE Content(new)[i] = Content(b)[i]
  <2>1. i \in 1 .. n /\ i \in 1 .. Len(b.innerBuffer)
    BY <1>4, ContentIs
  <2> QED BY <1>1, <1>2, <1>3, <2>1, ContentIs
<1> QED BY <1>1, <1>2, <1>3, <1>4, ContentIs

(* Add puts the new bytes behind what is there, and loses none of it when  *)
(* the array grows.                                                        *)
THEOREM AddAppends ==
    ASSUME NEW b \in Buffers, NEW p \in Nat \ {0}, NEW s \in Seq(Bytes)
    PROVE  Add(b, p, s) \in Buffers /\ Content(Add(b, p, s)) = Content(b) \o s
<1> DEFINE size  == b.currentSize
           grown == SetLength(b, p, size + Len(s))
           new   == Add(b, p, s)
<1>1. size \in Nat /\ Len(s) \in Nat /\ size + Len(s) \in Nat
  BY ContentIs, LenProperties
<1>2. /\ grown \in Buffers /\ grown.currentSize = size + Len(s)
      /\ grown.innerBuffer \in Seq(Bytes) /\ Len(grown.innerBuffer) >= size + Len(s)
      /\ \A i \in 1 .. size : grown.innerBuffer[i] = b.innerBuffer[i]
  <2>1. grown \in Buffers /\ Len(Content(grown)) = size + Len(s)
    BY <1>1, SetLengthKeeps
  <2>2. \A i \in 1 .. Len(b.innerBuffer) : grown.innerBuffer[i] = b.innerBuffer[i]
    BY <1>1, SetLengthKeeps
  <2>3. size <= Len(b.innerBuffer) /\ Len(b.innerBuffer) \in Nat
    BY ContentIs, LenProperties DEF Buffers
  <2>4. \A i \in 1 .. size : i \in 1 .. Len(b.innerBuffer)
    BY <1>1, <2>3
  <2> HIDE DEF grown
  <2>5. /\ grown.currentSize = size + Len(s) /\ grown.innerBuffer \in Seq(Bytes)
        /\ Len(grown.innerBuffer) >= size + Len(s)
    BY <2>1, ContentIs
  <2> QED BY <2>1, <2>2, <2>4, <2>5
<1>3. /\ new.innerBuffer = CopiedInto(grown.innerBuffer, size, s)
      /\ new.currentSize = size + Len(s)
      /\ new = [innerBuffer |-> new.innerBuffer, currentSize |-> new.currentSize]
  BY <1>2 DEF Add, SetLength
<1>4. /\ new.innerBuffer \in Seq(Bytes) /\ Len(new.innerBuffer) = Len(grown.innerBuffer)
      /\ \A i \in 1 .. Len(grown.innerBuffer) :
            new.innerBuffer[i] = IF i \in size + 1 .. size + Len(s) THEN s[i - size]
                                 ELSE grown.innerBuffer[i]
  BY <1>1, <1>2, <1>3, CopiedIsArray
<1>5. new \in Buffers
  BY <1>1, <1>2, <1>3, <1>4 DEF Buffers
<1>6. /\ Content(new) \in Seq(Bytes) /\ Len(Content(new)) = size + Len(s)
      /\ \A i \in 1 .. size + Len(s) : Content(new)[i] = new.innerBuffer[i]
  BY <1>3, <1>5, ContentIs
<1>7. /\ Content(b) \o s \in Seq(Bytes) /\ Len(Content(b) \o s) = size + Len(s)
      /\ \A i \in 1 .. size + Len(s) :
            (Content(b) \o s)[i] = IF i <= size THEN Content(b)[i] ELSE s[i - size]
  <2>1. PICK c \in Seq(Bytes) : c = Content(b) /\ Len(c) = size
    BY ContentIs
  <2>2. c \o s \in Seq(Bytes) /\ Len(c \o s) = Len(c) + Len(s)
    BY ConcatProperties
  <2>3. \A i \in 1 .. Len(c) + Len(s) :
           (c \o s)[i] = IF i <= Len(c) THEN c[i] ELSE s[i - Len(c)]
    BY ConcatProperties
  <2> QED BY <2>1, <2>2, <2>3
<1>8. ASSUME NEW i \in 1 .. size + Len(s) PROVE Content(new)[i] = (Content(b) \o s)[i]
  <2>1. i \in 1 .. Len(grown.innerBuffer)
    BY <1>1, <1>2, LenProperties
  <2>2. CASE i <= size
    <3>1. i \in 1 .. size /\ i \notin size + 1 .. size + Len(s)
      BY <1>1, <2>2
    <3> QED BY <1>2, <1>4, <1>6, <1>7, <2>1, <2>2, <3>1, ContentIs
  <2>3. CASE ~(i <= size)
    <3>1. i \in size + 1 .. size + Len(s)
      BY <1>1, <2>3
    <3> QED BY <1>4, <1>6, <1>7, <2>1, <2>3, <3>1
  <2> QED BY <2>2, <2>3
<1> QED BY <1>5, <1>6, <1>7, <1>8, SeqEqual

(* RemoveRangeFromStart from 0, as every caller has it, takes the first    *)
(* bytes off and leaves the others in their order.                         *)
THEOREM RemoveDrops ==
    ASSUME NEW b \in Buffers, NEW n \in 0 .. b.currentSize
    PROVE  /\ RemoveRangeFromStart(b, 0, n) \in Buffers
           /\ Content(RemoveRangeFromStart(b, 0, n)) = SubSeq(Content(b), n + 1, b.currentSize)
<1> DEFINE new == RemoveRangeFromStart(b, 0, n)
<1>1. PICK size \in Nat, a \in Seq(Bytes) :
         size = b.currentSize /\ a = b.innerBuffer /\ Len(a) \in Nat /\ size <= Len(a)
  BY ContentIs
<1>2. PICK left \in Nat : left = size - n /\ n \in Nat /\ n + left = size /\ n <= size
  BY <1>1
<1>3. PICK moved : moved = SubSeq(a, n + 1, size)
  OBVIOUS
<1>4. /\ moved \in Seq(Bytes) /\ Len(moved) = left
      /\ \A i \in 1 .. left : moved[i] = a[n + i]
  <2>1. \A i \in n + 1 .. size : a[i] \in Bytes
    BY <1>1, <1>2
  <2>2. moved \in Seq(Bytes) /\ Len(moved) = IF n + 1 <= size THEN size - (n + 1) + 1 ELSE 0
    BY <1>1, <1>2, <1>3, <2>1, SubSeqProperties
  <2>3. \A i \in 1 .. size - (n + 1) + 1 : moved[i] = a[(n + 1) + i - 1]
    BY <1>1, <1>2, <1>3, <2>1, SubSeqProperties
  <2>4. ASSUME NEW i \in 1 .. left PROVE moved[i] = a[n + i]
    <3>1. i \in 1 .. size - (n + 1) + 1 /\ (n + 1) + i - 1 = n + i
      BY <1>2
    <3> QED BY <2>3, <3>1
  <2>5. Len(moved) = left
    BY <1>2, <2>2
  <2> QED BY <2>2, <2>4, <2>5
<1>5. /\ new.innerBuffer = CopiedInto(a, 0, moved)
      /\ new.currentSize = left
      /\ new = [innerBuffer |-> new.innerBuffer, currentSize |-> new.currentSize]
  <2>1. 0 + n = n /\ b.currentSize - (0 + n) = left /\ (0 + n) + 1 = n + 1
        /\ (0 + n) + left = size
    BY <1>1, <1>2
  <2> QED BY <1>1, <1>3, <2>1 DEF RemoveRangeFromStart, AsSpan
<1>6. 0 + Len(moved) <= Len(a) /\ 0 + left = left /\ left <= Len(a)
  BY <1>1, <1>2, <1>4
<1>7. /\ new.innerBuffer \in Seq(Bytes) /\ Len(new.innerBuffer) = Len(a)
      /\ \A i \in 1 .. Len(a) :
            new.innerBuffer[i] = IF i \in 0 + 1 .. 0 + Len(moved) THEN moved[i - 0] ELSE a[i]
  <2>1. 0 \in Nat
    OBVIOUS
  <2>2. /\ CopiedInto(a, 0, moved) \in Seq(Bytes)
        /\ Len(CopiedInto(a, 0, moved)) = Len(a)
        /\ \A i \in 1 .. Len(a) :
              CopiedInto(a, 0, moved)[i] =
                  IF i \in 0 + 1 .. 0 + Len(moved) THEN moved[i - 0] ELSE a[i]
    BY <1>4, <1>6, <2>1, CopiedIsArray, Zenon
  <2> QED BY <1>5, <2>2, Zenon
<1>8. new \in Buffers
  BY <1>1, <1>2, <1>5, <1>6, <1>7 DEF Buffers
<1>9. /\ Content(new) \in Seq(Bytes) /\ Len(Content(new)) = left
      /\ \A i \in 1 .. left : Content(new)[i] = new.innerBuffer[i]
  BY <1>5, <1>8, ContentIs
<1>10. PICK c \in Seq(Bytes) : c = Content(b) /\ Len(c) = size /\ \A i \in 1 .. size : c[i] = a[i]
  BY <1>1, ContentIs
<1>11. /\ SubSeq(c, n + 1, size) \in Seq(Bytes) /\ Len(SubSeq(c, n + 1, size)) = left
       /\ \A i \in 1 .. left : SubSeq(c, n + 1, size)[i] = a[n + i]
  <2>1. \A i \in n + 1 .. size : c[i] \in Bytes
    BY <1>1, <1>2, <1>10
  <2>2. /\ SubSeq(c, n + 1, size) \in Seq(Bytes)
        /\ Len(SubSeq(c, n + 1, size)) = IF n + 1 <= size THEN size - (n + 1) + 1 ELSE 0
    BY <1>1, <1>2, <2>1, SubSeqProperties
  <2>3. \A i \in 1 .. size - (n + 1) + 1 : SubSeq(c, n + 1, size)[i] = c[(n + 1) + i - 1]
    BY <1>1, <1>2, <2>1, SubSeqProperties
  <2>4. ASSUME NEW i \in 1 .. left PROVE SubSeq(c, n + 1, size)[i] = a[n + i]
    <3>1. i \in 1 .. size - (n + 1) + 1 /\ (n + 1) + i - 1 = n + i /\ n + i \in 1 .. size
      BY <1>2
    <3> QED BY <1>10, <2>3, <3>1
  <2>5. Len(SubSeq(c, n + 1, size)) = left
    BY <1>2, <2>2
  <2> QED BY <2>2, <2>4, <2>5
<1>12. ASSUME NEW i \in 1 .. left PROVE Content(new)[i] = SubSeq(c, n + 1, size)[i]
  <2>1. i \in 1 .. Len(a) /\ i \in 0 + 1 .. 0 + Len(moved) /\ i - 0 = i
    BY <1>1, <1>4, <1>6
  <2>2. new.innerBuffer[i] = moved[i]
    BY <1>7, <2>1
  <2> QED BY <1>4, <1>9, <1>11, <2>2
<1>13. Content(new) = SubSeq(c, n + 1, size)
  BY <1>9, <1>11, <1>12, SeqEqual
<1> QED BY <1>1, <1>8, <1>10, <1>13

-----------------------------------------------------------------------------
(* Lists of packets                                                        *)

(* The least-number principle: a set of numbers that is not empty has a    *)
(* least one.  What holds of 1 and goes from k to k + 1 is shown from it,  *)
(* since the least number of which it failed could not exist.              *)
LEMMA Least ==
    ASSUME NEW T \in SUBSET Nat, T # {}
    PROVE  \E x \in T : \A y \in T : x <= y
<1> DEFINE R == OpToRel(<, Nat)
<1>1. IsWellFoundedOn(R, Nat)
  BY NatLessThanWellFounded
<1>2. \A x \in Nat, y \in Nat : <<y, x>> \in R <=> y < x
  BY DEF OpToRel
<1> HIDE DEF R
<1>3. PICK x \in T : \A y \in T : ~(<<y, x>> \in R)
  BY <1>1, WFMin
<1>4. ASSUME NEW y \in T PROVE x <= y
  <2>1. ~(y < x)
    BY <1>2, <1>3
  <2>2. x \in Nat /\ y \in Nat
    OBVIOUS
  <2> QED BY <2>1, <2>2
<1> QED BY <1>4

(* A function on 1 .. n that begins with z and goes from one argument to  *)
(* the next by step, and stays within S.                                   *)
Steps(S, n, step) == \A i \in 1 .. n, a \in S : step[i][a] \in S

Iterates(S, n, z, step, f) ==
    \A i \in 1 .. n : f[i] \in S /\ f[i] = IF i = 1 THEN z ELSE step[i][f[i - 1]]

(* There is such a function: the least n for which there were none could   *)
(* be reached from the one before it.                                      *)
LEMMA Iterated ==
    ASSUME NEW S, NEW n \in Nat, NEW z \in S, NEW step, Steps(S, n, step)
    PROVE  \E f : Iterates(S, n, z, step, f)
<1> DEFINE Stuck == {m \in 0 .. n : ~ \E f : Iterates(S, m, z, step, f)}
<1>1. ASSUME Stuck # {} PROVE FALSE
  <2>1. Stuck \in SUBSET Nat
    OBVIOUS
  <2>2. PICK m \in Stuck : \A k \in Stuck : m <= k
    <3> HIDE DEF Stuck
    <3> QED BY <1>1, <2>1, Least
  <2>3. m # 0
    <3>1. \A f : Iterates(S, 0, z, step, f)
      BY DEF Iterates
    <3> QED BY <2>2, <3>1
  <2>4. m \in 1 .. n /\ m - 1 \in 0 .. n /\ m - 1 \notin Stuck
    BY <2>2, <2>3
  <2>5. PICK f : Iterates(S, m - 1, z, step, f)
    BY <2>4
  <2> DEFINE last == IF m = 1 THEN z ELSE step[m][f[m - 1]]
             g    == [i \in 1 .. m |-> IF i = m THEN last ELSE f[i]]
  <2>6. last \in S
    <3>1. m # 1 => m - 1 \in 1 .. m - 1
      BY <2>4
    <3>2. m # 1 => f[m - 1] \in S
      BY <2>5, <3>1 DEF Iterates
    <3> QED BY <2>4, <3>2 DEF Steps
  <2>7. g[m] = last
    BY <2>4
  <2> HIDE DEF last
  <2>8. \A i \in 1 .. m - 1 : g[i] = f[i]
    BY <2>4
  <2> HIDE DEF g
  <2>9. ASSUME NEW i \in 1 .. m
        PROVE  g[i] \in S /\ g[i] = IF i = 1 THEN z ELSE step[i][g[i - 1]]
    <3>1. CASE i = m
      <4>1. m # 1 => m - 1 \in 1 .. m - 1
        BY <2>4
      <4>2. m # 1 => g[m - 1] = f[m - 1]
        BY <4>1, <2>8
      <4> QED BY <3>1, <4>2, <2>6, <2>7 DEF last
    <3>2. CASE i # m
      <4>1. i \in 1 .. m - 1 /\ (i # 1 => i - 1 \in 1 .. m - 1)
        BY <2>4, <3>2
      <4>2. g[i] = f[i] /\ (i # 1 => g[i - 1] = f[i - 1])
        BY <4>1, <2>8
      <4> QED BY <4>1, <4>2, <2>5 DEF Iterates
    <3> QED BY <3>1, <3>2
  <2>10. Iterates(S, m, z, step, g)
    BY <2>9 DEF Iterates
  <2> QED BY <2>2, <2>10
<1>2. n \notin Stuck
  <2> HIDE DEF Stuck
  <2> QED BY <1>1
<1>3. n \in 0 .. n
  OBVIOUS
<1> QED BY <1>2, <1>3

(* What FlattenSeq computes: f[i] is the concatenation of the first i.     *)
Partial(s, f) == \A i \in 1 .. Len(s) : f[i] = IF i = 1 THEN s[1] ELSE f[i - 1] \o s[i]

(* There is but one.                                                       *)
LEMMA PartialsAgree ==
    ASSUME NEW S, NEW s \in Seq(S), NEW f, NEW g, Partial(s, f), Partial(s, g)
    PROVE  \A i \in 1 .. Len(s) : f[i] = g[i]
<1> DEFINE Differ == {i \in 1 .. Len(s) : f[i] # g[i]}
<1>1. ASSUME Differ # {} PROVE FALSE
  <2>1. Differ \in SUBSET Nat
    OBVIOUS
  <2>2. PICK i \in Differ : \A j \in Differ : i <= j
    <3> HIDE DEF Differ
    <3> QED BY <1>1, <2>1, Least
  <2>3. Len(s) \in Nat /\ i \in 1 .. Len(s) /\ f[i] # g[i]
    BY <2>2
  <2>4. i # 1
    BY <2>3 DEF Partial
  <2>5. i - 1 \in 1 .. Len(s) /\ ~(i <= i - 1)
    BY <2>3, <2>4
  <2>6. f[i - 1] = g[i - 1]
    BY <2>2, <2>5
  <2> QED BY <2>3, <2>4, <2>6 DEF Partial
<1> QED BY <1>1

(* FlattenSeq is the last of them.                                         *)
LEMMA FlattenIs ==
    ASSUME NEW S, NEW s \in Seq(Seq(S)), s # <<>>
    PROVE  \E f \in [1 .. Len(s) -> Seq(S)] : Partial(s, f) /\ FlattenSeq(s) = f[Len(s)]
<1> DEFINE n == Len(s)
           step == [i \in 1 .. n |-> [a \in Seq(S) |-> a \o s[i]]]
           flatten == CHOOSE f : f = [i \in 1 .. n |-> IF i = 1 THEN s[i] ELSE f[i - 1] \o s[i]]
<1>1. n \in Nat /\ n # 0 /\ s[1] \in Seq(S) /\ \A i \in 1 .. n : s[i] \in Seq(S)
  BY LenProperties, EmptySeq
<1>2. FlattenSeq(s) = flatten[n]
  BY <1>1 DEF FlattenSeq
<1>3. Steps(Seq(S), n, step)
  BY <1>1, ConcatProperties DEF Steps
<1>4. \A i \in 1 .. n : \A a \in Seq(S) : step[i][a] = a \o s[i]
  OBVIOUS
<1> HIDE DEF step, n, flatten
<1>5. PICK g : Iterates(Seq(S), n, s[1], step, g)
  BY <1>1, <1>3, Iterated
<1> DEFINE f == [i \in 1 .. n |-> g[i]]
<1>6. \A i \in 1 .. n : f[i] = g[i]
  OBVIOUS
<1>7. f \in [1 .. n -> Seq(S)]
  BY <1>5 DEF Iterates
<1> HIDE DEF f
<1>8. ASSUME NEW i \in 1 .. n PROVE f[i] = IF i = 1 THEN s[i] ELSE f[i - 1] \o s[i]
  <2>1. CASE i = 1
    BY <1>5, <1>6, <2>1 DEF Iterates
  <2>2. CASE i # 1
    <3>1. i - 1 \in 1 .. n
      BY <1>1, <2>2
    <3>2. g[i - 1] \in Seq(S) /\ f[i - 1] = g[i - 1] /\ f[i] = g[i]
      BY <3>1, <1>5, <1>6 DEF Iterates
    <3>3. step[i][g[i - 1]] = g[i - 1] \o s[i]
      BY <1>4, <3>2
    <3> QED BY <1>5, <2>2, <3>2, <3>3 DEF Iterates
  <2> QED BY <2>1, <2>2
<1>9. f = [i \in 1 .. n |-> IF i = 1 THEN s[i] ELSE f[i - 1] \o s[i]]
  BY <1>7, <1>8
<1>10. flatten = [i \in 1 .. n |-> IF i = 1 THEN s[i] ELSE flatten[i - 1] \o s[i]]
  BY <1>9 DEF flatten
<1>11. Partial(s, f) /\ Partial(s, flatten)
  <2>1. \A i \in 1 .. n : flatten[i] = IF i = 1 THEN s[i] ELSE flatten[i - 1] \o s[i]
    BY <1>10
  <2> QED BY <2>1, <1>8 DEF Partial, n
<1>12. flatten[n] = f[n]
  BY <1>1, <1>11, PartialsAgree DEF n
<1> QED BY <1>2, <1>7, <1>11, <1>12 DEF n

(* FlattenSeq concatenates: it grows with its argument at the end, and the *)
(* concatenation of two lists of sequences is that of both in turn.        *)
LEMMA FlattenEmpty == FlattenSeq(<<>>) = <<>>
<1>1. Len(<<>>) = 0
  OBVIOUS
<1> QED BY <1>1 DEF FlattenSeq

(* One more packet is concatenated behind the others.                      *)
LEMMA FlattenAppend ==
    ASSUME NEW S, NEW s \in Seq(Seq(S)), NEW x \in Seq(S)
    PROVE  /\ FlattenSeq(s) \in Seq(S)
           /\ FlattenSeq(Append(s, x)) = FlattenSeq(s) \o x
<1> DEFINE t == Append(s, x)
<1>1. /\ t \in Seq(Seq(S)) /\ t # <<>> /\ Len(t) = Len(s) + 1
      /\ \A i \in 1 .. Len(s) : t[i] = s[i]
      /\ t[Len(s) + 1] = x
  BY AppendProperties
<1> HIDE DEF t
<1>2. PICK g \in [1 .. Len(t) -> Seq(S)] : Partial(t, g) /\ FlattenSeq(t) = g[Len(t)]
  BY <1>1, FlattenIs
<1>3. Len(s) \in Nat
  BY LenProperties
<1>4. CASE s = <<>>
  <2>1. Len(s) = 0
    BY <1>4
  <2>2. g[1] = x
    BY <1>1, <1>2, <2>1 DEF Partial
  <2>3. FlattenSeq(t) = x
    BY <1>1, <1>2, <2>1, <2>2
  <2>4. FlattenSeq(s) = <<>>
    BY <1>4, FlattenEmpty
  <2>5. <<>> \o x = x /\ <<>> \in Seq(S)
    BY ConcatEmptySeq
  <2> QED BY <2>3, <2>4, <2>5 DEF t
<1>5. CASE s # <<>>
  <2>1. Len(s) # 0
    BY <1>5, EmptySeq
  <2>2. PICK f \in [1 .. Len(s) -> Seq(S)] : Partial(s, f) /\ FlattenSeq(s) = f[Len(s)]
    BY <1>5, FlattenIs
  <2>3. Partial(s, g)
    <3>1. \A i \in 1 .. Len(s) : i \in 1 .. Len(t)
      BY <1>1, <1>3
    <3>2. 1 \in 1 .. Len(s)
      BY <1>3, <2>1
    <3> QED BY <1>1, <1>2, <3>1, <3>2 DEF Partial
  <2>4. f[Len(s)] = g[Len(s)]
    <3>1. Len(s) \in 1 .. Len(s)
      BY <1>3, <2>1
    <3>2. \A i \in 1 .. Len(s) : f[i] = g[i]
      BY <2>2, <2>3, PartialsAgree
    <3> QED BY <3>1, <3>2
  <2>5. g[Len(t)] = g[Len(s)] \o x
    <3>1. Len(t) \in 1 .. Len(t) /\ Len(t) # 1 /\ Len(t) - 1 = Len(s)
      BY <1>1, <1>3, <2>1
    <3>2. t[Len(t)] = x
      BY <1>1
    <3> QED BY <1>2, <3>1, <3>2 DEF Partial
  <2>6. f[Len(s)] \in Seq(S)
    <3>1. Len(s) \in 1 .. Len(s)
      BY <1>3, <2>1
    <3> QED BY <3>1, <2>2
  <2> QED BY <1>2, <2>2, <2>4, <2>5, <2>6 DEF t
<1> QED BY <1>4, <1>5

(* Two lists are concatenated as their packets are.                        *)
LEMMA FlattenConcat ==
    ASSUME NEW S, NEW s \in Seq(Seq(S)), NEW t \in Seq(Seq(S))
    PROVE  FlattenSeq(s \o t) = FlattenSeq(s) \o FlattenSeq(t)
<1> DEFINE FirstOf(k) == SubSeq(t, 1, k)
           Wrong == {k \in 0 .. Len(t) :
                        FlattenSeq(s \o FirstOf(k)) # FlattenSeq(s) \o FlattenSeq(FirstOf(k))}
<1>1. Len(t) \in Nat /\ \A i \in 1 .. Len(t) : t[i] \in Seq(S)
  BY LenProperties
<1>2. \A k \in 0 .. Len(t) : FirstOf(k) \in Seq(Seq(S))
  BY <1>1, SubSeqProperties
<1>3. FlattenSeq(s) \in Seq(S)
  BY FlattenAppend, EmptySeq
<1>4. ASSUME Wrong # {} PROVE FALSE
  <2>1. Wrong \in SUBSET Nat
    OBVIOUS
  <2>2. PICK k \in Wrong : \A j \in Wrong : k <= j
    <3> HIDE DEF Wrong
    <3> QED BY <1>4, <2>1, Least
  <2>3. k # 0
    <3>1. FirstOf(0) = <<>>
      BY SubSeqEmpty
    <3>2. s \o <<>> = s /\ FlattenSeq(s) \o <<>> = FlattenSeq(s)
      BY <1>3, ConcatEmptySeq
    <3>3. FlattenSeq(s \o FirstOf(0)) = FlattenSeq(s) \o FlattenSeq(FirstOf(0))
      BY <3>1, <3>2, FlattenEmpty
    <3> QED BY <2>2, <3>3
  <2>4. k \in 1 .. Len(t) /\ k - 1 \in 0 .. Len(t) /\ k - 1 \notin Wrong
    BY <2>2, <2>3, <1>1
  <2>5. FlattenSeq(s \o FirstOf(k - 1)) = FlattenSeq(s) \o FlattenSeq(FirstOf(k - 1))
    BY <2>4
  <2> DEFINE u == FirstOf(k - 1)
             x == t[k]
  <2>6. u \in Seq(Seq(S)) /\ x \in Seq(S)
    BY <1>1, <1>2, <2>4
  <2>7. FirstOf(k) = Append(u, x)
    <3>1. FirstOf(k) = u \o <<x>>
      BY <2>4, SubSeqRecursiveSecond
    <3>2. Append(u, x) = u \o <<x>>
      <4> HIDE DEF u, x
      <4> QED BY <2>6, AppendIsConcat
    <3> QED BY <3>1, <3>2
  <2> HIDE DEF u, x, FirstOf
  <2>8. s \o Append(u, x) = Append(s \o u, x) /\ s \o u \in Seq(Seq(S))
    <3> DEFINE Q == Seq(S)
    <3>1. s \in Seq(Q) /\ u \in Seq(Q) /\ x \in Q /\ <<x>> \in Seq(Q)
      BY <2>6
    <3> HIDE DEF Q
    <3>2. Append(u, x) = u \o <<x>> /\ s \o u \in Seq(Q) /\ Append(s \o u, x) = (s \o u) \o <<x>>
      BY <3>1, AppendIsConcat, ConcatProperties
    <3>3. (s \o u) \o <<x>> = s \o (u \o <<x>>)
      BY <3>1, ConcatAssociative
    <3> QED BY <3>2, <3>3 DEF Q
  <2>9. FlattenSeq(Append(s \o u, x)) = FlattenSeq(s \o u) \o x
    BY <2>6, <2>8, FlattenAppend
  <2>10. /\ FlattenSeq(Append(u, x)) = FlattenSeq(u) \o x
         /\ FlattenSeq(u) \in Seq(S)
    BY <2>6, FlattenAppend
  <2>11. (FlattenSeq(s) \o FlattenSeq(u)) \o x = FlattenSeq(s) \o (FlattenSeq(u) \o x)
    <3> DEFINE fs == FlattenSeq(s)
               fu == FlattenSeq(u)
    <3>1. fs \in Seq(S) /\ fu \in Seq(S) /\ x \in Seq(S)
      BY <1>3, <2>6, <2>10
    <3> HIDE DEF fs, fu
    <3>2. (fs \o fu) \o x = fs \o (fu \o x)
      BY <3>1, ConcatAssociative
    <3> QED BY <3>2 DEF fs, fu
  <2>12. FlattenSeq(s \o FirstOf(k)) = FlattenSeq(s) \o FlattenSeq(FirstOf(k))
    BY <2>5, <2>7, <2>8, <2>9, <2>10, <2>11 DEF u
  <2> QED BY <2>2, <2>12
<1>5. Len(t) \notin Wrong
  <2> HIDE DEF Wrong
  <2> QED BY <1>4
<1>6. Len(t) \in 0 .. Len(t) /\ FirstOf(Len(t)) = t
  BY <1>1, SubSeqFull
<1> QED BY <1>5, <1>6

(* Multiplication is monotonic. *)
LEMMA TimesGrows ==
    ASSUME NEW a \in Int, NEW b \in Int, NEW c \in Nat, a <= b
    PROVE  a * c <= b * c /\ a * c \in Int /\ b * c \in Int
OBVIOUS

(* A remainder is told by what it is less than.                            *)
LEMMA RemainderIs ==
    ASSUME NEW m \in Nat \ {0}, NEW u \in Nat, NEW w \in 0 .. m - 1
    PROVE  (m * u + w) % m = w
<1> DEFINE n == m * u + w
           v == n \div m
           x == n % m
<1>1. n \in Nat /\ m * u \in Nat
  OBVIOUS
<1> HIDE DEF n
<1>2. v \in Nat /\ x \in 0 .. m - 1
  BY <1>1
<1>3. n = m * v + x
  BY <1>1
<1> HIDE DEF v, x
<1>4. m * v \in Nat
  BY <1>2
<1>5. ~(u + 1 <= v)
  <2>1. ASSUME u + 1 <= v PROVE FALSE
    <3>1. (u + 1) * m <= v * m
      BY <2>1, <1>2, TimesGrows
    <3>2. (u + 1) * m = m * u + m /\ v * m = m * v
      BY <1>2
    <3> QED BY <3>1, <3>2, <1>1, <1>2, <1>3, <1>4 DEF n
  <2> QED BY <2>1
<1>6. ~(v + 1 <= u)
  <2>1. ASSUME v + 1 <= u PROVE FALSE
    <3>1. (v + 1) * m <= u * m
      BY <2>1, <1>2, TimesGrows
    <3>2. (v + 1) * m = m * v + m /\ u * m = m * u
      BY <1>2
    <3> QED BY <3>1, <3>2, <1>1, <1>2, <1>3, <1>4 DEF n
  <2> QED BY <2>1
<1>7. u = v
  BY <1>2, <1>5, <1>6
<1>8. x = w
  BY <1>1, <1>2, <1>3, <1>4, <1>7 DEF n
<1> QED BY <1>8 DEF n, x

(* d is the digit of n at the weight p, here and above are n modulo that   *)
(* weight and the next.                                                    *)
IsDigit(n, p, b, d, here, above) ==
    d = (n \div p) % b /\ here = n % p /\ above = n % (p * b)

(* A digit times its weight is what the number modulo the next weight has  *)
(* over the number modulo this one.                                        *)
LEMMA DigitWeight ==
    ASSUME NEW n \in Nat, NEW p \in Nat \ {0}, NEW b \in Nat \ {0},
           NEW d, NEW here, NEW above, IsDigit(n, p, b, d, here, above)
    PROVE  d * p = above - here
<1> DEFINE q == n \div p
           s == n % p
           u == q \div b
<1>1. q \in Nat /\ s \in 0 .. p - 1 /\ n = p * q + s
  OBVIOUS
<1> HIDE DEF q, s
<1>2. u \in Nat /\ d \in 0 .. b - 1 /\ q = b * u + d
  <2>1. d = q % b
    BY DEF q, IsDigit
  <2> QED BY <1>1, <2>1
<1> HIDE DEF u
<1>3. d * p <= (b - 1) * p /\ d * p \in Int /\ 0 * p <= d * p
  BY <1>2, TimesGrows
<1>4. (b - 1) * p = p * b - p /\ p * b \in Nat \ {0} /\ 0 * p = 0
  OBVIOUS
<1>5. d * p + s \in 0 .. p * b - 1
  BY <1>1, <1>3, <1>4
<1>6. n = (p * b) * u + (d * p + s)
  <2>1. p * q = p * (b * u) + p * d
    BY <1>2
  <2>2. p * (b * u) = (p * b) * u /\ p * d = d * p
    BY <1>2
  <2> QED BY <1>1, <1>2, <2>1, <2>2
<1>7. n % (p * b) = d * p + s
  <2> DEFINE m == p * b
             w == d * p + s
  <2>1. m \in Nat \ {0} /\ w \in 0 .. m - 1 /\ n = m * u + w
    BY <1>4, <1>5, <1>6
  <2> HIDE DEF m, w
  <2>2. n % m = w
    BY <1>2, <2>1, RemainderIs
  <2> QED BY <2>2 DEF m, w
<1>8. d * p \in Int /\ s \in Int /\ here = s /\ above = d * p + s
  BY <1>1, <1>3, <1>7 DEF s, IsDigit
<1>9. d * p = above - here
  <2> DEFINE y == d * p
  <2>1. y \in Int /\ s \in Int /\ here = s /\ above = y + s
    BY <1>8
  <2> HIDE DEF y
  <2>2. y = above - here
    BY <2>1
  <2> QED BY <2>2 DEF y
<1> QED BY <1>9

-----------------------------------------------------------------------------
(* The header of a SizeBody packet                                         *)

(* Each power is the one before it times the number of byte values.        *)
LEMMA PowerGrows ==
    /\ Power(0) = 1
    /\ \A k \in 0 .. 3 : Power(k + 1) = Power(k) * ByteBase
    /\ \A k \in 0 .. 4 : Power(k) \in Nat \ {0}
<1>1. Power(0) = 1 /\ \A k \in 0 .. 3 : Power(k + 1) = Power(k) * ByteBase
  <2>1. ByteBase \in Int
    BY ByteAssumption
  <2>2. /\ Power(0) = 1 /\ Power(1) = ByteBase /\ Power(2) = ByteBase * ByteBase
        /\ Power(3) = ByteBase * ByteBase * ByteBase
        /\ Power(4) = ByteBase * ByteBase * ByteBase * ByteBase
    BY <2>1 DEF Power
  <2>3. ByteBase = 1 * ByteBase
    BY <2>1
  <2>4. \A k \in 0 .. 3 : k = 0 \/ k = 1 \/ k = 2 \/ k = 3
    OBVIOUS
  <2>5. 0 + 1 = 1 /\ 1 + 1 = 2 /\ 2 + 1 = 3 /\ 3 + 1 = 4
    OBVIOUS
  <2>6. ASSUME NEW k \in 0 .. 3 PROVE Power(k + 1) = Power(k) * ByteBase
    BY <2>2, <2>3, <2>4, <2>5
  <2> QED BY <2>2, <2>6
<1>2. ByteBase \in Nat \ {0}
  BY ByteAssumption
<1>3. \A p \in Nat \ {0} : p * ByteBase \in Nat \ {0}
  BY <1>2
<1>4. Power(1) \in Nat \ {0}
  BY <1>1, <1>3
<1>5. Power(2) \in Nat \ {0}
  BY <1>1, <1>3, <1>4
<1>6. Power(3) \in Nat \ {0}
  BY <1>1, <1>3, <1>5
<1>7. Power(4) \in Nat \ {0}
  BY <1>1, <1>3, <1>6
<1>8. Power(0) \in Nat \ {0}
  BY <1>1
<1>9. \A k \in 0 .. 4 : k = 0 \/ k = 1 \/ k = 2 \/ k = 3 \/ k = 4
  OBVIOUS
<1> QED BY <1>1, <1>4, <1>5, <1>6, <1>7, <1>8, <1>9

SizeBodyRule == [kind : {"SizeBody"}, sizeLength : 1 .. 4, bigEndian : BOOLEAN]

(* A header is a sequence of bytes.                                        *)
LEMMA HeaderIsBytes ==
    ASSUME NEW rule \in SizeBodyRule, NEW n \in Nat
    PROVE  SizeHeader(rule, n) \in Seq(Byte) /\ Len(SizeHeader(rule, n)) = rule.sizeLength
<1>1. rule.sizeLength \in 1 .. 4 /\ rule.bigEndian \in BOOLEAN
  BY DEF SizeBodyRule
<1>2. ASSUME NEW i \in 1 .. rule.sizeLength PROVE (n \div Weight(rule, i)) % ByteBase \in Byte
  <2> DEFINE k == IF rule.bigEndian THEN rule.sizeLength - i ELSE i - 1
             w == Power(k)
  <2>1. k \in 0 .. 4
    BY <1>1
  <2>2. w \in Nat \ {0}
    <3> HIDE DEF k
    <3> QED BY <2>1, PowerGrows
  <2>3. Weight(rule, i) = w
    BY DEF Weight
  <2> HIDE DEF w
  <2>4. (n \div w) \in Nat
    BY <2>2
  <2>5. \A q \in Nat : q % ByteBase \in Byte
    BY ByteAssumption DEF Byte
  <2> QED BY <2>3, <2>4, <2>5
<1>3. SizeHeader(rule, n) \in [1 .. rule.sizeLength -> Byte]
  BY <1>2 DEF SizeHeader
<1> QED BY <1>1, <1>3

(* A header that is written and read again is the number it was made of,   *)
(* in either byte order, for every number its digits can count.            *)
LEMMA HeaderRoundTrip ==
    ASSUME NEW rule \in SizeBodyRule, NEW n \in 0 .. Power(rule.sizeLength) - 1
    PROVE  HeaderValue(rule, SizeHeader(rule, n)) = n
<1> DEFINE size == rule.sizeLength
           big  == rule.bigEndian
           h    == SizeHeader(rule, n)
           left(k) == n % Power(k)
           upTo(i) == IF big THEN n - left(size - i) ELSE left(i)
           part(i) == h[i] * Weight(rule, i)
           value == CHOOSE f : f = [i \in 1 .. size |-> (IF i = 1 THEN 0 ELSE f[i - 1]) + part(i)]
<1>1. size \in 1 .. 4 /\ big \in BOOLEAN
  BY DEF SizeBodyRule
<1>2. HeaderValue(rule, h) = value[size]
  BY DEF HeaderValue
<1>3. n \in Nat /\ \A k \in 0 .. 4 : left(k) \in Nat
  <2> HIDE DEF size
  <2>1. n \in Nat
    BY <1>1, PowerGrows DEF size
  <2> QED BY <2>1, PowerGrows
<1>4. left(0) = 0 /\ left(size) = n
  BY <1>1, <1>3, PowerGrows
<1>5. ASSUME NEW k \in 0 .. 3, NEW d, d = (n \div Power(k)) % ByteBase
      PROVE  d * Power(k) = left(k + 1) - left(k)
  <2> DEFINE p     == Power(k)
             here  == left(k)
             above == left(k + 1)
  <2>1. p \in Nat \ {0} /\ here = n % p /\ above = n % (p * ByteBase)
    BY PowerGrows
  <2>2. ByteBase \in Nat \ {0} /\ d = (n \div p) % ByteBase /\ n \in Nat
    BY <1>3, <1>5, ByteAssumption
  <2> HIDE DEF p, here, above
  <2>3. IsDigit(n, p, ByteBase, d, here, above)
    BY <2>1, <2>2 DEF IsDigit
  <2>4. d * p = above - here
    BY <2>1, <2>2, <2>3, DigitWeight
  <2> QED BY <2>4 DEF p, here, above
<1>6. ASSUME NEW i \in 1 .. size PROVE part(i) = upTo(i) - upTo(i - 1)
  <2> DEFINE k == IF big THEN size - i ELSE i - 1
  <2>1. k \in 0 .. 3
    BY <1>1
  <2>2. h[i] = (n \div Power(k)) % ByteBase /\ part(i) = h[i] * Power(k)
    BY DEF SizeHeader, Weight
  <2>3. part(i) = left(k + 1) - left(k)
    <3> HIDE DEF k, part, left, h
    <3> QED BY <2>1, <2>2, <1>5
  <2> HIDE DEF part, left, size
  <2>4. k \in 0 .. 4 /\ k + 1 \in 0 .. 4
    BY <2>1
  <2>5. left(k) \in Nat /\ left(k + 1) \in Nat
    <3> HIDE DEF k
    <3> QED BY <2>4, <1>3
  <2>6. CASE big
    <3>1. size - i = k /\ size - (i - 1) = k + 1
      BY <1>1, <2>6
    <3> QED BY <2>3, <2>5, <2>6, <3>1, <1>3
  <2>7. CASE ~big
    <3>1. i = k + 1 /\ i - 1 = k
      BY <1>1, <2>7
    <3> QED BY <2>3, <2>5, <2>7, <3>1, <1>3
  <2> QED BY <2>6, <2>7, <1>1
<1>7. upTo(0) = 0 /\ upTo(size) = n /\ \A i \in 0 .. size : upTo(i) \in Int
  <2> HIDE DEF left, size
  <2>1. size - 0 = size /\ size - size = 0
    BY <1>1
  <2>2. \A i \in 0 .. size : i \in 0 .. 4 /\ size - i \in 0 .. 4
    BY <1>1
  <2> QED BY <1>1, <1>3, <1>4, <2>1, <2>2
<1> HIDE DEF value, part, upTo, left, h, size, big
<1>8. \A i \in 1 .. size : value[i] = (IF i = 1 THEN 0 ELSE value[i - 1]) + part(i)
  <2> DEFINE step == [i \in 1 .. size |-> [a \in Int |-> a + part(i)]]
             z    == 0 + part(1)
  <2>1. \A i \in 1 .. size : part(i) \in Int /\ i - 1 \in 0 .. size /\ i \in 0 .. size
    BY <1>1, <1>6, <1>7
  <2>2. size \in Nat /\ 1 \in 1 .. size
    BY <1>1
  <2>3. z \in Int /\ Steps(Int, size, step)
    BY <2>1, <2>2 DEF Steps
  <2>4. \A i \in 1 .. size : \A a \in Int : step[i][a] = a + part(i)
    OBVIOUS
  <2> HIDE DEF step
  <2>5. PICK g : Iterates(Int, size, z, step, g)
    <3> HIDE DEF z
    <3> QED BY <2>2, <2>3, Iterated
  <2> DEFINE f == [i \in 1 .. size |-> g[i]]
  <2>6. ASSUME NEW i \in 1 .. size PROVE f[i] = (IF i = 1 THEN 0 ELSE f[i - 1]) + part(i)
    <3>1. CASE i = 1
      BY <2>5, <3>1 DEF Iterates
    <3>2. CASE i # 1
      <4>1. i - 1 \in 1 .. size
        BY <2>2, <3>2
      <4>2. g[i - 1] \in Int /\ f[i - 1] = g[i - 1] /\ f[i] = g[i]
        BY <4>1, <2>5 DEF Iterates
      <4>3. step[i][g[i - 1]] = g[i - 1] + part(i)
        BY <2>4, <4>2
      <4> QED BY <2>5, <3>2, <4>2, <4>3 DEF Iterates
    <3> QED BY <3>1, <3>2
  <2>7. f = [i \in 1 .. size |-> (IF i = 1 THEN 0 ELSE f[i - 1]) + part(i)]
    BY <2>6
  <2> HIDE DEF f
  <2>8. value = [i \in 1 .. size |-> (IF i = 1 THEN 0 ELSE value[i - 1]) + part(i)]
    BY <2>7 DEF value
  <2> QED BY <2>8
<1>9. \A i \in 1 .. size : value[i] = upTo(i)
  <2>1. ASSUME NEW i \in 1 .. size, i = 1 \/ value[i - 1] = upTo(i - 1) PROVE value[i] = upTo(i)
    <3>1. i \in 0 .. size /\ i - 1 \in 0 .. size
      BY <1>1
    <3>2. part(i) = upTo(i) - upTo(i - 1) /\ upTo(i) \in Int /\ upTo(i - 1) \in Int
      BY <3>1, <1>6, <1>7
    <3>3. i = 1 => upTo(i - 1) = 0
      BY <1>7
    <3>4. value[i] = upTo(i - 1) + part(i)
      BY <1>8, <2>1, <3>2, <3>3
    <3> QED BY <3>2, <3>4
  <2>2. value[1] = upTo(1)
    BY <2>1, <1>1
  <2>3. 2 <= size => value[2] = upTo(2)
    BY <2>1, <2>2, <1>1
  <2>4. 3 <= size => value[3] = upTo(3)
    BY <2>1, <2>3, <1>1
  <2>5. 4 <= size => value[4] = upTo(4)
    BY <2>1, <2>4, <1>1
  <2>6. \A i \in 1 .. size : i = 1 \/ i = 2 \/ i = 3 \/ i = 4
    BY <1>1
  <2> QED BY <2>2, <2>3, <2>4, <2>5, <2>6
<1>10. size \in 1 .. size
  BY <1>1
<1> QED BY <1>2, <1>7, <1>9, <1>10 DEF h

-----------------------------------------------------------------------------
(* Sequences                                                               *)

(* The elements of a and b begin with p, which lies within a.              *)
Begins(S, a, b, p, q) ==
    /\ a \in Seq(S) /\ b \in Seq(S) /\ p \in Seq(S) /\ q \in Seq(S)
    /\ a \o b = p \o q /\ Len(p) <= Len(a)

(* They can be taken off a.                                                *)
LEMMA FrontOf ==
    ASSUME NEW S, NEW a, NEW b, NEW p, NEW q, Begins(S, a, b, p, q)
    PROVE   /\ SubSeq(a, 1, Len(p)) = p
           /\ SubSeq(a, Len(p) + 1, Len(a)) \in Seq(S)
           /\ SubSeq(a, Len(p) + 1, Len(a)) \o b = q
<1> DEFINE k    == Len(p)
           rest == SubSeq(a, k + 1, Len(a))
<1>0. /\ a \in Seq(S) /\ b \in Seq(S) /\ p \in Seq(S) /\ q \in Seq(S)
      /\ a \o b = p \o q /\ Len(p) <= Len(a)
  BY DEF Begins
<1> USE <1>0
<1>1. k \in Nat /\ Len(a) \in Nat /\ \A i \in 1 .. Len(a) : a[i] \in S
  BY LenProperties
<1>2. SubSeq(a, 1, k) \in Seq(S) /\ Len(SubSeq(a, 1, k)) = k
  <2>1. \A i \in 1 .. k : a[i] \in S
    BY <1>1
  <2>2. 1 <= k \/ k = 0
    BY <1>1
  <2> QED BY <1>1, <2>1, <2>2, SubSeqProperties
<1>3. ASSUME NEW i \in 1 .. k PROVE SubSeq(a, 1, k)[i] = p[i]
  <2>1. i \in 1 .. Len(a) /\ i <= Len(a) /\ i <= k /\ i \in 1 .. Len(a) + Len(b)
        /\ i \in 1 .. Len(p) + Len(q)
    BY <1>1, LenProperties
  <2>2. (a \o b)[i] = a[i] /\ (p \o q)[i] = p[i]
    BY <2>1, ConcatProperties
  <2>3. SubSeq(a, 1, k)[i] = a[i]
    BY <1>1, <2>1
  <2> QED BY <2>2, <2>3
<1>4. SubSeq(a, 1, k) = p
  BY <1>2, <1>3, SeqEqual
<1>5. rest \in Seq(S)
  <2>1. \A i \in k + 1 .. Len(a) : a[i] \in S
    BY <1>1
  <2> QED BY <1>1, <2>1, SubSeqProperties
<1>6. p \o rest = a
  <2>1. SubSeq(a, 1, k) \o SubSeq(a, k + 1, Len(a)) = SubSeq(a, 1, Len(a))
    <3>1. 1 \in 1 .. Len(a) + 1 /\ k \in 1 - 1 .. Len(a) /\ Len(a) \in k .. Len(a)
      BY <1>1
    <3> QED BY <3>1, ConcatAdjacentSubSeq
  <2> QED BY <1>4, <2>1, SubSeqFull
<1> HIDE DEF rest, k
<1>7. (p \o rest) \o b = p \o (rest \o b) /\ rest \o b \in Seq(S)
  BY <1>5, ConcatAssociative, ConcatProperties
<1>8. p \o (rest \o b) = p \o q
  BY <1>6, <1>7
<1>9. rest \o b = q
  BY <1>7, <1>8, ConcatSimplifications
<1> QED BY <1>4, <1>5, <1>9 DEF rest, k

(* A sequence is what it begins with and the rest.                         *)
LEMMA CutAt ==
    ASSUME NEW S, NEW a \in Seq(S), NEW n \in 0 .. Len(a)
    PROVE  /\ SubSeq(a, 1, n) \in Seq(S) /\ Len(SubSeq(a, 1, n)) = n
           /\ SubSeq(a, n + 1, Len(a)) \in Seq(S) /\ Len(SubSeq(a, n + 1, Len(a))) = Len(a) - n
           /\ SubSeq(a, 1, n) \o SubSeq(a, n + 1, Len(a)) = a
<1>1. Len(a) \in Nat /\ \A i \in 1 .. Len(a) : a[i] \in S
  BY LenProperties
<1>2. (\A i \in 1 .. n : a[i] \in S) /\ (\A i \in n + 1 .. Len(a) : a[i] \in S)
  BY <1>1
<1>3. /\ SubSeq(a, 1, n) \in Seq(S)
      /\ Len(SubSeq(a, 1, n)) = IF 1 <= n THEN n - 1 + 1 ELSE 0
  BY <1>1, <1>2, SubSeqProperties
<1>4. /\ SubSeq(a, n + 1, Len(a)) \in Seq(S)
      /\ Len(SubSeq(a, n + 1, Len(a))) = IF n + 1 <= Len(a) THEN Len(a) - (n + 1) + 1 ELSE 0
  BY <1>1, <1>2, SubSeqProperties
<1>5. SubSeq(a, 1, n) \o SubSeq(a, n + 1, Len(a)) = SubSeq(a, 1, Len(a))
  <2>1. 1 \in 1 .. Len(a) + 1 /\ n \in 1 - 1 .. Len(a) /\ Len(a) \in n .. Len(a)
    BY <1>1
  <2> QED BY <2>1, ConcatAdjacentSubSeq
<1>6. Len(SubSeq(a, 1, n)) = n
  BY <1>1, <1>3
<1>7. Len(SubSeq(a, n + 1, Len(a))) = Len(a) - n
  BY <1>1, <1>4
<1>8. SubSeq(a, 1, Len(a)) = a
  BY SubSeqFull
<1> QED BY <1>3, <1>4, <1>5, <1>6, <1>7, <1>8

-----------------------------------------------------------------------------
(* Packets                                                                 *)

PacketsOf(rule, bodies) == FlattenSeq([i \in DOMAIN bodies |-> MakeSendPacket(rule, bodies[i])])

(* A rule makes bytes of each of these bodies.                             *)
Packs(rule, bodies) == \A m \in bodies : MakeSendPacket(rule, m) \in Seq(Byte)

(* The packets of a list of bodies are a list of byte sequences.           *)
LEMMA PacketListIs ==
    ASSUME NEW rule, NEW B, Packs(rule, B), NEW s \in Seq(B)
    PROVE  [i \in DOMAIN s |-> MakeSendPacket(rule, s[i])] \in Seq(Seq(Byte))
<1> DEFINE list == [i \in DOMAIN s |-> MakeSendPacket(rule, s[i])]
<1>1. Len(s) \in Nat /\ DOMAIN s = 1 .. Len(s) /\ \A i \in 1 .. Len(s) : s[i] \in B
  BY LenProperties
<1>2. list \in [1 .. Len(s) -> Seq(Byte)]
  BY <1>1 DEF Packs
<1> QED BY <1>1, <1>2

(* Nothing sent is no bytes.                                               *)
LEMMA PacketsOfNone == ASSUME NEW rule PROVE PacketsOf(rule, <<>>) = <<>>
<1>1. DOMAIN <<>> = {}
  OBVIOUS
<1>2. [i \in DOMAIN <<>> |-> MakeSendPacket(rule, <<>>[i])] = <<>>
  BY <1>1
<1> QED BY <1>2, FlattenEmpty DEF PacketsOf

(* The packets of bodies sent one list after the other.                    *)
LEMMA PacketsOfBoth ==
    ASSUME NEW rule, NEW B, Packs(rule, B), NEW s \in Seq(B), NEW t \in Seq(B)
    PROVE  /\ PacketsOf(rule, s) \in Seq(Byte)
           /\ PacketsOf(rule, s \o t) = PacketsOf(rule, s) \o PacketsOf(rule, t)
<1> DEFINE list(x) == [i \in DOMAIN x |-> MakeSendPacket(rule, x[i])]
<1>1. list(s) \in Seq(Seq(Byte)) /\ list(t) \in Seq(Seq(Byte))
  BY PacketListIs
<1>2. /\ Len(s) \in Nat /\ Len(t) \in Nat /\ DOMAIN s = 1 .. Len(s) /\ DOMAIN t = 1 .. Len(t)
      /\ s \o t \in Seq(B) /\ Len(s \o t) = Len(s) + Len(t)
      /\ \A i \in 1 .. Len(s) + Len(t) : (s \o t)[i] = IF i <= Len(s) THEN s[i] ELSE t[i - Len(s)]
  BY LenProperties, ConcatProperties
<1>3. DOMAIN (s \o t) = 1 .. Len(s) + Len(t)
  BY <1>2, LenProperties
<1>4. Len(list(s)) = Len(s) /\ Len(list(t)) = Len(t)
  BY <1>1, <1>2, LenProperties
<1>5. list(s \o t) = list(s) \o list(t)
  <2>1. list(s \o t) \in Seq(Seq(Byte))
    BY <1>2, PacketListIs
  <2>2. Len(list(s \o t)) = Len(s) + Len(t)
    BY <1>2, <1>3, <2>1, LenProperties
  <2>3. /\ list(s) \o list(t) \in Seq(Seq(Byte))
        /\ Len(list(s) \o list(t)) = Len(s) + Len(t)
        /\ \A i \in 1 .. Len(s) + Len(t) :
              (list(s) \o list(t))[i] = IF i <= Len(s) THEN list(s)[i] ELSE list(t)[i - Len(s)]
    <3> DEFINE ls == list(s)
               lt == list(t)
               Q  == Seq(Byte)
    <3>1. ls \in Seq(Q) /\ lt \in Seq(Q) /\ Len(ls) = Len(s) /\ Len(lt) = Len(t)
      BY <1>1, <1>4
    <3> HIDE DEF ls, lt, Q
    <3>2. /\ ls \o lt \in Seq(Q)
          /\ Len(ls \o lt) = Len(ls) + Len(lt)
          /\ \A i \in 1 .. Len(ls) + Len(lt) :
                (ls \o lt)[i] = IF i <= Len(ls) THEN ls[i] ELSE lt[i - Len(ls)]
      BY <3>1, ConcatProperties
    <3> QED BY <3>1, <3>2 DEF ls, lt, Q
  <2>4. ASSUME NEW i \in 1 .. Len(s) + Len(t) PROVE list(s \o t)[i] = (list(s) \o list(t))[i]
    <3>1. list(s \o t)[i] = MakeSendPacket(rule, (s \o t)[i])
      BY <1>3
    <3>2. CASE i <= Len(s)
      <4>1. i \in DOMAIN s
        BY <1>2, <3>2
      <4>2. list(s)[i] = MakeSendPacket(rule, s[i])
        BY <4>1
      <4> HIDE DEF list
      <4> QED BY <1>2, <2>3, <3>1, <3>2, <4>2
    <3>3. CASE ~(i <= Len(s))
      <4>1. i - Len(s) \in DOMAIN t
        BY <1>2, <3>3
      <4>2. list(t)[i - Len(s)] = MakeSendPacket(rule, t[i - Len(s)])
        BY <4>1
      <4> HIDE DEF list
      <4> QED BY <1>2, <2>3, <3>1, <3>3, <4>2
    <3> QED BY <3>2, <3>3
  <2> HIDE DEF list
  <2> QED BY <2>1, <2>2, <2>3, <2>4, SeqEqual
<1> HIDE DEF list
<1>6. FlattenSeq(list(s) \o list(t)) = FlattenSeq(list(s)) \o FlattenSeq(list(t))
  BY <1>1, FlattenConcat
<1>7. FlattenSeq(list(s)) \in Seq(Byte)
  BY <1>1, FlattenAppend, EmptySeq
<1> QED BY <1>5, <1>6, <1>7 DEF PacketsOf, list

(* The packets of one body.                                                *)
LEMMA PacketsOfOne ==
    ASSUME NEW rule, NEW m, MakeSendPacket(rule, m) \in Seq(Byte)
    PROVE  PacketsOf(rule, <<m>>) = MakeSendPacket(rule, m)
<1> DEFINE x == MakeSendPacket(rule, m)
           e == <<>>
<1>1. [i \in DOMAIN <<m>> |-> MakeSendPacket(rule, <<m>>[i])] = <<x>>
  OBVIOUS
<1> HIDE DEF x
<1>2. <<>> \in Seq(Seq(Byte)) /\ <<>> \in Seq(Byte) /\ Append(e, x) = <<x>> /\ x \in Seq(Byte)
  BY DEF x
<1>3. FlattenSeq(Append(e, x)) = FlattenSeq(e) \o x
  BY <1>2, FlattenAppend
<1>4. <<>> \o x = x
  BY <1>2, ConcatEmptySeq
<1> QED BY <1>1, <1>2, <1>3, <1>4, FlattenEmpty DEF PacketsOf, x

-----------------------------------------------------------------------------
(* The rules                                                               *)

(* The settings of each kind of rule.                                      *)
LEMMA RuleParts ==
    ASSUME NEW rule \in Rule
    PROVE  /\ rule.kind \in {"SizeBody", "Terminate", "FixedLength", "Nodivision"}
           /\ rule.kind = "SizeBody" => rule \in SizeBodyRule
           /\ rule.kind = "Terminate" => rule.terminator \in Seq(Byte) /\ rule.terminator # <<>>
           /\ rule.kind = "FixedLength" => rule.fixedSize \in Nat \ {0}
<1>1. CASE rule \in SizeBodyRule
  BY <1>1 DEF SizeBodyRule
<1>2. CASE rule \in [kind : {"Terminate"}, terminator : Seq(Byte) \ {<<>>}]
  BY <1>2
<1>3. CASE rule \in [kind : {"FixedLength"}, fixedSize : Nat \ {0}]
  BY <1>3
<1>4. CASE rule \in [kind : {"Nodivision"}]
  BY <1>4
<1> QED BY <1>1, <1>2, <1>3, <1>4 DEF Rule, SizeBodyRule

(* A padded body has the size of the rule, and is not padded again.        *)
LEMMA PaddedIs ==
    ASSUME NEW rule, rule.fixedSize \in Nat \ {0}, NEW m \in Seq(Byte)
    PROVE  /\ Padded(rule, m) \in Seq(Byte) /\ Len(Padded(rule, m)) = rule.fixedSize
           /\ Padded(rule, Padded(rule, m)) = Padded(rule, m)
<1> DEFINE n == rule.fixedSize
<1>1. ASSUME NEW i \in 1 .. n PROVE (IF i <= Len(m) THEN m[i] ELSE 0) \in Byte
  <2>1. 0 \in Byte
    BY ByteAssumption DEF Byte
  <2>2. i <= Len(m) => i \in 1 .. Len(m)
    BY LenProperties
  <2>3. i <= Len(m) => m[i] \in Byte
    BY <2>2, LenProperties
  <2> QED BY <2>1, <2>3
<1>2. Padded(rule, m) \in [1 .. n -> Byte]
  BY <1>1 DEF Padded
<1>3. Padded(rule, m) \in Seq(Byte) /\ Len(Padded(rule, m)) = n
  BY <1>2
<1>4. \A i \in 1 .. n : i <= Len(Padded(rule, m))
  BY <1>3
<1>5. Padded(rule, Padded(rule, m)) = [i \in 1 .. n |-> Padded(rule, m)[i]]
  <2> DEFINE p == Padded(rule, m)
  <2> HIDE DEF p
  <2>1. Padded(rule, p) = [i \in 1 .. n |-> IF i <= Len(p) THEN p[i] ELSE 0]
    BY DEF Padded
  <2>2. \A i \in 1 .. n : i <= Len(p)
    BY <1>4 DEF p
  <2> QED BY <2>1, <2>2 DEF p
<1>6. Padded(rule, m) = [i \in 1 .. n |-> Padded(rule, m)[i]]
  BY <1>2
<1> QED BY <1>3, <1>5, <1>6

(* A packet is a sequence of bytes.                                        *)
LEMMA PacketIsBytes ==
    ASSUME NEW rule \in Rule, NEW m \in Seq(Byte)
    PROVE  MakeSendPacket(rule, m) \in Seq(Byte)
<1>1. CASE rule.kind = "SizeBody"
  <2>1. SizeHeader(rule, Len(m)) \in Seq(Byte)
    BY <1>1, RuleParts, HeaderIsBytes, LenProperties
  <2> QED BY <1>1, <2>1, ConcatProperties DEF MakeSendPacket
<1>2. CASE rule.kind = "Terminate"
  BY <1>2, RuleParts, ConcatProperties DEF MakeSendPacket, Terminated
<1>3. CASE rule.kind = "FixedLength"
  BY <1>3, RuleParts, PaddedIs DEF MakeSendPacket
<1>4. CASE rule.kind = "Nodivision"
  BY <1>4 DEF MakeSendPacket
<1> QED BY <1>1, <1>2, <1>3, <1>4, RuleParts

(* What is delivered makes the same packet again.                          *)
LEMMA SamePacket ==
    ASSUME NEW rule \in Rule, NEW m \in Seq(Byte)
    PROVE  /\ Delivered(rule, m) \in Seq(Byte)
           /\ MakeSendPacket(rule, Delivered(rule, m)) = MakeSendPacket(rule, m)
<1>1. CASE rule.kind = "FixedLength"
  <2>1. MakeSendPacket(rule, m) = Padded(rule, m) /\ Delivered(rule, m) = Padded(rule, m)
    BY <1>1 DEF MakeSendPacket, Delivered
  <2>2. MakeSendPacket(rule, Padded(rule, m)) = Padded(rule, Padded(rule, m))
    BY <1>1 DEF MakeSendPacket
  <2> QED BY <1>1, <2>1, <2>2, RuleParts, PaddedIs
<1>2. CASE rule.kind # "FixedLength"
  BY <1>2 DEF Delivered
<1> QED BY <1>1, <1>2

(* The least number of a set.                                              *)
LEMMA MinIs ==
    ASSUME NEW T \in SUBSET Nat, T # {}
    PROVE  Min(T) \in T /\ \A x \in T : Min(T) <= x
<1>1. \E x \in T : \A y \in T : x <= y
  BY Least
<1> QED BY <1>1 DEF Min

(* The first terminator in the bytes at hand is the one that ends the next *)
(* body, however many bytes have come.                                     *)
LEMMA TerminatorEnds ==
    ASSUME NEW t \in Seq(Byte), NEW m \in Seq(Byte), NEW temp \in Seq(Byte),
           NEW rest \in Seq(Byte), NEW more \in Seq(Byte),
           temp \o rest = (m \o t) \o more,
           Min(TerminatorAt(t, m \o t)) = Len(m) + 1,
           TerminatorAt(t, temp) # {}
    PROVE  /\ Min(TerminatorAt(t, temp)) = Len(m) + 1
           /\ Len(m) + Len(t) <= Len(temp)
<1> DEFINE n    == Len(m)
           size == Len(t)
           all  == temp \o rest
           at   == Min(TerminatorAt(t, temp))
<1>1. n \in Nat /\ size \in Nat /\ Len(temp) \in Nat /\ m \o t \in Seq(Byte) /\ Len(m \o t) = n + size
  BY LenProperties, ConcatProperties
<1>2. \A i \in 1 .. Len(temp) : all[i] = temp[i]
  <2>1. \A i \in 1 .. Len(temp) : i <= Len(temp) /\ i \in 1 .. Len(temp) + Len(rest)
    BY <1>1, LenProperties
  <2> QED BY <2>1, ConcatProperties
<1>3. \A i \in 1 .. n + size : all[i] = (m \o t)[i]
  <2>1. \A i \in 1 .. n + size : i <= Len(m \o t) /\ i \in 1 .. Len(m \o t) + Len(more)
    BY <1>1, LenProperties
  <2>2. \A i \in 1 .. n + size : ((m \o t) \o more)[i] = (m \o t)[i]
    BY <1>1, <2>1, ConcatProperties
  <2> QED BY <2>2
<1>4. \A j \in 1 .. size : (m \o t)[n + j] = t[j]
  <2>1. \A j \in 1 .. size : n + j \in 1 .. n + size /\ ~(n + j <= n) /\ (n + j) - n = j
    BY <1>1
  <2> QED BY <2>1, ConcatProperties
<1> HIDE DEF all
<1>5. at \in TerminatorAt(t, temp) /\ \A x \in TerminatorAt(t, temp) : at <= x
  <2>1. TerminatorAt(t, temp) \in SUBSET Nat
    BY DEF TerminatorAt
  <2> QED BY <2>1, MinIs
<1> HIDE DEF at
<1>6. at \in 1 .. Len(temp) - size + 1 /\ \A j \in 1 .. size : temp[at + j - 1] = t[j]
  BY <1>5 DEF TerminatorAt
<1>7. ~(at <= n)
  <2>1. ASSUME at <= n PROVE FALSE
    <3>1. ASSUME NEW j \in 1 .. size PROVE (m \o t)[at + j - 1] = t[j]
      <4>1. at + j - 1 \in 1 .. Len(temp) /\ at + j - 1 \in 1 .. n + size
        BY <1>1, <1>6, <2>1
      <4> QED BY <4>1, <1>2, <1>3, <1>6
    <3>2. at \in 1 .. Len(m \o t) - size + 1
      BY <1>1, <1>6, <2>1
    <3>3. at \in TerminatorAt(t, m \o t)
      BY <3>1, <3>2 DEF TerminatorAt
    <3>4. TerminatorAt(t, m \o t) \in SUBSET Nat
      BY DEF TerminatorAt
    <3>5. n + 1 <= at
      BY <3>3, <3>4, MinIs
    <3> QED BY <1>1, <1>6, <2>1, <3>5
  <2> QED BY <2>1
<1>8. n + 1 <= Len(temp) - size + 1
  BY <1>1, <1>6, <1>7
<1>9. n + 1 \in TerminatorAt(t, temp)
  <2>1. ASSUME NEW j \in 1 .. size PROVE temp[(n + 1) + j - 1] = t[j]
    <3>1. (n + 1) + j - 1 = n + j /\ n + j \in 1 .. Len(temp) /\ n + j \in 1 .. n + size
      BY <1>1, <1>8
    <3> QED BY <3>1, <1>2, <1>3, <1>4
  <2>2. n + 1 \in 1 .. Len(temp) - size + 1
    BY <1>1, <1>8
  <2> QED BY <2>1, <2>2 DEF TerminatorAt
<1>10. at <= n + 1
  BY <1>5, <1>9
<1>11. at = n + 1
  BY <1>1, <1>6, <1>7, <1>10
<1> QED BY <1>1, <1>8, <1>11 DEF at

-----------------------------------------------------------------------------
(* The stream                                                              *)

(* What was sent and not yet delivered.                                    *)
Unheard == SubSeq(sent, Len(received) + 1, Len(sent))

(* What is on its way, from the header in hand to the end of the wire.     *)
InFlight == HeaderInHand \o (rs.temp \o (buf \o wire))

(* Only Terminate keeps bytes in the rule; a loop that overwrites what is  *)
(* left over has nothing left over when it does.                           *)
LeftOver ==
    /\ r.kind # "Terminate" => rs.temp = <<>> /\ pc # "scan"
    /\ pc = "poll" /\ ~setup.keepsPartial => buf = <<>>

(* The messages delivered are the first ones sent, what is in flight are   *)
(* the packets of the others, and a header in hand is that of the next.    *)
InStep ==
    /\ Len(received) <= Len(sent)
    /\ \A i \in 1 .. Len(received) : received[i] = Delivered(r, sent[i])
    /\ InFlight = PacketsOf(r, Unheard)
    /\ r.kind = "SizeBody" /\ rs.mode = "Body" =>
          /\ Len(received) < Len(sent)
          /\ rs.bodySize = Len(sent[Len(received) + 1])

StreamInv ==
    /\ StreamTypeOK
    /\ LeftOver
    /\ IF r.kind = "Nodivision" THEN BytesConserved ELSE InStep

(* The setups of which the theorems speak.                                 *)
Works(st) == Carried(st) \/ st.rule.kind = "Nodivision"

(* What the types give.                                                    *)
LEMMA StreamFacts ==
    ASSUME \A st \in Setups : Works(st), StreamTypeOK
    PROVE  /\ r \in Rule
           /\ setup.bodies \subseteq Seq(Byte) /\ setup.keepsPartial \in BOOLEAN
           /\ Packs(r, setup.bodies) /\ Packs(r, Seq(Byte))
           /\ r.kind # "Nodivision" => Carried(setup)
           /\ rs.temp \in Seq(Byte) /\ rs.bodySize \in Nat /\ rs.mode \in {"Size", "Body"}
           /\ HeaderInHand \in Seq(Byte)
           /\ Len(sent) \in Nat /\ Len(received) \in Nat
           /\ PacketsOf(r, sent) \in Seq(Byte) /\ PacketsOf(r, received) \in Seq(Byte)
           /\ Packets(sent) = PacketsOf(r, sent) /\ Packets(received) = PacketsOf(r, received)
<1>1. setup \in Setups /\ rs \in RuleState
  BY DEF StreamTypeOK
<1>2. r \in Rule /\ setup.bodies \subseteq Seq(Byte) /\ setup.keepsPartial \in BOOLEAN
  BY <1>1, StreamAssumption DEF r
<1>3. Packs(r, setup.bodies) /\ Packs(r, Seq(Byte))
  BY <1>2, PacketIsBytes DEF Packs
<1>4. r.kind # "Nodivision" => Carried(setup)
  BY <1>1 DEF Works, r
<1>5. rs.temp \in Seq(Byte) /\ rs.bodySize \in Nat /\ rs.mode \in {"Size", "Body"}
  BY <1>1 DEF RuleState
<1>6. HeaderInHand \in Seq(Byte)
  <2>1. <<>> \in Seq(Byte)
    OBVIOUS
  <2>2. r.kind = "SizeBody" => SizeHeader(r, rs.bodySize) \in Seq(Byte)
    BY <1>2, <1>5, RuleParts, HeaderIsBytes
  <2> QED BY <2>1, <2>2 DEF HeaderInHand
<1>7. Len(sent) \in Nat /\ Len(received) \in Nat
  BY LenProperties DEF StreamTypeOK
<1>8. PacketsOf(r, sent) \in Seq(Byte) /\ PacketsOf(r, received) \in Seq(Byte)
  BY <1>3, PacketsOfBoth DEF StreamTypeOK
<1>9. Packets(sent) = PacketsOf(r, sent) /\ Packets(received) = PacketsOf(r, received)
  BY DEF Packets, PacketsOf
<1> QED BY <1>2, <1>3, <1>4, <1>5, <1>6, <1>7, <1>8, <1>9

AreSeqs(S, x, y, z) == x \in Seq(S) /\ y \in Seq(S) /\ z \in Seq(S)

(* Concatenation is associative.                                           *)
LEMMA Three ==
    ASSUME NEW S, NEW x, NEW y, NEW z, AreSeqs(S, x, y, z)
    PROVE  (x \o y) \o z = x \o (y \o z)
BY ConcatAssociative DEF AreSeqs

(* Concatenation of five, from the left and from the right.                *)
LEMMA Five ==
    ASSUME NEW S, NEW a, NEW b, NEW c, NEW d, NEW e, AreSeqs(S, a, b, c), AreSeqs(S, c, d, e)
    PROVE  (((a \o b) \o c) \o d) \o e = a \o (b \o (c \o (d \o e)))
<1> DEFINE ab  == a \o b
           abc == ab \o c
           de  == d \o e
           cde == c \o de
<1>1. de \in Seq(S) /\ ab \in Seq(S)
  BY ConcatProperties DEF AreSeqs
<1> HIDE DEF ab, de
<1>2. abc \in Seq(S) /\ cde \in Seq(S)
  BY <1>1, ConcatProperties DEF AreSeqs
<1>3. abc \o de = ab \o cde
  <2>1. AreSeqs(S, ab, c, de)
    BY <1>1 DEF AreSeqs
  <2> QED BY <2>1, Three
<1> HIDE DEF abc, cde
<1>4. (abc \o d) \o e = abc \o de
  <2>1. AreSeqs(S, abc, d, e)
    BY <1>2 DEF AreSeqs
  <2> QED BY <2>1, Three DEF de
<1>5. ab \o cde = a \o (b \o cde)
  <2>1. AreSeqs(S, a, b, cde)
    BY <1>2 DEF AreSeqs
  <2> QED BY <2>1, Three DEF ab
<1> QED BY <1>3, <1>4, <1>5 DEF ab, abc, cde, de

(* A sequence of one.                                                      *)
LEMMA Single == ASSUME NEW S, NEW x \in S PROVE <<x>> \in Seq(S)
OBVIOUS

(* What is behind a beginning.                                             *)
LEMMA BehindIs ==
    ASSUME NEW S, NEW p \in Seq(S), NEW q \in Seq(S)
    PROVE  SubSeq(p \o q, Len(p) + 1, Len(p \o q)) = q
<1> DEFINE a == p \o q
           rest == SubSeq(a, Len(p) + 1, Len(a))
<1>1. a \in Seq(S) /\ Len(a) = Len(p) + Len(q) /\ Len(p) \in Nat /\ Len(q) \in Nat
  BY ConcatProperties, LenProperties
<1>2. <<>> \in Seq(S) /\ a \o <<>> = p \o q
  BY <1>1, ConcatEmptySeq
<1>3. Len(p) <= Len(a)
  BY <1>1
<1> DEFINE e == <<>>
<1>4. rest \in Seq(S) /\ rest \o e = q
  <2>1. Begins(S, a, e, p, q)
    BY <1>1, <1>2, <1>3 DEF Begins
  <2> HIDE DEF a, e
  <2> QED BY <2>1, FrontOf
<1> HIDE DEF a
<1>5. rest \o <<>> = rest
  BY <1>4, ConcatEmptySeq
<1> QED BY <1>4, <1>5 DEF a

(* The bytes in flight begin with the packet of the next message.          *)
LEMMA NextPacket ==
    ASSUME \A st \in Setups : Works(st), StreamTypeOK, InStep,
           InFlight # <<>> \/ Len(received) < Len(sent)
    PROVE  LET k == Len(received)
               m == sent[k + 1]
               more == PacketsOf(r, SubSeq(sent, k + 2, Len(sent)))
           IN  /\ k < Len(sent) /\ m \in setup.bodies /\ m \in Seq(Byte)
               /\ more \in Seq(Byte)
               /\ MakeSendPacket(r, m) \in Seq(Byte)
               /\ InFlight = MakeSendPacket(r, m) \o more
<1> DEFINE k == Len(received)
           m == sent[k + 1]
           others == SubSeq(sent, k + 2, Len(sent))
<1>1. /\ Packs(r, setup.bodies) /\ setup.bodies \subseteq Seq(Byte)
      /\ Len(sent) \in Nat /\ k \in Nat
  BY StreamFacts
<1>2. sent \in Seq(setup.bodies) /\ \A i \in 1 .. Len(sent) : sent[i] \in setup.bodies
  BY LenProperties DEF StreamTypeOK
<1>3. k < Len(sent)
  <2>1. ASSUME k >= Len(sent) PROVE InFlight = <<>>
    <3>1. Unheard = <<>>
      BY <1>1, <2>1, SubSeqEmpty DEF Unheard
    <3> QED BY <3>1, PacketsOfNone DEF InStep
  <2> QED BY <1>1, <2>1
<1>4. m \in setup.bodies /\ m \in Seq(Byte) /\ MakeSendPacket(r, m) \in Seq(Byte)
  BY <1>1, <1>2, <1>3 DEF Packs
<1>5. Unheard = <<m>> \o others
  <2>1. k + 1 \in 1 .. Len(sent) /\ Len(sent) \in k + 1 .. Len(sent) /\ (k + 1) + 1 = k + 2
    BY <1>1, <1>3
  <2>2. SubSeq(sent, k + 1, Len(sent)) = <<sent[k + 1]>> \o SubSeq(sent, (k + 1) + 1, Len(sent))
    BY <1>2, <2>1, SubSeqRecursiveFirst
  <2> QED BY <2>1, <2>2 DEF Unheard
<1>6. others \in Seq(setup.bodies) /\ <<m>> \in Seq(setup.bodies)
  <2>1. k + 1 \in 0 .. Len(sent) /\ (k + 1) + 1 = k + 2
    BY <1>1, <1>3
  <2>2. SubSeq(sent, (k + 1) + 1, Len(sent)) \in Seq(setup.bodies)
    BY <1>2, <2>1, CutAt
  <2>3. others \in Seq(setup.bodies)
    BY <2>1, <2>2
  <2>4. <<m>> \in Seq(setup.bodies)
    BY <1>4, Single
  <2> HIDE DEF m, others
  <2> QED BY <2>3, <2>4
<1> HIDE DEF m, others
<1>7. /\ PacketsOf(r, <<m>> \o others) = PacketsOf(r, <<m>>) \o PacketsOf(r, others)
      /\ PacketsOf(r, others) \in Seq(Byte)
  BY <1>1, <1>6, PacketsOfBoth
<1>8. PacketsOf(r, <<m>>) = MakeSendPacket(r, m)
  BY <1>4, PacketsOfOne
<1>9. InFlight = MakeSendPacket(r, m) \o PacketsOf(r, others)
  BY <1>5, <1>7, <1>8 DEF InStep
<1> QED BY <1>3, <1>4, <1>7, <1>9 DEF m, others

(* The delivered messages being the first ones sent, every byte is         *)
(* somewhere.                                                              *)
LEMMA InStepConserves ==
    ASSUME \A st \in Setups : Works(st), StreamTypeOK, InStep
    PROVE  BytesConserved
<1> DEFINE k == Len(received)
           first == SubSeq(sent, 1, k)
<1>1. /\ Packs(r, setup.bodies) /\ setup.bodies \subseteq Seq(Byte) /\ r \in Rule
      /\ Len(sent) \in Nat /\ k \in Nat /\ k <= Len(sent)
      /\ HeaderInHand \in Seq(Byte) /\ rs.temp \in Seq(Byte)
  BY StreamFacts DEF InStep
<1>2. /\ sent \in Seq(setup.bodies) /\ \A i \in 1 .. Len(sent) : sent[i] \in setup.bodies
      /\ buf \in Seq(Byte) /\ wire \in Seq(Byte)
  BY LenProperties DEF StreamTypeOK
<1>3. k \in 0 .. Len(sent)
  BY <1>1
<1>4. /\ first \in Seq(setup.bodies) /\ Len(first) = k
      /\ Unheard \in Seq(setup.bodies) /\ first \o Unheard = sent
  BY <1>2, <1>3, CutAt DEF Unheard
<1>5. PacketsOf(r, sent) = PacketsOf(r, first) \o PacketsOf(r, Unheard)
  <2> HIDE DEF first
  <2> QED BY <1>1, <1>4, PacketsOfBoth
<1>6. PacketsOf(r, received) = PacketsOf(r, first)
  <2>1. DOMAIN received = 1 .. k /\ DOMAIN first = 1 .. k
    BY <1>4, LenProperties DEF StreamTypeOK
  <2>2. ASSUME NEW i \in 1 .. k PROVE MakeSendPacket(r, received[i]) = MakeSendPacket(r, first[i])
    <3>1. first[i] = sent[i] /\ sent[i] \in Seq(Byte)
      BY <1>1, <1>2
    <3>2. received[i] = Delivered(r, sent[i])
      BY DEF InStep
    <3> QED BY <1>1, <3>1, <3>2, SamePacket
  <2>3. [i \in DOMAIN received |-> MakeSendPacket(r, received[i])]
            = [i \in DOMAIN first |-> MakeSendPacket(r, first[i])]
    <3> HIDE DEF first
    <3> QED BY <2>1, <2>2
  <2> QED BY <2>3 DEF PacketsOf
<1>7. PacketsOf(r, first) \in Seq(Byte)
  BY <1>1, <1>4, PacketsOfBoth
<1>8. PacketsOf(r, received) \o InFlight = PacketsOf(r, sent)
  BY <1>5, <1>6 DEF InStep
<1>9. (((PacketsOf(r, received) \o HeaderInHand) \o rs.temp) \o buf) \o wire
          = PacketsOf(r, received) \o InFlight
  <2> DEFINE p == PacketsOf(r, received)
             h == HeaderInHand
             t == rs.temp
  <2>1. AreSeqs(Byte, p, h, t) /\ AreSeqs(Byte, t, buf, wire)
    BY <1>1, <1>2, <1>6, <1>7 DEF AreSeqs
  <2> HIDE DEF p, h, t
  <2>2. (((p \o h) \o t) \o buf) \o wire = p \o (h \o (t \o (buf \o wire)))
    BY <2>1, Five
  <2> QED BY <2>2 DEF InFlight, p, h, t
<1>10. Packets(sent) = PacketsOf(r, sent) /\ Packets(received) = PacketsOf(r, received)
  BY DEF Packets, PacketsOf
<1> QED BY <1>8, <1>9, <1>10 DEF BytesConserved

(* The next message is handed to the receiver.                             *)
DeliverNext ==
    /\ Len(received) < Len(sent)
    /\ received' = Append(received, Delivered(r, sent[Len(received) + 1]))
    /\ UNCHANGED <<setup, sent>>

(* It has left the bytes in flight.                                        *)
LEMMA DeliverKeepsStep ==
    ASSUME \A st \in Setups : Works(st), StreamTypeOK, InStep, DeliverNext,
           InFlight' = PacketsOf(r, SubSeq(sent, Len(received) + 2, Len(sent))),
           r.kind = "SizeBody" => rs'.mode = "Size"
    PROVE  InStep' /\ received' \in Seq(Seq(Byte))
<1> DEFINE k == Len(received)
           m == sent[k + 1]
<1>1. r \in Rule /\ k \in Nat /\ Len(sent) \in Nat /\ r' = r
  BY StreamFacts DEF DeliverNext, r
<1>2. k < Len(sent) /\ m \in Seq(Byte)
  <2>1. k < Len(sent)
    BY DEF DeliverNext
  <2> QED BY <2>1, NextPacket
<1>3. Delivered(r, m) \in Seq(Byte)
  BY <1>1, <1>2, SamePacket
<1>4. /\ received' \in Seq(Seq(Byte)) /\ Len(received') = k + 1
      /\ \A i \in 1 .. k : received'[i] = received[i]
      /\ received'[k + 1] = Delivered(r, m)
  <2> DEFINE d == Delivered(r, m)
             Q == Seq(Byte)
  <2>1. received \in Seq(Q) /\ d \in Q /\ received' = Append(received, d)
    BY <1>3 DEF StreamTypeOK, DeliverNext
  <2> HIDE DEF d, Q
  <2>2. /\ received' \in Seq(Q) /\ Len(received') = Len(received) + 1
        /\ \A i \in 1 .. Len(received) : received'[i] = received[i]
        /\ received'[Len(received) + 1] = d
    BY <2>1, AppendProperties
  <2> QED BY <2>2 DEF d, Q
<1>5. ASSUME NEW i \in 1 .. k + 1 PROVE received'[i] = Delivered(r, sent[i])
  <2>1. CASE i \in 1 .. k
    BY <2>1, <1>4 DEF InStep
  <2>2. CASE i = k + 1
    BY <2>2, <1>4
  <2> QED BY <2>1, <2>2, <1>1
<1>6. k + 1 <= Len(sent) /\ (k + 1) + 1 = k + 2
  BY <1>1, <1>2
<1>7. sent' = sent /\ Unheard' = SubSeq(sent, k + 2, Len(sent))
  BY <1>4, <1>6 DEF Unheard, DeliverNext
<1> QED BY <1>1, <1>4, <1>5, <1>6, <1>7 DEF InStep

(* Bytes move, but none leaves or joins.                                   *)
LEMMA MoveKeepsStep ==
    ASSUME InStep, UNCHANGED <<setup, sent, received>>, InFlight' = InFlight,
           r.kind = "SizeBody" /\ rs'.mode = "Body" =>
               /\ Len(received) < Len(sent)
               /\ rs'.bodySize = Len(sent[Len(received) + 1])
    PROVE  InStep'
<1>1. r' = r /\ sent' = sent /\ received' = received
  BY DEF r
<1>2. Unheard' = Unheard
  BY <1>1 DEF Unheard
<1> QED BY <1>1, <1>2 DEF InStep

(* A send adds a packet behind the last.                                   *)
LEMMA SendStep ==
    ASSUME \A st \in Setups : Works(st), StreamInv, NEW body \in setup.bodies, Send(body)
    PROVE  StreamInv'
<1> DEFINE k == Len(received)
           first == SubSeq(sent, 1, k)
           p == MakeSendPacket(r, body)
<1>1. /\ StreamTypeOK /\ LeftOver
      /\ Packs(r, setup.bodies) /\ Packs(r, Seq(Byte)) /\ k \in Nat /\ Len(sent) \in Nat
      /\ HeaderInHand \in Seq(Byte) /\ rs.temp \in Seq(Byte) /\ setup.bodies \subseteq Seq(Byte)
  BY StreamFacts DEF StreamInv
<1>2. /\ sent \in Seq(setup.bodies) /\ buf \in Seq(Byte) /\ wire \in Seq(Byte)
      /\ received \in Seq(Seq(Byte))
  BY <1>1 DEF StreamTypeOK
<1>3. p \in Seq(Byte)
  BY <1>1 DEF Packs
<1>4. UNCHANGED <<setup, buf, rs, pc, received>> /\ r' = r
  BY DEF Send, r
<1>5. /\ sent' = sent \o <<body>> /\ <<body>> \in Seq(setup.bodies)
      /\ sent' \in Seq(setup.bodies) /\ Len(sent') = Len(sent) + 1
      /\ \A i \in 1 .. Len(sent) : sent'[i] = sent[i]
  <2>1. sent' = Append(sent, body)
    BY DEF Send
  <2>2. Append(sent, body) = sent \o <<body>>
    BY <1>2, AppendIsConcat
  <2> DEFINE s == Append(sent, body)
  <2>3. /\ s \in Seq(setup.bodies) /\ Len(s) = Len(sent) + 1
        /\ \A i \in 1 .. Len(sent) : s[i] = sent[i]
    BY <1>2, AppendProperties
  <2>4. <<body>> \in Seq(setup.bodies)
    BY Single
  <2> HIDE DEF s
  <2>5. sent' = s /\ s = sent \o <<body>>
    BY <2>1, <2>2 DEF s
  <2> QED BY <2>3, <2>4, <2>5
<1>6. PacketsOf(r, <<body>>) = p
  BY <1>3, PacketsOfOne
<1> HIDE DEF p
<1>7. wire' = wire \o p /\ wire' \in Seq(Byte)
  BY <1>2, <1>3, ConcatProperties DEF Send, p
<1>8. StreamTypeOK' /\ LeftOver'
  BY <1>1, <1>4, <1>5, <1>7 DEF StreamTypeOK, LeftOver
<1>9. HeaderInHand' = HeaderInHand
  BY <1>4 DEF HeaderInHand
<1>10. CASE r.kind = "Nodivision"
  <2>1. BytesConserved
    BY <1>10 DEF StreamInv
  <2>2. Packets(sent)' = PacketsOf(r, sent) \o p
    <3>1. PacketsOf(r, sent \o <<body>>) = PacketsOf(r, sent) \o PacketsOf(r, <<body>>)
      BY <1>1, <1>2, <1>5, PacketsOfBoth
    <3> QED BY <1>4, <1>5, <1>6, <3>1 DEF Packets, PacketsOf
  <2> DEFINE a == PacketsOf(r, received) \o HeaderInHand \o rs.temp \o buf
  <2>3. a \in Seq(Byte)
    <3>1. PacketsOf(r, received) \in Seq(Byte)
      BY <1>1, <1>2, PacketsOfBoth
    <3>2. PacketsOf(r, received) \o HeaderInHand \in Seq(Byte)
      BY <3>1, <1>1, ConcatProperties
    <3>3. PacketsOf(r, received) \o HeaderInHand \o rs.temp \in Seq(Byte)
      BY <3>2, <1>1, ConcatProperties
    <3> QED BY <3>3, <1>2, ConcatProperties
  <2>4. a \o wire = PacketsOf(r, sent)
    BY <2>1 DEF BytesConserved, Packets, PacketsOf
  <2>5. (Packets(received) \o HeaderInHand \o rs.temp \o buf \o wire)' = a \o wire'
    BY <1>4, <1>9 DEF Packets, PacketsOf
  <2> HIDE DEF a
  <2>6. (a \o wire) \o p = a \o (wire \o p)
    <3>1. AreSeqs(Byte, a, wire, p)
      BY <1>2, <1>3, <2>3 DEF AreSeqs
    <3> QED BY <3>1, Three
  <2>7. BytesConserved'
    BY <1>7, <2>2, <2>4, <2>5, <2>6 DEF BytesConserved
  <2> QED BY <1>4, <1>8, <1>10, <2>7 DEF StreamInv
<1>11. CASE r.kind # "Nodivision"
  <2>1. InStep
    BY <1>11 DEF StreamInv
  <2>2. k \in 0 .. Len(sent) /\ k <= Len(sent)
    BY <1>1, <2>1 DEF InStep
  <2>3. /\ first \in Seq(setup.bodies) /\ Len(first) = k
        /\ Unheard \in Seq(setup.bodies) /\ first \o Unheard = sent
    BY <1>2, <2>2, CutAt DEF Unheard
  <2> HIDE DEF first
  <2>4. sent' = first \o (Unheard \o <<body>>) /\ Unheard \o <<body>> \in Seq(setup.bodies)
    <3>1. AreSeqs(setup.bodies, first, Unheard, <<body>>)
      BY <1>5, <2>3 DEF AreSeqs
    <3>2. (first \o Unheard) \o <<body>> = first \o (Unheard \o <<body>>)
      BY <3>1, Three
    <3> QED BY <1>5, <2>3, <3>2, ConcatProperties
  <2>5. Unheard' = Unheard \o <<body>>
    <3> DEFINE q == Unheard \o <<body>>
    <3>1. SubSeq(sent', Len(first) + 1, Len(sent')) = q
      <4> HIDE DEF q
      <4> QED BY <2>3, <2>4, BehindIs DEF q
    <3> QED BY <1>4, <2>3, <3>1 DEF Unheard
  <2>6. PacketsOf(r, Unheard \o <<body>>) = PacketsOf(r, Unheard) \o p
    <3> DEFINE u == Unheard
    <3>1. u \in Seq(setup.bodies)
      BY <2>3
    <3> HIDE DEF u
    <3>2. PacketsOf(r, u \o <<body>>) = PacketsOf(r, u) \o PacketsOf(r, <<body>>)
      BY <1>1, <1>5, <3>1, PacketsOfBoth
    <3> QED BY <3>2, <1>6 DEF u
  <2>7. InFlight' = InFlight \o p
    <3> DEFINE h == HeaderInHand
               t == rs.temp
               bw == buf \o wire
               tbw == t \o bw
    <3>1. h \in Seq(Byte) /\ t \in Seq(Byte)
      BY <1>1
    <3> HIDE DEF h, t
    <3>2. bw \in Seq(Byte) /\ buf \o (wire \o p) = bw \o p
      <4>1. AreSeqs(Byte, buf, wire, p)
        BY <1>2, <1>3 DEF AreSeqs
      <4> QED BY <1>2, <4>1, Three, ConcatProperties
    <3> HIDE DEF bw
    <3>3. tbw \in Seq(Byte) /\ t \o (bw \o p) = tbw \o p
      <4>1. AreSeqs(Byte, t, bw, p)
        BY <1>3, <3>1, <3>2 DEF AreSeqs
      <4> QED BY <3>1, <3>2, <4>1, Three, ConcatProperties
    <3> HIDE DEF tbw
    <3>4. h \o (tbw \o p) = (h \o tbw) \o p
      <4>1. AreSeqs(Byte, h, tbw, p)
        BY <1>3, <3>1, <3>3 DEF AreSeqs
      <4> QED BY <4>1, Three
    <3>5. InFlight = h \o tbw
      BY DEF InFlight, h, t, bw, tbw
    <3>6. InFlight' = h \o (t \o (buf \o (wire \o p)))
      BY <1>4, <1>7, <1>9 DEF InFlight, h, t
    <3> QED BY <3>2, <3>3, <3>4, <3>5, <3>6
  <2>8. \A i \in 1 .. k + 1 : i <= Len(sent) => i \in 1 .. Len(sent)
    BY <1>1
  <2>9. \A i \in 1 .. k : received'[i] = Delivered(r, sent'[i])
    <3>1. \A i \in 1 .. k : i \in 1 .. Len(sent)
      BY <1>1, <2>2
    <3> QED BY <1>4, <1>5, <2>1, <3>1 DEF InStep
  <2>10. InFlight' = PacketsOf(r', Unheard')
    BY <1>4, <2>1, <2>5, <2>6, <2>7 DEF InStep
  <2>11. r'.kind = "SizeBody" /\ rs'.mode = "Body" =>
            k < Len(sent') /\ rs'.bodySize = Len(sent'[k + 1])
    <3>1. k < Len(sent) => k + 1 \in 1 .. Len(sent)
      BY <1>1
    <3> QED BY <1>1, <1>4, <1>5, <2>1, <3>1 DEF InStep
  <2>12. k <= Len(sent')
    BY <1>1, <1>5, <2>2
  <2>13. InStep'
    BY <1>4, <2>9, <2>10, <2>11, <2>12 DEF InStep
  <2> QED BY <1>4, <1>8, <1>11, <2>13 DEF StreamInv
<1> QED BY <1>10, <1>11

(* A receive moves bytes from the wire behind those left over.             *)
LEMMA ReceiveStep ==
    ASSUME \A st \in Setups : Works(st), StreamInv, NEW n \in 1 .. Len(wire), Receive(n)
    PROVE  StreamInv'
<1> DEFINE front == SubSeq(wire, 1, n)
           back  == SubSeq(wire, n + 1, Len(wire))
<1>1. /\ StreamTypeOK /\ LeftOver /\ r \in Rule
      /\ HeaderInHand \in Seq(Byte) /\ rs.temp \in Seq(Byte)
      /\ PacketsOf(r, received) \in Seq(Byte) /\ Packets(received) = PacketsOf(r, received)
      /\ setup.keepsPartial \in BOOLEAN
  BY StreamFacts DEF StreamInv
<1>2. buf \in Seq(Byte) /\ wire \in Seq(Byte)
  BY <1>1 DEF StreamTypeOK
<1>3. UNCHANGED <<setup, sent, rs, received>> /\ r' = r /\ pc = "poll" /\ pc' = "drain"
  BY DEF Receive, r
<1>4. front \in Seq(Byte) /\ back \in Seq(Byte) /\ front \o back = wire
  <2>1. n \in 0 .. Len(wire)
    BY <1>2, LenProperties
  <2> QED BY <1>2, <2>1, CutAt
<1>5. buf' = buf \o front /\ wire' = back
  <2>1. ~setup.keepsPartial => buf = <<>>
    BY <1>1, <1>3 DEF LeftOver
  <2>2. (IF setup.keepsPartial THEN buf ELSE <<>>) = buf
    BY <1>1, <2>1
  <2> QED BY <2>2 DEF Receive
<1> HIDE DEF front, back
<1>6. buf' \in Seq(Byte) /\ wire' \in Seq(Byte)
  BY <1>2, <1>4, <1>5, ConcatProperties
<1>7. buf' \o wire' = buf \o wire
  <2>1. AreSeqs(Byte, buf, front, back)
    BY <1>2, <1>4 DEF AreSeqs
  <2>2. (buf \o front) \o back = buf \o (front \o back)
    BY <2>1, Three
  <2> QED BY <1>4, <1>5, <2>2
<1>8. HeaderInHand' = HeaderInHand
  BY <1>3 DEF HeaderInHand
<1>9. StreamTypeOK' /\ LeftOver'
  BY <1>1, <1>3, <1>6 DEF StreamTypeOK, LeftOver
<1>10. CASE r.kind = "Nodivision"
  <2> DEFINE a == PacketsOf(r, received) \o HeaderInHand \o rs.temp
  <2>1. a \in Seq(Byte)
    <3>1. PacketsOf(r, received) \o HeaderInHand \in Seq(Byte)
      BY <1>1, ConcatProperties
    <3> QED BY <3>1, <1>1, ConcatProperties
  <2>2. (a \o buf) \o wire = Packets(sent)
    BY <1>1, <1>10 DEF StreamInv, BytesConserved
  <2>3. (Packets(received) \o HeaderInHand \o rs.temp \o buf \o wire)' = (a \o buf') \o wire'
    BY <1>3, <1>8 DEF Packets, PacketsOf
  <2> HIDE DEF a
  <2>4. (a \o buf') \o wire' = (a \o buf) \o wire
    <3> DEFINE b == buf'
               w == wire'
    <3>1. AreSeqs(Byte, a, b, w) /\ AreSeqs(Byte, a, buf, wire)
      BY <1>2, <1>6, <2>1 DEF AreSeqs
    <3>2. b \o w = buf \o wire
      BY <1>7
    <3> HIDE DEF b, w
    <3>3. (a \o b) \o w = (a \o buf) \o wire
      <4>1. (a \o b) \o w = a \o (b \o w)
        BY <3>1, Three
      <4>2. (a \o buf) \o wire = a \o (buf \o wire)
        BY <3>1, Three
      <4> QED BY <3>2, <4>1, <4>2
    <3> QED BY <3>3 DEF b, w
  <2>5. Packets(sent)' = Packets(sent)
    BY <1>3 DEF Packets
  <2>6. BytesConserved'
    BY <2>2, <2>3, <2>4, <2>5 DEF BytesConserved
  <2> QED BY <1>3, <1>9, <1>10, <2>6 DEF StreamInv
<1>11. CASE r.kind # "Nodivision"
  <2>1. InStep
    BY <1>11 DEF StreamInv
  <2>2. InFlight' = InFlight
    BY <1>3, <1>7, <1>8 DEF InFlight
  <2>3. InStep'
    BY <1>3, <2>1, <2>2, MoveKeepsStep DEF InStep
  <2> QED BY <1>3, <1>9, <1>11, <2>3 DEF StreamInv
<1> QED BY <1>10, <1>11

(* The loop ends.  It leaves nothing behind when it waits for no number of *)
(* bytes.                                                                  *)
LEMMA DrainedStep ==
    ASSUME \A st \in Setups : Works(st), StreamInv, Drained
    PROVE  StreamInv'
<1>1. StreamTypeOK /\ LeftOver /\ r \in Rule /\ (r.kind # "Nodivision" => Carried(setup))
  BY StreamFacts DEF StreamInv
<1>2. UNCHANGED <<setup, sent, wire, buf, rs, received>> /\ r' = r /\ pc' = "poll"
  BY DEF Drained, r
<1>3. ~setup.keepsPartial => buf = <<>>
  <2>1. ASSUME ~setup.keepsPartial PROVE r.kind \in {"Terminate", "Nodivision"}
    BY <1>1, <2>1 DEF Carried, r
  <2>2. r.kind \in {"Terminate", "Nodivision"} => Want = 0
    BY DEF Want, GetWantSize
  <2> QED BY <2>1, <2>2 DEF Drained
<1>4. StreamTypeOK' /\ LeftOver'
  BY <1>1, <1>2, <1>3 DEF StreamTypeOK, LeftOver
<1>5. CASE r.kind = "Nodivision"
  <2>1. BytesConserved'
    BY <1>2, <1>5 DEF StreamInv, BytesConserved, Packets, HeaderInHand
  <2> QED BY <1>2, <1>4, <1>5, <2>1 DEF StreamInv
<1>6. CASE r.kind # "Nodivision"
  <2>1. InStep
    BY <1>6 DEF StreamInv
  <2>2. InFlight' = InFlight
    BY <1>2 DEF InFlight, HeaderInHand
  <2>3. InStep'
    BY <1>2, <2>1, <2>2, MoveKeepsStep DEF InStep
  <2> QED BY <1>2, <1>4, <1>6, <2>3 DEF StreamInv
<1> QED BY <1>5, <1>6

(* The bytes in flight where only some of the places hold any.             *)
LEMMA NoFront ==
    ASSUME NEW x \in Seq(Byte)
    PROVE  <<>> \o x = x /\ <<>> \o (<<>> \o x) = x
<1>1. <<>> \o x = x
  BY ConcatEmptySeq
<1> QED BY <1>1

(* The bytes that are handed to the rule when it waits for the first ones  *)
(* of what is in the buffer and on the wire.                               *)
LEMMA PortionIs ==
    ASSUME NEW p \in Seq(Byte), NEW q \in Seq(Byte), buf \in Seq(Byte), wire \in Seq(Byte),
           buf \o wire = p \o q, Want = Len(p), Len(p) > 0, Notify
    PROVE  /\ Portion = p
           /\ buf' \in Seq(Byte) /\ buf' \o wire' = q
<1>1. Len(p) \in Nat /\ Len(buf) \in Nat
  BY LenProperties
<1>2. Len(p) <= Len(buf)
  BY <1>1 DEF Notify
<1>3. /\ SubSeq(buf, 1, Len(p)) = p
      /\ SubSeq(buf, Len(p) + 1, Len(buf)) \in Seq(Byte)
      /\ SubSeq(buf, Len(p) + 1, Len(buf)) \o wire = q
  <2> DEFINE b == buf
             w == wire
             S == Byte
  <2>1. Begins(S, b, w, p, q)
    BY <1>2 DEF Begins
  <2> HIDE DEF b, w, S
  <2>2. /\ SubSeq(b, 1, Len(p)) = p
        /\ SubSeq(b, Len(p) + 1, Len(b)) \in Seq(S)
        /\ SubSeq(b, Len(p) + 1, Len(b)) \o w = q
    BY <2>1, FrontOf
  <2> QED BY <2>2 DEF b, w, S
<1>4. Portion = p
  BY <1>1, <1>3 DEF Portion
<1>5. buf' = SubSeq(buf, Len(p) + 1, Len(buf)) /\ wire' = wire
  BY <1>4 DEF Notify, Remainder
<1> QED BY <1>3, <1>4, <1>5

(* What is in the buffer is in flight.                                     *)
LEMMA BufferIsInFlight ==
    ASSUME \A st \in Setups : Works(st), StreamTypeOK, buf # <<>>
    PROVE  buf \o wire \in Seq(Byte) /\ InFlight # <<>>
<1>1. HeaderInHand \in Seq(Byte) /\ rs.temp \in Seq(Byte) /\ buf \in Seq(Byte) /\ wire \in Seq(Byte)
  BY StreamFacts DEF StreamTypeOK
<1> DEFINE h == HeaderInHand
           t == rs.temp
           bw == buf \o wire
           tbw == t \o bw
<1> HIDE DEF h, t
<1>2. bw \in Seq(Byte) /\ bw # <<>>
  BY <1>1, ConcatProperties, ConcatEqualIffEmpty
<1> HIDE DEF bw
<1>3. t \in Seq(Byte) /\ h \in Seq(Byte)
  BY <1>1 DEF h, t
<1>4. tbw \in Seq(Byte) /\ tbw # <<>>
  BY <1>2, <1>3, ConcatProperties, ConcatEqualIffEmpty
<1> HIDE DEF tbw
<1>5. h \o tbw # <<>>
  BY <1>3, <1>4, ConcatEqualIffEmpty
<1> QED BY <1>2, <1>5 DEF InFlight, h, t, bw, tbw

(* What a step that hands bytes to the rule may count on.                  *)
LEMMA NotifyFacts ==
    ASSUME \A st \in Setups : Works(st), StreamInv, Notify, r.kind # "Nodivision"
    PROVE  LET k == Len(received)
               m == sent[k + 1]
               more == PacketsOf(r, SubSeq(sent, k + 2, Len(sent)))
           IN  /\ StreamTypeOK /\ LeftOver /\ InStep /\ r \in Rule /\ r' = r /\ Carried(setup)
               /\ UNCHANGED <<setup, sent, wire>>
               /\ buf \in Seq(Byte) /\ wire \in Seq(Byte) /\ pc = "drain"
               /\ k < Len(sent) /\ m \in setup.bodies /\ m \in Seq(Byte) /\ Framable(r, m)
               /\ more \in Seq(Byte)
               /\ InFlight = MakeSendPacket(r, m) \o more
<1>1. StreamTypeOK /\ LeftOver /\ InStep
  BY DEF StreamInv
<1>2. r \in Rule /\ Carried(setup) /\ buf \in Seq(Byte) /\ wire \in Seq(Byte)
  BY <1>1, StreamFacts DEF StreamTypeOK
<1>3. UNCHANGED <<setup, sent, wire>> /\ r' = r /\ pc = "drain" /\ buf # <<>>
  BY DEF Notify, r
<1>4. InFlight # <<>>
  BY <1>1, <1>3, BufferIsInFlight
<1> DEFINE k == Len(received)
           m == sent[k + 1]
           more == PacketsOf(r, SubSeq(sent, k + 2, Len(sent)))
<1>5. /\ k < Len(sent) /\ m \in setup.bodies /\ m \in Seq(Byte) /\ more \in Seq(Byte)
      /\ InFlight = MakeSendPacket(r, m) \o more
  BY <1>1, <1>4, NextPacket
<1>6. Framable(r, m)
  BY <1>2, <1>5 DEF Carried, r
<1> HIDE DEF k, m, more
<1>7. /\ StreamTypeOK /\ LeftOver /\ InStep /\ r \in Rule /\ r' = r /\ Carried(setup)
      /\ UNCHANGED <<setup, sent, wire>>
      /\ buf \in Seq(Byte) /\ wire \in Seq(Byte) /\ pc = "drain"
      /\ k < Len(sent) /\ m \in setup.bodies /\ m \in Seq(Byte) /\ Framable(r, m)
      /\ more \in Seq(Byte)
      /\ InFlight = MakeSendPacket(r, m) \o more
  BY <1>1, <1>2, <1>3, <1>5, <1>6
<1> QED BY <1>7 DEF k, m, more

(* The bytes before the wire's, when neither a header is in hand nor the   *)
(* rule keeps any.                                                         *)
LEMMA InFlightIs ==
    ASSUME HeaderInHand = <<>>, rs.temp = <<>>, buf \in Seq(Byte), wire \in Seq(Byte)
    PROVE  InFlight = buf \o wire /\ buf \o wire \in Seq(Byte)
<1> DEFINE x == buf \o wire
<1>1. x \in Seq(Byte)
  BY ConcatProperties
<1>2. InFlight = <<>> \o (<<>> \o x)
  BY DEF InFlight
<1> HIDE DEF x
<1>3. InFlight = x
  BY <1>1, <1>2, NoFront
<1> QED BY <1>1, <1>3 DEF x

(* The header of the next message is taken out, whole.                     *)
LEMMA NotifySizeStep ==
    ASSUME \A st \in Setups : Works(st), StreamInv, NotifySize
    PROVE  StreamInv'
<1> DEFINE k == Len(received)
           m == sent[k + 1]
           more == PacketsOf(r, SubSeq(sent, k + 2, Len(sent)))
           h == SizeHeader(r, Len(m))
           rest == m \o more
<1>1. r.kind = "SizeBody" /\ rs.mode = "Size" /\ Notify
  BY DEF NotifySize
<1>2. /\ StreamTypeOK /\ LeftOver /\ InStep /\ r \in Rule /\ r' = r /\ Carried(setup)
      /\ UNCHANGED <<setup, sent, wire>>
      /\ buf \in Seq(Byte) /\ wire \in Seq(Byte) /\ pc = "drain"
      /\ k < Len(sent) /\ m \in setup.bodies /\ m \in Seq(Byte) /\ Framable(r, m)
      /\ more \in Seq(Byte)
      /\ InFlight = MakeSendPacket(r, m) \o more
  BY <1>1, NotifyFacts
<1> HIDE DEF more, m
<1>3. UNCHANGED <<pc, received>> /\ rs' = OnReceivedSize(r, rs, Portion)
  BY DEF NotifySize
<1>4. r \in SizeBodyRule /\ r.sizeLength \in 1 .. 4
  BY <1>1, <1>2, RuleParts DEF SizeBodyRule
<1>5. Len(m) \in 0 .. Power(r.sizeLength) - 1
  BY <1>1, <1>2 DEF Framable
<1>6. h \in Seq(Byte) /\ Len(h) = r.sizeLength /\ HeaderValue(r, h) = Len(m)
  <2>1. Len(m) \in Nat
    BY <1>2, LenProperties
  <2> QED BY <1>4, <1>5, <2>1, HeaderIsBytes, HeaderRoundTrip
<1>7. MakeSendPacket(r, m) = h \o m
  BY <1>1 DEF MakeSendPacket
<1> HIDE DEF h
<1>8. rest \in Seq(Byte) /\ InFlight = h \o rest
  <2>1. AreSeqs(Byte, h, m, more)
    BY <1>2, <1>6 DEF AreSeqs
  <2>2. (h \o m) \o more = h \o (m \o more)
    BY <2>1, Three
  <2>3. rest \in Seq(Byte)
    BY <1>2, ConcatProperties
  <2> QED BY <1>2, <1>7, <2>2, <2>3
<1> HIDE DEF rest
<1>9. HeaderInHand = <<>> /\ rs.temp = <<>>
  BY <1>1, <1>2 DEF HeaderInHand, LeftOver
<1>10. buf \o wire = h \o rest
  BY <1>2, <1>8, <1>9, InFlightIs
<1>11. Portion = h /\ buf' \in Seq(Byte) /\ buf' \o wire' = rest
  <2>1. Want = Len(h) /\ Len(h) > 0
    BY <1>1, <1>4, <1>6 DEF Want, GetWantSize
  <2> QED BY <1>1, <1>2, <1>6, <1>8, <1>10, <2>1, PortionIs
<1>12. /\ rs' \in RuleState /\ rs'.mode = "Body" /\ rs'.bodySize = Len(m) /\ rs'.temp = rs.temp
  <2> DEFINE n == Len(m)
  <2>1. n \in Nat /\ rs \in RuleState /\ rs' = [rs EXCEPT !.mode = "Body", !.bodySize = n]
    BY <1>2, <1>3, <1>6, <1>11, LenProperties DEF OnReceivedSize, StreamTypeOK
  <2> HIDE DEF n
  <2>2. /\ rs' \in RuleState /\ rs'.mode = "Body" /\ rs'.bodySize = n /\ rs'.temp = rs.temp
    BY <2>1 DEF RuleState
  <2> QED BY <2>2 DEF n
<1>13. StreamTypeOK' /\ LeftOver'
  BY <1>2, <1>3, <1>11, <1>12 DEF StreamTypeOK, LeftOver
<1>14. InFlight' = InFlight
  <2>1. HeaderInHand' = h
    BY <1>1, <1>2, <1>12 DEF HeaderInHand, h
  <2>2. InFlight' = h \o (<<>> \o rest)
    BY <1>9, <1>11, <1>12, <2>1 DEF InFlight
  <2>3. <<>> \o rest = rest
    BY <1>8, NoFront
  <2> QED BY <1>8, <2>2, <2>3
<1>15. InStep'
  BY <1>2, <1>3, <1>12, <1>14, MoveKeepsStep DEF m
<1> QED BY <1>1, <1>2, <1>13, <1>15 DEF StreamInv

(* The same beginning leaves the same end.                                 *)
LEMMA SameFront ==
    ASSUME NEW S, NEW h, NEW x, NEW y, AreSeqs(S, h, x, y), h \o x = h \o y
    PROVE  x = y
BY ConcatSimplifications DEF AreSeqs

(* The body of the next message is taken out, whole, and handed over.      *)
LEMMA NotifyBodyStep ==
    ASSUME \A st \in Setups : Works(st), StreamInv, NotifyBody
    PROVE  StreamInv' /\ DeliverNext
<1> DEFINE k == Len(received)
           m == sent[k + 1]
           more == PacketsOf(r, SubSeq(sent, k + 2, Len(sent)))
           h == HeaderInHand
           rest == m \o more
           x == buf \o wire
<1>1. r.kind = "SizeBody" /\ rs.mode = "Body" /\ Notify
  BY DEF NotifyBody
<1>2. /\ StreamTypeOK /\ LeftOver /\ InStep /\ r \in Rule /\ r' = r /\ Carried(setup)
      /\ UNCHANGED <<setup, sent, wire>>
      /\ buf \in Seq(Byte) /\ wire \in Seq(Byte) /\ pc = "drain"
      /\ k < Len(sent) /\ m \in setup.bodies /\ m \in Seq(Byte) /\ Framable(r, m)
      /\ more \in Seq(Byte)
      /\ InFlight = MakeSendPacket(r, m) \o more
  BY <1>1, NotifyFacts
<1>3. rs.bodySize = Len(m) /\ rs.temp = <<>>
  BY <1>1, <1>2 DEF InStep, LeftOver
<1> HIDE DEF more, m
<1>4. UNCHANGED <<pc>> /\ received' = Append(received, Portion) /\ rs' = OnReceivedBody(rs)
  BY DEF NotifyBody
<1>5. h \in Seq(Byte) /\ MakeSendPacket(r, m) = h \o m
  <2>1. h \in Seq(Byte)
    BY <1>2, StreamFacts
  <2>2. h = SizeHeader(r, Len(m))
    BY <1>1, <1>3 DEF HeaderInHand
  <2> QED BY <1>1, <2>1, <2>2 DEF MakeSendPacket
<1>6. InFlight = h \o (<<>> \o x)
  BY <1>3 DEF InFlight
<1> HIDE DEF h
<1>7. rest \in Seq(Byte) /\ InFlight = h \o rest
  <2>1. AreSeqs(Byte, h, m, more)
    BY <1>2, <1>5 DEF AreSeqs
  <2>2. (h \o m) \o more = h \o (m \o more)
    BY <2>1, Three
  <2>3. rest \in Seq(Byte)
    BY <1>2, ConcatProperties
  <2> QED BY <1>2, <1>5, <2>2, <2>3
<1>8. x \in Seq(Byte) /\ InFlight = h \o x
  <2>1. x \in Seq(Byte)
    BY <1>2, ConcatProperties
  <2> HIDE DEF x
  <2> QED BY <1>6, <2>1, NoFront
<1>9. x = rest
  <2> HIDE DEF x, rest
  <2>1. AreSeqs(Byte, h, x, rest)
    BY <1>5, <1>7, <1>8 DEF AreSeqs
  <2> QED BY <1>7, <1>8, <2>1, SameFront
<1>10. Portion = m /\ buf' \in Seq(Byte) /\ buf' \o wire' = more
  <2>1. Len(m) > 0
    BY <1>1, <1>2 DEF Framable
  <2>2. Want = Len(m)
    BY <1>1, <1>3 DEF Want, GetWantSize
  <2> QED BY <1>1, <1>2, <1>9, <2>1, <2>2, PortionIs
<1>11. DeliverNext
  <2>1. Delivered(r, m) = m
    BY <1>1 DEF Delivered
  <2> QED BY <1>2, <1>4, <1>10, <2>1 DEF DeliverNext, m
<1>12. rs' \in RuleState /\ rs'.mode = "Size" /\ rs'.temp = rs.temp
  <2>1. rs \in RuleState /\ rs' = [rs EXCEPT !.mode = "Size", !.bodySize = 0]
    BY <1>2, <1>4 DEF OnReceivedBody, StreamTypeOK
  <2> QED BY <2>1 DEF RuleState
<1>13. InFlight' = more
  <2>1. HeaderInHand' = <<>>
    BY <1>12 DEF HeaderInHand
  <2>2. InFlight' = <<>> \o (<<>> \o more)
    BY <1>3, <1>10, <1>12, <2>1 DEF InFlight
  <2> QED BY <1>2, <2>2, NoFront
<1>14. InStep' /\ received' \in Seq(Seq(Byte))
  BY <1>2, <1>11, <1>12, <1>13, DeliverKeepsStep DEF more
<1>15. StreamTypeOK' /\ LeftOver'
  BY <1>2, <1>4, <1>10, <1>12, <1>14 DEF StreamTypeOK, LeftOver
<1> QED BY <1>1, <1>2, <1>11, <1>14, <1>15 DEF StreamInv

(* The next packet of the agreed size is taken out and handed over.        *)
LEMMA NotifyFixedStep ==
    ASSUME \A st \in Setups : Works(st), StreamInv, NotifyWhole, r.kind = "FixedLength"
    PROVE  StreamInv' /\ DeliverNext
<1> DEFINE k == Len(received)
           m == sent[k + 1]
           more == PacketsOf(r, SubSeq(sent, k + 2, Len(sent)))
           p == Padded(r, m)
<1>1. Notify /\ r.kind # "Nodivision"
  BY DEF NotifyWhole
<1>2. /\ StreamTypeOK /\ LeftOver /\ InStep /\ r \in Rule /\ r' = r /\ Carried(setup)
      /\ UNCHANGED <<setup, sent, wire>>
      /\ buf \in Seq(Byte) /\ wire \in Seq(Byte) /\ pc = "drain"
      /\ k < Len(sent) /\ m \in setup.bodies /\ m \in Seq(Byte) /\ Framable(r, m)
      /\ more \in Seq(Byte)
      /\ InFlight = MakeSendPacket(r, m) \o more
  BY <1>1, NotifyFacts
<1> HIDE DEF more, m
<1>3. UNCHANGED <<rs, pc>> /\ received' = Append(received, Portion)
  BY DEF NotifyWhole
<1>4. p \in Seq(Byte) /\ Len(p) = r.fixedSize /\ r.fixedSize \in Nat \ {0}
  BY <1>2, RuleParts, PaddedIs
<1>5. MakeSendPacket(r, m) = p /\ Delivered(r, m) = p
  BY DEF MakeSendPacket, Delivered
<1> HIDE DEF p
<1>6. HeaderInHand = <<>> /\ rs.temp = <<>>
  BY <1>2 DEF HeaderInHand, LeftOver
<1>7. buf \o wire = p \o more
  BY <1>2, <1>5, <1>6, InFlightIs
<1>8. Portion = p /\ buf' \in Seq(Byte) /\ buf' \o wire' = more
  <2>1. Want = Len(p) /\ Len(p) > 0
    BY <1>4 DEF Want, GetWantSize
  <2> QED BY <1>1, <1>2, <1>4, <1>7, <2>1, PortionIs
<1>9. DeliverNext
  BY <1>2, <1>3, <1>5, <1>8 DEF DeliverNext, m
<1>10. InFlight' = more
  <2>1. HeaderInHand' = <<>>
    BY <1>2 DEF HeaderInHand
  <2>2. InFlight' = <<>> \o (<<>> \o more)
    BY <1>3, <1>6, <1>8, <2>1 DEF InFlight
  <2> QED BY <1>2, <2>2, NoFront
<1>11. InStep' /\ received' \in Seq(Seq(Byte))
  BY <1>2, <1>9, <1>10, DeliverKeepsStep DEF more
<1>12. StreamTypeOK' /\ LeftOver'
  BY <1>2, <1>3, <1>8, <1>11 DEF StreamTypeOK, LeftOver
<1> QED BY <1>1, <1>2, <1>9, <1>11, <1>12 DEF StreamInv

(* Whatever is there is handed over, by the rule that divides nothing.     *)
LEMMA NotifyAllStep ==
    ASSUME \A st \in Setups : Works(st), StreamInv, NotifyWhole, r.kind = "Nodivision"
    PROVE  StreamInv'
<1> DEFINE got == PacketsOf(r, received)
           none == <<>>
           Q == Seq(Byte)
<1>1. StreamTypeOK /\ LeftOver /\ BytesConserved /\ Notify
  BY DEF StreamInv, NotifyWhole
<1>2. /\ buf \in Seq(Byte) /\ wire \in Seq(Byte) /\ received \in Seq(Seq(Byte))
      /\ got \in Seq(Byte) /\ Packs(r, Seq(Byte))
      /\ Packets(sent) = PacketsOf(r, sent) /\ Packets(received) = got
  BY <1>1, StreamFacts DEF StreamTypeOK
<1>3. HeaderInHand = <<>> /\ rs.temp = <<>>
  BY <1>1 DEF HeaderInHand, LeftOver
<1>4. UNCHANGED <<rs, pc, setup, sent, wire>> /\ r' = r /\ received' = Append(received, Portion)
  BY <1>1 DEF NotifyWhole, Notify, r
<1>5. Portion = buf
  <2>1. Want = 0
    BY DEF Want, GetWantSize
  <2> QED BY <1>2, <2>1, SubSeqFull DEF Portion
<1>6. buf' = <<>>
  <2>1. buf' = SubSeq(buf, Len(buf) + 1, Len(buf))
    BY <1>1, <1>5 DEF Notify, Remainder
  <2> QED BY <1>2, <2>1, LenProperties, SubSeqEmpty
<1>7. received' = received \o <<buf>> /\ received' \in Seq(Seq(Byte)) /\ <<buf>> \in Seq(Seq(Byte))
  <2>1. received \in Seq(Q) /\ buf \in Q
    BY <1>2
  <2> HIDE DEF Q
  <2>2. Append(received, buf) = received \o <<buf>> /\ Append(received, buf) \in Seq(Q)
    BY <2>1, AppendIsConcat, AppendProperties
  <2>3. <<buf>> \in Seq(Q)
    BY <2>1, Single
  <2> QED BY <1>4, <1>5, <2>2, <2>3 DEF Q
<1>8. Packets(received)' = got \o buf
  <2>1. PacketsOf(r, received \o <<buf>>) = got \o PacketsOf(r, <<buf>>)
    BY <1>2, <1>7, PacketsOfBoth
  <2>2. MakeSendPacket(r, buf) = buf
    BY DEF MakeSendPacket
  <2>3. PacketsOf(r, <<buf>>) = buf
    BY <1>2, <2>2, PacketsOfOne
  <2> QED BY <1>4, <1>7, <2>1, <2>3 DEF Packets, PacketsOf
<1>9. HeaderInHand' = <<>>
  BY <1>4 DEF HeaderInHand
<1>10. BytesConserved'
  <2> HIDE DEF got
  <2> DEFINE gb == got \o buf
  <2>1. (((got \o <<>>) \o <<>>) \o buf) \o wire = Packets(sent)
    BY <1>1, <1>2, <1>3 DEF BytesConserved
  <2>2. got \o <<>> = got
    BY <1>2, ConcatEmptySeq
  <2>3. gb \in Seq(Byte) /\ gb \o wire = Packets(sent)
    BY <1>2, <2>1, <2>2, ConcatProperties
  <2>4. BytesConserved' = (((((gb \o <<>>) \o <<>>) \o <<>>) \o wire) = Packets(sent)')
    BY <1>3, <1>4, <1>6, <1>8, <1>9 DEF BytesConserved
  <2> HIDE DEF gb
  <2>5. gb \o <<>> = gb
    BY <2>3, ConcatEmptySeq
  <2>6. Packets(sent)' = Packets(sent)
    BY <1>4 DEF Packets
  <2> QED BY <2>3, <2>4, <2>5, <2>6
<1>11. StreamTypeOK' /\ LeftOver'
  <2>1. buf' \in Seq(Byte)
    BY <1>6
  <2> QED BY <1>1, <1>4, <1>6, <1>7, <2>1 DEF StreamTypeOK, LeftOver
<1> QED BY <1>4, <1>10, <1>11 DEF StreamInv

(* All that is there goes to the bytes the rule keeps.                     *)
LEMMA NotifyTerminateStep ==
    ASSUME \A st \in Setups : Works(st), StreamInv, NotifyTerminate
    PROVE  StreamInv'
<1> DEFINE t == rs.temp
           x == buf \o wire
<1>1. Notify /\ r.kind = "Terminate" /\ StreamTypeOK /\ LeftOver /\ InStep
  BY DEF NotifyTerminate, StreamInv
<1>2. /\ buf \in Seq(Byte) /\ wire \in Seq(Byte) /\ t \in Seq(Byte) /\ rs \in RuleState
  BY <1>1, StreamFacts DEF StreamTypeOK
<1>3. /\ UNCHANGED <<setup, sent, wire, received>> /\ r' = r /\ pc' = "scan"
      /\ rs' = [rs EXCEPT !.temp = @ \o Portion]
  BY <1>1 DEF NotifyTerminate, Notify, r
<1>4. Portion = buf
  <2>1. Want = 0
    BY <1>1 DEF Want, GetWantSize
  <2> QED BY <1>2, <2>1, SubSeqFull DEF Portion
<1>5. buf' = <<>>
  <2>1. buf' = SubSeq(buf, Len(buf) + 1, Len(buf))
    BY <1>1, <1>4 DEF Notify, Remainder
  <2> QED BY <1>2, <2>1, LenProperties, SubSeqEmpty
<1>6. rs' \in RuleState /\ rs'.temp = t \o buf
  <2> DEFINE tb == t \o buf
  <2>1. tb \in Seq(Byte)
    BY <1>2, ConcatProperties
  <2>2. rs' = [rs EXCEPT !.temp = tb]
    BY <1>3, <1>4
  <2> HIDE DEF tb
  <2>3. rs' \in RuleState /\ rs'.temp = tb
    BY <1>2, <2>1, <2>2 DEF RuleState
  <2> QED BY <2>3 DEF tb
<1>7. StreamTypeOK' /\ LeftOver'
  <2>1. buf' \in Seq(Byte)
    BY <1>5
  <2> QED BY <1>1, <1>3, <1>6, <2>1 DEF StreamTypeOK, LeftOver
<1>8. InFlight' = InFlight
  <2>1. HeaderInHand = <<>> /\ HeaderInHand' = <<>>
    BY <1>1, <1>3 DEF HeaderInHand
  <2>2. InFlight = <<>> \o (t \o (buf \o wire))
    BY <2>1 DEF InFlight
  <2>3. InFlight' = <<>> \o ((t \o buf) \o (<<>> \o wire))
    BY <1>3, <1>5, <1>6, <2>1 DEF InFlight
  <2>4. <<>> \o wire = wire
    BY <1>2, NoFront
  <2>5. (t \o buf) \o wire = t \o (buf \o wire)
    <3>1. AreSeqs(Byte, t, buf, wire)
      BY <1>2 DEF AreSeqs
    <3> HIDE DEF t
    <3> QED BY <3>1, Three
  <2> QED BY <2>2, <2>3, <2>4, <2>5
<1>9. InStep'
  BY <1>1, <1>3, <1>8, MoveKeepsStep
<1> QED BY <1>1, <1>3, <1>7, <1>9 DEF StreamInv

(* The rule finds no further terminator.                                   *)
LEMMA ScanDoneStep ==
    ASSUME \A st \in Setups : Works(st), StreamInv, ScanDone
    PROVE  StreamInv'
<1>1. StreamTypeOK /\ LeftOver /\ pc = "scan" /\ pc' = "drain"
  BY DEF StreamInv, ScanDone
<1>2. UNCHANGED <<setup, sent, wire, buf, rs, received>> /\ r' = r
  BY DEF ScanDone, r
<1>3. r.kind = "Terminate" /\ InStep
  BY <1>1 DEF LeftOver, StreamInv
<1>4. StreamTypeOK' /\ LeftOver'
  BY <1>1, <1>2, <1>3 DEF StreamTypeOK, LeftOver
<1>5. InFlight' = InFlight
  BY <1>2 DEF InFlight, HeaderInHand
<1>6. InStep'
  BY <1>2, <1>3, <1>5, MoveKeepsStep
<1> QED BY <1>2, <1>3, <1>4, <1>6 DEF StreamInv

(* The first terminator the rule finds is the one behind the next message, *)
(* and what is before it is that message.                                  *)
LEMMA ScanFoundStep ==
    ASSUME \A st \in Setups : Works(st), StreamInv, ScanFound
    PROVE  StreamInv' /\ DeliverNext
<1> DEFINE k == Len(received)
           m == sent[k + 1]
           more == PacketsOf(r, SubSeq(sent, k + 2, Len(sent)))
           t == r.terminator
           temp == rs.temp
           x == buf \o wire
           at == Min(TerminatorAt(t, temp))
<1>1. StreamTypeOK /\ LeftOver /\ pc = "scan" /\ TerminatorAt(t, temp) # {}
  BY DEF StreamInv, ScanFound
<1>2. r.kind = "Terminate" /\ InStep
  BY <1>1 DEF LeftOver, StreamInv
<1>3. /\ UNCHANGED <<setup, sent, wire, buf, pc>> /\ r' = r
      /\ received' = Append(received, SubSeq(temp, 1, at - 1))
      /\ rs' = [rs EXCEPT !.temp = SubSeq(@, at + Len(t), Len(@))]
  BY DEF ScanFound, r
<1>4. /\ r \in Rule /\ Carried(setup) /\ t \in Seq(Byte) /\ t # <<>> /\ temp \in Seq(Byte)
      /\ buf \in Seq(Byte) /\ wire \in Seq(Byte) /\ rs \in RuleState
  BY <1>1, <1>2, StreamFacts, RuleParts DEF StreamTypeOK
<1>5. x \in Seq(Byte) /\ InFlight = temp \o x
  <2>1. HeaderInHand = <<>>
    BY <1>2 DEF HeaderInHand
  <2>2. x \in Seq(Byte)
    BY <1>4, ConcatProperties
  <2>3. InFlight = <<>> \o (temp \o x)
    BY <2>1 DEF InFlight
  <2> DEFINE tx == temp \o x
  <2>4. tx \in Seq(Byte)
    BY <1>4, <2>2, ConcatProperties
  <2> HIDE DEF tx
  <2>5. <<>> \o tx = tx
    BY <2>4, NoFront
  <2> QED BY <2>2, <2>3, <2>5 DEF tx
<1> HIDE DEF x
<1>6. InFlight # <<>>
  <2>1. Len(t) \in Nat \ {0}
    BY <1>4, EmptySeq, LenProperties
  <2>2. temp # <<>>
    <3>1. Len(temp) \in Nat
      BY <1>4, LenProperties
    <3>2. PICK i \in TerminatorAt(t, temp) : TRUE
      BY <1>1
    <3>3. i \in 1 .. Len(temp) - Len(t) + 1
      BY <3>2 DEF TerminatorAt
    <3>4. Len(temp) # 0
      <4> HIDE DEF t, temp
      <4> QED BY <2>1, <3>1, <3>3
    <3> QED BY <3>4
  <2> HIDE DEF temp
  <2> QED BY <1>4, <1>5, <2>2, ConcatEqualIffEmpty
<1>7. /\ k < Len(sent) /\ m \in setup.bodies /\ m \in Seq(Byte) /\ more \in Seq(Byte)
      /\ InFlight = MakeSendPacket(r, m) \o more
  BY <1>1, <1>2, <1>6, NextPacket
<1> HIDE DEF m, more
<1>8. Min(TerminatorAt(t, m \o t)) = Len(m) + 1
  <2>1. Framable(r, m)
    BY <1>4, <1>7 DEF Carried, r
  <2> QED BY <1>2, <2>1 DEF Framable
<1>9. MakeSendPacket(r, m) = m \o t
  BY <1>2 DEF MakeSendPacket, Terminated
<1> HIDE DEF t, temp, at
<1>10. temp \o x = (m \o t) \o more
  BY <1>5, <1>7, <1>9
<1>11. at = Len(m) + 1 /\ Len(m) + Len(t) <= Len(temp)
  BY <1>1, <1>4, <1>5, <1>7, <1>8, <1>10, TerminatorEnds DEF at
<1>12. Len(m) \in Nat /\ Len(t) \in Nat /\ Len(temp) \in Nat
  BY <1>4, <1>7, LenProperties
<1> DEFINE mt   == m \o t
           left == SubSeq(temp, Len(mt) + 1, Len(temp))
           tm   == t \o more
<1>13. mt \in Seq(Byte) /\ Len(mt) = Len(m) + Len(t)
  BY <1>4, <1>7, ConcatProperties
<1>14. left \in Seq(Byte) /\ left \o x = more
  <2>1. Begins(Byte, temp, x, mt, more)
    BY <1>4, <1>5, <1>7, <1>10, <1>11, <1>13 DEF Begins
  <2> HIDE DEF mt
  <2> QED BY <2>1, FrontOf
<1>15. SubSeq(temp, 1, Len(m)) = m
  <2>1. (m \o t) \o more = m \o tm /\ tm \in Seq(Byte)
    <3>1. AreSeqs(Byte, m, t, more)
      BY <1>4, <1>7 DEF AreSeqs
    <3> QED BY <1>4, <1>7, <3>1, Three, ConcatProperties
  <2>2. Len(m) <= Len(temp)
    BY <1>11, <1>12
  <2>3. Begins(Byte, temp, x, m, tm)
    BY <1>4, <1>5, <1>7, <1>10, <2>1, <2>2 DEF Begins
  <2> HIDE DEF tm
  <2> QED BY <2>3, FrontOf
<1>16. SubSeq(temp, 1, at - 1) = m
  BY <1>11, <1>12, <1>15
<1>17. SubSeq(temp, at + Len(t), Len(temp)) = left
  <2>1. at + Len(t) = Len(mt) + 1
    BY <1>11, <1>12, <1>13
  <2> QED BY <2>1
<1>18. rs' \in RuleState /\ rs'.temp = left
  <2>1. rs' = [rs EXCEPT !.temp = left]
    BY <1>3, <1>17 DEF temp
  <2> HIDE DEF left
  <2> QED BY <1>4, <1>14, <2>1 DEF RuleState
<1>19. DeliverNext
  <2>1. Delivered(r, m) = m
    BY <1>2 DEF Delivered
  <2> QED BY <1>3, <1>7, <1>16, <2>1 DEF DeliverNext, m
<1>20. InFlight' = more
  <2>1. HeaderInHand' = <<>>
    BY <1>2, <1>3 DEF HeaderInHand
  <2>2. InFlight' = <<>> \o (left \o x)
    BY <1>3, <1>18, <2>1 DEF InFlight, x
  <2> QED BY <1>7, <1>14, <2>2, NoFront
<1>21. InStep' /\ received' \in Seq(Seq(Byte))
  BY <1>1, <1>2, <1>19, <1>20, DeliverKeepsStep DEF more
<1>22. StreamTypeOK' /\ LeftOver'
  BY <1>1, <1>2, <1>3, <1>18, <1>21 DEF StreamTypeOK, LeftOver
<1> QED BY <1>2, <1>3, <1>19, <1>21, <1>22 DEF StreamInv

(* Everything begins empty.                                                *)
LEMMA StreamInitInv ==
    ASSUME \A st \in Setups : Works(st), StreamInit
    PROVE  StreamInv
<1>1. StreamTypeOK
  BY DEF StreamInit, StreamTypeOK, RuleState, Initialize
<1>2. LeftOver
  BY DEF StreamInit, LeftOver, Initialize
<1>3. HeaderInHand = <<>> /\ rs.temp = <<>> /\ rs.mode = "Size" /\ Len(sent) = 0 /\ Len(received) = 0
  BY DEF StreamInit, HeaderInHand, Initialize
<1>4. InFlight = <<>>
  BY <1>3, ConcatEmptySeq DEF InFlight, StreamInit
<1>5. Unheard = <<>>
  BY DEF Unheard, StreamInit
<1>6. InStep
  BY <1>3, <1>4, <1>5, PacketsOfNone DEF InStep
<1>7. BytesConserved
  BY <1>1, <1>6, InStepConserves
<1> QED BY <1>1, <1>2, <1>6, <1>7 DEF StreamInv

(* Nothing changes.                                                        *)
LEMMA StreamStutters ==
    ASSUME StreamInv, UNCHANGED streamVars
    PROVE  StreamInv'
<1>1. UNCHANGED <<setup, sent, wire, buf, rs, pc, received>> /\ r' = r
  BY DEF streamVars, r
<1>2. StreamTypeOK' /\ LeftOver'
  BY <1>1 DEF StreamInv, StreamTypeOK, LeftOver
<1>3. HeaderInHand' = HeaderInHand
  BY <1>1 DEF HeaderInHand
<1>4. BytesConserved => BytesConserved'
  BY <1>1, <1>3 DEF BytesConserved, Packets
<1>5. InStep => InStep'
  BY <1>1, <1>3 DEF InStep, InFlight, Unheard
<1> QED BY <1>1, <1>2, <1>4, <1>5 DEF StreamInv

(* What the receiver learns by a step: nothing, or the next message.       *)
LEMMA StreamStep ==
    ASSUME \A st \in Setups : Works(st), StreamInv, [StreamNext]_streamVars
    PROVE  /\ StreamInv'
           /\ r.kind # "Nodivision" =>
                 \/ \E body \in setup.bodies : Send(body)
                 \/ UNCHANGED <<setup, sent, received>>
                 \/ DeliverNext
<1>1. ASSUME NEW body \in setup.bodies, Send(body) PROVE StreamInv'
  BY <1>1, SendStep
<1>2. ASSUME NEW n \in 1 .. Len(wire), Receive(n)
      PROVE  StreamInv' /\ UNCHANGED <<setup, sent, received>>
  BY <1>2, ReceiveStep DEF Receive
<1>3. ASSUME Drained PROVE StreamInv' /\ UNCHANGED <<setup, sent, received>>
  BY <1>3, DrainedStep DEF Drained
<1>4. ASSUME NotifySize PROVE StreamInv' /\ UNCHANGED <<setup, sent, received>>
  BY <1>4, NotifySizeStep DEF NotifySize, Notify
<1>5. ASSUME NotifyBody PROVE StreamInv' /\ DeliverNext
  BY <1>5, NotifyBodyStep
<1>6. ASSUME NotifyWhole PROVE StreamInv' /\ (r.kind # "Nodivision" => DeliverNext)
  BY <1>6, NotifyFixedStep, NotifyAllStep DEF NotifyWhole
<1>7. ASSUME NotifyTerminate PROVE StreamInv' /\ UNCHANGED <<setup, sent, received>>
  BY <1>7, NotifyTerminateStep DEF NotifyTerminate, Notify
<1>8. ASSUME ScanFound PROVE StreamInv' /\ DeliverNext
  BY <1>8, ScanFoundStep
<1>9. ASSUME ScanDone PROVE StreamInv' /\ UNCHANGED <<setup, sent, received>>
  BY <1>9, ScanDoneStep DEF ScanDone
<1>10. ASSUME UNCHANGED streamVars PROVE StreamInv' /\ UNCHANGED <<setup, sent, received>>
  BY <1>10, StreamStutters DEF streamVars
<1> QED BY <1>1, <1>2, <1>3, <1>4, <1>5, <1>6, <1>7, <1>8, <1>9, <1>10
        DEF StreamNext, ReceiveLoop

(* The invariant holds throughout.                                         *)
LEMMA StreamInvHolds ==
    ASSUME \A st \in Setups : Works(st)
    PROVE  StreamSpec => []StreamInv
<1>1. StreamInit => StreamInv
  BY StreamInitInv
<1>2. StreamInv /\ [StreamNext]_streamVars => StreamInv'
  BY StreamStep
<1> QED BY <1>1, <1>2, PTL DEF StreamSpec

(* For any byte values, rule, bodies and lengths of a stream, no byte of a *)
(* packet is lost, duplicated or moved, wherever the stream is cut: by the *)
(* rules that wait for bytes with the loop of the TLS and UDP sockets, and *)
(* by the others with either loop.                                         *)
THEOREM BytesAreConserved ==
    ASSUME \A st \in Setups : Works(st)
    PROVE  StreamSpec => []BytesConserved
<1>1. StreamInv => BytesConserved
  BY InStepConserves DEF StreamInv
<1> QED BY <1>1, StreamInvHolds, PTL

(* The buffers hold bytes and the rule is in one of its modes.             *)
THEOREM StreamTypesHold ==
    ASSUME \A st \in Setups : Works(st)
    PROVE  StreamSpec => []StreamTypeOK
<1>1. StreamInv => StreamTypeOK
  BY DEF StreamInv
<1> QED BY <1>1, StreamInvHolds, PTL

(* Of what a rule can tell apart, the receiver is handed the first         *)
(* messages that were sent, in order, each once and whole.                 *)
THEOREM MessagesInOrder ==
    ASSUME \A st \in Setups : Carried(st)
    PROVE  StreamSpec => []DeliveredInOrder
<1>1. \A st \in Setups : Works(st)
  BY DEF Works
<1>2. StreamInv => DeliveredInOrder
  <2> SUFFICES ASSUME StreamInv PROVE DeliveredInOrder
    OBVIOUS
  <2>1. StreamTypeOK /\ InStep
    BY DEF StreamInv, StreamTypeOK, Carried, r
  <2> DEFINE told == [i \in DOMAIN sent |-> Delivered(r, sent[i])]
  <2>2. /\ DOMAIN sent = 1 .. Len(sent) /\ Len(sent) \in Nat /\ Len(received) \in Nat
        /\ received \in Seq(Seq(Byte)) /\ DOMAIN received = 1 .. Len(received)
    BY <2>1, LenProperties DEF StreamTypeOK
  <2>3. Len(told) = Len(sent) /\ \A i \in 1 .. Len(sent) : told[i] = Delivered(r, sent[i])
    BY <2>2
  <2> HIDE DEF told
  <2>4. Len(received) <= Len(told) /\ \A i \in 1 .. Len(received) : received[i] = told[i]
    BY <2>1, <2>2, <2>3 DEF InStep
  <2>5. SubSeq(told, 1, Len(received)) = [i \in 1 .. Len(received) |-> told[i]]
    BY <2>2, <2>4
  <2>6. received = [i \in 1 .. Len(received) |-> told[i]]
    BY <2>2, <2>4
  <2>7. SubSeq(received, 1, Len(received)) = received
    BY <2>2, SubSeqFull
  <2> QED BY <2>4, <2>5, <2>6, <2>7 DEF DeliveredInOrder, IsPrefix, told
<1> QED BY <1>1, <1>2, StreamInvHolds, PTL

(* The messages as the channel sees them.                                  *)
Told == [i \in DOMAIN sent |-> Delivered(r, sent[i])]

(* There are as many as were sent.                                         *)
LEMMA ToldIs ==
    ASSUME \A st \in Setups : Works(st), StreamTypeOK
    PROVE  /\ Told \in Seq(Seq(Byte)) /\ Len(Told) = Len(sent)
           /\ \A i \in 1 .. Len(sent) : Told[i] = Delivered(r, sent[i])
<1>1. /\ Len(sent) \in Nat /\ DOMAIN sent = 1 .. Len(sent) /\ r \in Rule
      /\ \A i \in 1 .. Len(sent) : sent[i] \in Seq(Byte)
  BY StreamFacts, LenProperties DEF StreamTypeOK
<1>2. \A i \in 1 .. Len(sent) : Delivered(r, sent[i]) \in Seq(Byte)
  BY <1>1, SamePacket
<1>3. Told \in [1 .. Len(sent) -> Seq(Byte)]
  BY <1>1, <1>2 DEF Told
<1>4. Told \in Seq(Seq(Byte)) /\ Len(Told) = Len(sent)
  BY <1>1, <1>3
<1> QED BY <1>1, <1>4 DEF Told

(* A send of the stream is a send of the channel.                          *)
LEMMA ToldGrows ==
    ASSUME \A st \in Setups : Works(st), StreamTypeOK, StreamTypeOK', NEW body \in setup.bodies,
           Send(body)
    PROVE  Told' = Append(Told, Delivered(r, body))
<1> DEFINE d == Delivered(r, body)
           Q == Seq(Byte)
           s == Append(Told, d)
<1>1. sent' = Append(sent, body) /\ r' = r /\ setup' = setup
  BY DEF Send, r
<1>2. d \in Q
  <2>1. body \in Seq(Byte) /\ r \in Rule
    BY StreamFacts
  <2> QED BY <2>1, SamePacket
<1>3. Told \in Seq(Q) /\ Len(Told) = Len(sent) /\ Len(sent) \in Nat
  BY ToldIs, StreamFacts
<1>4. sent \in Seq(setup.bodies)
  BY DEF StreamTypeOK
<1>5. /\ Len(sent') = Len(sent) + 1 /\ DOMAIN sent' = 1 .. Len(sent) + 1
      /\ \A i \in 1 .. Len(sent) : sent'[i] = sent[i]
      /\ sent'[Len(sent) + 1] = body
  <2> DEFINE t == Append(sent, body)
  <2>1. /\ t \in Seq(setup.bodies) /\ Len(t) = Len(sent) + 1
        /\ \A i \in 1 .. Len(sent) : t[i] = sent[i] /\ t[Len(sent) + 1] = body
    BY <1>4, AppendProperties
  <2>2. sent' = t /\ t[Len(sent) + 1] = body
    BY <1>1, <1>4, AppendProperties
  <2> HIDE DEF t
  <2>3. DOMAIN t = 1 .. Len(t)
    BY <2>1, LenProperties
  <2> QED BY <2>1, <2>2, <2>3
<1>6. Told' = [i \in 1 .. Len(sent) + 1 |-> Delivered(r, sent'[i])]
  BY <1>1, <1>5 DEF Told
<1> HIDE DEF Q, d
<1>7. /\ s \in Seq(Q) /\ Len(s) = Len(sent) + 1 /\ s[Len(sent) + 1] = d
      /\ \A i \in 1 .. Len(sent) : s[i] = Told[i]
  BY <1>2, <1>3, AppendProperties
<1> HIDE DEF s
<1>8. ASSUME NEW i \in 1 .. Len(sent) + 1 PROVE Delivered(r, sent'[i]) = s[i]
  <2>1. CASE i = Len(sent) + 1
    BY <2>1, <1>5, <1>7 DEF d
  <2>2. CASE i # Len(sent) + 1
    <3>1. i \in 1 .. Len(sent)
      BY <1>3, <2>2
    <3>2. Told[i] = Delivered(r, sent[i])
      BY <3>1, ToldIs
    <3> QED BY <3>1, <3>2, <1>5, <1>7
  <2> QED BY <2>1, <2>2
<1>9. s = [i \in 1 .. Len(sent) + 1 |-> s[i]]
  <2>1. DOMAIN s = 1 .. Len(s)
    BY <1>7, LenProperties
  <2>2. s = [i \in DOMAIN s |-> s[i]]
    BY <1>7
  <2> QED BY <1>7, <2>1, <2>2
<1>10. Told' = s
  BY <1>6, <1>8, <1>9
<1> QED BY <1>10 DEF s, d

(* Each step is a send, a delivery or invisible.                           *)
LEMMA StreamStepsChannel ==
    ASSUME \A st \in Setups : Carried(st), StreamInv, [StreamNext]_streamVars
    PROVE  [Channel!Next]_(Channel!vars)
<1>1. \A st \in Setups : Works(st) /\ st.rule.kind # "Nodivision"
  BY DEF Carried, Works
<1>2. StreamInv' /\ StreamTypeOK /\ StreamTypeOK' /\ setup \in Setups
  <2>1. StreamInv'
    BY <1>1, StreamStep
  <2> QED BY <2>1 DEF StreamInv, StreamTypeOK
<1>3. r.kind # "Nodivision"
  BY <1>1, <1>2 DEF r
<1>4. \/ \E body \in setup.bodies : Send(body)
      \/ UNCHANGED <<setup, sent, received>>
      \/ DeliverNext
  BY <1>1, <1>3, StreamStep
<1>5. ASSUME NEW body \in setup.bodies, Send(body) PROVE Channel!Next
  <2>1. Told' = Append(Told, Delivered(r, body)) /\ received' = received
    BY <1>1, <1>2, <1>5, ToldGrows DEF Send
  <2>2. Delivered(r, body) \in UNION {{Delivered(st.rule, b) : b \in st.bodies} : st \in Setups}
    BY <1>2 DEF r
  <2> QED BY <2>1, <2>2 DEF Channel!Next, Channel!Send, Told
<1>6. ASSUME UNCHANGED <<setup, sent, received>> PROVE UNCHANGED (Channel!vars)
  BY <1>6 DEF Channel!vars, r
<1>7. ASSUME DeliverNext PROVE Channel!Next
  <2> DEFINE k == Len(received)
  <2>1. Told' = Told /\ received' = Append(received, Delivered(r, sent[k + 1])) /\ k < Len(sent)
    BY <1>7 DEF DeliverNext, Told, r
  <2>2. k + 1 \in 1 .. Len(sent)
    BY <1>1, <1>2, <2>1, StreamFacts
  <2>3. Len(Told) = Len(sent) /\ Told[k + 1] = Delivered(r, sent[k + 1])
    BY <1>1, <1>2, <2>2, ToldIs
  <2> QED BY <2>1, <2>3 DEF Channel!Next, Channel!Deliver, Told
<1> QED BY <1>4, <1>5, <1>6, <1>7

(* For a setup the code is made for, the stream with its rule is a channel *)
(* of whole messages: the safety part of ImplementsChannel.                *)
THEOREM StreamIsChannel ==
    ASSUME \A st \in Setups : Carried(st)
    PROVE  StreamSpec => Channel!Spec
<1>1. \A st \in Setups : Works(st)
  BY DEF Works
<1>2. StreamInit => Channel!Init
  BY DEF StreamInit, Channel!Init
<1>3. StreamInv /\ [StreamNext]_streamVars => [Channel!Next]_(Channel!vars)
  BY StreamStepsChannel
<1> QED BY <1>1, <1>2, <1>3, StreamInvHolds, PTL DEF StreamSpec, Channel!Spec

-----------------------------------------------------------------------------
(* The log.  The reader has handed over the records before its position,   *)
(* less the one it waits for, and counts the time from its Start, or from  *)
(* the first record once it has read that.                                 *)
LogTypes ==
    /\ clock \in Nat /\ log \in Seq(Nat) /\ torn \in BOOLEAN /\ (torn => log # <<>>)
    /\ writing \in BOOLEAN /\ writeStart \in Nat /\ cutFirst \in BOOLEAN
    /\ next \in Nat \ {0} /\ current \in Int /\ startTime \in Int
    /\ startedAt \in Nat /\ replays \in Nat
    /\ replayed \in Seq([record : Int, at : Nat])

Waited == IF cutFirst /\ next > 1 THEN log[1] ELSE 0

LogInv ==
    /\ LogTypes
    /\ writing => replays = 0 /\ writeStart <= clock
    /\ replays = 0 => replay = "none" /\ logUser = "closed" /\ next = 1 /\ current = -1 /\ replayed = <<>>
    /\ logUser # "closed" => replays > 0
    /\ next - 1 <= Whole
    /\ Len(replayed) = IF current < 0 THEN next - 1 ELSE next - 2
    /\ current >= 0 => next >= 2 /\ current = log[next - 1]
    /\ replay = "read" => current < 0
    /\ replays > 0 => startTime = startedAt - Waited
    /\ ReplayInTime

(* Nothing is logged and nothing is read.                                  *)
LEMMA LogInitInv == LogInit => LogInv
<1> SUFFICES ASSUME LogInit PROVE LogInv
  OBVIOUS
<1>1. LogTypes
  <2>1. clock \in Nat /\ writeStart \in Nat /\ next \in Nat \ {0} /\ current \in Int
        /\ startTime \in Int /\ startedAt \in Nat /\ replays \in Nat
    BY DEF LogInit, NothingLogged
  <2>2. log \in Seq(Nat) /\ replayed \in Seq([record : Int, at : Nat])
    BY DEF LogInit, NothingLogged
  <2>3. torn \in BOOLEAN /\ writing \in BOOLEAN /\ cutFirst \in BOOLEAN /\ ~torn
    BY DEF LogInit, NothingLogged
  <2> QED BY <2>1, <2>2, <2>3 DEF LogTypes
<1>2. Len(log) = 0 /\ Len(replayed) = 0 /\ Whole = 0
  BY DEF LogInit, NothingLogged, Whole
<1>3. ReplayInTime
  BY <1>2 DEF ReplayInTime, LogInit, NothingLogged
<1> QED BY <1>1, <1>2, <1>3 DEF LogInit, NothingLogged, LogInv

(* What the file holds does not change once it is read.                    *)
LEMMA LogFacts ==
    ASSUME LogInv
    PROVE  /\ LogTypes /\ Len(log) \in Nat /\ Whole \in Nat /\ Whole <= Len(log)
           /\ \A i \in 1 .. Len(log) : log[i] \in Nat
           /\ Waited \in Nat
<1>1. LogTypes
  BY DEF LogInv
<1>2. Len(log) \in Nat /\ \A i \in 1 .. Len(log) : log[i] \in Nat
  BY <1>1, LenProperties DEF LogTypes
<1>3. log # <<>> => Len(log) # 0
  BY <1>1, EmptySeq DEF LogTypes
<1>4. Whole \in Nat /\ Whole <= Len(log)
  BY <1>1, <1>2, <1>3 DEF Whole, LogTypes
<1>5. next > 1 => 1 \in 1 .. Len(log)
  BY <1>1, <1>2, <1>4 DEF LogInv, LogTypes
<1>6. Waited \in Nat
  BY <1>1, <1>2, <1>5 DEF Waited, LogTypes
<1> QED BY <1>1, <1>2, <1>4, <1>6

(* Steps that leave the reader and the file alone.                         *)
LEMMA LogKeeps ==
    ASSUME LogInv, UNCHANGED <<log, torn, cutFirst, next, current, startTime, startedAt, replayed,
                               replays, writeStart>>,
           clock' \in Nat, clock' >= clock, writing' \in BOOLEAN, writing' => writing,
           replay' = "read" => current < 0,
           replays = 0 => UNCHANGED <<replay, logUser>>,
           logUser' # "closed" => logUser # "closed"
    PROVE  LogInv'
<1>1. LogTypes'
  BY DEF LogInv, LogTypes
<1>2. Whole' = Whole /\ Waited' = Waited
  BY DEF Whole, Waited
<1>3. ReplayInTime'
  BY <1>2 DEF ReplayInTime, LogInv
<1>4. writing' => replays' = 0 /\ writeStart' <= clock'
  BY DEF LogInv, LogTypes
<1> QED BY <1>1, <1>2, <1>3, <1>4 DEF LogInv

(* Steps of the writer, before anything is read.                           *)
LEMMA LogWritten ==
    ASSUME LogInv, replays = 0,
           UNCHANGED <<clock, replayVars, logCalls>>,
           log' \in Seq(Nat), torn' \in BOOLEAN, torn' => log' # <<>>,
           writing' \in BOOLEAN, writeStart' \in Nat, writing' => writeStart' <= clock
    PROVE  LogInv'
<1>1. LogTypes'
  BY DEF LogInv, LogTypes, replayVars, logCalls
<1>2. /\ next = 1 /\ current = -1 /\ replayed = <<>> /\ next' = 1 /\ current' = -1 /\ replayed' = <<>>
      /\ replays' = 0 /\ replay' = "none" /\ logUser' = "closed"
  BY DEF LogInv, replayVars, logCalls
<1>3. Len(log') \in Nat /\ (log' # <<>> => Len(log') # 0)
  BY LenProperties, EmptySeq
<1>4. Whole' \in Nat
  BY <1>1, <1>3 DEF Whole, LogTypes
<1>5. Len(replayed') = 0 /\ DOMAIN (replayed') = {}
  BY <1>2
<1>6. ReplayInTime'
  BY <1>4, <1>5 DEF ReplayInTime
<1> QED BY <1>1, <1>2, <1>4, <1>5, <1>6 DEF LogInv, replayVars, logCalls

(* The writer changes the file, and only before it is read.                *)
LEMMA WriterStep ==
    ASSUME LogInv, StartWriter \/ WriteRecord \/ CloseWriter \/ WriterDies
    PROVE  LogInv'
<1>1. LogTypes /\ Len(log) \in Nat /\ \A i \in 1 .. Len(log) : log[i] \in Nat
  BY LogFacts
<1>2. CASE StartWriter
  <2>1. log' \in Seq(Nat) /\ writeStart' = clock /\ replays = 0
        /\ UNCHANGED <<clock, replayVars, logCalls>>
    BY <1>2 DEF StartWriter
  <2>2. torn' \in BOOLEAN /\ writing' \in BOOLEAN /\ ~torn'
    BY <1>2 DEF StartWriter
  <2>3. writeStart' \in Nat /\ writeStart' <= clock
    BY <1>1, <2>1 DEF LogTypes
  <2> QED BY <2>1, <2>2, <2>3, LogWritten
<1>3. CASE WriteRecord
  <2>1. writing /\ replays = 0 /\ writeStart <= clock
    BY <1>3 DEF WriteRecord, LogInv
  <2>2. clock - writeStart \in Nat
    BY <1>1, <2>1 DEF LogTypes
  <2>3. log' = Append(log, clock - writeStart)
    BY <1>3 DEF WriteRecord
  <2> DEFINE e == clock - writeStart
  <2> HIDE DEF e
  <2>4. log' \in Seq(Nat) /\ log' # <<>>
    BY <1>1, <2>2, <2>3, AppendProperties DEF LogTypes, e
  <2> QED BY <1>1, <1>3, <2>1, <2>4, LogWritten DEF WriteRecord, LogTypes
<1>4. CASE CloseWriter
  BY <1>1, <1>4, LogWritten DEF CloseWriter, LogTypes, LogInv
<1>5. CASE WriterDies
  <2>1. replays = 0
    BY <1>5 DEF WriterDies, LogInv
  <2>2. PICK n \in 0 .. Len(log) :
            log' = SubSeq(log, 1, n) /\ torn' \in IF n = 0 THEN {FALSE} ELSE BOOLEAN
    BY <1>5 DEF WriterDies
  <2>3. log \in Seq(Nat)
    BY <1>1 DEF LogTypes
  <2>4. SubSeq(log, 1, n) \in Seq(Nat) /\ Len(SubSeq(log, 1, n)) = n
    BY <2>2, <2>3, CutAt
  <2>5. log' \in Seq(Nat) /\ torn' \in BOOLEAN /\ (torn' => n # 0)
    BY <2>2, <2>4
  <2>6. torn' => log' # <<>>
    BY <2>2, <2>4, <2>5
  <2> QED BY <1>1, <1>5, <2>1, <2>5, <2>6, LogWritten DEF WriterDies, LogTypes
<1> QED BY <1>2, <1>3, <1>4, <1>5

(* The reader's thread and its user move, but not the position.            *)
LEMMA ReplayMoves ==
    ASSUME LogInv, Tick \/ BeginPass \/ EndPass \/ GoOnReading \/ ReadNoRecord
                   \/ ReportReplay \/ StopReader \/ CloseReader
    PROVE  LogInv'
<1>1. LogTypes
  BY DEF LogInv
<1>2. CASE Tick
  BY <1>1, <1>2, LogKeeps DEF Tick, writerVars, replayVars, logCalls, LogTypes, LogInv
<1>3. CASE BeginPass
  BY <1>1, <1>3, LogKeeps DEF BeginPass, ReplayAt, ReplayExits, writerVars, logCalls, LogTypes, LogInv
<1>4. CASE EndPass
  BY <1>1, <1>4, LogKeeps DEF EndPass, ReplayAt, writerVars, logCalls, LogTypes, LogInv
<1>5. CASE GoOnReading
  BY <1>1, <1>5, LogKeeps DEF GoOnReading, ReplayAt, writerVars, logCalls, LogTypes, LogInv
<1>6. CASE ReadNoRecord
  BY <1>1, <1>6, LogKeeps DEF ReadNoRecord, ReplayAt, ReplayExits, writerVars, logCalls, LogTypes, LogInv
<1>7. CASE ReportReplay
  BY <1>1, <1>7, LogKeeps DEF ReportReplay, writerVars, LogTypes, LogInv
<1>8. CASE StopReader
  BY <1>1, <1>8, LogKeeps DEF StopReader, writerVars, replayVars, LogTypes, LogInv
<1>9. CASE CloseReader
  BY <1>1, <1>9, LogKeeps DEF CloseReader, writerVars, replayVars, LogTypes, LogInv
<1> QED BY <1>2, <1>3, <1>4, <1>5, <1>6, <1>7, <1>8, <1>9

(* The next record is read; the first one takes its interval off.          *)
LEMMA ReadRecordStep ==
    ASSUME LogInv, ReadRecord
    PROVE  LogInv'
<1>1. /\ LogTypes /\ Len(log) \in Nat /\ Whole \in Nat /\ Whole <= Len(log) /\ Waited \in Nat
      /\ \A i \in 1 .. Len(log) : log[i] \in Nat
  BY LogFacts
<1>2. /\ UNCHANGED <<clock, log, torn, writing, writeStart, cutFirst, startedAt, replays, replayed,
                     stopReplay, logUser>>
      /\ replay = "read" /\ replay' = "loop" /\ next' = next + 1 /\ current' = log[next]
      /\ startTime' = IF cutFirst /\ next = 1 THEN startTime - log[next] ELSE startTime
      /\ next <= Len(log) /\ ~(torn /\ next = Len(log))
  <2>1. next <= Len(log)
    BY <1>1 DEF ReadRecord, IsEnd, LogTypes
  <2> QED BY <2>1 DEF ReadRecord, ReplayAt, writerVars, logCalls
<1>3. /\ current < 0 /\ replays > 0 /\ Len(replayed) = next - 1 /\ startTime = startedAt - Waited
      /\ next - 1 <= Whole /\ (writing => replays = 0)
  <2>1. replays # 0
    BY <1>2 DEF LogInv
  <2>2. replays > 0
    BY <1>1, <2>1 DEF LogTypes
  <2> QED BY <1>2, <2>2 DEF LogInv
<1>4. next \in 1 .. Len(log) /\ log[next] \in Nat
  BY <1>1, <1>2 DEF LogTypes
<1>5. LogTypes'
  BY <1>1, <1>2, <1>4 DEF LogTypes
<1>6. Whole' = Whole /\ next <= Whole
  BY <1>1, <1>2 DEF Whole, LogTypes
<1>7. startTime' = startedAt - Waited'
  <2>1. CASE cutFirst /\ next = 1
    <3>1. Waited = 0 /\ Waited' = log[1] /\ startTime' = startTime - log[1]
      BY <1>2, <2>1 DEF Waited
    <3> QED BY <1>1, <1>3, <1>4, <2>1, <3>1 DEF LogTypes
  <2>2. CASE ~(cutFirst /\ next = 1)
    <3>1. Waited' = Waited
      BY <1>1, <1>2, <2>2 DEF Waited, LogTypes
    <3> QED BY <1>2, <1>3, <2>2, <3>1
  <2> QED BY <2>1, <2>2
<1>8. ReplayInTime'
  BY <1>2, <1>6 DEF ReplayInTime, LogInv
<1>9. /\ (next' - 1 <= Whole') /\ current' >= 0 /\ next' >= 2 /\ next' - 1 = next
      /\ Len(replayed') = next' - 2
  BY <1>1, <1>2, <1>3, <1>4, <1>6 DEF LogTypes
<1>10. current' = log'[next' - 1]
  BY <1>2, <1>9
<1>11. (writing' => replays' = 0 /\ writeStart' <= clock') /\ (logUser' # "closed" => replays' > 0)
  BY <1>2 DEF LogInv
<1>12. Len(replayed') = IF current' < 0 THEN next' - 1 ELSE next' - 2
  BY <1>5, <1>9 DEF LogTypes
<1> QED BY <1>2, <1>3, <1>5, <1>7, <1>8, <1>9, <1>10, <1>11, <1>12 DEF LogInv

(* The record waited for is handed over: it is due by the reader's time.   *)
LEMMA HandToRuleStep ==
    ASSUME LogInv, HandToRule
    PROVE  LogInv'
<1> DEFINE e == [record |-> next - 1, at |-> clock]
           R == [record : Int, at : Nat]
           cut == IF cutFirst THEN log[1] ELSE 0
<1>1. /\ LogTypes /\ Len(log) \in Nat /\ Whole \in Nat /\ Whole <= Len(log) /\ Waited \in Nat
      /\ \A i \in 1 .. Len(log) : log[i] \in Nat
  BY LogFacts
<1>2. /\ UNCHANGED <<clock, log, torn, writing, writeStart, cutFirst, startedAt, replays, next,
                     startTime, stopReplay, logUser>>
      /\ replay = "loop" /\ replay' = "read" /\ current >= 0 /\ current' = -1
      /\ replayed' = Append(replayed, e) /\ current <= clock - startTime
  BY DEF HandToRule, ReplayAt, IsDue, writerVars, logCalls
<1>3. /\ replays > 0 /\ Len(replayed) = next - 2 /\ startTime = startedAt - Waited
      /\ next - 1 <= Whole /\ next >= 2 /\ current = log[next - 1]
  <2>1. replays # 0
    BY <1>2 DEF LogInv
  <2>2. replays > 0
    BY <1>1, <2>1 DEF LogTypes
  <2>3. ~(current < 0)
    BY <1>1, <1>2 DEF LogTypes
  <2> QED BY <1>2, <2>2, <2>3 DEF LogInv
<1>4. Waited = cut /\ cut \in Nat
  <2>1. next > 1
    BY <1>1, <1>3 DEF LogTypes
  <2>2. Waited = cut
    BY <2>1 DEF Waited
  <2> QED BY <1>1, <2>2
<1>5. e \in R
  BY <1>1 DEF LogTypes
<1>6. e.record = next - 1 /\ e.at = clock
  OBVIOUS
<1> HIDE DEF e, R
<1>7. /\ replayed' \in Seq(R) /\ Len(replayed') = next - 1
      /\ \A i \in 1 .. next - 2 : replayed'[i] = replayed[i]
      /\ replayed'[next - 1] = e
  <2> DEFINE s == Append(replayed, e)
  <2>1. replayed \in Seq(R)
    BY <1>1 DEF LogTypes, R
  <2>2. /\ s \in Seq(R) /\ Len(s) = Len(replayed) + 1
        /\ \A i \in 1 .. Len(replayed) : s[i] = replayed[i]
        /\ s[Len(replayed) + 1] = e
    BY <1>5, <2>1, AppendProperties
  <2> HIDE DEF s
  <2>3. replayed' = s
    BY <1>2 DEF s
  <2>4. Len(replayed) + 1 = next - 1
    BY <1>1, <1>3 DEF LogTypes
  <2> QED BY <1>3, <2>2, <2>3, <2>4
<1>8. LogTypes'
  BY <1>1, <1>2, <1>7 DEF LogTypes, R
<1> HIDE DEF cut
<1>9. Whole' = Whole /\ Waited' = Waited
  BY <1>2 DEF Whole, Waited
<1>10. e.at - startedAt >= log[next - 1] - cut
  BY <1>1, <1>2, <1>3, <1>4, <1>6 DEF LogTypes
<1>11. DOMAIN replayed = 1 .. next - 2 /\ DOMAIN (replayed') = 1 .. next - 1
  BY <1>1, <1>3, <1>7, LenProperties DEF LogTypes
<1>12. ReplayInTime'
  <2>1. \A i \in 1 .. next - 2 :
            replayed[i].record = i /\ replayed[i].at - startedAt >= log[i] - cut
    BY <1>11 DEF LogInv, ReplayInTime, cut
  <2>2. ASSUME NEW i \in 1 .. next - 1
        PROVE  replayed'[i].record = i /\ replayed'[i].at - startedAt >= log[i] - cut
    <3>1. CASE i = next - 1
      BY <3>1, <1>6, <1>7, <1>10
    <3>2. CASE i # next - 1
      <4>1. i \in 1 .. next - 2
        BY <1>1, <3>2 DEF LogTypes
      <4> QED BY <4>1, <1>7, <2>1
    <3> QED BY <3>1, <3>2
  <2>3. Len(replayed') <= Whole'
    BY <1>3, <1>7, <1>9
  <2> QED BY <1>2, <1>11, <2>2, <2>3 DEF ReplayInTime, cut
<1>13. /\ next' - 1 <= Whole' /\ Len(replayed') = IF current' < 0 THEN next' - 1 ELSE next' - 2
       /\ ~(current' >= 0) /\ current' < 0
  BY <1>2, <1>3, <1>7, <1>9
<1>14. (writing' => replays' = 0 /\ writeStart' <= clock') /\ (logUser' # "closed" => replays' > 0)
  BY <1>2 DEF LogInv
<1> QED BY <1>2, <1>3, <1>8, <1>9, <1>12, <1>13, <1>14 DEF LogInv

(* A Start reads from the beginning and counts from now.                   *)
LEMMA StartReaderStep ==
    ASSUME LogInv, StartReader
    PROVE  LogInv'
<1>1. LogTypes /\ Whole \in Nat
  BY LogFacts
<1>2. /\ UNCHANGED <<clock, log, torn, writing, writeStart, cutFirst>>
      /\ ~writing /\ replays' = replays + 1 /\ next' = 1 /\ current' = -1 /\ startTime' = clock
      /\ startedAt' = clock /\ replayed' = <<>> /\ replay' = "pass" /\ logUser' = "starting"
  BY DEF StartReader, writerVars
<1>3. LogTypes'
  BY <1>1, <1>2 DEF LogTypes
<1>4. Whole' = Whole /\ Waited' = 0
  BY <1>2 DEF Whole, Waited
<1>5. Len(replayed') = 0 /\ DOMAIN (replayed') = {}
  BY <1>2
<1>6. ReplayInTime'
  BY <1>1, <1>4, <1>5 DEF ReplayInTime
<1>7. startTime' = startedAt' - Waited'
  BY <1>1, <1>2, <1>4 DEF LogTypes
<1>8. replays' > 0 /\ next' - 1 <= Whole'
  BY <1>1, <1>2, <1>4 DEF LogTypes
<1> QED BY <1>2, <1>3, <1>5, <1>6, <1>7, <1>8 DEF LogInv

(* For any log, however it breaks off, the reader hands over its whole     *)
(* records in order, each once, and none before its time.                  *)
THEOREM ReplayIsInTime == LogSpec => []ReplayInTime
<1>1. LogInit => LogInv
  BY LogInitInv
<1>2. LogInv /\ [LogNext]_logVars => LogInv'
  <2> SUFFICES ASSUME LogInv, [LogNext]_logVars PROVE LogInv'
    OBVIOUS
  <2>1. CASE UNCHANGED logVars
    BY <2>1, LogKeeps DEF logVars, writerVars, replayVars, logCalls, LogInv, LogTypes
  <2>2. CASE LogNext
    BY <2>2, WriterStep, ReplayMoves, ReadRecordStep, HandToRuleStep, StartReaderStep
       DEF LogNext, ReplayStep, LogCall
  <2> QED BY <2>1, <2>2
<1>3. LogInv => ReplayInTime
  BY DEF LogInv
<1> QED BY <1>1, <1>2, <1>3, PTL DEF LogSpec
=============================================================================
