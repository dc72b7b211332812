----------------------------- MODULE BufferProofs -----------------------------
(***************************************************************************)
(* For any capacity, chunks and stream: the buffer keeps its index within  *)
(* its bytes, append is FIFO and the vector grows only when it must,       *)
(* unless the buffer is drained and full.                                  *)
(***************************************************************************)
EXTENDS Buffer, SequenceTheorems, TLAPS

Bytes == 1 .. MaxBytes

(* What is cut off the front of a sequence leaves the rest of it. *)
LEMMA Suffix ==
  ASSUME NEW s \in Seq(Bytes), NEW i \in 0 .. Len(s)
  PROVE  /\ SubSeq(s, i + 1, Len(s)) \in Seq(Bytes)
         /\ Len(SubSeq(s, i + 1, Len(s))) = Len(s) - i
         /\ \A k \in 1 .. Len(s) - i : SubSeq(s, i + 1, Len(s))[k] = s[i + k]
<1>1. Len(s) \in Nat /\ \A k \in 1 .. Len(s) : s[k] \in Bytes
  BY ElementOfSeq
<1>2. SubSeq(s, i + 1, Len(s)) \in Seq(Bytes)
  BY <1>1, SubSeqProperties
<1>3. Len(SubSeq(s, i + 1, Len(s))) = Len(s) - i
  BY <1>1, SubSeqProperties
<1>4. \A k \in 1 .. Len(s) - i : SubSeq(s, i + 1, Len(s))[k] = s[i + k]
  BY <1>1, SubSeqProperties
<1> QED
  BY <1>2, <1>3, <1>4

LEMMA Prefix ==
  ASSUME NEW s \in Seq(Bytes), NEW n \in 0 .. Len(s)
  PROVE  SubSeq(s, 1, n) \in Seq(Bytes) /\ Len(SubSeq(s, 1, n)) = n
<1>1. Len(s) \in Nat /\ \A k \in 1 .. Len(s) : s[k] \in Bytes
  BY ElementOfSeq
<1> QED
  BY <1>1, SubSeqProperties

(* A suffix of a concatenation that starts in its first part. *)
LEMMA SuffixOfConcat ==
  ASSUME NEW s \in Seq(Bytes), NEW t \in Seq(Bytes), NEW i \in 0 .. Len(s)
  PROVE  SubSeq(s \o t, i + 1, Len(s \o t)) = SubSeq(s, i + 1, Len(s)) \o t
<1> DEFINE whole == s \o t
           rest == SubSeq(s, i + 1, Len(s))
           left == SubSeq(whole, i + 1, Len(whole))
<1>1. /\ whole \in Seq(Bytes) /\ Len(whole) = Len(s) + Len(t)
      /\ \A k \in 1 .. Len(s) + Len(t) : whole[k] = IF k <= Len(s) THEN s[k] ELSE t[k - Len(s)]
  BY ConcatProperties
<1>2. /\ rest \in Seq(Bytes) /\ Len(rest) = Len(s) - i
      /\ \A k \in 1 .. Len(s) - i : rest[k] = s[i + k]
  BY Suffix
<1>3. Len(s) \in Nat /\ Len(t) \in Nat
  OBVIOUS
<1> HIDE DEF whole, rest
<1>4. i \in 0 .. Len(whole)
  BY <1>1, <1>3
<1>5. /\ left \in Seq(Bytes) /\ Len(left) = Len(whole) - i
      /\ \A k \in 1 .. Len(whole) - i : left[k] = whole[i + k]
  BY <1>1, <1>4, Suffix
<1>6. /\ rest \o t \in Seq(Bytes) /\ Len(rest \o t) = Len(rest) + Len(t)
      /\ \A k \in 1 .. Len(rest) + Len(t) :
           (rest \o t)[k] = IF k <= Len(rest) THEN rest[k] ELSE t[k - Len(rest)]
  BY <1>2, ConcatProperties
<1> HIDE DEF left
<1>7. Len(left) = Len(rest \o t)
  BY <1>1, <1>2, <1>3, <1>5, <1>6
<1>8. ASSUME NEW k \in 1 .. Len(s) + Len(t) - i PROVE left[k] = (rest \o t)[k]
  <2>1. left[k] = whole[i + k] /\ i + k \in 1 .. Len(s) + Len(t)
    BY <1>1, <1>3, <1>5
  <2>2. CASE i + k <= Len(s)
    BY <1>1, <1>2, <1>3, <1>5, <1>6, <2>1, <2>2
  <2>3. CASE i + k > Len(s)
    BY <1>1, <1>2, <1>3, <1>5, <1>6, <2>1, <2>3
  <2>4. i + k <= Len(s) \/ i + k > Len(s)
    BY <1>3
  <2> QED
    BY <2>2, <2>3, <2>4
<1>9. left = rest \o t
  <2>1. Len(left) = Len(s) + Len(t) - i
    BY <1>1, <1>5
  <2>2. \A k \in 1 .. Len(left) : left[k] = (rest \o t)[k]
    BY <1>8, <2>1
  <2> QED
    BY <1>5, <1>6, <1>7, <2>2, SeqEqual
<1> QED
  BY <1>9 DEF left, rest, whole

LEMMA ContentType ==
  ASSUME TypeOK
  PROVE  Content \in Seq(Bytes) /\ Len(Content) = Readable /\ Readable \in Nat
<1>1. data \in Seq(Bytes) /\ idx \in 0 .. Len(data) /\ Len(data) \in Nat
  BY DEF TypeOK, Bytes
<1> QED
  BY <1>1, Suffix DEF Content, Readable

LEMMA IncomingType ==
  ASSUME TypeOK, NEW n \in Nat, written + n <= MaxBytes
  PROVE  Incoming(n) \in Seq(Bytes) /\ Len(Incoming(n)) = n
<1>1. \A i \in 1 .. n : written + i \in Bytes
  BY BoundsAssumption DEF TypeOK, Bytes
<1> QED
  BY <1>1 DEF Incoming

(* What append leaves in the vector before the new bytes. *)
LEMMA KeptType ==
  ASSUME TypeOK, NEW n \in Nat
  PROVE  /\ KeptBytes(n) \in Seq(Bytes)
         /\ IdxAfterSpace(n) \in 0 .. Len(KeptBytes(n))
         /\ Compacts(n) => Len(KeptBytes(n)) = Readable
         /\ ~Compacts(n) => KeptBytes(n) = data
<1>1. data \in Seq(Bytes) /\ idx \in 0 .. Len(data) /\ Len(data) \in Nat
  BY DEF TypeOK, Bytes
<1> QED
  BY <1>1, ContentType DEF KeptBytes, IdxAfterSpace

LEMMA NextTypeOK == TypeOK /\ [Next]_vars => TypeOK'
<1> SUFFICES ASSUME TypeOK, [Next]_vars PROVE TypeOK'
  OBVIOUS
<1>1. data \in Seq(Bytes) /\ idx \in 0 .. Len(data) /\ Len(data) \in Nat
  BY DEF TypeOK, Bytes
<1>2. ASSUME NEW n \in Nat, AppendBytes(n) PROVE TypeOK'
  <2> DEFINE kept == KeptBytes(n)
             new == Incoming(n)
  <2>1. /\ data' = kept \o new /\ idx' = IdxAfterSpace(n)
        /\ capacity' = Grown(Len(kept), n)
        /\ written' = written + n /\ written + n <= MaxBytes
    BY <1>2 DEF AppendBytes
  <2>2. kept \in Seq(Bytes) /\ IdxAfterSpace(n) \in 0 .. Len(kept)
    BY KeptType
  <2>3. new \in Seq(Bytes) /\ Len(new) = n
    BY <2>1, IncomingType
  <2> HIDE DEF kept, new
  <2>4. data' \in Seq(Bytes) /\ Len(data') = Len(kept) + n /\ Len(kept) \in Nat
    <3>1. kept \o new \in Seq(Bytes) /\ Len(kept \o new) = Len(kept) + Len(new)
      BY <2>2, <2>3, ConcatProperties
    <3> QED
      BY <2>1, <2>2, <2>3, <3>1
  <2>5. idx' \in 0 .. Len(data')
    BY <2>1, <2>2, <2>4
  <2>6. capacity' \in Nat /\ Len(data') <= capacity'
    BY <2>1, <2>4 DEF Grown, TypeOK
  <2>7. written' \in 0 .. MaxBytes
    BY <2>1 DEF TypeOK
  <2> QED
    BY <2>4, <2>5, <2>6, <2>7 DEF TypeOK, Bytes
<1>3. ASSUME NEW n \in Nat, Retrieve(n) PROVE TypeOK'
  BY <1>1, <1>3 DEF TypeOK, Retrieve, Readable
<1>4. ASSUME NEW n \in Nat, Discard(n) PROVE TypeOK'
  <2>1. Len(data) - n \in 0 .. Len(data) /\ idx <= Len(data) - n
    BY <1>1, <1>4 DEF Discard, Readable
  <2>2. data' \in Seq(Bytes) /\ Len(data') = Len(data) - n
    BY <1>1, <1>4, <2>1, Prefix DEF Discard
  <2> QED
    BY <1>1, <1>4, <2>1, <2>2 DEF TypeOK, Discard, Bytes
<1>5. ASSUME NEW n \in Nat, Revoke(n) PROVE TypeOK'
  BY <1>1, <1>5 DEF TypeOK, Revoke
<1>6. CASE UNCHANGED vars
  BY <1>6 DEF TypeOK, vars
<1> QED
  BY <1>2, <1>3, <1>4, <1>5, <1>6, BoundsAssumption DEF Next

(* The read index stays within the bytes, and these within the vector,     *)
(* over every compaction and growth (buffer.h:140-199).                    *)
THEOREM TypeCorrect == Spec => []TypeOK
<1>1. Init => TypeOK
  BY InitLenAssumption, BoundsAssumption, EmptySeq DEF Init, TypeOK
<1> QED
  BY <1>1, NextTypeOK, PTL DEF Spec

(* Unless the buffer is drained and full, append puts the new bytes after  *)
(* the unread ones, whether makeSpace moves those or the vector grows.     *)
LEMMA AppendAppends ==
  ASSUME TypeOK, ~DrainedAndFull, NEW n \in Nat, AppendBytes(n)
  PROVE  Content' = Content \o Incoming(n)
<1> DEFINE new == Incoming(n)
<1>1. data \in Seq(Bytes) /\ idx \in 0 .. Len(data) /\ Len(data) \in Nat
  BY DEF TypeOK, Bytes
<1>2. new \in Seq(Bytes)
  BY IncomingType DEF AppendBytes
<1>3. data' = KeptBytes(n) \o new /\ idx' = IdxAfterSpace(n)
  BY DEF AppendBytes
<1> HIDE DEF new
<1>4. CASE Compacts(n)
  <2>1. data' = Content \o new /\ idx' = 0
    BY <1>3, <1>4 DEF KeptBytes, IdxAfterSpace
  <2>2. data' \in Seq(Bytes)
    BY <1>2, <2>1, ContentType, ConcatProperties
  <2>3. SubSeq(data', 1, Len(data')) = data'
    BY <2>2, SubSeqFull
  <2>4. Content' = SubSeq(data', idx' + 1, Len(data')) /\ idx' + 1 = 1
    BY <2>1 DEF Content
  <2> QED
    BY <2>1, <2>3, <2>4 DEF new
<1>5. CASE ~Compacts(n)
  <2>1. data' = data \o new /\ idx' = idx
    BY <1>3, <1>5 DEF KeptBytes, IdxAfterSpace
  <2>2. SubSeq(data \o new, idx + 1, Len(data \o new)) = SubSeq(data, idx + 1, Len(data)) \o new
    BY <1>1, <1>2, SuffixOfConcat
  <2> QED
    BY <2>1, <2>2 DEF Content, new
<1> QED
  BY <1>4, <1>5

(* append is FIFO, and the index never leaves the bytes, so that           *)
(* readable() and writable() never wrap around (buffer.h:140-199).         *)
THEOREM AppendCorrect == Spec => AppendIsFifo
<1>1. TypeOK => (~DrainedAndFull => \A n \in 0 .. MaxChunk : AppendKeepsContent(n))
  BY AppendAppends, BoundsAssumption DEF AppendKeepsContent
<1> QED
  BY <1>1, TypeCorrect, PTL DEF AppendIsFifo

(* The vector reallocates only when what is unread and what comes do not   *)
(* fit together (buffer.h:190-199).                                        *)
THEOREM GrowthBounded == Spec => GrowsOnlyIfNeeded
<1>1. ASSUME TypeOK, [Next]_vars, ~DrainedAndFull, capacity' > capacity
      PROVE  Readable + (written' - written) > capacity
  <2>1. PICK n \in Nat : AppendBytes(n)
    BY <1>1, BoundsAssumption DEF Next, Retrieve, Discard, Revoke, vars, TypeOK
  <2> DEFINE size == Len(KeptBytes(n))
  <2>2. /\ capacity' = Grown(size, n) /\ written' - written = n
    BY <1>1, <2>1 DEF AppendBytes, TypeOK
  <2>3. /\ Len(data) \in Nat /\ idx \in 0 .. Len(data) /\ capacity \in Nat
        /\ Len(data) <= capacity
    BY <1>1 DEF TypeOK
  <2>4. /\ Compacts(n) => size = Readable
        /\ ~Compacts(n) => size = Len(data)
    BY <1>1, KeptType
  <2> HIDE DEF size
  <2>5. size \in Nat /\ size + n > capacity
    BY <1>1, <2>2, <2>3, <2>4 DEF Grown, Readable
  <2>6. ~Compacts(n) /\ n > Writable
    BY <2>3, <2>4, <2>5 DEF Compacts, Readable, Writable
  <2> QED
    BY <1>1, <2>2, <2>3, <2>6 DEF Compacts, Readable
<1>2. TypeOK /\ [Next]_vars =>
        [~DrainedAndFull /\ capacity' > capacity =>
           Readable + (written' - written) > capacity]_vars
  BY <1>1
<1> QED
  BY <1>2, TypeCorrect, PTL DEF Spec, GrowsOnlyIfNeeded
=============================================================================
