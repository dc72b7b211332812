-------------------------------- MODULE Buffer --------------------------------
(***************************************************************************)
(* lotta::Buffer: a vector of bytes with a read index.  What has been read *)
(* stays in front of the index until makeSpace() moves the rest down.      *)
(*                                                                         *)
(* A byte is its position in the stream of all bytes ever put into the     *)
(* buffer, so that content tells lost, repeated and reordered bytes apart. *)
(***************************************************************************)
EXTENDS Integers, Sequences

CONSTANTS
  InitLen,              \* kInitLen, the capacity reserved by the constructor
  MaxChunk,             \* bound: bytes appended or read at once
  MaxBytes              \* bound: bytes appended in all

ASSUME InitLenAssumption == InitLen \in Nat \ {0}
ASSUME BoundsAssumption == MaxChunk \in Nat /\ MaxBytes \in Nat

VARIABLES
  data,                 \* data_
  idx,                  \* idx_
  capacity,             \* data_.capacity()
  written               \* bytes appended so far

vars == <<data, idx, capacity, written>>

Init ==
  /\ data = <<>>
  /\ idx = 0
  /\ capacity = InitLen
  /\ written = 0

Readable == Len(data) - idx
Writable == capacity - Len(data)
Content == SubSeq(data, idx + 1, Len(data))

-----------------------------------------------------------------------------
(* makeSpace(n): where the unread bytes start (idx'), and whether they are *)
(* moved to the front first.                                               *)
DrainedAndFull == Readable = 0 /\ Writable = 0

NeverCompacts(n) == FALSE          \* mutant: makeSpace() never moves anything

Compacts(n) ==
  /\ ~DrainedAndFull
  /\ n > Writable
  /\ Readable + n <= capacity

(* The index after makeSpace(n).  A drained and full buffer gets its index *)
(* reset, but keeps its bytes.                                             *)
IdxAfterSpace(n) == IF DrainedAndFull \/ Compacts(n) THEN 0 ELSE idx

KeptBytesAll(n) == data                       \* mutant: the index moves, the bytes do not
KeptBytes(n) == IF Compacts(n) THEN Content ELSE data

(* The vector grows as libstdc++'s does: to the size plus the larger of    *)
(* the size and what is added.                                             *)
Grown(size, n) ==
  IF size + n <= capacity THEN capacity
  ELSE size + (IF n > size THEN n ELSE size)

Incoming(n) == [i \in 1 .. n |-> written + i]

(* append(data, n); readFrom(fd) when the socket holds n bytes.            *)
AppendBytes(n) ==
  /\ written + n <= MaxBytes
  /\ data' = KeptBytes(n) \o Incoming(n)
  /\ idx' = IdxAfterSpace(n)
  /\ capacity' = Grown(Len(KeptBytes(n)), n)
  /\ written' = written + n

(* retrieve(n); retrieveUntil(delim) retrieves up to and past delim, or    *)
(* nothing if delim is not there.                                          *)
Retrieve(n) ==
  /\ n <= Readable
  /\ idx' = idx + n
  /\ UNCHANGED <<data, capacity, written>>

(* discard(n): takes back the last n bytes appended. *)
Discard(n) ==
  /\ n <= Readable
  /\ data' = SubSeq(data, 1, Len(data) - n)
  /\ UNCHANGED <<idx, capacity, written>>

(* revoke(n): makes the last n bytes retrieved readable again.  Of the     *)
(* calls that make sense, n <= idx_, the assertion lets only n = idx_ by.  *)
Revoke(n) ==
  /\ n >= idx
  /\ n <= idx
  /\ idx' = idx - n
  /\ UNCHANGED <<data, capacity, written>>

Next ==
  \E n \in 0 .. MaxChunk : AppendBytes(n) \/ Retrieve(n) \/ Discard(n) \/ Revoke(n)

Spec == Init /\ [][Next]_vars

-----------------------------------------------------------------------------
(* Types; the index stays within the bytes and the bytes within the        *)
(* capacity, so that readable() and writable() do not wrap around          *)
(* (buffer.h:174-180).                                                     *)
TypeOK ==
  /\ data \in Seq(1 .. MaxBytes)
  /\ idx \in 0 .. Len(data)
  /\ capacity \in Nat
  /\ Len(data) <= capacity
  /\ written \in 0 .. MaxBytes

(* append puts n new bytes after the unread ones and changes nothing else  *)
(* of what is to be read, except when the buffer is drained and full, and  *)
(* neither it nor revoke leaves the index outside of the bytes             *)
(* (buffer.h:140-199).                                                     *)
AppendKeepsContent(n) == AppendBytes(n) => Content' = Content \o Incoming(n)

AppendIsFifo ==
  /\ []TypeOK
  /\ [][~DrainedAndFull => \A n \in 0 .. MaxChunk : AppendKeepsContent(n)]_vars

(* The vector reallocates only if what is unread and what comes would not  *)
(* fit together: a reader that keeps up bounds the memory, again unless    *)
(* the buffer is drained and full (buffer.h:190-199).                      *)
GrowsOnlyIfNeeded ==
  [][~DrainedAndFull /\ capacity' > capacity =>
       Readable + (written' - written) > capacity]_vars

(* The same as AppendIsFifo with no exception: what tests/buffer.cc:25-26  *)
(* and 40-41 expect of append on a buffer in use.  Violated: a buffer that *)
(* is drained when it is full returns all it held once more.               *)
AppendIsAlwaysFifo == [][\A n \in 0 .. MaxChunk : AppendKeepsContent(n)]_vars
=============================================================================
