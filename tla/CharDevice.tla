------------------------------ MODULE CharDevice ------------------------------
(***************************************************************************)
(* chrdev_pcm3060_read and _write of chrdev_pcm3060.c, on a ring reached   *)
(* through duplex_ring_end_copy_to_user and _copy_from_user: what a call   *)
(* answers and where it leaves the offset of its file.                     *)
(*                                                                         *)
(* In the driver the ring a file writes is read by the transceiver, and    *)
(* the ring a file reads is filled by nobody; the model leaves it to the   *)
(* constants who shares a ring.  A file that is open has an interface and  *)
(* a ring (Pcm3060 models both), so the NULL tests find nothing.           *)
(***************************************************************************)
EXTENDS RingBuffer, FiniteSetsExt

CONSTANT MaxMissed   (* bound: a file reads until its offset is this       *)

ASSUME CharDeviceAssumption == MaxMissed \in Nat /\ IsFiniteSet(Writers)

VARIABLE offset      (* *offset of each file                               *)

devVars == <<vars, offset>>

DevInit == Init /\ offset = [t \in Writers \cup Readers |-> 0]

(* Slip: the result of the ring is passed on, as read does.                *)
WriteReplyDropped(c) == c.dropped

(* What the calls answer: a write, all of it or nothing; a read, what the  *)
(* ring dropped.                                                           *)
WriteReply(c) == IF c.dropped > 0 THEN 0 ELSE c.len
ReadReply(c)  == c.dropped

MoveOffset(t, n) == offset' = [offset EXCEPT ![t] = @ + n]

DevWrite(t) ==
  \/ (WriteCall(t) \/ WriteIndex(t) \/ WriteCopy(t)) /\ UNCHANGED offset
  \/ MoveOffset(t, WriteReply(call[t])) /\ WriteReturn(t)

DevRead(t) ==
  \/ offset[t] < MaxMissed /\ ReadCall(t) /\ UNCHANGED offset
  \/ (ReadIndex(t) \/ ReadCopy(t)) /\ UNCHANGED offset
  \/ MoveOffset(t, ReadReply(call[t])) /\ ReadReturn(t)

DevNext ==
  \/ \E t \in Writers : DevWrite(t)
  \/ \E t \in Readers : DevRead(t)
  \/ \E t \in TxThreads : (Query(t) \/ Read(t)) /\ UNCHANGED offset

DevSpec == DevInit /\ [][DevNext]_devVars

-----------------------------------------------------------------------------
(* As long as the contract is kept, the ring took exactly the bytes the    *)
(* offsets of all its writing files have moved over and those of the calls *)
(* that still hold the mutex: nobody is told of fewer or of more, however  *)
(* the calls interleave.                                                   *)
Underway(t) == IF pc[t] \in {"w_copy", "w_unlock"} THEN call[t].at + call[t].start ELSE 0

OffsetsAccount ==
  intact => put = MapThenSumSet(LAMBDA t : offset[t] + Underway(t), Writers)

=============================================================================
