------------------------------ MODULE RingBuffer ------------------------------
(***************************************************************************)
(* utils/ring_buffer.c: one ring, shared by the threads that write the     *)
(* character device (copy_from_user), threads that read with a length of   *)
(* their own (copy_to_user, or memcpy in the kernel), and the transceiver  *)
(* thread, which asks ring_buffer_n_bytes_readable without the mutex and   *)
(* then reads at most one sample.                                          *)
(*                                                                         *)
(* A call takes the mutex, computes its two chunks, stores the new index   *)
(* BEFORE it copies the bytes, copies, and releases the mutex.  The two    *)
(* unlocked queries can therefore see an index whose bytes are not there   *)
(* yet.  A call with a NULL ring or buffer returns before it touches       *)
(* anything, which is no step here.                                        *)
(*                                                                         *)
(* A byte is represented by the position at which it was accepted, counted *)
(* over all writers.  The history variables put, got and intact say how    *)
(* many bytes were accepted and handed over and whether every call so far  *)
(* kept the contract under which this code is a FIFO; the code has none of *)
(* them, and they never guard a step of it.                                *)
(***************************************************************************)
EXTENDS RingIndex, FiniteSets

CONSTANTS
  Writers,      (* threads in chrdev_pcm3060_write                         *)
  Readers,      (* threads that read with a length of their own            *)
  TxThreads,    (* threads in _tx_rx_on_channel                            *)
  MayFault,     (* threads whose user buffer may be partly inaccessible    *)
  WriteLens,    (* lengths the writers ask for                             *)
  ReadLens,     (* lengths the readers ask for                             *)
  Sample,       (* CONFIG_N_BYTE_SIZE_PER_TX                               *)
  DstLen,       (* bytes of a destination buffer                           *)
  MaxPut,       (* bound: writes start until this many bytes were accepted *)
  NoThread,     (* nobody holds the mutex                                  *)
  NoByte,       (* never written: kmalloc'ed ring, fresh destination       *)
  ZeroByte,     (* copy_from_user zero-fills what it could not fetch       *)
  OutsideByte   (* read from behind the end of the ring                    *)

Consumers == Readers \cup TxThreads
Threads   == Writers \cup Consumers

ASSUME RingBufferAssumption ==
  /\ Writers \cap Consumers = {}
  /\ Readers \cap TxThreads = {}
  /\ MayFault \subseteq Writers \cup Readers
  /\ NoThread \notin Threads
  /\ WriteLens \subseteq Nat
  /\ Sample \in Nat
  /\ DstLen \in Nat
  /\ ReadLens \subseteq 0 .. DstLen
  /\ Sample <= DstLen
  /\ MaxPut \in Nat

VARIABLES
  read_idx, write_idx,  (* _impl_p->read_idx and _impl_p->write_idx        *)
  buf,                  (* _impl_p->buf                                    *)
  mx,                   (* holder of _impl_p->mx                           *)
  pc,                   (* where each thread is                            *)
  call,                 (* the locals of the call each thread is in        *)
  dst,                  (* the destination buffer of each consumer         *)
  put, got, intact      (* history                                         *)

hist == <<put, got, intact>>
vars == <<read_idx, write_idx, buf, mx, pc, call, dst, put, got, intact>>

Byte  == Nat \cup {NoByte, ZeroByte, OutsideByte}
Dst   == 0 .. DstLen - 1
Steps == {"idle", "w_lock", "w_copy", "w_unlock",
          "q_write", "q_read", "r_lock", "r_copy", "r_unlock"}
Calls == [len : Nat, idx : Index, at : Nat, start : Nat, dropped : Nat, base : Nat]

(* Locals of a call that has not computed its chunks yet.                  *)
Locals(n, i) == [len |-> n, idx |-> i, at |-> 0, start |-> 0, dropped |-> 0, base |-> 0]
NoCall == Locals(0, 0)

Init ==
  /\ read_idx = 0
  /\ write_idx = 0
  /\ buf = [i \in Index |-> NoByte]
  /\ mx = NoThread
  /\ pc = [t \in Threads |-> "idle"]
  /\ call = [t \in Threads |-> NoCall]
  /\ dst = [t \in Consumers |-> [j \in Dst |-> NoByte]]
  /\ put = 0
  /\ got = 0
  /\ intact = TRUE

-----------------------------------------------------------------------------
(* The contract: a write leaves one byte free and does not wrap; a read    *)
(* finds the ring empty, or asks for no more than there is and does not    *)
(* wrap.                                                                   *)

WriteContract(n) ==
  /\ n < Writable(read_idx, write_idx)
  /\ read_idx > write_idx \/ n <= Size - write_idx

ReadContract(n) ==
  \/ read_idx = write_idx
  \/ /\ n <= Readable(read_idx, write_idx)
     /\ read_idx <= write_idx \/ n <= Size - read_idx

(* How many bytes of its user buffer of length n the call finds accessible *)
Accessible(t, n) == IF t \in MayFault THEN 0 .. n ELSE {n}

Goto(t, from, to) ==
  /\ pc[t] = from
  /\ pc' = [pc EXCEPT ![t] = to]

(* Slip: the mutex is not waited for.                                      *)
LockFree(t) == mx' = t

(* mutex_lock and mutex_unlock                                             *)
Lock(t) == mx = NoThread /\ mx' = t
Unlock(t) == mx' = NoThread

-----------------------------------------------------------------------------
(* ring_buffer_copy_from_user (and ring_buffer_write, its memcpy twin).    *)

WriteCall(t) ==
  /\ Goto(t, "idle", "w_lock")
  /\ put < MaxPut
  /\ \E n \in WriteLens : call' = [call EXCEPT ![t] = Locals(n, 0)]
  /\ UNCHANGED <<read_idx, write_idx, buf, mx, dst, hist>>

(* Take the mutex, split the request, publish the new write index.         *)
WriteIndex(t) ==
  LET n     == call[t].len
      at    == WriteFromIdx(read_idx, write_idx, n)
      start == WriteFromStart(read_idx, write_idx, n)
  IN  /\ Goto(t, "w_lock", "w_copy")
      /\ Lock(t)
      /\ write_idx' = Advance(write_idx, at + start)
      /\ call' = [call EXCEPT ![t] =
                    [len |-> n, idx |-> write_idx, at |-> at, start |-> start,
                     dropped |-> n - at - start, base |-> put]]
      /\ intact' = (intact /\ WriteContract(n))
      /\ put' = IF intact' THEN put + at + start ELSE put
      /\ UNCHANGED <<read_idx, buf, dst, got>>

(* The ring after a copy that could fetch the first good bytes of the      *)
(* caller's buffer.  Both chunks are taken from the beginning of that      *)
(* buffer, and what cannot be fetched is zero-filled.                      *)
Stored(c, good) ==
  LET fetched(j) == IF j < good THEN c.base + j ELSE ZeroByte
  IN  [i \in Index |-> IF i < c.start THEN fetched(i)
                       ELSE IF i \in c.idx .. c.idx + c.at - 1 THEN fetched(i - c.idx)
                       ELSE buf[i]]

(* Bytes of the two chunks that lie behind the accessible ones.            *)
Missed(c, good) == (c.at - UMin(c.at, good)) + (c.start - UMin(c.start, good))

WriteCopy(t) ==
  /\ Goto(t, "w_copy", "w_unlock")
  /\ \E good \in Accessible(t, call[t].len) :
       /\ buf' = Stored(call[t], good)
       /\ call' = [call EXCEPT ![t].dropped = @ + Missed(call[t], good)]
       /\ intact' = (intact /\ Missed(call[t], good) = 0)
       /\ UNCHANGED <<read_idx, write_idx, mx, dst, put, got>>

WriteReturn(t) ==
  /\ Goto(t, "w_unlock", "idle")
  /\ Unlock(t)
  /\ call' = [call EXCEPT ![t] = NoCall]
  /\ UNCHANGED <<read_idx, write_idx, buf, dst, hist>>

-----------------------------------------------------------------------------
(* ring_buffer_copy_to_user and ring_buffer_read.                          *)

ReadCall(t) ==
  /\ Goto(t, "idle", "r_lock")
  /\ \E n \in ReadLens : call' = [call EXCEPT ![t] = Locals(n, 0)]
  /\ UNCHANGED <<read_idx, write_idx, buf, mx, dst, hist>>

(* The two chunks of a read of n bytes, and what it reports as dropped.    *)
ReadSplit(n) ==
  LET at    == ReadFromIdx(read_idx, write_idx, n)
      start == ReadFromStart(read_idx, write_idx, n)
  IN  [len |-> n, idx |-> read_idx, at |-> at, start |-> start,
       dropped |-> n - at - start, base |-> got]

ReadIndex(t) ==
  LET c == ReadSplit(call[t].len)
  IN  /\ Goto(t, "r_lock", "r_copy")
      /\ Lock(t)
      /\ read_idx' = Advance(read_idx, c.at + c.start)
      /\ call' = [call EXCEPT ![t] = c]
      /\ intact' = (intact /\ ReadContract(c.len))
      /\ got' = IF intact' THEN got + c.at + c.start ELSE got
      /\ UNCHANGED <<write_idx, buf, dst, put>>

(* Slip: the copy starts at the index that was already moved on.           *)
FetchedLate(c, old, good) ==
  [j \in Dst |-> IF j < good /\ j < c.at /\ read_idx + j \in Index
                 THEN buf[read_idx + j] ELSE old[j]]

(* The destination after a copy of which the first good bytes could be     *)
(* delivered: the second chunk lands on top of the first one.              *)
Fetched(c, old, good) ==
  LET ring(i) == IF i \in Index THEN buf[i] ELSE OutsideByte
  IN  [j \in Dst |-> IF j < good /\ j < c.start THEN ring(j)
                     ELSE IF j < good /\ j < c.at THEN ring(c.idx + j)
                     ELSE old[j]]

ReadCopy(t) ==
  /\ Goto(t, "r_copy", "r_unlock")
  /\ \E good \in Accessible(t, call[t].len) :
       /\ dst' = [dst EXCEPT ![t] = Fetched(call[t], @, good)]
       /\ call' = [call EXCEPT ![t].dropped = @ + Missed(call[t], good)]
       /\ intact' = (intact /\ Missed(call[t], good) = 0)
       /\ UNCHANGED <<read_idx, write_idx, buf, mx, put, got>>

ReadReturn(t) ==
  /\ Goto(t, "r_unlock", "idle")
  /\ Unlock(t)
  /\ call' = [call EXCEPT ![t] = NoCall]
  /\ UNCHANGED <<read_idx, write_idx, buf, dst, hist>>

-----------------------------------------------------------------------------
(* The transceiver: ring_buffer_n_bytes_readable loads the two indices one *)
(* after the other without the mutex, in an order atomic_read does not     *)
(* fix; then it reads at most one sample, or nothing.                      *)

QueryFirst(t) ==
  /\ \/ /\ Goto(t, "idle", "q_write")
        /\ call' = [call EXCEPT ![t] = Locals(0, write_idx)]
     \/ /\ Goto(t, "idle", "q_read")
        /\ call' = [call EXCEPT ![t] = Locals(0, read_idx)]
  /\ UNCHANGED <<read_idx, write_idx, buf, mx, dst, hist>>

(* Slip: the minimum is dropped.                                           *)
TxLenWhole(readable) == IF readable > 0 THEN Sample ELSE 0

(* min(n_bytes_to_write_over_spi, CONFIG_N_BYTE_SIZE_PER_TX)               *)
TxLen(readable) == UMin(readable, Sample)

(* Slip: the thread spins until there is something to read.                *)
QuerySpins(t) ==
  LET n == TxLen(Readable(read_idx, write_idx))
  IN  /\ pc[t] \in {"q_write", "q_read"}
      /\ pc' = [pc EXCEPT ![t] = IF n > 0 THEN "r_lock" ELSE @]
      /\ call' = [call EXCEPT ![t] = IF n > 0 THEN Locals(n, 0) ELSE @]
      /\ UNCHANGED <<read_idx, write_idx, buf, mx, dst, hist>>

QuerySecond(t) ==
  LET n == TxLen(IF pc[t] = "q_write" THEN Readable(read_idx, call[t].idx)
                 ELSE Readable(call[t].idx, write_idx))
  IN  /\ pc[t] \in {"q_write", "q_read"}
      /\ pc' = [pc EXCEPT ![t] = IF n > 0 THEN "r_lock" ELSE "idle"]
      /\ call' = [call EXCEPT ![t] = Locals(n, 0)]
      /\ UNCHANGED <<read_idx, write_idx, buf, mx, dst, hist>>

-----------------------------------------------------------------------------
Write(t) == WriteCall(t) \/ WriteIndex(t) \/ WriteCopy(t) \/ WriteReturn(t)
Read(t)  == ReadIndex(t) \/ ReadCopy(t) \/ ReadReturn(t)
Query(t) == QueryFirst(t) \/ QuerySecond(t)

Next ==
  \/ \E t \in Writers : Write(t)
  \/ \E t \in Readers : ReadCall(t)
  \/ \E t \in Consumers : Read(t)
  \/ \E t \in TxThreads : Query(t)

Spec == Init /\ [][Next]_vars

(* A thread in the kernel keeps running.  The mutex is handed to a waiter  *)
(* again and again only if it is strongly fair: mutex_lock queues its      *)
(* waiters in the order they came.                                         *)
Fairness ==
  /\ \A t \in Writers : /\ SF_vars(WriteIndex(t))
                         /\ WF_vars(WriteCopy(t) \/ WriteReturn(t))
  /\ \A t \in Consumers : /\ SF_vars(ReadIndex(t))
                           /\ WF_vars(ReadCopy(t) \/ ReadReturn(t))
  /\ \A t \in TxThreads : WF_vars(QuerySecond(t))

FairSpec == Spec /\ Fairness

-----------------------------------------------------------------------------
(* Every variable holds what its declaration in the C code allows, and an  *)
(* index never leaves the ring.                                            *)
TypeOK ==
  /\ read_idx \in Index
  /\ write_idx \in Index
  /\ buf \in [Index -> Byte]
  /\ mx \in Threads \cup {NoThread}
  /\ pc \in [Threads -> Steps]
  /\ call \in [Threads -> Calls]
  /\ dst \in [Consumers -> [Dst -> Byte]]
  /\ put \in Nat
  /\ got \in Nat
  /\ intact \in BOOLEAN

(* No write call, whatever its length and whatever the readers did, stores *)
(* behind the end of the ring, and its two chunks never overlap.           *)
WriteInBounds ==
  \A t \in Writers : pc[t] = "w_copy" =>
    /\ call[t].idx + call[t].at <= Size
    /\ call[t].start <= call[t].idx

(* As long as the contract is kept, the two indices account for every byte *)
(* that was accepted and not yet handed over.                              *)
NothingLost == intact => Readable(read_idx, write_idx) = put - got

(* The number of bytes the transceiver is about to read was computed       *)
(* without the mutex, from two indices that need not belong together; when *)
(* it gets the mutex that many bytes are still there.                      *)
TxReadsWhatIsThere ==
  intact => \A t \in TxThreads : pc[t] = "r_lock" =>
    call[t].len <= Readable(read_idx, write_idx)

(* The ring is a bounded FIFO of bytes.  Bytes enter when they are copied, *)
(* not when the index moves, and leave when they are copied out.           *)
Storing  == mx \in Writers /\ pc[mx] = "w_copy"
Fetching == mx \in Consumers /\ pc[mx] = "r_copy"

Sent  == IF Storing THEN call[mx].base ELSE put
Taken == IF Fetching THEN call[mx].base ELSE got

Fifo == INSTANCE ByteFifo WITH
  Capacity <- Size,
  Clients  <- Consumers,
  Blank    <- NoByte,
  sent     <- Sent,
  taken    <- Taken,
  out      <- dst,
  ok       <- intact

ImplementsFifo == Fifo!Spec

(* Every call that has entered the ring returns: nobody waits for the      *)
(* mutex for ever.                                                         *)
EveryCallReturns == \A t \in Threads : (pc[t] # "idle") ~> (pc[t] = "idle")

-----------------------------------------------------------------------------
(* What ring_buffer.h says of a write: it returns the number of bytes it   *)
(* dropped.  A write that dropped none has made its bytes readable.        *)
AcceptedStaysReadable ==
  \A t \in Writers : (pc[t] = "w_unlock" /\ call[t].dropped = 0) =>
    call[t].len <= Readable(read_idx, write_idx)

(* What duplex_ring_buffer.h says of a read: it returns the number of      *)
(* bytes it dropped.  A sample the transceiver is about to read, on a ring *)
(* all of whose calls kept the contract, and of which the read will report *)
(* none dropped, is the next bytes in order.                               *)
SampleIsWhole ==
  intact /\ mx = NoThread => \A t \in TxThreads : pc[t] = "r_lock" =>
    LET c == ReadSplit(call[t].len)
    IN  c.dropped = 0 =>
          \A j \in 0 .. c.len - 1 : Fetched(c, dst[t], c.len)[j] = got + j

=============================================================================
