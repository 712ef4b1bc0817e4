--------------------------- MODULE RingBufferProofs ---------------------------
(***************************************************************************)
(* Theorems about utils/ring_buffer.c for every ring size, every set of    *)
(* threads and every length they ask for, and about the read and write     *)
(* calls of chrdev_pcm3060.c that drive such a ring.                       *)
(*                                                                         *)
(* IInv is the inductive invariant of the ring: the types, who holds the   *)
(* mutex, what the locals of a pending call say of the ring, and -- as     *)
(* long as the contract is kept -- where each accepted byte is.  DevInv    *)
(* adds what the offsets of the files say of it.                           *)
(***************************************************************************)
EXTENDS CharDevice, Sums, TLAPS

(* The place of the byte that lies d bytes behind the read index.          *)
Pos(rd, d) == IF rd + d < Size THEN rd + d ELSE rd + d - Size

-----------------------------------------------------------------------------
(* The index arithmetic.                                                   *)

(* A stored index is an index, whatever was added to the old one.          *)
LEMMA AdvanceInRange ==
  ASSUME NEW i \in Index, NEW n \in Nat
  PROVE  Advance(i, n) \in Index
<1>1. (i + n) % Word \in Nat
  BY RingAssumption DEF Index
<1> QED
  BY <1>1, RingAssumption DEF Advance, Index

(* One round too far, modulo the size, is one round back.                  *)
LEMMA ModOnce ==
  ASSUME NEW x \in Nat, Size <= x, x < 2 * Size
  PROVE  x % Size = x - Size
<1>1. /\ x = Size * (x \div Size) + (x % Size)
      /\ x \div Size \in Int
      /\ x % Size \in 0 .. Size - 1
  BY RingAssumption
<1>2. CASE x \div Size <= 0
  <2>1. Size * (x \div Size) <= 0
    BY <1>1, <1>2, RingAssumption
  <2> QED
    BY <1>1, <2>1, RingAssumption
<1>3. CASE x \div Size = 1
  BY <1>1, <1>3, RingAssumption
<1>4. CASE x \div Size >= 2
  <2>1. Size * (x \div Size) >= Size * 2
    BY <1>1, <1>4, RingAssumption
  <2> QED
    BY <1>1, <2>1, RingAssumption
<1> QED
  BY <1>1, <1>2, <1>3, <1>4

(* A call that moves the index by at most one round is a move along Pos.   *)
LEMMA AdvanceIsPos ==
  ASSUME NEW i \in Index, NEW n \in 0 .. Size
  PROVE  Advance(i, n) = Pos(i, n)
<1>1. i + n \in Nat /\ i + n < 2 * Size
  BY RingAssumption DEF Index
<1>2. (i + n) % Word = i + n
  BY <1>1, RingAssumption
<1>3. CASE i + n < Size
  <2>1. (i + n) % Size = i + n
    BY <1>1, <1>3, RingAssumption
  <2> QED
    BY <1>1, <1>2, <1>3, <2>1 DEF Advance, Pos
<1>4. CASE ~(i + n < Size)
  <2>1. (i + n) % Size = i + n - Size
    BY <1>1, <1>4, ModOnce, RingAssumption DEF Index
  <2> QED
    BY <1>1, <1>2, <1>4, <2>1 DEF Advance, Pos
<1> QED
  BY <1>3, <1>4

(* The chunks of a write are natural numbers that add up to no more than   *)
(* the length asked for; the first one stays inside the ring and the       *)
(* second one before the first one.                                        *)
LEMMA WriteChunks ==
  ASSUME NEW rd \in Index, NEW wr \in Index, NEW n \in Nat
  PROVE  /\ WriteFromIdx(rd, wr, n) \in Nat
         /\ WriteFromStart(rd, wr, n) \in Nat
         /\ WriteFromIdx(rd, wr, n) + WriteFromStart(rd, wr, n) <= n
         /\ wr + WriteFromIdx(rd, wr, n) <= Size
         /\ WriteFromStart(rd, wr, n) <= wr
BY RingAssumption DEF WriteFromIdx, WriteFromStart, UMin, Index

(* The chunks of a read are natural numbers that add up to no more than    *)
(* the length asked for.                                                   *)
LEMMA ReadChunks ==
  ASSUME NEW rd \in Index, NEW wr \in Index, NEW n \in Nat
  PROVE  /\ ReadFromIdx(rd, wr, n) \in Nat
         /\ ReadFromStart(rd, wr, n) \in Nat
         /\ ReadFromIdx(rd, wr, n) + ReadFromStart(rd, wr, n) <= n
<1>1. USub(rd, wr) \in Nat /\ USub(wr, rd) \in Nat
  BY RingAssumption DEF USub, Index
<1> QED
  BY <1>1, RingAssumption DEF ReadFromIdx, ReadFromStart, UMin, Index

(* The transceiver asks for no more than it counted and no more than one   *)
(* sample.                                                                 *)
LEMMA TxLenBound ==
  ASSUME NEW rd \in Index, NEW wr \in Index
  PROVE  /\ TxLen(Readable(rd, wr)) \in Nat
         /\ TxLen(Readable(rd, wr)) <= Readable(rd, wr)
         /\ TxLen(Readable(rd, wr)) <= Sample
BY RingAssumption, RingBufferAssumption DEF TxLen, Readable, UMin, Index

(* Under the contract a write is one chunk of the length asked for.        *)
LEMMA ContractWriteChunks ==
  ASSUME NEW rd \in Index, NEW wr \in Index, NEW n \in Nat,
         n < Writable(rd, wr), rd > wr \/ n <= Size - wr
  PROVE  /\ WriteFromIdx(rd, wr, n) = n
         /\ WriteFromStart(rd, wr, n) = 0
         /\ n < Size
         /\ Readable(rd, Pos(wr, n)) = Readable(rd, wr) + n
BY RingAssumption DEF WriteFromIdx, WriteFromStart, Writable, Readable, UMin, Pos, Index

(* Under the contract a read is one chunk, of the length asked for or, on  *)
(* an empty ring, of no length.                                            *)
LEMMA ContractReadChunks ==
  ASSUME NEW rd \in Index, NEW wr \in Index, NEW n \in Nat,
         \/ rd = wr
         \/ n <= Readable(rd, wr) /\ (rd <= wr \/ n <= Size - rd)
  PROVE  LET at == ReadFromIdx(rd, wr, n)
         IN  /\ at \in 0 .. n
             /\ ReadFromStart(rd, wr, n) = 0
             /\ at <= Readable(rd, wr)
             /\ rd + at <= Size
             /\ Readable(Pos(rd, at), wr) = Readable(rd, wr) - at
<1>1. CASE rd = wr
  <2>1. USub(rd, wr) = 0
    BY <1>1, RingAssumption DEF USub, Index
  <2> QED
    BY <1>1, <2>1, RingAssumption
    DEF ReadFromIdx, ReadFromStart, Readable, UMin, Pos, Index
<1>2. CASE rd < wr /\ n <= Readable(rd, wr)
  <2>1. USub(rd, wr) = Word - (wr - rd)
    BY <1>2, RingAssumption DEF USub, Index
  <2>2. ReadFromIdx(rd, wr, n) = n /\ ReadFromStart(rd, wr, n) = 0
    BY <1>2, <2>1, RingAssumption
    DEF ReadFromIdx, ReadFromStart, Readable, UMin, Index
  <2> QED
    BY <1>2, <2>2, RingAssumption DEF Readable, Pos, Index
<1>3. CASE rd > wr /\ n <= Readable(rd, wr) /\ n <= Size - rd
  <2>1. ReadFromIdx(rd, wr, n) = n /\ ReadFromStart(rd, wr, n) = 0
    BY <1>3, RingAssumption DEF ReadFromIdx, ReadFromStart, UMin, Index
  <2> QED
    BY <1>3, <2>1, RingAssumption DEF Readable, Pos, Index
<1> QED
  BY <1>1, <1>2, <1>3 DEF Index

-----------------------------------------------------------------------------
(* Type correctness.                                                       *)

(* Every variable holds what its declaration allows, initially ...         *)
LEMMA InitTypeOK == Init => TypeOK
BY RingAssumption DEF Init, TypeOK, Index, Byte, Steps, Calls, NoCall, Locals

(* ... after every step of a writer ...                                    *)
LEMMA WriteTypeOK ==
  ASSUME TypeOK, NEW t \in Writers, Write(t)
  PROVE  TypeOK'
<1> USE DEF TypeOK, Goto, hist
<1>0. t \in Threads /\ call[t] \in Calls
  BY DEF Threads
<1>1. CASE WriteCall(t)
  <2>1. PICK n \in WriteLens : call' = [call EXCEPT ![t] = Locals(n, 0)]
    BY <1>1 DEF WriteCall
  <2>2. Locals(n, 0) \in Calls
    BY RingAssumption, RingBufferAssumption DEF Locals, Calls, Index
  <2> QED
    BY <1>1, <2>1, <2>2 DEF WriteCall, Steps
<1>2. CASE WriteIndex(t)
  <2> DEFINE n     == call[t].len
             at    == WriteFromIdx(read_idx, write_idx, n)
             start == WriteFromStart(read_idx, write_idx, n)
             c     == [len |-> n, idx |-> write_idx, at |-> at, start |-> start,
                       dropped |-> n - at - start, base |-> put]
  <2>1. n \in Nat
    BY <1>0 DEF Calls
  <2>2. at \in Nat /\ start \in Nat /\ at + start <= n
    BY <2>1, WriteChunks
  <2>3. c \in Calls
    BY <2>1, <2>2 DEF Calls
  <2>4. Advance(write_idx, at + start) \in Index
    BY <2>2, AdvanceInRange
  <2>5. call' = [call EXCEPT ![t] = c] /\ write_idx' \in Index /\ put' \in Nat
    BY <1>2, <2>2, <2>4 DEF WriteIndex
  <2> HIDE DEF c
  <2> QED
    BY <1>0, <1>2, <2>3, <2>5 DEF WriteIndex, Lock, Steps
<1>3. CASE WriteCopy(t)
  <2>1. PICK good \in Accessible(t, call[t].len) :
          /\ buf' = Stored(call[t], good)
          /\ call' = [call EXCEPT ![t].dropped = @ + Missed(call[t], good)]
          /\ intact' = (intact /\ Missed(call[t], good) = 0)
          /\ UNCHANGED <<read_idx, write_idx, mx, dst, put, got>>
    BY <1>3 DEF WriteCopy
  <2>2. good \in Nat
    BY <1>0 DEF Accessible, Calls
  <2>3. Missed(call[t], good) \in Nat
    BY <1>0, <2>2 DEF Missed, UMin, Calls
  <2>4. Stored(call[t], good) \in [Index -> Byte]
    <3>1. call[t].base \in Nat /\ call[t].idx \in Int
      BY <1>0 DEF Calls, Index
    <3>2. ASSUME NEW j \in Nat
          PROVE  (IF j < good THEN call[t].base + j ELSE ZeroByte) \in Byte
      BY <3>1 DEF Byte
    <3>3. ASSUME NEW i \in Index, i \in call[t].idx .. call[t].idx + call[t].at - 1
          PROVE  i - call[t].idx \in Nat
      BY <3>1, <3>3 DEF Index
    <3> QED
      BY <3>2, <3>3 DEF Stored, Index
  <2>5. [call[t] EXCEPT !.dropped = @ + Missed(call[t], good)] \in Calls
    BY <1>0, <2>3 DEF Calls
  <2>6. call' \in [Threads -> Calls]
    BY <1>0, <2>1, <2>5
  <2> QED
    BY <1>3, <2>1, <2>4, <2>6 DEF WriteCopy, Steps
<1>4. CASE WriteReturn(t)
  BY <1>0, <1>4, RingAssumption DEF WriteReturn, Unlock, Steps, NoCall, Locals, Calls, Index
<1> QED
  BY <1>1, <1>2, <1>3, <1>4 DEF Write

(* ... and after every step of a consumer.                                 *)
LEMMA ReadTypeOK ==
  ASSUME TypeOK, NEW t \in Consumers, ReadCall(t) \/ Read(t) \/ Query(t)
  PROVE  TypeOK'
<1> USE DEF TypeOK, Goto, hist
<1>0. t \in Threads /\ call[t] \in Calls
  BY DEF Threads
<1>1. ASSUME NEW n \in Nat, NEW i \in Index
      PROVE  Locals(n, i) \in Calls
  BY DEF Locals, Calls
<1> 0 \in Index
  BY RingAssumption DEF Index
<1>2. CASE ReadCall(t)
  <2>1. PICK n \in ReadLens : call' = [call EXCEPT ![t] = Locals(n, 0)]
    BY <1>2 DEF ReadCall
  <2>2. n \in Nat
    BY RingBufferAssumption
  <2> QED
    BY <1>1, <1>2, <2>1, <2>2 DEF ReadCall, Steps
<1>3. CASE ReadIndex(t)
  <2> DEFINE n     == call[t].len
             at    == ReadFromIdx(read_idx, write_idx, n)
             start == ReadFromStart(read_idx, write_idx, n)
             c     == [len |-> n, idx |-> read_idx, at |-> at, start |-> start,
                       dropped |-> n - at - start, base |-> got]
  <2>1. n \in Nat
    BY <1>0 DEF Calls
  <2>2. at \in Nat /\ start \in Nat /\ at + start <= n
    BY <2>1, ReadChunks
  <2>3. c \in Calls
    BY <2>1, <2>2 DEF Calls
  <2>4. Advance(read_idx, at + start) \in Index
    BY <2>2, AdvanceInRange
  <2>5. call' = [call EXCEPT ![t] = c] /\ read_idx' \in Index /\ got' \in Nat
    BY <1>3, <2>2, <2>4 DEF ReadIndex, ReadSplit
  <2> HIDE DEF c
  <2> QED
    BY <1>0, <1>3, <2>3, <2>5 DEF ReadIndex, Lock, Steps
<1>4. CASE ReadCopy(t)
  <2>1. PICK good \in Accessible(t, call[t].len) :
          /\ dst' = [dst EXCEPT ![t] = Fetched(call[t], @, good)]
          /\ call' = [call EXCEPT ![t].dropped = @ + Missed(call[t], good)]
          /\ intact' = (intact /\ Missed(call[t], good) = 0)
          /\ UNCHANGED <<read_idx, write_idx, buf, mx, put, got>>
    BY <1>4 DEF ReadCopy
  <2>2. good \in Nat
    BY <1>0 DEF Accessible, Calls
  <2>3. Missed(call[t], good) \in Nat
    BY <1>0, <2>2 DEF Missed, UMin, Calls
  <2>4. Fetched(call[t], dst[t], good) \in [Dst -> Byte]
    BY DEF Fetched, Byte
  <2>5. [call[t] EXCEPT !.dropped = @ + Missed(call[t], good)] \in Calls
    BY <1>0, <2>3 DEF Calls
  <2>6. call' \in [Threads -> Calls]
    BY <1>0, <2>1, <2>5
  <2> QED
    BY <1>4, <2>1, <2>4, <2>6 DEF ReadCopy, Steps
<1>5. CASE ReadReturn(t)
  BY <1>0, <1>5, RingAssumption DEF ReadReturn, Unlock, Steps, NoCall, Locals, Calls, Index
<1>6. CASE QueryFirst(t)
  BY <1>0, <1>1, <1>6 DEF QueryFirst, Steps
<1>7. CASE QuerySecond(t)
  <2>1. PICK n \in Nat : /\ pc' = [pc EXCEPT ![t] = IF n > 0 THEN "r_lock" ELSE "idle"]
                         /\ call' = [call EXCEPT ![t] = Locals(n, 0)]
                         /\ UNCHANGED <<read_idx, write_idx, buf, mx, dst, hist>>
    BY <1>0, <1>7, TxLenBound DEF QuerySecond, Calls
  <2>2. (IF n > 0 THEN "r_lock" ELSE "idle") \in Steps
    BY DEF Steps
  <2> QED
    BY <1>1, <2>1, <2>2
<1> QED
  BY <1>2, <1>3, <1>4, <1>5, <1>6, <1>7 DEF Read, Query

(* A step is a step of a writer or of a consumer.                          *)
LEMMA NextCases ==
  ASSUME Next
  PROVE  \/ \E t \in Writers : Write(t)
         \/ \E t \in Consumers : ReadCall(t) \/ Read(t) \/ Query(t)
BY DEF Next, Consumers

(* The indices, the ring, the locals of every thread and every destination *)
(* buffer keep their types for every ring size and every set of requests.  *)
THEOREM TypeCorrect == Spec => []TypeOK
<1>1. TypeOK /\ [Next]_vars => TypeOK'
  <2> SUFFICES ASSUME TypeOK, [Next]_vars PROVE TypeOK'
    OBVIOUS
  <2>1. CASE Next
    BY <2>1, NextCases, WriteTypeOK, ReadTypeOK
  <2>2. CASE UNCHANGED vars
    BY <2>2 DEF TypeOK, vars
  <2> QED
    BY <2>1, <2>2
<1> QED
  BY InitTypeOK, <1>1, PTL DEF Spec

-----------------------------------------------------------------------------
(* The inductive invariant.                                                *)

(* Writers write and consumers consume, and no consumer asks for more than *)
(* its destination holds.                                                  *)
Places ==
  /\ \A t \in Writers : pc[t] \in {"idle", "w_lock", "w_copy", "w_unlock"}
  /\ \A t \in Consumers :
       /\ pc[t] \in {"idle", "q_write", "q_read", "r_lock", "r_copy", "r_unlock"}
       /\ pc[t] \in {"r_lock", "r_copy"} => call[t].len <= DstLen

(* The mutex is held by the one thread between its lock and its unlock.    *)
Holding == {"w_copy", "w_unlock", "r_copy", "r_unlock"}
MutexHeld == \A t \in Threads : mx = t <=> pc[t] \in Holding

(* A write under way is one chunk, at the place of the last bytes accepted *)
PendingWrite ==
  intact => \A t \in Writers : pc[t] = "w_copy" =>
    /\ call[t].at = call[t].len
    /\ call[t].start = 0
    /\ got <= call[t].base
    /\ call[t].base + call[t].at = put
    /\ call[t].idx = Pos(read_idx, call[t].base - got)

(* A read under way is one chunk, and its bytes are still in the ring.     *)
PendingRead ==
  intact => \A t \in Consumers : pc[t] = "r_copy" =>
    /\ call[t].at <= call[t].len
    /\ call[t].start = 0
    /\ call[t].base + call[t].at = got
    /\ call[t].idx + call[t].at <= Size
    /\ \A j \in 0 .. call[t].at - 1 : buf[call[t].idx + j] = call[t].base + j

(* Byte s is accepted, and not one a write under way has yet to store.     *)
Settled(s) == \A t \in Writers : pc[t] = "w_copy" => s < call[t].base

(* The bytes not yet handed over lie behind the read index, in order.      *)
Contents ==
  intact => \A d \in 0 .. put - got - 1 :
    Settled(got + d) => buf[Pos(read_idx, d)] = got + d

IInv ==
  /\ TypeOK
  /\ Places
  /\ MutexHeld
  /\ WriteInBounds
  /\ NothingLost
  /\ PendingWrite
  /\ PendingRead
  /\ Contents

-----------------------------------------------------------------------------
(* The invariant holds initially ...                                       *)
LEMMA InitIInv == Init => IInv
<1> SUFFICES ASSUME Init PROVE IInv
  OBVIOUS
<1>1. TypeOK
  BY InitTypeOK
<1>2. Places
  BY DEF Init, Places, Threads
<1>3. MutexHeld
  BY RingBufferAssumption DEF Init, MutexHeld, Holding
<1>4. WriteInBounds /\ PendingWrite /\ PendingRead
  BY DEF Init, WriteInBounds, PendingWrite, PendingRead, Threads
<1>5. NothingLost /\ Contents
  BY DEF Init, NothingLost, Contents, Readable
<1> QED
  BY <1>1, <1>2, <1>3, <1>4, <1>5 DEF IInv

(* Two threads are never between lock and unlock together.                 *)
LEMMA OneHolder ==
  ASSUME MutexHeld, NEW t \in Threads, NEW u \in Threads,
         pc[t] \in Holding, pc[u] \in Holding
  PROVE  t = u
BY DEF MutexHeld

(* The part of the invariant that is not about data: who is where, and who *)
(* holds the mutex, after a step of a writer ...                           *)
LEMMA WriteControl ==
  ASSUME IInv, TypeOK', NEW t \in Writers, Write(t)
  PROVE  Places' /\ MutexHeld'
<1> USE DEF IInv, TypeOK, Goto, Places, MutexHeld, Holding
<1>0. t \in Threads /\ t \notin Consumers /\ NoThread \notin Threads
  BY RingBufferAssumption DEF Threads
<1>1. CASE WriteCall(t)
  BY <1>0, <1>1 DEF WriteCall, Threads
<1>2. CASE WriteIndex(t)
  BY <1>0, <1>2 DEF WriteIndex, Lock, Threads
<1>3. CASE WriteCopy(t)
  BY <1>0, <1>3 DEF WriteCopy, Threads
<1>4. CASE WriteReturn(t)
  BY <1>0, <1>4 DEF WriteReturn, Unlock, Threads
<1> QED
  BY <1>1, <1>2, <1>3, <1>4 DEF Write

(* ... and of a consumer.                                                  *)
LEMMA ReadControl ==
  ASSUME IInv, TypeOK', NEW t \in Consumers,
         (t \in Readers /\ ReadCall(t)) \/ Read(t) \/ (t \in TxThreads /\ Query(t))
  PROVE  Places' /\ MutexHeld'
<1> USE DEF IInv, TypeOK, Goto, Places, MutexHeld, Holding
<1>0. t \in Threads /\ t \notin Writers /\ NoThread \notin Threads
  BY RingBufferAssumption DEF Threads
<1>1. CASE ReadCall(t)
  BY <1>0, <1>1, RingBufferAssumption DEF ReadCall, Locals, Threads
<1>2. CASE ReadIndex(t)
  BY <1>0, <1>2 DEF ReadIndex, ReadSplit, Lock, Threads
<1>3. CASE ReadCopy(t)
  BY <1>0, <1>3 DEF ReadCopy, Threads
<1>4. CASE ReadReturn(t)
  BY <1>0, <1>4 DEF ReadReturn, Unlock, Threads
<1>5. CASE QueryFirst(t)
  BY <1>0, <1>5 DEF QueryFirst, Threads
<1>6. CASE QuerySecond(t)
  <2>1. PICK n \in Nat : /\ n <= Sample
                         /\ pc' = [pc EXCEPT ![t] = IF n > 0 THEN "r_lock" ELSE "idle"]
                         /\ call' = [call EXCEPT ![t] = Locals(n, 0)]
                         /\ mx' = mx
    BY <1>0, <1>6, TxLenBound DEF QuerySecond, Calls
  <2>2. n <= DstLen /\ Locals(n, 0).len = n
    BY <2>1, RingBufferAssumption DEF Locals
  <2> QED
    BY <1>0, <1>6, <2>1, <2>2 DEF QuerySecond, Threads
<1> QED
  BY <1>1, <1>2, <1>3, <1>4, <1>5, <1>6 DEF Read, Query

(* The data part of the invariant, one lemma per step that moves data.     *)
Data == WriteInBounds /\ NothingLost /\ PendingWrite /\ PendingRead /\ Contents

(* Steps that only move a thread outside the critical section.             *)
LEMMA IdleData ==
  ASSUME IInv, TypeOK', MutexHeld', NEW t \in Threads,
         UNCHANGED <<read_idx, write_idx, buf, put, got, intact>>,
         pc[t] \notin {"w_copy", "r_copy"}, pc'[t] \notin {"w_copy", "r_copy"},
         \A u \in Threads \ {t} : pc'[u] = pc[u] /\ call'[u] = call[u]
  PROVE  Data'
<1>1. ASSUME NEW u \in Threads, pc'[u] \in {"w_copy", "r_copy"}
      PROVE  u # t /\ pc'[u] = pc[u] /\ call'[u] = call[u]
  BY <1>1
<1>2. ASSUME NEW u \in Threads, pc[u] \in {"w_copy", "r_copy"}
      PROVE  pc'[u] = pc[u] /\ call'[u] = call[u]
  BY <1>2
<1>3. WriteInBounds'
  BY <1>1 DEF IInv, WriteInBounds, Threads
<1>4. NothingLost'
  BY DEF IInv, NothingLost
<1>5. PendingWrite'
  BY <1>1 DEF IInv, PendingWrite, Threads
<1>6. PendingRead'
  BY <1>1 DEF IInv, PendingRead, Threads
<1>7. ASSUME NEW s PROVE Settled(s)' => Settled(s)
  BY <1>2 DEF Settled, Threads
<1>8. Contents'
  BY <1>7 DEF IInv, Contents
<1> QED
  BY <1>3, <1>4, <1>5, <1>6, <1>8 DEF Data

(* The index step of a write: the bytes accepted are the last ones.        *)
LEMMA WriteIndexData ==
  ASSUME IInv, TypeOK', Places', MutexHeld', NEW t \in Writers, WriteIndex(t)
  PROVE  Data'
<1> DEFINE n     == call[t].len
           at    == WriteFromIdx(read_idx, write_idx, n)
           start == WriteFromStart(read_idx, write_idx, n)
<1> USE DEF IInv
<1>0. t \in Threads /\ n \in Nat /\ read_idx \in Index /\ write_idx \in Index
  BY DEF TypeOK, Calls, Threads
<1>1. /\ mx' = t
      /\ write_idx' = Advance(write_idx, at + start)
      /\ call'[t] = [len |-> n, idx |-> write_idx, at |-> at, start |-> start,
                     dropped |-> n - at - start, base |-> put]
      /\ intact' = (intact /\ WriteContract(n))
      /\ put' = IF intact' THEN put + at + start ELSE put
      /\ read_idx' = read_idx /\ buf' = buf /\ got' = got
  BY <1>0 DEF WriteIndex, Lock, TypeOK
<1>2. \A u \in Threads : pc'[u] \in {"w_copy", "r_copy"} => u = t
  BY <1>1 DEF MutexHeld, Holding
<1>3. \A u \in Threads : pc[u] \notin Holding
  BY RingBufferAssumption DEF MutexHeld, WriteIndex, Lock
<1>4. at \in Nat /\ start \in Nat /\ write_idx + at <= Size /\ start <= write_idx
  BY <1>0, WriteChunks
<1>5. WriteInBounds'
  BY <1>1, <1>2, <1>4 DEF WriteInBounds, Threads
<1>6. PendingRead'
  BY <1>2, RingBufferAssumption DEF PendingRead, Threads
<1> SUFFICES ASSUME intact'
             PROVE  NothingLost' /\ PendingWrite' /\ Contents'
  BY <1>5, <1>6 DEF Data, NothingLost, PendingWrite, Contents
<1>7. /\ at = n /\ start = 0 /\ n < Size
      /\ Readable(read_idx, Pos(write_idx, n)) = Readable(read_idx, write_idx) + n
  BY <1>0, <1>1, ContractWriteChunks DEF WriteContract
<1>8. /\ put' = put + n
      /\ write_idx' = Pos(write_idx, n)
      /\ Readable(read_idx, write_idx) = put - got
  <2>1. at + start = n /\ n \in 0 .. Size
    BY <1>0, <1>7, RingAssumption
  <2>2. Advance(write_idx, at + start) = Pos(write_idx, n)
    BY <1>0, <2>1, AdvanceIsPos
  <2>3. put' = put + n
    BY <1>0, <1>1, <1>7 DEF TypeOK
  <2>4. intact
    BY <1>1
  <2> QED
    BY <1>1, <2>2, <2>3, <2>4 DEF NothingLost
<1>9. NothingLost'
  BY <1>0, <1>1, <1>7, <1>8 DEF NothingLost, TypeOK
<1>10. got <= put /\ write_idx = Pos(read_idx, put - got)
  BY <1>0, <1>8, RingAssumption DEF Readable, Pos, Index, TypeOK
<1>11. PendingWrite'
  <2> SUFFICES ASSUME NEW u \in Writers, pc'[u] = "w_copy"
               PROVE  /\ call'[u].at = call'[u].len
                      /\ call'[u].start = 0
                      /\ got' <= call'[u].base
                      /\ call'[u].base + call'[u].at = put'
                      /\ call'[u].idx = Pos(read_idx', call'[u].base - got')
    BY DEF PendingWrite
  <2>1. u = t
    BY <1>2 DEF Threads
  <2>2. /\ call'[t].at = at /\ call'[t].len = n /\ call'[t].start = start
        /\ call'[t].base = put /\ call'[t].idx = write_idx
    BY <1>1
  <2> HIDE DEF at, start, n
  <2> QED
    BY <1>1, <2>1, <2>2, <1>7, <1>8, <1>10
<1>12. Contents'
  <2> SUFFICES ASSUME NEW d \in 0 .. put' - got' - 1, Settled(got + d)'
               PROVE  buf[Pos(read_idx, d)] = got + d
    BY <1>1 DEF Contents
  <2>1. got + d < put
    BY <1>0, <1>1 DEF Settled, WriteIndex, Goto, TypeOK
  <2>2. d \in 0 .. put - got - 1
    BY <2>1, <1>1 DEF TypeOK
  <2>3. Settled(got + d)
    BY <1>3 DEF Settled, Threads, Holding
  <2> QED
    BY <1>1, <2>2, <2>3 DEF Contents
<1> QED
  BY <1>9, <1>11, <1>12

(* What the copy step of a write does to the ring while the contract is    *)
(* kept: the caller's bytes appear at the old write index, in order.       *)
LEMMA WriteCopyStores ==
  ASSUME IInv, NEW t \in Writers, WriteCopy(t), intact'
  PROVE  /\ intact
         /\ \A i \in Index :
              buf'[i] = IF i \in call[t].idx .. call[t].idx + call[t].at - 1
                        THEN call[t].base + (i - call[t].idx) ELSE buf[i]
<1>1. t \in Threads /\ call[t] \in Calls
  BY DEF IInv, TypeOK, Threads
<1>2. PICK good \in Accessible(t, call[t].len) :
        /\ buf' = Stored(call[t], good)
        /\ intact' = (intact /\ Missed(call[t], good) = 0)
  BY DEF WriteCopy
<1>3. intact /\ Missed(call[t], good) = 0
  BY <1>2
<1>4. good \in Nat
  BY <1>1 DEF Accessible, Calls
<1>5. call[t].at \in Nat /\ call[t].idx \in Nat /\ call[t].base \in Nat
  BY <1>1 DEF Calls, Index
<1>6. call[t].start = 0
  BY <1>3 DEF IInv, PendingWrite, WriteCopy, Goto
<1>7. call[t].at <= good
  BY <1>3, <1>4, <1>5, <1>6 DEF Missed, UMin
<1> QED
  BY <1>2, <1>3, <1>4, <1>5, <1>6, <1>7 DEF Stored, Index

(* The bytes of a write arrive where the index said they would be.         *)
LEMMA WriteCopyData ==
  ASSUME IInv, TypeOK', Places', MutexHeld', NEW t \in Writers, WriteCopy(t)
  PROVE  Data'
<1> USE DEF IInv
<1>0. t \in Threads /\ call[t] \in Calls /\ pc[t] = "w_copy" /\ pc'[t] = "w_unlock"
  BY DEF TypeOK, WriteCopy, Goto, Threads
<1>1. UNCHANGED <<read_idx, write_idx, mx, put, got>>
  BY DEF WriteCopy
<1>2. \A u \in Threads : pc[u] \in Holding => u = t
  BY <1>0, OneHolder DEF Holding
<1>3. \A u \in Threads : pc'[u] \notin {"w_copy", "r_copy"}
  BY <1>0, <1>2 DEF WriteCopy, Goto, TypeOK, Holding
<1>4. WriteInBounds' /\ PendingWrite' /\ PendingRead'
  BY <1>3 DEF WriteInBounds, PendingWrite, PendingRead, Threads
<1> SUFFICES ASSUME intact'
             PROVE  NothingLost' /\ Contents'
  BY <1>4 DEF Data, NothingLost, Contents
<1>5. intact
  BY WriteCopyStores
<1>6. NothingLost'
  BY <1>1, <1>5 DEF NothingLost
<1> DEFINE base == call[t].base
           at   == call[t].at
           idx  == call[t].idx
<1>7. /\ base \in Nat /\ at \in Nat /\ idx \in Index /\ got \in Nat /\ put \in Nat
      /\ got <= base /\ base + at = put
      /\ idx = Pos(read_idx, base - got)
      /\ idx + at <= Size
  BY <1>0, <1>5 DEF PendingWrite, WriteInBounds, Calls, TypeOK
<1>8. read_idx \in Index /\ put - got < Size
  <2>1. read_idx \in Index /\ write_idx \in Index
    BY DEF TypeOK
  <2>2. Readable(read_idx, write_idx) < Size
    BY <2>1, RingAssumption DEF Readable, Index
  <2> QED
    BY <1>5, <2>1, <2>2 DEF NothingLost
<1>9. \A i \in Index : buf'[i] = IF i \in idx .. idx + at - 1
                                 THEN base + (i - idx) ELSE buf[i]
  BY WriteCopyStores
<1>10. Contents'
  <2> SUFFICES ASSUME NEW d \in 0 .. put - got - 1
               PROVE  buf'[Pos(read_idx, d)] = got + d
    BY <1>1 DEF Contents
  <2>0. Pos(read_idx, d) \in Index
    BY <1>7, <1>8, RingAssumption DEF Pos, Index
  <2>1. CASE got + d < base
    <3>1. Settled(got + d)
      BY <1>2, <2>1 DEF Settled, Threads, Holding
    <3>2. buf[Pos(read_idx, d)] = got + d
      BY <1>5, <3>1 DEF Contents
    <3>3. Pos(read_idx, d) \notin idx .. idx + at - 1
      BY <1>7, <1>8, <2>1, RingAssumption DEF Pos, Index
    <3> QED
      BY <1>9, <2>0, <3>2, <3>3
  <2>2. CASE base <= got + d
    <3>1. Pos(read_idx, d) = idx + (got + d - base)
      BY <1>7, <1>8, <2>2, RingAssumption DEF Pos, Index
    <3>2. Pos(read_idx, d) \in idx .. idx + at - 1
      BY <1>7, <2>2, <3>1 DEF Index
    <3> QED
      BY <1>7, <1>9, <2>0, <3>1, <3>2 DEF Index
  <2> QED
    BY <1>7, <2>1, <2>2
<1> QED
  BY <1>6, <1>10

(* The index step of a read: its bytes are the first ones of the ring, and *)
(* the ring then begins behind them.                                       *)
LEMMA ReadIndexData ==
  ASSUME IInv, TypeOK', Places', MutexHeld', NEW t \in Consumers, ReadIndex(t)
  PROVE  Data'
<1> DEFINE n     == call[t].len
           at    == ReadFromIdx(read_idx, write_idx, n)
           start == ReadFromStart(read_idx, write_idx, n)
<1> USE DEF IInv
<1>0. /\ t \in Threads /\ n \in Nat /\ put \in Nat /\ got \in Nat
      /\ read_idx \in Index /\ write_idx \in Index
  BY DEF TypeOK, Calls, Threads
<1>1. /\ mx' = t
      /\ read_idx' = Advance(read_idx, at + start)
      /\ call'[t] = [len |-> n, idx |-> read_idx, at |-> at, start |-> start,
                     dropped |-> n - at - start, base |-> got]
      /\ intact' = (intact /\ ReadContract(n))
      /\ got' = IF intact' THEN got + at + start ELSE got
      /\ write_idx' = write_idx /\ buf' = buf /\ put' = put
  BY <1>0 DEF ReadIndex, ReadSplit, Lock, TypeOK
<1>2. \A u \in Threads : pc'[u] \in {"w_copy", "r_copy"} => u = t
  BY <1>1 DEF MutexHeld, Holding
<1>3. \A u \in Threads : pc[u] \notin Holding
  BY RingBufferAssumption DEF MutexHeld, ReadIndex, Lock
<1>4. WriteInBounds' /\ PendingWrite'
  BY <1>2, RingBufferAssumption DEF WriteInBounds, PendingWrite, Threads
<1> SUFFICES ASSUME intact'
             PROVE  NothingLost' /\ PendingRead' /\ Contents'
  BY <1>4 DEF Data, NothingLost, PendingRead, Contents
<1>5. intact /\ ReadContract(n)
  BY <1>1
<1>6. /\ at \in 0 .. n /\ start = 0 /\ at <= Readable(read_idx, write_idx)
      /\ read_idx + at <= Size
      /\ Readable(Pos(read_idx, at), write_idx) = Readable(read_idx, write_idx) - at
  BY <1>0, <1>5, ContractReadChunks DEF ReadContract
<1>7. /\ got' = got + at
      /\ read_idx' = Pos(read_idx, at)
      /\ Readable(read_idx, write_idx) = put - got
  <2>1. at + start = at /\ at \in 0 .. Size
    BY <1>0, <1>6, RingAssumption DEF Index
  <2>2. Advance(read_idx, at + start) = Pos(read_idx, at)
    BY <1>0, <2>1, AdvanceIsPos
  <2>3. got' = got + at
    BY <1>0, <1>1, <1>6
  <2> QED
    BY <1>1, <1>5, <2>2, <2>3 DEF NothingLost
<1>8. NothingLost'
  BY <1>0, <1>1, <1>6, <1>7 DEF NothingLost
<1>9. put - got < Size
  BY <1>0, <1>7, RingAssumption DEF Readable, Index
<1>10. \A d \in 0 .. put - got - 1 : buf[Pos(read_idx, d)] = got + d
  BY <1>3, <1>5 DEF Contents, Settled, Holding, Threads
<1>11. PendingRead'
  <2>1. /\ call'[t].at = at /\ call'[t].len = n /\ call'[t].start = start
        /\ call'[t].base = got /\ call'[t].idx = read_idx
    BY <1>1
  <2>2. ASSUME NEW j \in 0 .. at - 1
        PROVE  buf[read_idx + j] = got + j
    <3>1. Pos(read_idx, j) = read_idx + j /\ j \in 0 .. put - got - 1
      BY <1>0, <1>6, <1>7, RingAssumption DEF Pos, Index
    <3> QED
      BY <1>10, <3>1
  <2> HIDE DEF at, start, n
  <2>3. ASSUME NEW u \in Consumers, pc'[u] = "r_copy"
        PROVE  u = t
    BY <1>2, <2>3 DEF Threads
  <2> QED
    BY <1>0, <1>1, <1>6, <1>7, <2>1, <2>2, <2>3 DEF PendingRead
<1>12. Contents'
  <2> HIDE DEF at, start, n
  <2> SUFFICES ASSUME NEW d \in 0 .. put - (got + at) - 1
               PROVE  buf[Pos(Pos(read_idx, at), d)] = (got + at) + d
    BY <1>1, <1>7 DEF Contents
  <2>1. Pos(Pos(read_idx, at), d) = Pos(read_idx, at + d)
    BY <1>0, <1>6, <1>9, RingAssumption DEF Pos, Index
  <2>2. at + d \in 0 .. put - got - 1
    BY <1>0, <1>6
  <2> QED
    BY <1>0, <1>6, <1>10, <2>1, <2>2
<1> QED
  BY <1>8, <1>11, <1>12

(* The copy step of a read leaves the ring alone.                          *)
LEMMA ReadCopyData ==
  ASSUME IInv, TypeOK', Places', MutexHeld', NEW t \in Consumers, ReadCopy(t)
  PROVE  Data'
<1> USE DEF IInv
<1>0. t \in Threads /\ pc[t] = "r_copy" /\ pc'[t] = "r_unlock"
  BY DEF TypeOK, ReadCopy, Goto, Threads
<1>1. /\ UNCHANGED <<read_idx, write_idx, buf, mx, put, got>>
      /\ intact' => intact
  BY DEF ReadCopy
<1>2. \A u \in Threads : pc[u] \in Holding => u = t
  BY <1>0, OneHolder DEF Holding
<1>3. \A u \in Threads : /\ pc'[u] \notin {"w_copy", "r_copy"}
                         /\ pc[u] # "w_copy"
  BY <1>0, <1>2 DEF ReadCopy, Goto, TypeOK, Holding
<1>4. WriteInBounds' /\ PendingWrite' /\ PendingRead'
  BY <1>3 DEF WriteInBounds, PendingWrite, PendingRead, Threads
<1>5. NothingLost'
  BY <1>1 DEF NothingLost
<1>6. Contents'
  BY <1>1, <1>3 DEF Contents, Settled, Threads
<1> QED
  BY <1>4, <1>5, <1>6 DEF Data

(* Every step of a writer preserves the invariant.                         *)
LEMMA WriteIInv ==
  ASSUME IInv, NEW t \in Writers, Write(t)
  PROVE  IInv'
<1>1. TypeOK' /\ Places' /\ MutexHeld'
  BY WriteTypeOK, WriteControl DEF IInv
<1>2. t \in Threads
  BY DEF Threads
<1>3. CASE WriteCall(t)
  BY <1>1, <1>2, <1>3, IdleData DEF WriteCall, Goto, hist, IInv, TypeOK, Data
<1>4. CASE WriteIndex(t)
  BY <1>1, <1>4, WriteIndexData DEF IInv, Data
<1>5. CASE WriteCopy(t)
  BY <1>1, <1>5, WriteCopyData DEF IInv, Data
<1>6. CASE WriteReturn(t)
  BY <1>1, <1>2, <1>6, IdleData DEF WriteReturn, Goto, hist, IInv, TypeOK, Data
<1> QED
  BY <1>3, <1>4, <1>5, <1>6 DEF Write

(* Every step of a consumer preserves it.                                  *)
LEMMA ReadIInv ==
  ASSUME IInv, NEW t \in Consumers,
         (t \in Readers /\ ReadCall(t)) \/ Read(t) \/ (t \in TxThreads /\ Query(t))
  PROVE  IInv'
<1>1. TypeOK' /\ Places' /\ MutexHeld'
  BY ReadTypeOK, ReadControl DEF IInv
<1>2. t \in Threads
  BY DEF Threads
<1>3. CASE ReadCall(t)
  BY <1>1, <1>2, <1>3, IdleData DEF ReadCall, Goto, hist, IInv, TypeOK, Data
<1>4. CASE ReadIndex(t)
  BY <1>1, <1>4, ReadIndexData DEF IInv, Data
<1>5. CASE ReadCopy(t)
  BY <1>1, <1>5, ReadCopyData DEF IInv, Data
<1>6. CASE ReadReturn(t)
  BY <1>1, <1>2, <1>6, IdleData DEF ReadReturn, Goto, hist, IInv, TypeOK, Data
<1>7. CASE QueryFirst(t)
  BY <1>1, <1>2, <1>7, IdleData DEF QueryFirst, Goto, hist, IInv, TypeOK, Data
<1>8. CASE QuerySecond(t)
  BY <1>1, <1>2, <1>8, IdleData DEF QuerySecond, Goto, hist, IInv, TypeOK, Data
<1> QED
  BY <1>3, <1>4, <1>5, <1>6, <1>7, <1>8 DEF Read, Query

(* The inductive invariant holds of every behaviour.                       *)
THEOREM Invariance == Spec => []IInv
<1>1. IInv /\ [Next]_vars => IInv'
  <2> SUFFICES ASSUME IInv, [Next]_vars PROVE IInv'
    OBVIOUS
  <2>1. CASE Next
    BY <2>1, WriteIInv, ReadIInv DEF Next, Consumers
  <2>2. CASE UNCHANGED vars
    BY <2>2 DEF vars, IInv, TypeOK, Places, MutexHeld, WriteInBounds, NothingLost,
                PendingWrite, PendingRead, Contents, Settled
  <2> QED
    BY <2>1, <2>2
<1> QED
  BY InitIInv, <1>1, PTL DEF Spec

(* No write ever leaves the ring, whatever the callers ask for.            *)
THEOREM WritesStayInBounds == Spec => []WriteInBounds
BY Invariance, PTL DEF IInv

(* As long as the contract is kept the two indices account for every byte. *)
THEOREM BytesAccountedFor == Spec => []NothingLost
BY Invariance, PTL DEF IInv

-----------------------------------------------------------------------------
(* The ring implements the FIFO.                                           *)

(* A thread that holds nothing and does not touch the mutex moves neither  *)
(* end of the FIFO.                                                        *)
LEMMA OutsideStutters ==
  ASSUME IInv, NEW t \in Threads, pc[t] \notin Holding, pc'[t] \notin Holding,
         UNCHANGED <<mx, put, got, dst, intact>>,
         \A u \in Threads \ {t} : pc'[u] = pc[u] /\ call'[u] = call[u]
  PROVE  UNCHANGED <<Sent, Taken, dst, intact>>
<1>1. mx # t
  BY DEF IInv, MutexHeld
<1>2. ASSUME mx \in Threads
      PROVE  pc'[mx] = pc[mx] /\ call'[mx] = call[mx]
  BY <1>1, <1>2
<1> QED
  BY <1>2 DEF Sent, Taken, Storing, Fetching, Threads

(* A write maps to Accept when it copies and to a stutter otherwise.       *)
LEMMA WriteRefines ==
  ASSUME IInv, IInv', NEW t \in Writers, Write(t), intact'
  PROVE  \/ \E n \in 0 .. Size - 1 : Fifo!Accept(n)
         \/ UNCHANGED <<Sent, Taken, dst, intact>>
<1>0. t \in Threads /\ t \notin Consumers /\ NoThread \notin Threads
  BY RingBufferAssumption DEF Threads
<1>1. CASE WriteCall(t)
  BY <1>0, <1>1, OutsideStutters DEF WriteCall, Goto, hist, Holding, IInv, TypeOK
<1>2. CASE WriteIndex(t)
  <2>1. /\ mx = NoThread /\ mx' = t /\ pc'[t] = "w_copy"
        /\ call'[t].base = put /\ got' = got /\ dst' = dst
        /\ intact
    BY <1>0, <1>2 DEF WriteIndex, Lock, Goto, IInv, TypeOK
  <2> QED
    BY <1>0, <2>1 DEF Sent, Taken, Storing, Fetching, Threads
<1>3. CASE WriteCopy(t)
  <2> DEFINE c == call[t]
  <2>1. /\ mx = t /\ mx' = t /\ pc[t] = "w_copy" /\ pc'[t] = "w_unlock"
        /\ put' = put /\ got' = got /\ dst' = dst /\ intact
    BY <1>0, <1>3 DEF WriteCopy, Goto, IInv, TypeOK, MutexHeld, Holding
  <2>2. Sent = c.base /\ Sent' = put /\ Taken = got /\ Taken' = got
    BY <1>0, <2>1 DEF Sent, Taken, Storing, Fetching
  <2>3. /\ c.base + c.at = put /\ got <= c.base
        /\ c.at \in Nat /\ c.base \in Nat /\ put \in Nat /\ got \in Nat
    BY <1>0, <2>1 DEF IInv, PendingWrite, TypeOK, Calls
  <2>4. put - got < Size
    <3>1. read_idx \in Index /\ write_idx \in Index
      BY DEF IInv, TypeOK
    <3>2. Readable(read_idx, write_idx) < Size
      BY <3>1, RingAssumption DEF Readable, Index
    <3> QED
      BY <2>1, <3>2 DEF IInv, NothingLost
  <2> HIDE DEF c
  <2>5. c.at \in 0 .. Size - 1 /\ (Sent - Taken) + c.at < Size /\ Sent' = Sent + c.at
    BY <2>2, <2>3, <2>4, RingAssumption
  <2> QED
    BY <2>1, <2>2, <2>5 DEF Fifo!Accept
<1>4. CASE WriteReturn(t)
  <2>1. /\ mx = t /\ mx' = NoThread /\ pc[t] = "w_unlock"
        /\ UNCHANGED <<put, got, dst, intact>>
    BY <1>0, <1>4 DEF WriteReturn, Unlock, Goto, hist, IInv, TypeOK, MutexHeld, Holding
  <2> QED
    BY <1>0, <2>1 DEF Sent, Taken, Storing, Fetching, Threads
<1> QED
  BY <1>1, <1>2, <1>3, <1>4 DEF Write

(* A read maps to Deliver when it copies and to a stutter otherwise.       *)
LEMMA ReadRefines ==
  ASSUME IInv, IInv', NEW t \in Consumers, intact',
         (t \in Readers /\ ReadCall(t)) \/ Read(t) \/ (t \in TxThreads /\ Query(t))
  PROVE  \/ \E n \in 0 .. DstLen : Fifo!Deliver(t, n)
         \/ UNCHANGED <<Sent, Taken, dst, intact>>
<1>0. t \in Threads /\ t \notin Writers /\ NoThread \notin Threads
  BY RingBufferAssumption DEF Threads
<1>1. CASE ReadCall(t)
  BY <1>0, <1>1, OutsideStutters DEF ReadCall, Goto, hist, Holding, IInv, TypeOK
<1>2. CASE ReadIndex(t)
  <2>1. /\ mx = NoThread /\ mx' = t /\ pc'[t] = "r_copy"
        /\ call'[t].base = got /\ put' = put /\ dst' = dst
        /\ intact
    BY <1>0, <1>2 DEF ReadIndex, ReadSplit, Lock, Goto, IInv, TypeOK
  <2> QED
    BY <1>0, <2>1 DEF Sent, Taken, Storing, Fetching, Threads
<1>3. CASE ReadCopy(t)
  <2> DEFINE c == call[t]
  <2>1. PICK good \in Accessible(t, c.len) :
          /\ dst' = [dst EXCEPT ![t] = Fetched(c, dst[t], good)]
          /\ intact' = (intact /\ Missed(c, good) = 0)
    BY <1>3 DEF ReadCopy
  <2>2. /\ mx = t /\ mx' = t /\ pc[t] = "r_copy" /\ pc'[t] = "r_unlock"
        /\ put' = put /\ got' = got
    BY <1>0, <1>3 DEF ReadCopy, Goto, IInv, TypeOK, MutexHeld, Holding
  <2>3. intact /\ Missed(c, good) = 0
    BY <2>1
  <2>4. Sent = put /\ Sent' = put /\ Taken = c.base /\ Taken' = got
    BY <1>0, <2>2 DEF Sent, Taken, Storing, Fetching
  <2>5. /\ c.at <= c.len /\ c.start = 0 /\ c.base + c.at = got
        /\ c.idx + c.at <= Size
        /\ \A j \in 0 .. c.at - 1 : buf[c.idx + j] = c.base + j
        /\ c.len <= DstLen
    BY <1>0, <2>2, <2>3 DEF IInv, PendingRead, Places
  <2>6. /\ c.at \in Nat /\ c.base \in Nat /\ c.len \in Nat /\ c.idx \in Nat
        /\ put \in Nat /\ got \in Nat
    <3>1. c \in Calls
      BY <1>0 DEF IInv, TypeOK
    <3>2. c.idx \in Nat
      BY <3>1 DEF Calls, Index
    <3> QED
      BY <3>1, <3>2 DEF Calls, IInv, TypeOK
  <2>7. good \in Nat
    BY <2>6 DEF Accessible
  <2> HIDE DEF c
  <2>8. c.at <= good
    BY <2>3, <2>5, <2>6, <2>7 DEF Missed, UMin
  <2>9. got <= put
    <3>1. read_idx \in Index /\ write_idx \in Index
      BY DEF IInv, TypeOK
    <3>2. Readable(read_idx, write_idx) >= 0
      BY <3>1, RingAssumption DEF Readable, Index
    <3> QED
      BY <2>3, <2>6, <3>2 DEF IInv, NothingLost
  <2>10. Fetched(c, dst[t], good) =
           [j \in 0 .. DstLen - 1 |-> IF j < c.at THEN c.base + j ELSE dst[t][j]]
    <3> SUFFICES ASSUME NEW j \in 0 .. DstLen - 1
                 PROVE  Fetched(c, dst[t], good)[j] =
                          IF j < c.at THEN c.base + j ELSE dst[t][j]
      BY RingBufferAssumption DEF Fetched, Dst
    <3>1. CASE j < c.at
      <4>1. c.idx + j \in Index /\ j \in 0 .. c.at - 1
        BY <2>5, <2>6, <3>1, RingAssumption, RingBufferAssumption DEF Index
      <4> QED
        BY <2>5, <2>6, <2>7, <2>8, <3>1, <4>1, RingBufferAssumption DEF Fetched, Dst
    <3>2. CASE ~(j < c.at)
      BY <2>5, <2>6, <2>7, <2>8, <3>2, RingBufferAssumption DEF Fetched, Dst
    <3> QED
      BY <3>1, <3>2
  <2>11. c.at \in 0 .. DstLen /\ Taken + c.at <= Sent /\ Taken' = Taken + c.at
    BY <2>4, <2>5, <2>6, <2>9, RingBufferAssumption
  <2> QED
    BY <2>1, <2>3, <2>4, <2>10, <2>11 DEF Fifo!Deliver
<1>4. CASE ReadReturn(t)
  <2>1. /\ mx = t /\ mx' = NoThread /\ pc[t] = "r_unlock"
        /\ UNCHANGED <<put, got, dst, intact>>
    BY <1>0, <1>4 DEF ReadReturn, Unlock, Goto, hist, IInv, TypeOK, MutexHeld, Holding
  <2> QED
    BY <1>0, <2>1 DEF Sent, Taken, Storing, Fetching, Threads
<1>5. CASE QueryFirst(t)
  BY <1>0, <1>5, OutsideStutters DEF QueryFirst, Goto, hist, Holding, IInv, TypeOK
<1>6. CASE QuerySecond(t)
  BY <1>0, <1>6, OutsideStutters DEF QuerySecond, hist, Holding, IInv, TypeOK
<1> QED
  BY <1>1, <1>2, <1>3, <1>4, <1>5, <1>6 DEF Read, Query

(* For every ring size, every set of threads and every length they ask     *)
(* for, the ring is a FIFO as long as its callers keep the contract.       *)
THEOREM RingIsFifo == Spec => ImplementsFifo
<1>1. Init => Fifo!Init
  BY RingBufferAssumption
  DEF Init, Fifo!Init, Sent, Taken, Storing, Fetching, Threads, Dst
<1>2. IInv /\ IInv' /\ [Next]_vars => [Fifo!Next]_(Fifo!fifoVars)
  <2> SUFFICES ASSUME IInv, IInv', [Next]_vars
               PROVE  Fifo!Next \/ UNCHANGED Fifo!fifoVars
    OBVIOUS
  <2>1. CASE UNCHANGED vars
    BY <2>1 DEF vars, Fifo!fifoVars, Sent, Taken, Storing, Fetching
  <2>2. CASE Next /\ intact' = FALSE
    BY <2>2 DEF Fifo!Next, Fifo!Broken
  <2>3. CASE Next /\ intact'
    BY <2>3, WriteRefines, ReadRefines DEF Next, Consumers, Fifo!Next, Fifo!fifoVars
  <2> QED
    BY <2>1, <2>2, <2>3 DEF IInv, TypeOK
<1> QED
  BY <1>1, <1>2, Invariance, PTL DEF Spec, Fifo!Spec, ImplementsFifo

-----------------------------------------------------------------------------
(* The unlocked query.                                                     *)

(* What the transceiver has seen is at most what is there: it is the only  *)
(* consumer, so that the read index stands still between its two loads.    *)
Seen ==
  intact => \A t \in TxThreads :
    /\ pc[t] = "q_write" => Readable(read_idx, call[t].idx) <= Readable(read_idx, write_idx)
    /\ pc[t] = "q_read" => call[t].idx = read_idx
    /\ pc[t] = "r_lock" => call[t].len <= Readable(read_idx, write_idx)

(* A step of a writer moves no consumer ...                                *)
LEMMA WriteLeavesTx ==
  ASSUME IInv, NEW t \in Writers, Write(t)
  PROVE  \A u \in TxThreads : pc'[u] = pc[u] /\ call'[u] = call[u]
<1>1. t \in Threads /\ \A u \in TxThreads : u \in Threads /\ u # t
  BY RingBufferAssumption DEF Threads, Consumers
<1>2. pc \in [Threads -> Steps] /\ call \in [Threads -> Calls]
  BY DEF IInv, TypeOK
<1> QED
  BY <1>1, <1>2 DEF Write, WriteCall, WriteIndex, WriteCopy, WriteReturn, Goto

(* ... and takes nothing away.                                             *)
LEMMA WriteOnlyAdds ==
  ASSUME IInv, IInv', NEW t \in Writers, Write(t), intact'
  PROVE  /\ intact
         /\ read_idx' = read_idx
         /\ Readable(read_idx, write_idx) <= Readable(read_idx, write_idx')
<1> USE DEF Goto, hist
<1>0. t \in Threads
  BY DEF Threads
<1>2. read_idx' = read_idx /\ (intact' => intact)
  BY DEF Write, WriteCall, WriteIndex, WriteCopy, WriteReturn
<1>4. put <= put'
  <2>1. call[t].len \in Nat /\ read_idx \in Index /\ write_idx \in Index /\ put \in Nat
    BY <1>0 DEF IInv, TypeOK, Calls
  <2>2. CASE WriteIndex(t)
    <3> DEFINE at    == WriteFromIdx(read_idx, write_idx, call[t].len)
               start == WriteFromStart(read_idx, write_idx, call[t].len)
    <3>1. put' = put \/ put' = put + at + start
      BY <2>2 DEF WriteIndex
    <3>2. at \in Nat /\ start \in Nat
      BY <2>1, WriteChunks
    <3> QED
      BY <2>1, <3>1, <3>2
  <2>3. CASE WriteCall(t) \/ WriteCopy(t) \/ WriteReturn(t)
    <3>1. put' = put
      BY <2>3 DEF WriteCall, WriteCopy, WriteReturn
    <3> QED
      BY <2>1, <3>1
  <2> QED
    BY <2>2, <2>3 DEF Write
<1>5. got' = got
  BY DEF Write, WriteCall, WriteIndex, WriteCopy, WriteReturn
<1>6. intact
  BY <1>2
<1>7. /\ Readable(read_idx, write_idx) = put - got
      /\ Readable(read_idx, write_idx') = put' - got
  BY <1>2, <1>5, <1>6 DEF IInv, NothingLost
<1>8. put \in Nat /\ put' \in Nat /\ got \in Nat
  BY DEF IInv, TypeOK
<1>9. Readable(read_idx, write_idx) <= Readable(read_idx, write_idx')
  <2>1. ASSUME NEW a \in Nat, NEW b \in Nat, NEW c \in Nat, a <= b
        PROVE  a - c <= b - c
    BY <2>1
  <2>2. put - got <= put' - got
    BY <1>4, <1>8, <2>1
  <2> QED
    BY <1>7, <2>2
<1> QED
  BY <1>2, <1>6, <1>9

(* What the transceiver has seen stays there, whoever moves.               *)
LEMMA SeenStep ==
  ASSUME Readers = {}, NEW tx, TxThreads = {tx}, IInv, IInv', Seen, [Next]_vars
  PROVE  Seen'
<1>0. Consumers = {tx} /\ tx \in Threads
  BY DEF Consumers, Threads
<1> SUFFICES ASSUME intact'
             PROVE  Seen'
  BY DEF Seen
<1>1. /\ read_idx \in Index /\ write_idx \in Index
      /\ call[tx] \in Calls /\ pc \in [Threads -> Steps] /\ call \in [Threads -> Calls]
      /\ read_idx' \in Index /\ write_idx' \in Index
  BY <1>0 DEF IInv, TypeOK
<1>2. ASSUME NEW i \in Index PROVE Readable(read_idx, i) \in Int
  BY <1>1, <1>2, RingAssumption DEF Readable, Index
<1>3. CASE UNCHANGED vars
  BY <1>3 DEF vars, Seen
<1>4. ASSUME NEW t \in Writers, Write(t) PROVE Seen'
  <2>1. /\ intact /\ read_idx' = read_idx
        /\ Readable(read_idx, write_idx) <= Readable(read_idx, write_idx')
        /\ pc'[tx] = pc[tx] /\ call'[tx] = call[tx]
    BY <1>4, WriteOnlyAdds, WriteLeavesTx
  <2>2. call[tx].idx \in Index /\ call[tx].len \in Nat
    BY <1>1 DEF Calls
  <2> QED
    BY <1>1, <1>2, <2>1, <2>2 DEF Seen
<1>5. CASE Read(tx)
  BY <1>0, <1>1, <1>5 DEF Seen, Read, ReadIndex, ReadCopy, ReadReturn, Goto
<1>6. CASE QueryFirst(tx)
  <2>1. /\ UNCHANGED <<read_idx, write_idx, intact>>
        /\ \/ pc'[tx] = "q_write" /\ call'[tx].idx = write_idx
           \/ pc'[tx] = "q_read" /\ call'[tx].idx = read_idx
    <3>1. UNCHANGED <<read_idx, write_idx, intact>>
      BY <1>6 DEF QueryFirst, hist
    <3>2. \/ pc'[tx] = "q_write" /\ call'[tx] = Locals(0, write_idx)
          \/ pc'[tx] = "q_read" /\ call'[tx] = Locals(0, read_idx)
      BY <1>0, <1>1, <1>6 DEF QueryFirst, Goto
    <3>3. \/ pc'[tx] = "q_write" /\ call'[tx].idx = write_idx
          \/ pc'[tx] = "q_read" /\ call'[tx].idx = read_idx
      BY <3>2 DEF Locals
    <3> QED
      BY <3>1, <3>3
  <2> QED
    BY <1>0, <1>1, <1>2, <2>1 DEF Seen
<1>7. CASE QuerySecond(tx)
  <2>1. intact
    BY <1>7 DEF QuerySecond, hist
  <2>2. PICK i \in Index :
          /\ Readable(read_idx, i) <= Readable(read_idx, write_idx)
          /\ call'[tx].len = TxLen(Readable(read_idx, i))
    <3>1. CASE pc[tx] = "q_write"
      BY <1>0, <1>1, <1>7, <2>1, <3>1 DEF QuerySecond, Seen, Locals, Calls
    <3>2. CASE pc[tx] = "q_read"
      BY <1>0, <1>1, <1>2, <1>7, <2>1, <3>2 DEF QuerySecond, Seen, Locals, Calls
    <3> QED
      BY <1>7, <3>1, <3>2 DEF QuerySecond
  <2>3. TxLen(Readable(read_idx, i)) <= Readable(read_idx, i)
    BY <1>1, TxLenBound
  <2>4. call'[tx].len <= Readable(read_idx, write_idx)
    BY <1>1, <1>2, <2>2, <2>3, TxLenBound
  <2>5. pc'[tx] \in {"r_lock", "idle"} /\ UNCHANGED <<read_idx, write_idx, intact>>
    BY <1>0, <1>1, <1>7 DEF QuerySecond, hist
  <2> QED
    BY <2>4, <2>5 DEF Seen
<1> QED
  BY <1>0, <1>3, <1>4, <1>5, <1>6, <1>7 DEF Next, Query

(* The transceiver computes how much to read without the mutex.  If it is  *)
(* the only consumer of the ring, as it is in the driver, then whatever    *)
(* the writers do in between, that many bytes are there when it gets the   *)
(* mutex.                                                                  *)
THEOREM EstimateIsSafe ==
  ASSUME Readers = {}, NEW tx, TxThreads = {tx}
  PROVE  Spec => []TxReadsWhatIsThere
<1>1. Init => Seen
  BY DEF Init, Seen, Threads, Consumers
<1>2. IInv /\ IInv' /\ Seen /\ [Next]_vars => Seen'
  BY SeenStep
<1>3. Seen => TxReadsWhatIsThere
  BY DEF Seen, TxReadsWhatIsThere
<1> QED
  BY <1>1, <1>2, <1>3, Invariance, PTL DEF Spec

-----------------------------------------------------------------------------
(* The device drives the ring: whatever a file does is a step of it.       *)
LEMMA DeviceStep == [DevNext]_devVars => [Next]_vars
BY DEF DevNext, DevWrite, DevRead, Next, Write, Read, Query, Consumers, devVars

(* The calls of the character device use the ring only as its own threads  *)
(* may, so that everything that is proved of the ring holds of it there.   *)
THEOREM DeviceDrivesRing == DevSpec => Spec
<1>1. DevInit => Init
  BY DEF DevInit
<1> QED
  BY <1>1, DeviceStep, PTL DEF DevSpec, Spec

(* As long as the contract is kept a write call, once it has its chunks,   *)
(* stores all it was asked to.                                             *)
WholeWrites ==
  intact => \A t \in Writers : pc[t] \in {"w_copy", "w_unlock"} =>
    /\ call[t].dropped = 0
    /\ call[t].at + call[t].start = call[t].len

(* What each file has moved over or still holds.                           *)
Share == [t \in Writers |-> offset[t] + Underway(t)]

DevInv ==
  /\ offset \in [Writers \cup Readers -> Int]
  /\ WholeWrites
  /\ intact => put = Total(Share, Writers)

(* The sum in the property is the sum of the shares.                       *)
LEMMA SharesAddUp ==
  MapThenSumSet(LAMBDA t : offset[t] + Underway(t), Writers) = Total(Share, Writers)
<1> DEFINE Body(g) == [s \in SUBSET Writers |->
                        IF s = {} THEN 0
                        ELSE offset[Pick(s)] + Underway(Pick(s)) + g[s \ {Pick(s)}]]
           it == CHOOSE g : g = Body(g)
<1>1. MapThenSumSet(LAMBDA t : offset[t] + Underway(t), Writers) = it[Writers]
  BY Zenon DEF MapThenSumSet, MapThenFoldSet, Pick
<1>2. \A g : Body(g) = [s \in SUBSET Writers |->
                         IF s = {} THEN 0 ELSE Share[Pick(s)] + g[s \ {Pick(s)}]]
  BY PickIn DEF Share
<1>3. \A g : g = Body(g) <=> IsSum(Share, Writers, g)
  BY <1>2 DEF IsSum
<1> HIDE DEF Body
<1>4. \E g : g = Body(g)
  BY <1>3, SumExists, CharDeviceAssumption
<1>5. it = Body(it)
  BY <1>4, Zenon
<1>6. IsSum(Share, Writers, it)
  BY <1>3, <1>5
<1> HIDE DEF it
<1> QED
  BY <1>1, <1>6, TotalIs, CharDeviceAssumption

(* The ring took another n bytes if one share grew by that much.           *)
LEMMA ShareMoves ==
  ASSUME IInv, DevInv, intact, NEW t \in Writers, NEW n \in Int,
         put' = put + n,
         offset'[t] + Underway(t)' = offset[t] + Underway(t) + n,
         \A u \in Writers \ {t} : offset'[u] = offset[u] /\ Underway(u)' = Underway(u)
  PROVE  put' = Total(Share', Writers)
<1>1. \A u \in Writers : Share[u] \in Int
  <2> SUFFICES ASSUME NEW u \in Writers PROVE offset[u] + Underway(u) \in Int
    BY DEF Share
  <2>1. call[u] \in Calls /\ offset[u] \in Int
    BY DEF IInv, TypeOK, Threads, DevInv
  <2> QED
    BY <2>1 DEF Underway, Calls
<1>2. Share'[t] = Share[t] + n /\ \A u \in Writers \ {t} : Share'[u] = Share[u]
  BY DEF Share
<1>3. Total(Share', Writers) = Total(Share, Writers) + n
  BY <1>1, <1>2, TotalChange, CharDeviceAssumption
<1> QED
  BY <1>3 DEF DevInv

(* A step that moves no share.                                             *)
LEMMA SharesStand ==
  ASSUME DevInv, put' = put, intact' => intact,
         \A u \in Writers : offset'[u] = offset[u] /\ Underway(u)' = Underway(u)
  PROVE  intact' => put' = Total(Share', Writers)
<1>1. Share' = Share
  BY DEF Share
<1> QED
  BY <1>1 DEF DevInv

(* A step of a writing file.                                               *)
LEMMA DevWriteInv ==
  ASSUME IInv, IInv', DevInv, NEW t \in Writers, DevWrite(t)
  PROVE  DevInv'
<1> USE DEF Goto, hist
<1>0. /\ t \in Threads /\ t \in Writers \cup Readers
      /\ \A u \in Writers : u \in Threads
      /\ pc \in [Threads -> Steps] /\ call \in [Threads -> Calls]
      /\ offset \in [Writers \cup Readers -> Int]
      /\ call[t] \in Calls /\ put \in Nat
  BY DEF IInv, TypeOK, Threads, DevInv
<1>1. ASSUME NEW u \in Writers, u # t
      PROVE  pc'[u] = pc[u] /\ call'[u] = call[u] /\ offset'[u] = offset[u]
  BY <1>0, <1>1
  DEF DevWrite, WriteCall, WriteIndex, WriteCopy, WriteReturn, MoveOffset
<1>2. \A u \in Writers \ {t} : offset'[u] = offset[u] /\ Underway(u)' = Underway(u)
  BY <1>1 DEF Underway
<1>3. intact' => intact
  BY DEF DevWrite, WriteCall, WriteIndex, WriteCopy, WriteReturn
<1>4. ASSUME intact' =>
               /\ pc'[t] \in {"w_copy", "w_unlock"} =>
                    /\ call'[t].dropped = 0
                    /\ call'[t].at + call'[t].start = call'[t].len
               /\ put' = Total(Share', Writers),
             offset' \in [Writers \cup Readers -> Int]
      PROVE  DevInv'
  BY <1>1, <1>3, <1>4 DEF DevInv, WholeWrites
<1>5. CASE WriteCall(t) /\ UNCHANGED offset
  <2>1. put' = put /\ pc'[t] = "w_lock" /\ pc[t] = "idle" /\ offset' = offset
    BY <1>0, <1>5 DEF WriteCall
  <2>2. Underway(t)' = Underway(t)
    BY <2>1 DEF Underway
  <2> QED
    BY <1>0, <1>2, <1>3, <1>4, <2>1, <2>2, SharesStand
<1>6. CASE WriteIndex(t) /\ UNCHANGED offset
  <2> DEFINE n     == call[t].len
             at    == WriteFromIdx(read_idx, write_idx, n)
             start == WriteFromStart(read_idx, write_idx, n)
  <2>1. /\ pc[t] = "w_lock" /\ pc'[t] = "w_copy" /\ offset' = offset
        /\ call'[t] = [len |-> n, idx |-> write_idx, at |-> at, start |-> start,
                       dropped |-> n - at - start, base |-> put]
        /\ intact' = (intact /\ WriteContract(n))
        /\ put' = IF intact' THEN put + at + start ELSE put
    BY <1>0, <1>6 DEF WriteIndex
  <2>2. n \in Nat /\ read_idx \in Index /\ write_idx \in Index
    BY <1>0 DEF Calls, IInv, TypeOK
  <2>3. at \in Nat /\ start \in Nat
    BY <2>2, WriteChunks
  <2> SUFFICES ASSUME intact' PROVE DevInv'
    BY <1>0, <1>4, <2>1
  <2>4. at = n /\ start = 0
    BY <2>1, <2>2, ContractWriteChunks DEF WriteContract
  <2>5. /\ call'[t].dropped = n - at - start /\ call'[t].at = at
        /\ call'[t].start = start /\ call'[t].len = n
    BY <2>1
  <2> HIDE DEF n, at, start
  <2>6. Underway(t) = 0 /\ Underway(t)' = at + start
    BY <2>1, <2>5 DEF Underway
  <2>7. put' = put + (at + start) /\ at + start \in Int
    BY <1>0, <2>1, <2>3
  <2>8. offset'[t] + Underway(t)' = offset[t] + Underway(t) + (at + start)
    BY <1>0, <2>1, <2>3, <2>6
  <2>9. put' = Total(Share', Writers)
    BY <1>2, <1>3, <2>7, <2>8, ShareMoves
  <2> QED
    BY <1>0, <1>4, <2>1, <2>2, <2>4, <2>5, <2>9
<1>7. CASE WriteCopy(t) /\ UNCHANGED offset
  <2>1. PICK good \in Accessible(t, call[t].len) :
          /\ call' = [call EXCEPT ![t].dropped = @ + Missed(call[t], good)]
          /\ intact' = (intact /\ Missed(call[t], good) = 0)
    BY <1>7 DEF WriteCopy
  <2>2. pc[t] = "w_copy" /\ pc'[t] = "w_unlock" /\ put' = put /\ offset' = offset
    BY <1>0, <1>7 DEF WriteCopy
  <2>3. /\ call'[t].at = call[t].at /\ call'[t].start = call[t].start
        /\ call'[t].len = call[t].len
        /\ call'[t].dropped = call[t].dropped + Missed(call[t], good)
    BY <1>0, <2>1 DEF Calls
  <2>4. Underway(t)' = Underway(t)
    BY <2>2, <2>3 DEF Underway
  <2>5. intact' => put' = Total(Share', Writers)
    BY <1>2, <1>3, <2>2, <2>4, SharesStand
  <2>6. intact' => /\ call'[t].dropped = 0
                   /\ call'[t].at + call'[t].start = call'[t].len
    <3> SUFFICES ASSUME intact'
                 PROVE  /\ call'[t].dropped = 0
                        /\ call'[t].at + call'[t].start = call'[t].len
      OBVIOUS
    <3>1. Missed(call[t], good) = 0
      BY <2>1
    <3>2. call[t].dropped = 0 /\ call[t].at + call[t].start = call[t].len
      BY <1>3, <2>2 DEF DevInv, WholeWrites
    <3> QED
      BY <2>3, <3>1, <3>2
  <2> QED
    BY <1>0, <1>4, <2>2, <2>5, <2>6
<1>8. CASE MoveOffset(t, WriteReply(call[t])) /\ WriteReturn(t)
  <2>1. /\ pc[t] = "w_unlock" /\ pc'[t] = "idle" /\ put' = put
        /\ offset' = [offset EXCEPT ![t] = @ + WriteReply(call[t])]
    BY <1>0, <1>8 DEF WriteReturn, MoveOffset
  <2>2. WriteReply(call[t]) \in Int
    BY <1>0 DEF WriteReply, Calls
  <2>3. offset' \in [Writers \cup Readers -> Int]
    BY <1>0, <2>1, <2>2
  <2> SUFFICES ASSUME intact' PROVE put' = Total(Share', Writers)
    BY <1>4, <2>1, <2>3
  <2>4. /\ call[t].dropped = 0
        /\ call[t].at + call[t].start = call[t].len
    BY <1>3, <2>1 DEF DevInv, WholeWrites
  <2>5. /\ Underway(t) = call[t].len /\ Underway(t)' = 0
        /\ offset'[t] = offset[t] + call[t].len
    BY <1>0, <2>1, <2>4 DEF Underway, WriteReply
  <2>6. offset[t] \in Int /\ call[t].len \in Int
    BY <1>0 DEF Calls
  <2>7. put' = put + 0 /\ offset'[t] + Underway(t)' = offset[t] + Underway(t) + 0
    BY <1>0, <2>1, <2>5, <2>6
  <2> QED
    BY <1>2, <1>3, <2>7, ShareMoves
<1> QED
  BY <1>5, <1>6, <1>7, <1>8 DEF DevWrite

(* A step of a reading file or of the transceiver.                         *)
LEMMA DevConsumeInv ==
  ASSUME IInv, DevInv, NEW t \in Consumers,
         \/ t \in Readers /\ DevRead(t)
         \/ t \in TxThreads /\ (Query(t) \/ Read(t)) /\ UNCHANGED offset
  PROVE  DevInv'
<1> USE DEF Goto, hist
<1>0. /\ t \in Threads /\ t \notin Writers
      /\ \A u \in Writers : u \in Threads
      /\ pc \in [Threads -> Steps] /\ call \in [Threads -> Calls]
      /\ offset \in [Writers \cup Readers -> Int]
      /\ call[t] \in Calls
  BY RingBufferAssumption DEF IInv, TypeOK, Threads, DevInv
<1>1. ASSUME NEW u \in Writers
      PROVE  pc'[u] = pc[u] /\ call'[u] = call[u] /\ offset'[u] = offset[u]
  BY <1>0, <1>1
  DEF DevRead, Read, Query, ReadCall, ReadIndex, ReadCopy, ReadReturn, QueryFirst,
      QuerySecond, MoveOffset
<1>2. put' = put /\ (intact' => intact)
  <2>1. put' = put
    BY DEF DevRead, Read, Query, ReadCall, ReadIndex, ReadCopy, ReadReturn, QueryFirst,
           QuerySecond
  <2>2. intact' => intact
    BY DEF DevRead, Read, Query, ReadCall, ReadIndex, ReadCopy, ReadReturn, QueryFirst,
           QuerySecond
  <2> QED
    BY <2>1, <2>2
<1>3. intact' => put' = Total(Share', Writers)
  <2>1. \A u \in Writers : Underway(u)' = Underway(u)
    BY <1>1 DEF Underway
  <2> QED
    BY <1>1, <1>2, <2>1, SharesStand
<1>4. offset' \in [Writers \cup Readers -> Int]
  <2>1. ReadReply(call[t]) \in Int
    BY <1>0 DEF ReadReply, Calls
  <2>2. \/ offset' = offset
        \/ offset' = [offset EXCEPT ![t] = @ + ReadReply(call[t])]
    BY DEF DevRead, MoveOffset
  <2> QED
    BY <1>0, <2>1, <2>2
<1> QED
  BY <1>1, <1>2, <1>3, <1>4 DEF DevInv, WholeWrites

(* Whatever the size of the ring, the files that share it and the lengths  *)
(* they write, and however their calls interleave: as long as the contract *)
(* is kept, the offsets of the writing files and the calls that hold the   *)
(* mutex add up to what the ring took.                                     *)
THEOREM OffsetsAddUp == DevSpec => []OffsetsAccount
<1>1. DevInit => DevInv
  <2> SUFFICES ASSUME DevInit PROVE DevInv
    OBVIOUS
  <2>1. /\ offset = [t \in Writers \cup Readers |-> 0] /\ put = 0
        /\ \A t \in Writers : pc[t] = "idle"
    BY DEF DevInit, Init, Threads
  <2>2. \A t \in Writers : Share[t] = 0
    BY <2>1 DEF Share, Underway
  <2>3. Total(Share, Writers) = 0
    BY <2>2, TotalZero, CharDeviceAssumption
  <2> QED
    BY <2>1, <2>3 DEF DevInv, WholeWrites
<1>2. IInv /\ IInv' /\ DevInv /\ [DevNext]_devVars => DevInv'
  <2> SUFFICES ASSUME IInv, IInv', DevInv, [DevNext]_devVars PROVE DevInv'
    OBVIOUS
  <2>1. CASE UNCHANGED devVars
    <3>1. offset' = offset /\ pc' = pc /\ call' = call /\ put' = put /\ intact' = intact
      BY <2>1 DEF devVars, vars
    <3>2. Share' = Share
      BY <3>1 DEF Share, Underway
    <3> QED
      BY <3>1, <3>2 DEF DevInv, WholeWrites
  <2>2. CASE DevNext
    BY <2>2, DevWriteInv, DevConsumeInv DEF DevNext, Consumers
  <2> QED
    BY <2>1, <2>2
<1>3. DevInv => OffsetsAccount
  BY SharesAddUp DEF DevInv, OffsetsAccount
<1>4. DevSpec => []IInv
  BY DeviceDrivesRing, Invariance, PTL
<1> QED
  BY <1>1, <1>2, <1>3, <1>4, PTL DEF DevSpec

=============================================================================
