------------------------------ MODULE BufferProofs ------------------------------
(***************************************************************************)
(* Theorems about utils/buffer.c for a buffer of any size and any set of   *)
(* threads.  TypeOK and what follows from it hold however they write,      *)
(* reserve, read and reset.  Orderly is the invariant of an orderly use,   *)
(* one call at a time but for the readers.  The last section is about a    *)
(* buffer with one writer, the way utils/dualbuffer.c uses its two.        *)
(***************************************************************************)
EXTENDS Buffer, TLAPS

USE DEF Steps, Changing, Claiming, Claimed, Publishing, Resetting, Syncing

(* A step of a thread in the buffer, whoever has called it: a write, ...   *)
Begins(t) == \E r \in BOOLEAN : BeginWrite(t, r)

(* ... or a reset, a sync or a read.                                       *)
Waits(t) == BeginReset(t) \/ Reset(t) \/ BeginSync(t) \/ Sync(t)
BufferStep(t) == Begins(t) \/ Write(t) \/ Waits(t) \/ BeginRead(t) \/ ReadCopy(t)

(* The specification takes no other.                                       *)
LEMMA NextIsStep ==
  ASSUME Next
  PROVE  \E t \in Threads : BufferStep(t)
BY DEF Next, BufferStep, Begins, Waits, WriteCall, ResetCall, SyncCall, ReadCall

-----------------------------------------------------------------------------
(* Types.                                                                  *)

(* A call that got part of what it asked for dropped the rest of it.       *)
LEMMA DroppedType ==
  ASSUME NEW start \in Nat, NEW n \in Nat
  PROVE  /\ Dropped(start, n) \in 0 .. n
         /\ n - Dropped(start, n) \in Nat
         /\ Dropped(start, n) # n => start + (n - Dropped(start, n)) <= Size
<1>1. Size \in Nat \ {0}  BY BufferAssumption
<1> QED BY <1>1 DEF Dropped, Least

(* A write call changes the counters, the buffer and its own locals within *)
(* their types.                                                            *)
LEMMA WriteType ==
  ASSUME TypeOK, NEW t \in Threads, Begins(t) \/ Write(t)
  PROVE  TypeOK'
<1> USE DEF TypeOK, Go, counts, hist, Lock
<1>0. NoCall \in Calls /\ call[t] \in Calls
  BY DEF Calls, NoCall, Asked
<1>1. CASE Begins(t)
  <2>1. PICK n \in Lens, r \in BOOLEAN : call' = [call EXCEPT ![t] = Asked(n, r)]
    BY <1>1 DEF Begins, BeginWrite
  <2>2. n \in Nat /\ r \in BOOLEAN  BY BufferAssumption
  <2>3. Asked(n, r) \in Calls
    BY <2>2 DEF Calls, Asked
  <2>4. call' \in [Threads -> Calls]  BY <2>1, <2>3
  <2>5. pc' \in [Threads -> Steps] /\ intact' \in BOOLEAN
    BY <1>1 DEF Begins, BeginWrite, Undisturbed
  <2> QED BY <1>1, <2>4, <2>5 DEF Begins, BeginWrite
<1>2. CASE Claim(t)
  <2>1. call[t].len \in Nat /\ write_off \in Nat  BY <1>0 DEF Calls
  <2> DEFINE w == call[t].len - Dropped(write_off, call[t].len)
             c == [call[t] EXCEPT !.start = write_off, !.writable = w]
  <2>2. w \in Nat
    BY <2>1, DroppedType
  <2> HIDE DEF w
  <2>3. c \in Calls
    BY <1>0, <2>1, <2>2 DEF Calls
  <2>4. call' = [call EXCEPT ![t] = c]
    BY <1>2 DEF Claim, w
  <2> HIDE DEF c
  <2>5. call' \in [Threads -> Calls]
    BY <2>3, <2>4
  <2>6. write_off' \in Nat /\ pc' \in [Threads -> Steps]  BY <1>2, <2>1 DEF Claim
  <2> QED BY <1>2, <2>5, <2>6 DEF Claim
<1>3. CASE Copy(t)
  <2>1. buf' \in [Index -> Nat]  BY <1>3 DEF Copy
  <2>2. pc' \in [Threads -> Steps] /\ intact' \in BOOLEAN
    BY <1>3 DEF Copy
  <2> QED BY <1>3, <2>1, <2>2 DEF Copy
<1>4. CASE Count(t)
  <2>1. call[t].writable \in Nat  BY <1>0 DEF Calls
  <2> QED BY <1>4, <2>1 DEF Count
<1>5. CASE LoadTmp(t)
  <2> DEFINE c == [call[t] EXCEPT !.tmp = n_bytes_written_tmp]
  <2>0. c \in Calls  BY <1>0 DEF Calls
  <2>1. call' \in [Threads -> Calls]  BY <1>5, <2>0 DEF LoadTmp
  <2> QED BY <1>5, <2>1 DEF LoadTmp
<1>6. CASE AddWritten(t)
  <2>1. call[t].tmp \in Nat  BY <1>0 DEF Calls
  <2> QED BY <1>6, <2>1 DEF AddWritten
<1>7. CASE ClearTmp(t) \/ WaitForGroup(t) \/ Refuse(t)
  <2>1. CASE ClearTmp(t)  BY <1>0, <2>1 DEF ClearTmp
  <2>2. CASE WaitForGroup(t)  BY <1>0, <2>2 DEF WaitForGroup
  <2>3. CASE Refuse(t)  BY <1>0, <2>3 DEF Refuse
  <2> QED BY <1>7, <2>1, <2>2, <2>3
<1>8. CASE Enter(t) \/ LockFirst(t) \/ Leave(t) \/ Unlock(t)
  <2>1. CASE Enter(t)  BY <2>1 DEF Enter
  <2>2. CASE LockFirst(t)  BY <2>2 DEF LockFirst
  <2>3. CASE Leave(t)  BY <2>3 DEF Leave
  <2>4. CASE Unlock(t)  BY <2>4 DEF Unlock
  <2> QED BY <1>8, <2>1, <2>2, <2>3, <2>4
<1> QED
  BY <1>1, <1>2, <1>3, <1>4, <1>5, <1>6, <1>7, <1>8 DEF Write

(* A read is given bytes that are published, or none.                      *)
LEMMA ReadHolds ==
  ASSUME TypeOK, NEW t \in Threads, BeginRead(t)
  PROVE  \E off \in Nat, n \in Nat : off + n <= n_bytes_written /\ Hold(t, off, n)
<1>0. n_bytes_written \in Nat
  BY DEF TypeOK
<1>1. CASE BeginCopy(t)
  <2>1. PICK off \in Index, n \in Lens :
          off < n_bytes_written /\ Hold(t, off, Least(n_bytes_written - off, n))
    BY <1>1 DEF BeginCopy
  <2>2. off \in Nat /\ n \in Nat
    BY BufferAssumption DEF Index
  <2>3. /\ Least(n_bytes_written - off, n) \in Nat
        /\ off + Least(n_bytes_written - off, n) <= n_bytes_written
    BY <1>0, <2>1, <2>2 DEF Least
  <2> QED BY <2>1, <2>2, <2>3
<1>2. CASE Hold(t, 0, 0)
  BY <1>0, <1>2
<1> QED
  BY <1>1, <1>2 DEF BeginRead

(* So do a reset, a sync and a read.                                       *)
LEMMA OtherType ==
  ASSUME TypeOK, NEW t \in Threads, Waits(t) \/ BeginRead(t) \/ ReadCopy(t)
  PROVE  TypeOK'
<1> USE DEF TypeOK, Go, counts, hist, Lock
<1>0. NoCall \in Calls
  BY DEF Calls, NoCall, Asked
<1>1. CASE BeginReset(t)
  BY <1>1, BufferAssumption DEF BeginReset, Undisturbed
<1>2. CASE Reset(t)
  <2>1. CASE CheckWriters(t)  BY <2>1 DEF CheckWriters
  <2>2. CASE DrainWriters(t)  BY <2>2 DEF DrainWriters
  <2>3. CASE ResetOff(t)  BY <2>3 DEF ResetOff
  <2>4. CASE ResetWritten(t)  BY <2>4 DEF ResetWritten
  <2>5. CASE ResetTmp(t)  BY <2>5 DEF ResetTmp
  <2> QED BY <1>2, <2>1, <2>2, <2>3, <2>4, <2>5 DEF Reset
<1>3. CASE BeginRead(t)
  <2>1. PICK off \in Nat, n \in Nat : Hold(t, off, n)
    BY <1>3, ReadHolds
  <2>2. call' \in [Threads -> Calls]
    BY <2>1 DEF Hold, Calls
  <2>3. pc' \in [Threads -> Steps]  BY <2>1 DEF Hold, Steps
  <2> QED BY <2>1, <2>2, <2>3 DEF Hold
<1>4. CASE ReadCopy(t)
  BY <1>0, <1>4 DEF ReadCopy
<1>5. CASE BeginSync(t)
  BY <1>5 DEF BeginSync, Undisturbed
<1>6. CASE Sync(t)
  <2>1. CASE SyncCheck(t)  BY <2>1 DEF SyncCheck
  <2>2. CASE SyncDrain(t)  BY <2>2 DEF SyncDrain
  <2> QED BY <1>6, <2>1, <2>2 DEF Sync
<1> QED
  BY <1>1, <1>2, <1>3, <1>4, <1>5, <1>6 DEF Waits

(* A step of any caller keeps the types.                                   *)
LEMMA StepType ==
  ASSUME TypeOK, NEW t \in Threads, BufferStep(t)
  PROVE  TypeOK'
BY WriteType, OtherType DEF BufferStep

(* So does a step of somebody else.                                        *)
LEMMA StutterType ==
  ASSUME TypeOK, UNCHANGED vars
  PROVE  TypeOK'
BY DEF TypeOK, vars, counts, hist

(* The variables are declared with values of their types.                  *)
LEMMA InitType == Init => TypeOK
<1>1. NoCall \in Calls  BY DEF Calls, NoCall, Asked
<1>2. Init => call \in [Threads -> Calls]  BY <1>1 DEF Init
<1>3. Init => buf \in [Index -> Nat]  BY DEF Init
<1>4. Init => pc \in [Threads -> Steps]  BY DEF Init
<1>5. Init => /\ write_off \in Nat /\ n_bytes_written \in Nat
              /\ n_bytes_written_tmp \in Nat /\ n_active_writters \in Int
              /\ epoch \in Nat /\ resets \in Nat
  BY DEF Init
<1>6. Init => mlock \in BOOLEAN /\ intact \in BOOLEAN  BY DEF Init
<1> QED BY <1>2, <1>3, <1>4, <1>5, <1>6 DEF TypeOK

(* Every variable of the buffer keeps its type, whatever the callers do.   *)
THEOREM TypeCorrect == Spec => []TypeOK
<1>1. TypeOK /\ [Next]_vars => TypeOK'
  BY NextIsStep, StepType, StutterType
<1> QED
  BY InitType, <1>1, PTL DEF Spec

-----------------------------------------------------------------------------
(* The ranges of the writers.                                              *)

End(t) == call[t].start + call[t].writable

(* Before the first reset nobody resets, every range that was claimed ends *)
(* in the buffer and at or before write_off, and of two ranges one ends    *)
(* before the other begins.                                                *)
ClaimInv ==
  /\ (\E t \in Threads : pc[t] \in Resetting) => resets > 0
  /\ resets = 0 => \A t \in Threads : pc[t] \in Claimed =>
       /\ End(t) <= write_off
       /\ call[t].writable > 0 => End(t) <= Size
       /\ \A u \in Threads \ {t} : pc[u] \in Claimed =>
            End(t) <= call[u].start \/ End(u) <= call[t].start

(* A step of one thread that claims nothing: a range it has afterwards it  *)
(* had before.                                                             *)
Idles(t) ==
  /\ \E from \in Steps, to \in Steps :
       /\ Go(t, from, to)
       /\ to \in Claimed => from \in Claimed /\ call' = call
       /\ to \in Resetting => from \in Resetting \/ resets' > 0
       /\ from \in Resetting => resets' = resets
  /\ \A u \in Threads \ {t} : call'[u] = call[u]
  /\ write_off' >= write_off \/ resets' > 0 \/ pc[t] \in Resetting
  /\ resets' \in Nat /\ resets' >= resets

(* All steps but Claim are of that kind.                                   *)
LEMMA MostIdle ==
  ASSUME TypeOK, NEW t \in Threads,
         Begins(t) \/ Write(t) \/ Waits(t) \/ BeginRead(t) \/ ReadCopy(t)
  PROVE  Idles(t) \/ Claim(t)
<1> USE DEF Idles, Go, counts, hist
<1>0. call \in [Threads -> Calls] /\ write_off \in Nat /\ resets \in Nat
  BY DEF TypeOK
<1>1. CASE Begins(t)
  BY <1>0, <1>1 DEF Begins, BeginWrite
<1>2. CASE Enter(t) \/ LockFirst(t) \/ Count(t) \/ Refuse(t) \/ Copy(t)
  BY <1>0, <1>2 DEF Enter, LockFirst, Count, Refuse, Copy
<1>3. CASE Leave(t) \/ Unlock(t) \/ LoadTmp(t) \/ AddWritten(t) \/ ClearTmp(t) \/ WaitForGroup(t)
  <2>1. CASE LoadTmp(t)
    <3>1. call' = [call EXCEPT ![t] = [call[t] EXCEPT !.tmp = n_bytes_written_tmp]]
      BY <2>1 DEF LoadTmp
    <3> QED BY <1>0, <2>1, <3>1 DEF LoadTmp
  <2>2. CASE Leave(t) \/ Unlock(t) \/ AddWritten(t) \/ ClearTmp(t) \/ WaitForGroup(t)
    BY <1>0, <2>2 DEF Leave, Unlock, AddWritten, ClearTmp, WaitForGroup
  <2> QED BY <1>3, <2>1, <2>2
<1>4. CASE BeginReset(t)
  <2>1. write_off' = Size /\ resets' = resets + 1  BY <1>4 DEF BeginReset
  <2> QED BY <1>0, <1>4, <2>1 DEF BeginReset
<1>5. CASE Reset(t)
  BY <1>0, <1>5 DEF Reset, CheckWriters, DrainWriters, ResetOff, ResetWritten, ResetTmp
<1>6. CASE BeginRead(t)
  <2>1. PICK off, n : Hold(t, off, n)
    BY <1>6, ReadHolds
  <2>2. PICK c : call' = [call EXCEPT ![t] = c]
    BY <2>1 DEF Hold
  <2> QED BY <1>0, <2>1, <2>2 DEF Hold
<1>7. CASE ReadCopy(t)
  BY <1>0, <1>7 DEF ReadCopy
<1>8. CASE BeginSync(t) \/ Sync(t)
  BY <1>0, <1>8 DEF BeginSync, Sync, SyncCheck, SyncDrain
<1> QED
  BY <1>1, <1>2, <1>3, <1>4, <1>5, <1>6, <1>7, <1>8 DEF Write, Waits

(* A range that was there before is where it was, and the offset that ends *)
(* them all has not gone back.                                             *)
LEMMA IdleStep ==
  ASSUME TypeOK, TypeOK', ClaimInv, NEW t \in Threads, Idles(t)
  PROVE  ClaimInv'
<1>0. /\ pc \in [Threads -> Steps] /\ call \in [Threads -> Calls]
      /\ write_off \in Nat /\ write_off' \in Nat /\ resets \in Nat
  BY DEF TypeOK
<1>1. PICK from \in Steps, to \in Steps :
        /\ Go(t, from, to)
        /\ to \in Claimed => from \in Claimed /\ call' = call
        /\ to \in Resetting => from \in Resetting \/ resets' > 0
        /\ from \in Resetting => resets' = resets
  BY DEF Idles
<1>2. pc[t] = from /\ pc'[t] = to /\ \A u \in Threads \ {t} : pc'[u] = pc[u]
  BY <1>0, <1>1 DEF Go
<1>3. resets' \in Nat /\ resets' >= resets
  BY DEF Idles
<1>4. ASSUME NEW u \in Threads, pc'[u] \in Resetting PROVE resets' > 0
  <2>1. CASE u = t  BY <1>0, <1>1, <1>2, <1>3, <1>4, <2>1 DEF ClaimInv
  <2>2. CASE u # t  BY <1>0, <1>2, <1>3, <1>4, <2>2 DEF ClaimInv
  <2> QED BY <2>1, <2>2
<1>5. ASSUME resets' = 0
      PROVE  /\ resets = 0
             /\ write_off' >= write_off
             /\ \A u \in Threads : pc'[u] \in Claimed =>
                  pc[u] \in Claimed /\ call'[u] = call[u]
  <2>1. resets = 0  BY <1>0, <1>3, <1>5
  <2>2. pc[t] \notin Resetting  BY <1>0, <2>1 DEF ClaimInv
  <2>3. write_off' >= write_off  BY <1>5, <2>2 DEF Idles
  <2>4. \A u \in Threads \ {t} : call'[u] = call[u]  BY DEF Idles
  <2>5. pc'[t] \in Claimed => pc[t] \in Claimed /\ call'[t] = call[t]
    BY <1>1, <1>2
  <2> QED BY <1>2, <2>1, <2>3, <2>4, <2>5
<1>6. ASSUME resets' = 0, NEW u \in Threads, pc'[u] \in Claimed
      PROVE  /\ End(u)' <= write_off'
             /\ call'[u].writable > 0 => End(u)' <= Size
             /\ \A v \in Threads \ {u} : pc'[v] \in Claimed =>
                  End(u)' <= call'[v].start \/ End(v)' <= call'[u].start
  <2>1. pc[u] \in Claimed /\ call'[u] = call[u] /\ resets = 0 /\ write_off' >= write_off
    BY <1>5, <1>6
  <2>2. End(u)' = End(u)  BY <2>1 DEF End
  <2>3. End(u) \in Nat  BY <1>0 DEF End, Calls
  <2>4. End(u) <= write_off  BY <2>1 DEF ClaimInv
  <2>5. End(u)' <= write_off'
    BY <1>0, <2>1, <2>2, <2>3, <2>4
  <2>6. call'[u].writable > 0 => End(u)' <= Size
    BY <2>1, <2>2 DEF ClaimInv
  <2>7. ASSUME NEW v \in Threads \ {u}, pc'[v] \in Claimed
        PROVE  End(u)' <= call'[v].start \/ End(v)' <= call'[u].start
    <3>1. pc[v] \in Claimed /\ call'[v] = call[v]  BY <1>5, <1>6, <2>7
    <3>2. End(v)' = End(v)  BY <3>1 DEF End
    <3> QED BY <2>1, <2>2, <3>1, <3>2 DEF ClaimInv
  <2> QED BY <2>5, <2>6, <2>7
<1> QED
  BY <1>4, <1>6 DEF ClaimInv

(* The range a writer claims begins where all others have ended, and ends  *)
(* at the new offset or before, and in the buffer.                         *)
LEMMA ClaimStep ==
  ASSUME TypeOK, ClaimInv, NEW t \in Threads, Claim(t)
  PROVE  ClaimInv'
<1>0. /\ pc \in [Threads -> Steps] /\ call \in [Threads -> Calls]
      /\ write_off \in Nat /\ resets \in Nat /\ Size \in Nat
  BY BufferAssumption DEF TypeOK
<1> DEFINE n == call[t].len
           w == n - Dropped(write_off, n)
<1>1. n \in Nat  BY <1>0 DEF Calls
<1>2. w \in 0 .. n /\ (w > 0 => write_off + w <= Size)
  <2>1. /\ Dropped(write_off, n) \in 0 .. n
        /\ Dropped(write_off, n) # n => write_off + (n - Dropped(write_off, n)) <= Size
    BY <1>0, <1>1, DroppedType
  <2> HIDE DEF n
  <2> QED BY <1>1, <2>1
<1>3. call' = [call EXCEPT ![t] = [@ EXCEPT !.start = write_off, !.writable = w]]
  BY DEF Claim
<1> HIDE DEF w
<1>4. call'[t] = [call[t] EXCEPT !.start = write_off, !.writable = w]
  BY <1>0, <1>3
<1>5. call'[t].start = write_off /\ call'[t].writable = w
  BY <1>0, <1>4 DEF Calls
<1>6. \A u \in Threads \ {t} : call'[u] = call[u]
  BY <1>0, <1>3
<1>7. write_off' = write_off + n /\ resets' = resets
  BY DEF Claim, hist
<1>8. /\ \A u \in Threads \ {t} : pc'[u] = pc[u]
      /\ pc[t] = "claim" /\ pc'[t] \in {"count", "copy"}
  BY <1>0 DEF Claim, Go
<1>9. End(t)' = write_off + w
  BY <1>5 DEF End
<1>10. ASSUME NEW u \in Threads \ {t}, pc'[u] \in Claimed, resets' = 0
       PROVE  /\ pc[u] \in Claimed /\ End(u)' = End(u) /\ End(u) <= write_off
              /\ End(u) \in Nat
              /\ call[u].writable > 0 => End(u) <= Size
  <2>1. pc[u] \in Claimed /\ resets = 0  BY <1>7, <1>8, <1>10
  <2>2. End(u)' = End(u)  BY <1>6 DEF End
  <2>3. End(u) \in Nat  BY <1>0 DEF End, Calls
  <2> QED BY <2>1, <2>2, <2>3 DEF ClaimInv
<1>11. (\E u \in Threads : pc'[u] \in Resetting) => resets' > 0
  BY <1>7, <1>8 DEF ClaimInv
<1>12. ASSUME resets' = 0, NEW u \in Threads, pc'[u] \in Claimed
       PROVE  /\ End(u)' <= write_off'
              /\ call'[u].writable > 0 => End(u)' <= Size
              /\ \A v \in Threads \ {u} : pc'[v] \in Claimed =>
                   End(u)' <= call'[v].start \/ End(v)' <= call'[u].start
  <2>1. CASE u = t
    <3>1. End(t)' <= write_off' /\ (call'[t].writable > 0 => End(t)' <= Size)
      BY <1>0, <1>1, <1>2, <1>5, <1>7, <1>9
    <3>2. ASSUME NEW v \in Threads \ {t}, pc'[v] \in Claimed
          PROVE  End(v)' <= call'[t].start
      BY <1>5, <1>10, <1>12, <3>2
    <3> QED BY <2>1, <3>1, <3>2
  <2>2. CASE u # t
    <3>1. pc[u] \in Claimed /\ End(u)' = End(u) /\ End(u) <= write_off /\ End(u) \in Nat
          /\ (call[u].writable > 0 => End(u) <= Size)
      BY <1>10, <1>12, <2>2
    <3>2. End(u)' <= write_off' /\ (call'[u].writable > 0 => End(u)' <= Size)
      BY <1>0, <1>1, <1>6, <1>7, <2>2, <3>1
    <3>3. ASSUME NEW v \in Threads \ {u}, pc'[v] \in Claimed
          PROVE  End(u)' <= call'[v].start \/ End(v)' <= call'[u].start
      <4>1. CASE v = t  BY <1>5, <3>1, <4>1
      <4>2. CASE v # t
        <5>1. pc[v] \in Claimed /\ End(v)' = End(v)  BY <1>10, <1>12, <3>3, <4>2
        <5>2. End(u) <= call[v].start \/ End(v) <= call[u].start
          BY <1>7, <1>12, <3>1, <5>1 DEF ClaimInv
        <5> QED BY <1>6, <2>2, <3>1, <4>2, <5>1, <5>2
      <4> QED BY <4>1, <4>2
    <3> QED BY <3>2, <3>3
  <2> QED BY <2>1, <2>2
<1> QED
  BY <1>11, <1>12 DEF ClaimInv

(* However many threads write, reserve and read, until the first reset no  *)
(* two of them are ever given overlapping ranges, and none is given a      *)
(* range that leaves the buffer.                                           *)
THEOREM ClaimsAreDisjoint == Spec => []ClaimsDisjoint
<1>1. Init => ClaimInv
  BY DEF Init, ClaimInv
<1>2. TypeOK /\ TypeOK' /\ ClaimInv /\ [Next]_vars => ClaimInv'
  <2> SUFFICES ASSUME TypeOK, TypeOK', ClaimInv, [Next]_vars PROVE ClaimInv'
    OBVIOUS
  <2>1. CASE Next
    BY <2>1, NextIsStep, MostIdle, IdleStep, ClaimStep DEF BufferStep
  <2>2. CASE UNCHANGED vars
    BY <2>2 DEF ClaimInv, End, vars, counts, hist
  <2> QED
    BY <2>1, <2>2
<1>3. TypeOK /\ ClaimInv => ClaimsDisjoint
  <2> SUFFICES ASSUME TypeOK, ClaimInv, resets = 0, NEW t \in Threads, pc[t] \in Claimed
               PROVE  /\ Extent(t) \subseteq Index
                      /\ \A u \in Threads \ {t} : pc[u] \in Claimed => Extent(t) \cap Extent(u) = {}
    BY DEF ClaimsDisjoint
  <2>1. \A u \in Threads : call[u].start \in Nat /\ call[u].writable \in Nat
    BY DEF TypeOK, Calls
  <2>2. Size \in Nat  BY BufferAssumption
  <2>3. Extent(t) \subseteq Index
    BY <2>1, <2>2 DEF ClaimInv, End, Extent, Index
  <2>4. ASSUME NEW u \in Threads \ {t}, pc[u] \in Claimed
        PROVE  Extent(t) \cap Extent(u) = {}
    <3>1. End(t) <= call[u].start \/ End(u) <= call[t].start
      BY <2>4 DEF ClaimInv
    <3> QED BY <2>1, <3>1 DEF End, Extent
  <2> QED BY <2>3, <2>4
<1> QED
  BY <1>1, <1>2, <1>3, TypeCorrect, PTL DEF Spec

-----------------------------------------------------------------------------
(* The buffer as its header wants it to be used: writes, resets and syncs  *)
(* keep out of each other's way, readers come and go.                      *)

(* The first n bytes, and no others, have been stored since the last reset,*)
(* and the next write continues behind them.                               *)
StoredBelow(n) == n <= Size /\ \A i \in Index : (buf[i] = epoch) <=> (i < n)
Continues(n) == write_off < Size => write_off = n
Filled(n) == StoredBelow(n) /\ Continues(n)

AtRest ==
  n_active_writters = 0 /\ n_bytes_written_tmp = 0 /\ Filled(n_bytes_written)

(* What is announced and what is published while t is the only one to      *)
(* change the buffer.                                                      *)
At(t) ==
  /\ pc[t] # "wait"
  /\ n_active_writters = IF pc[t] \in {"first", "claim"} \cup Claimed THEN 1 ELSE 0
  /\ pc[t] \in Claiming \cup Syncing \cup {"check", "drain"} =>
       n_bytes_written_tmp = 0 /\ Filled(n_bytes_written)
  /\ pc[t] \in {"count", "copy"} =>
       /\ n_bytes_written_tmp = IF pc[t] = "count" THEN 0 ELSE call[t].writable
       /\ StoredBelow(n_bytes_written)
       /\ Continues(n_bytes_written + call[t].writable)
       /\ call[t].writable > 0 =>
            call[t].start = n_bytes_written /\ call[t].start + call[t].writable <= Size
  /\ pc[t] \in {"leave", "unlock", "load", "add"} =>
       Filled(n_bytes_written + n_bytes_written_tmp)
  /\ pc[t] = "add" => call[t].tmp = n_bytes_written_tmp
  /\ pc[t] = "clear" => Filled(n_bytes_written)
  /\ pc[t] \in {"reset_off", "reset_written"} => StoredBelow(n_bytes_written)
  /\ pc[t] = "reset_tmp" => StoredBelow(0) /\ n_bytes_written = 0
  /\ pc[t] \in {"reset_written", "reset_tmp"} => write_off = 0

(* No byte and no call is younger than the epoch.                          *)
Ages ==
  /\ \A i \in Index : buf[i] <= epoch
  /\ \A t \in Threads : call[t].epoch <= epoch

Alone(t) == \A u \in Threads \ {t} : pc[u] \notin Changing
Within(t) ==
  pc[t] = "read" /\ call[t].epoch = epoch =>
    call[t].start + call[t].len <= n_bytes_written

Orderly ==
  /\ Ages
  /\ intact =>
       /\ Undisturbed => AtRest
       /\ \A t \in Threads : pc[t] \in Changing => Alone(t) /\ At(t)
       /\ \A t \in Threads : Within(t)

(* A step of a write, reset or sync under way.                             *)
Continued(t) == Write(t) \/ Reset(t) \/ Sync(t)

(* It touches nobody else's call, and what is published goes back only     *)
(* with a new epoch.                                                       *)
LEMMA Others ==
  ASSUME TypeOK, Ages, NEW t \in Threads, Continued(t)
  PROVE  /\ pc[t] \in Changing /\ pc'[t] \in Changing \cup {"idle"}
         /\ \A u \in Threads \ {t} : pc'[u] = pc[u] /\ call'[u] = call[u]
         /\ intact' => intact
         /\ epoch' \in {epoch, epoch + 1}
         /\ epoch' = epoch => n_bytes_written' >= n_bytes_written
         /\ Ages'
<1> USE DEF TypeOK, Go, counts, hist, Ages
<1>0. \A u \in Threads : call[u] \in Calls  OBVIOUS
<1>1. NoCall.epoch = 0  BY DEF NoCall, Asked
<1>2. CASE Enter(t) \/ LockFirst(t) \/ Leave(t) \/ Unlock(t)
  BY <1>2 DEF Enter, LockFirst, Leave, Unlock
<1>3. CASE Claim(t)
  <2> DEFINE c == [call[t] EXCEPT !.start = write_off,
                     !.writable = call[t].len - Dropped(write_off, call[t].len)]
  <2>1. c.epoch = call[t].epoch  BY <1>0 DEF Calls
  <2>2. call' = [call EXCEPT ![t] = c]  BY <1>3 DEF Claim
  <2> HIDE DEF c
  <2>3. call'[t].epoch <= epoch  BY <2>1, <2>2
  <2> QED BY <1>3, <2>2, <2>3 DEF Claim
<1>4. CASE LoadTmp(t)
  <2> DEFINE c == [call[t] EXCEPT !.tmp = n_bytes_written_tmp]
  <2>1. c.epoch = call[t].epoch  BY <1>0 DEF Calls
  <2>2. call' = [call EXCEPT ![t] = c]  BY <1>4 DEF LoadTmp
  <2> HIDE DEF c
  <2>3. call'[t].epoch <= epoch  BY <2>1, <2>2
  <2> QED BY <1>4, <2>2, <2>3 DEF LoadTmp
<1>5. CASE Copy(t)
  <2>1. \A i \in Index : buf'[i] \in {buf[i], epoch, 0}  BY <1>5 DEF Copy
  <2>2. \A i \in Index : buf'[i] <= epoch  BY <2>1
  <2> QED BY <1>5, <2>2 DEF Copy
<1>6. CASE Count(t) \/ Refuse(t) \/ WaitForGroup(t) \/ ClearTmp(t)
  BY <1>1, <1>6 DEF Count, Refuse, WaitForGroup, ClearTmp
<1>7. CASE AddWritten(t)
  <2>1. call[t].tmp \in Nat  BY <1>0 DEF Calls
  <2> QED BY <1>7, <2>1 DEF AddWritten
<1>8. CASE CheckWriters(t) \/ DrainWriters(t) \/ ResetOff(t) \/ ResetTmp(t) \/ Sync(t)
  BY <1>8 DEF CheckWriters, DrainWriters, ResetOff, ResetTmp, Sync, SyncCheck, SyncDrain
<1>9. CASE ResetWritten(t)
  <2>1. \A u \in Threads : call[u].epoch \in Nat  BY <1>0 DEF Calls
  <2> QED BY <1>9, <2>1 DEF ResetWritten
<1> QED
  BY <1>2, <1>3, <1>4, <1>5, <1>6, <1>7, <1>8, <1>9 DEF Continued, Write, Reset

(* A write that has the buffer for itself: its next step keeps the account *)
(* of what is announced and published, or leaves the buffer at rest.       *)
LEMMA WriteKeepsOrder ==
  ASSUME TypeOK, NEW t \in Threads, Write(t), At(t), intact'
  PROVE  IF pc'[t] \in Changing THEN At(t)' ELSE AtRest'
<1> USE DEF Go, counts, hist
<1>0. /\ write_off \in Nat /\ n_bytes_written \in Nat /\ n_bytes_written_tmp \in Nat
      /\ pc \in [Threads -> Steps] /\ call \in [Threads -> Calls]
      /\ call[t] \in Calls /\ call[t].len \in Nat /\ call[t].start \in Nat
      /\ call[t].writable \in Nat /\ Size \in Nat
  BY BufferAssumption DEF TypeOK, Calls
<1>1. CASE Enter(t) \/ LockFirst(t)
  <2>1. /\ pc'[t] \in {"first", "claim"} /\ n_active_writters' = 1
        /\ n_bytes_written_tmp = 0 /\ Filled(n_bytes_written)
        /\ UNCHANGED <<counts, buf, epoch>>
    <3>1. CASE Enter(t)  BY <1>0, <3>1 DEF Enter, At
    <3>2. CASE LockFirst(t)  BY <1>0, <3>2 DEF LockFirst, At
    <3> QED BY <1>1, <3>1, <3>2
  <2>2. Filled(n_bytes_written)'  BY <2>1 DEF Filled, StoredBelow, Continues
  <2> QED BY <2>1, <2>2 DEF At
<1>2. CASE Leave(t) \/ Unlock(t)
  <2>1. /\ pc'[t] \in {"unlock", "load"} /\ n_active_writters' = 0
        /\ Filled(n_bytes_written + n_bytes_written_tmp)
        /\ UNCHANGED <<counts, buf, epoch>>
    <3>1. CASE Leave(t)  BY <1>0, <3>1 DEF Leave, At
    <3>2. CASE Unlock(t)  BY <1>0, <3>2 DEF Unlock, At
    <3> QED BY <1>2, <3>1, <3>2
  <2>2. Filled(n_bytes_written + n_bytes_written_tmp)'
    BY <2>1 DEF Filled, StoredBelow, Continues
  <2> QED BY <2>1, <2>2 DEF At
<1>3. CASE Claim(t)
  <2> DEFINE n == call[t].len
             w == n - Dropped(write_off, n)
             c == [call[t] EXCEPT !.start = write_off, !.writable = w]
  <2>1. w \in Nat /\ (w > 0 => write_off + w <= Size) /\ w <= n
        /\ (write_off >= Size => w = 0) /\ (write_off + n < Size => w = n)
    BY <1>0 DEF Dropped, Least
  <2>2. call' = [call EXCEPT ![t] = c]  BY <1>3 DEF Claim
  <2>3. c.start = write_off /\ c.writable = w  BY <1>0 DEF Calls
  <2> HIDE DEF c, w
  <2>4. call'[t].start = write_off /\ call'[t].writable = w  BY <1>0, <2>2, <2>3
  <2>5. n_bytes_written_tmp = 0 /\ StoredBelow(n_bytes_written)
        /\ (write_off < Size => write_off = n_bytes_written) /\ n_active_writters = 1
    BY <1>3 DEF Claim, At, Filled, Continues
  <2>6. /\ pc'[t] = IF write_off < Size THEN "count" ELSE "copy"
        /\ write_off' = write_off + n
        /\ UNCHANGED <<n_bytes_written, n_bytes_written_tmp, n_active_writters, buf, epoch>>
    BY <1>0, <1>3 DEF Claim
  <2>7. StoredBelow(n_bytes_written)'  BY <2>5, <2>6 DEF StoredBelow
  <2>8. Continues(n_bytes_written + call[t].writable)'
    BY <1>0, <2>1, <2>4, <2>5, <2>6 DEF Continues
  <2> QED BY <1>0, <2>1, <2>4, <2>5, <2>6, <2>7, <2>8 DEF At
<1>4. CASE Count(t)
  <2>1. /\ n_bytes_written_tmp = 0 /\ StoredBelow(n_bytes_written)
        /\ Continues(n_bytes_written + call[t].writable) /\ n_active_writters = 1
        /\ call[t].writable > 0 =>
             call[t].start = n_bytes_written /\ call[t].start + call[t].writable <= Size
    BY <1>0, <1>4 DEF Count, At
  <2>2. /\ pc'[t] = "copy" /\ n_bytes_written_tmp' = n_bytes_written_tmp + call[t].writable
        /\ UNCHANGED <<write_off, n_bytes_written, n_active_writters, buf, call, epoch>>
    BY <1>0, <1>4 DEF Count
  <2>3. StoredBelow(n_bytes_written)' /\ Continues(n_bytes_written + call[t].writable)'
    BY <2>1, <2>2 DEF StoredBelow, Continues
  <2> QED BY <1>0, <2>1, <2>2, <2>3 DEF At
<1>5. CASE Copy(t)
  <2> DEFINE w == call[t].writable
  <2>1. /\ n_bytes_written_tmp = w /\ StoredBelow(n_bytes_written)
        /\ Continues(n_bytes_written + w) /\ n_active_writters = 1
        /\ w > 0 => call[t].start = n_bytes_written /\ call[t].start + w <= Size
    BY <1>5 DEF Copy, At
  <2>2. /\ pc'[t] = "leave"
        /\ UNCHANGED <<counts, n_active_writters, call, epoch>>
    BY <1>0, <1>5 DEF Copy
  <2>3. buf' = [i \in Index |-> IF i \in call[t].start .. call[t].start + w - 1
                                THEN epoch ELSE buf[i]]
    <3>1. buf' = [i \in Index |->
                    IF i \in call[t].start .. call[t].start + w - 1 THEN epoch
                    ELSE IF i \in call[t].start + w .. call[t].start + w - 1 THEN 0
                    ELSE buf[i]]
      BY <1>5 DEF Copy
    <3>2. call[t].start + w .. call[t].start + w - 1 = {}  BY <1>0
    <3> QED BY <3>1, <3>2
  <2> HIDE DEF w
  <2>4. ASSUME NEW i \in Index
        PROVE  (buf'[i] = epoch) <=> (i < n_bytes_written + w)
    <3>0. i \in Nat /\ w \in Nat /\ ((buf[i] = epoch) <=> (i < n_bytes_written))
      BY <1>0, <2>1 DEF StoredBelow, Index, w
    <3>1. buf'[i] = IF i \in call[t].start .. call[t].start + w - 1 THEN epoch ELSE buf[i]
      BY <2>3
    <3>2. CASE w = 0
      BY <1>0, <3>0, <3>1, <3>2
    <3>3. CASE w > 0
      <4>1. call[t].start = n_bytes_written  BY <2>1, <3>3
      <4>2. CASE i \in n_bytes_written .. n_bytes_written + w - 1
        BY <1>0, <3>0, <3>1, <4>1, <4>2
      <4>3. CASE i \notin n_bytes_written .. n_bytes_written + w - 1
        <5>1. i < n_bytes_written <=> i < n_bytes_written + w  BY <1>0, <3>0, <4>3
        <5> QED BY <3>0, <3>1, <4>1, <4>3, <5>1
      <4> QED BY <4>2, <4>3
    <3> QED BY <3>0, <3>2, <3>3
  <2>5. StoredBelow(n_bytes_written + w)' /\ Continues(n_bytes_written + w)'
    BY <1>0, <2>1, <2>2, <2>4 DEF StoredBelow, Continues, w
  <2>6. Filled(n_bytes_written + n_bytes_written_tmp)'
    BY <2>1, <2>2, <2>5 DEF Filled, StoredBelow, Continues, w
  <2> QED BY <1>0, <2>1, <2>2, <2>6 DEF At
<1>6. CASE LoadTmp(t)
  <2> DEFINE c == [call[t] EXCEPT !.tmp = n_bytes_written_tmp]
  <2>1. call' = [call EXCEPT ![t] = c] /\ c.tmp = n_bytes_written_tmp
    BY <1>0, <1>6 DEF LoadTmp, Calls
  <2> HIDE DEF c
  <2>2. /\ call'[t].tmp = n_bytes_written_tmp /\ pc'[t] = "add"
        /\ UNCHANGED <<counts, n_active_writters, buf, epoch>>
    BY <1>0, <1>6, <2>1 DEF LoadTmp
  <2>3. Filled(n_bytes_written + n_bytes_written_tmp) /\ n_active_writters = 0
    BY <1>6 DEF LoadTmp, At
  <2>4. Filled(n_bytes_written + n_bytes_written_tmp)'
    BY <2>2, <2>3 DEF Filled, StoredBelow, Continues
  <2> QED BY <2>2, <2>3, <2>4 DEF At
<1>7. CASE AddWritten(t)
  <2>1. /\ n_bytes_written' = n_bytes_written + n_bytes_written_tmp /\ pc'[t] = "clear"
        /\ UNCHANGED <<write_off, n_active_writters, buf, epoch>>
        /\ Filled(n_bytes_written + n_bytes_written_tmp) /\ n_active_writters = 0
    BY <1>0, <1>7 DEF AddWritten, At
  <2>2. Filled(n_bytes_written)'
    BY <2>1 DEF Filled, StoredBelow, Continues
  <2> QED BY <2>1, <2>2 DEF At
<1>8. CASE ClearTmp(t)
  <2>1. /\ n_bytes_written_tmp' = 0 /\ pc'[t] = "idle" /\ n_active_writters = 0
        /\ UNCHANGED <<write_off, n_bytes_written, n_active_writters, buf, epoch>>
        /\ Filled(n_bytes_written)
    BY <1>0, <1>8 DEF ClearTmp, At
  <2>2. Filled(n_bytes_written)'
    BY <2>1 DEF Filled, StoredBelow, Continues
  <2> QED BY <2>1, <2>2 DEF AtRest
<1>9. CASE WaitForGroup(t) \/ Refuse(t)
  BY <1>9 DEF WaitForGroup, Refuse, At
<1> QED
  BY <1>1, <1>2, <1>3, <1>4, <1>5, <1>6, <1>7, <1>8, <1>9 DEF Write

(* So does a reset, and so does a sync.                                    *)
LEMMA ResetKeepsOrder ==
  ASSUME TypeOK, Ages, NEW t \in Threads, Reset(t) \/ Sync(t), At(t)
  PROVE  IF pc'[t] \in Changing THEN At(t)' ELSE AtRest'
<1> USE DEF Go, counts, hist, At
<1>0. /\ write_off \in Nat /\ n_bytes_written \in Nat /\ n_bytes_written_tmp \in Nat
      /\ pc \in [Threads -> Steps] /\ epoch \in Nat /\ Size \in Nat
      /\ buf \in [Index -> Nat]
  BY BufferAssumption DEF TypeOK
<1>1. CASE CheckWriters(t) \/ DrainWriters(t) \/ ResetOff(t)
  BY <1>0, <1>1 DEF CheckWriters, DrainWriters, ResetOff, Filled, StoredBelow
<1>2. CASE ResetWritten(t)
  <2>1. /\ n_bytes_written' = 0 /\ epoch' = epoch + 1 /\ pc'[t] = "reset_tmp"
        /\ UNCHANGED <<write_off, n_active_writters, buf>>
        /\ write_off = 0 /\ n_active_writters = 0
    BY <1>0, <1>2 DEF ResetWritten
  <2>2. \A i \in Index : buf[i] <= epoch  BY DEF Ages
  <2>3. \A i \in Index : buf'[i] # epoch'
    BY <1>0, <2>1, <2>2
  <2>4. StoredBelow(0)'
    BY <1>0, <2>3 DEF StoredBelow, Index
  <2> QED BY <2>1, <2>4
<1>3. CASE ResetTmp(t)
  BY <1>0, <1>3 DEF ResetTmp, AtRest, Filled, StoredBelow, Continues
<1>4. CASE Sync(t)
  BY <1>0, <1>4 DEF Sync, SyncCheck, SyncDrain, AtRest, Filled, StoredBelow, Continues
<1> QED
  BY <1>1, <1>2, <1>3, <1>4 DEF Reset

(* The steps of a call that has begun keep the order.                      *)
LEMMA ContinuedKeepsOrder ==
  ASSUME TypeOK, TypeOK', Orderly, NEW t \in Threads, Continued(t)
  PROVE  Orderly'
<1>1. /\ pc[t] \in Changing /\ pc'[t] \in Changing \cup {"idle"}
      /\ \A u \in Threads \ {t} : pc'[u] = pc[u] /\ call'[u] = call[u]
      /\ intact' => intact
      /\ epoch' \in {epoch, epoch + 1}
      /\ epoch' = epoch => n_bytes_written' >= n_bytes_written
      /\ Ages'
  BY Others DEF Orderly
<1>2. SUFFICES ASSUME intact'
               PROVE  /\ (Undisturbed => AtRest)'
                      /\ \A u \in Threads : pc'[u] \in Changing => Alone(u)' /\ At(u)'
                      /\ \A u \in Threads : Within(u)'
  BY <1>1 DEF Orderly
<1>3. Alone(t) /\ At(t) /\ Ages /\ \A u \in Threads : Within(u)
  BY <1>1, <1>2 DEF Orderly
<1>4. IF pc'[t] \in Changing THEN At(t)' ELSE AtRest'
  BY <1>2, <1>3, WriteKeepsOrder, ResetKeepsOrder DEF Continued
<1>5. \A u \in Threads \ {t} : pc'[u] \notin Changing
  BY <1>1, <1>3 DEF Alone
<1>6. (Undisturbed => AtRest)'
  BY <1>4 DEF Undisturbed
<1>7. ASSUME NEW u \in Threads, pc'[u] \in Changing
      PROVE  Alone(u)' /\ At(u)'
  <2>1. u = t  BY <1>5, <1>7
  <2> QED BY <1>4, <1>5, <1>7, <2>1 DEF Alone
<1>8. ASSUME NEW u \in Threads
      PROVE  Within(u)'
  <2> SUFFICES ASSUME pc'[u] = "read", call'[u].epoch = epoch'
               PROVE  call'[u].start + call'[u].len <= n_bytes_written'
    BY DEF Within
  <2>1. u # t  BY <1>1
  <2>2. pc[u] = "read" /\ call'[u] = call[u]  BY <1>1, <2>1
  <2>3. /\ call[u].epoch \in Nat /\ call[u].start \in Nat /\ call[u].len \in Nat
        /\ epoch \in Nat /\ n_bytes_written \in Nat /\ n_bytes_written' \in Nat
    BY DEF TypeOK, Calls
  <2>4. call[u].epoch <= epoch  BY <1>3 DEF Ages
  <2>5. epoch' = epoch  BY <1>1, <2>2, <2>3, <2>4
  <2>6. call[u].start + call[u].len <= n_bytes_written
    BY <1>3, <2>2, <2>5 DEF Within
  <2> QED BY <1>1, <2>2, <2>3, <2>5, <2>6
<1> QED
  BY <1>6, <1>7, <1>8

(* A call that keeps out of the others' way begins with the buffer at rest.*)
LEMMA BeginKeepsOrder ==
  ASSUME TypeOK, TypeOK', Orderly, NEW t \in Threads,
         Begins(t) \/ BeginReset(t) \/ BeginSync(t)
  PROVE  Orderly'
<1> USE DEF Go, counts, hist
<1>0. /\ pc \in [Threads -> Steps] /\ call \in [Threads -> Calls]
      /\ Size \in Nat /\ epoch \in Nat
  BY BufferAssumption DEF TypeOK
<1>1. /\ pc' = [pc EXCEPT ![t] = pc'[t]]
      /\ pc'[t] \in {"enter", "sync", "check"}
      /\ \A u \in Threads \ {t} : call'[u] = call[u]
      /\ call'[t] = call[t] \/ call'[t].epoch = 0
      /\ intact' = (intact /\ Undisturbed)
      /\ UNCHANGED <<n_bytes_written, n_bytes_written_tmp, n_active_writters, buf, epoch>>
      /\ write_off' = write_off \/ write_off' = Size
  <2>1. CASE Begins(t)
    <3>1. PICK r \in BOOLEAN, n \in Lens : call' = [call EXCEPT ![t] = Asked(n, r)]
      BY <2>1 DEF Begins, BeginWrite
    <3>2. Asked(n, r).epoch = 0  BY DEF Asked
    <3>3. call'[t].epoch = 0  BY <1>0, <3>1, <3>2
    <3> QED BY <1>0, <2>1, <3>1, <3>3 DEF Begins, BeginWrite
  <2>2. CASE BeginReset(t)  BY <1>0, <2>2 DEF BeginReset
  <2>3. CASE BeginSync(t)   BY <1>0, <2>3 DEF BeginSync
  <2> QED BY <2>1, <2>2, <2>3
<1>2. \A u \in Threads \ {t} : pc'[u] = pc[u]  BY <1>0, <1>1
<1>3. Ages'
  BY <1>0, <1>1 DEF Ages, Orderly
<1>4. SUFFICES ASSUME intact'
               PROVE  /\ (Undisturbed => AtRest)'
                      /\ \A u \in Threads : pc'[u] \in Changing => Alone(u)' /\ At(u)'
                      /\ \A u \in Threads : Within(u)'
  BY <1>3 DEF Orderly
<1>5. Undisturbed /\ AtRest /\ \A u \in Threads : Within(u)
  BY <1>1, <1>4 DEF Orderly
<1>6. Filled(n_bytes_written)'
  BY <1>0, <1>1, <1>5 DEF AtRest, Filled, StoredBelow, Continues
<1>7. At(t)'
  BY <1>1, <1>5, <1>6 DEF At, AtRest
<1>8. \A u \in Threads : pc'[u] \in Changing => u = t
  BY <1>2, <1>5 DEF Undisturbed
<1>9. \A u \in Threads : Within(u)'
  BY <1>1, <1>2, <1>5 DEF Within
<1> QED
  BY <1>1, <1>7, <1>8, <1>9 DEF Undisturbed, Alone

(* A read changes nothing but the call of its thread, and takes no more    *)
(* than what is published.                                                 *)
LEMMA ReadKeepsOrder ==
  ASSUME TypeOK, TypeOK', Orderly, NEW t \in Threads, BeginRead(t) \/ ReadCopy(t)
  PROVE  Orderly'
<1> USE DEF Go, counts, hist
<1>0. /\ pc \in [Threads -> Steps] /\ call \in [Threads -> Calls]
      /\ epoch \in Nat /\ n_bytes_written \in Nat
  BY DEF TypeOK
<1>1. /\ pc[t] \notin Changing /\ pc'[t] \notin Changing
      /\ \A u \in Threads \ {t} : pc'[u] = pc[u] /\ call'[u] = call[u]
      /\ UNCHANGED <<counts, n_active_writters, buf, epoch, intact>>
  <2>1. CASE BeginRead(t)
    <3>1. PICK off, n : Hold(t, off, n)
      BY <2>1, ReadHolds
    <3>2. PICK c : call' = [call EXCEPT ![t] = c]
      BY <3>1 DEF Hold
    <3> QED BY <1>0, <3>1, <3>2 DEF Hold
  <2> QED BY <1>0, <2>1 DEF ReadCopy
<1>2. call'[t].epoch <= epoch /\ Within(t)'
  <2>1. CASE BeginRead(t)
    <3>1. PICK off \in Nat, n \in Nat : off + n <= n_bytes_written /\ Hold(t, off, n)
      BY <2>1, ReadHolds
    <3>2. call'[t].epoch = epoch /\ call'[t].start = off /\ call'[t].len = n
      BY <1>0, <3>1 DEF Hold
    <3> QED BY <1>0, <1>1, <3>1, <3>2 DEF Within
  <2>2. CASE ReadCopy(t)
    <3>1. NoCall.epoch = 0  BY DEF NoCall, Asked
    <3>2. call'[t] = NoCall /\ pc'[t] = "idle"  BY <1>0, <2>2 DEF ReadCopy
    <3> QED BY <1>0, <3>1, <3>2 DEF Within
  <2> QED BY <2>1, <2>2
<1>3. Ages'
  BY <1>1, <1>2 DEF Ages, Orderly
<1>4. (Undisturbed' => Undisturbed) /\ (AtRest => AtRest')
  BY <1>1 DEF Undisturbed, AtRest, Filled, StoredBelow, Continues
<1>5. ASSUME NEW u \in Threads, pc'[u] \in Changing
      PROVE  u # t /\ pc[u] \in Changing /\ (Alone(u) => Alone(u)')
  BY <1>1, <1>5 DEF Alone
<1>6. ASSUME NEW u \in Threads \ {t}
      PROVE  (At(u) => At(u)') /\ (Within(u) => Within(u)')
  <2>1. pc'[u] = pc[u] /\ call'[u] = call[u]  BY <1>1
  <2> QED BY <1>1, <2>1 DEF At, Within, Filled, StoredBelow, Continues
<1> QED
  BY <1>1, <1>2, <1>3, <1>4, <1>5, <1>6 DEF Orderly

(* Every step of every caller keeps the account.                           *)
LEMMA StepKeepsOrder ==
  ASSUME TypeOK, Orderly, NEW t \in Threads, BufferStep(t)
  PROVE  Orderly'
BY StepType, ContinuedKeepsOrder, BeginKeepsOrder, ReadKeepsOrder
   DEF BufferStep, Waits, Continued

(* So does a step of somebody else.                                        *)
LEMMA StutterKeepsOrder ==
  ASSUME Orderly, UNCHANGED vars
  PROVE  Orderly'
BY DEF Orderly, Ages, Undisturbed, AtRest, Alone, At, Within, Filled, StoredBelow,
       Continues, vars, counts, hist

(* The order holds before the first call.                                  *)
LEMMA InitOrder == Init => Orderly
<1> SUFFICES ASSUME Init PROVE Orderly
  OBVIOUS
<1>1. NoCall.epoch = 0  BY DEF NoCall, Asked
<1>2. Ages  BY <1>1 DEF Init, Ages
<1>3. Size \in Nat /\ \A i \in Index : i \in Nat  BY BufferAssumption DEF Index
<1>4. AtRest  BY <1>3 DEF Init, AtRest, Filled, StoredBelow, Continues
<1> QED BY <1>2, <1>4 DEF Init, Orderly, Within

(* It holds always.                                                        *)
LEMMA OrderInvariant == Spec => []Orderly
<1>1. TypeOK /\ Orderly /\ [Next]_vars => Orderly'
  BY NextIsStep, StepKeepsOrder, StutterKeepsOrder
<1> QED
  BY InitOrder, <1>1, TypeCorrect, PTL DEF Spec

(* As long as writes, resets and syncs keep out of each other's way, a     *)
(* reader copies nothing that has not been stored since the last reset.    *)
THEOREM ReadersSee == Spec => []ReadersSeeStored
<1>1. TypeOK /\ Orderly => ReadersSeeStored
  <2> SUFFICES ASSUME TypeOK, Orderly, intact, NEW t \in Threads,
                      pc[t] = "read", call[t].epoch = epoch,
                      NEW i \in call[t].start .. call[t].start + call[t].len - 1
               PROVE  buf[i] = epoch
    BY DEF ReadersSeeStored
  <2>0. /\ call[t].start \in Nat /\ call[t].len \in Nat /\ n_bytes_written \in Nat
        /\ n_bytes_written_tmp \in Nat /\ Size \in Nat
        /\ pc \in [Threads -> Steps]
    BY BufferAssumption DEF TypeOK, Calls
  <2>1. call[t].start + call[t].len <= n_bytes_written  BY DEF Orderly, Within
  <2>2. i \in Nat /\ i < n_bytes_written  BY <2>0, <2>1
  <2>3. \E n \in Nat : n >= n_bytes_written /\ StoredBelow(n)
    <3>1. CASE Undisturbed
      BY <2>0, <3>1 DEF Orderly, AtRest, Filled
    <3>2. CASE ~Undisturbed
      <4>1. PICK u \in Threads : pc[u] \in Changing  BY <3>2 DEF Undisturbed
      <4>2. At(u)  BY <4>1 DEF Orderly
      <4>3. CASE pc[u] \in {"leave", "unlock", "load", "add"}
        <5>1. StoredBelow(n_bytes_written + n_bytes_written_tmp)
          BY <4>2, <4>3 DEF At, Filled
        <5> QED BY <2>0, <5>1
      <4>4. CASE pc[u] \notin {"leave", "unlock", "load", "add"}
        <5>1. StoredBelow(n_bytes_written)
          BY <4>1, <4>2, <4>4 DEF At, Filled
        <5> QED BY <2>0, <5>1
      <4> QED BY <4>3, <4>4
    <3> QED BY <3>1, <3>2
  <2> QED BY <2>0, <2>2, <2>3 DEF StoredBelow, Index
<1> QED
  BY <1>1, TypeCorrect, OrderInvariant, PTL

(* Then, too, all that was stored is published when the calls have         *)
(* returned, and nothing else is.                                          *)
THEOREM StoredPublished == Spec => []StoredIsPublished
<1>1. Orderly => StoredIsPublished
  BY DEF Orderly, StoredIsPublished, AtRest, Filled, StoredBelow
<1> QED
  BY <1>1, OrderInvariant, PTL

-----------------------------------------------------------------------------
(* The buffer with one writer at a time, who may come while a sync or a    *)
(* read is under way, but not while a reset is.                            *)
Ins     == Claiming \cup Claimed \cup Publishing
Counted == {"first", "claim", "count", "copy", "leave"}

Solo  == \A u, v \in Threads : pc[u] \in Ins /\ pc[v] \in Ins => u = v
Apart == \A u, v \in Threads : pc[u] \in Resetting => pc[v] \notin Ins

(* He is his own group, and waits for nobody.                              *)
SoloGroup ==
  /\ \A u \in Threads : pc[u] \in Ins => ~call[u].reserve /\ pc[u] # "wait"
  /\ (\A u \in Threads : pc[u] \notin Counted) => n_active_writters = 0
  /\ \A u \in Threads : pc[u] \in Counted => n_active_writters = 1

(* What is published, and what will be, ends where the writer begins.      *)
Fits(n) == n <= write_off /\ n <= Size

Ahead ==
  /\ \A u \in Threads : pc[u] = "reset_tmp" => n_bytes_written = 0
  /\ (\A u \in Threads : pc[u] \notin Resetting) =>
       /\ Fits(n_bytes_written)
       /\ (\A u \in Threads : pc[u] \notin {"add", "clear"}) =>
            Fits(n_bytes_written + n_bytes_written_tmp)
       /\ \A u \in Threads :
            /\ pc[u] = "count" =>
                 /\ n_bytes_written + n_bytes_written_tmp <= call[u].start
                 /\ Fits(call[u].start + call[u].writable)
            /\ pc[u] = "copy" => n_bytes_written <= call[u].start
            /\ pc[u] = "add" => Fits(n_bytes_written + call[u].tmp)

(* The steps of such callers, and where each takes its thread.             *)
Takes(t, from, to) ==
  /\ pc[t] \in from /\ pc'[t] \in to
  /\ \A u \in Threads \ {t} : pc'[u] = pc[u] /\ call'[u] = call[u]

(* Where each step takes its thread from and to.                           *)
LEMMA StepTakes ==
  ASSUME TypeOK, NEW t \in Threads
  PROVE  /\ BeginWrite(t, FALSE) => Takes(t, {"idle"}, {"enter"})
         /\ Write(t) => Takes(t, Ins, Ins \cup {"idle"})
         /\ BeginReset(t) => Takes(t, {"idle"}, {"check"})
         /\ Reset(t) => Takes(t, Resetting, Resetting \cup {"idle"})
         /\ BeginSync(t) => Takes(t, {"idle"}, {"sync"})
         /\ Sync(t) => Takes(t, Syncing, Syncing \cup {"idle"})
         /\ BeginRead(t) => Takes(t, {"idle"}, {"read"})
         /\ ReadCopy(t) => Takes(t, {"read"}, {"idle"})
<1> USE DEF Takes, Go, Ins, counts, hist
<1>0. call \in [Threads -> Calls] /\ pc \in [Threads -> Steps]
  BY DEF TypeOK
<1>1. BeginWrite(t, FALSE) => Takes(t, {"idle"}, {"enter"})
  BY <1>0 DEF BeginWrite
<1>2. ASSUME Write(t) PROVE Takes(t, Ins, Ins \cup {"idle"})
  <2>1. CASE Claim(t)
    <3>1. PICK c : call' = [call EXCEPT ![t] = c]
      BY <2>1 DEF Claim
    <3> QED BY <1>0, <2>1, <3>1 DEF Claim
  <2>2. CASE LoadTmp(t)
    <3>1. PICK c : call' = [call EXCEPT ![t] = c]
      BY <2>2 DEF LoadTmp
    <3> QED BY <1>0, <2>2, <3>1 DEF LoadTmp
  <2>3. CASE Enter(t) \/ LockFirst(t) \/ Count(t)
    BY <1>0, <2>3 DEF Enter, LockFirst, Count
  <2>4. CASE Refuse(t) \/ Copy(t) \/ Leave(t)
    BY <1>0, <2>4 DEF Refuse, Copy, Leave
  <2>5. CASE Unlock(t) \/ AddWritten(t) \/ ClearTmp(t) \/ WaitForGroup(t)
    BY <1>0, <2>5 DEF Unlock, AddWritten, ClearTmp, WaitForGroup
  <2> QED BY <1>2, <2>1, <2>2, <2>3, <2>4, <2>5 DEF Write
<1>3. BeginReset(t) => Takes(t, {"idle"}, {"check"})
  BY <1>0 DEF BeginReset
<1>4. Reset(t) => Takes(t, Resetting, Resetting \cup {"idle"})
  BY <1>0 DEF Reset, CheckWriters, DrainWriters, ResetOff, ResetWritten, ResetTmp
<1>5. BeginSync(t) => Takes(t, {"idle"}, {"sync"})
  BY <1>0 DEF BeginSync
<1>6. Sync(t) => Takes(t, Syncing, Syncing \cup {"idle"})
  BY <1>0 DEF Sync, SyncCheck, SyncDrain
<1>7. ASSUME BeginRead(t) PROVE Takes(t, {"idle"}, {"read"})
  <2>1. PICK off, n : Hold(t, off, n)
    BY <1>7, ReadHolds
  <2>2. PICK c : call' = [call EXCEPT ![t] = c]
    BY <2>1 DEF Hold
  <2> QED BY <1>0, <2>1, <2>2 DEF Hold
<1>8. ReadCopy(t) => Takes(t, {"read"}, {"idle"})
  BY <1>0 DEF ReadCopy
<1> QED
  BY <1>1, <1>2, <1>3, <1>4, <1>5, <1>6, <1>7, <1>8

(* A writer who is the only one counts himself and unlocks.                *)
LEMMA SoloWriteGroup ==
  ASSUME TypeOK, Solo, SoloGroup, NEW t \in Threads, BeginWrite(t, FALSE) \/ Write(t)
  PROVE  SoloGroup'
<1> USE DEF Go, Ins, Counted, counts, hist
<1>0. /\ call \in [Threads -> Calls] /\ pc \in [Threads -> Steps]
      /\ n_active_writters \in Int
  BY DEF TypeOK
<1>1. CASE BeginWrite(t, FALSE)
  <2>1. PICK n \in Lens : call' = [call EXCEPT ![t] = Asked(n, FALSE)]
    BY <1>1 DEF BeginWrite
  <2>2. ~call'[t].reserve
    BY <1>0, <2>1 DEF Asked
  <2>3. /\ pc[t] = "idle" /\ pc'[t] = "enter" /\ n_active_writters' = n_active_writters
        /\ \A u \in Threads \ {t} : pc'[u] = pc[u] /\ call'[u] = call[u]
    BY <1>0, <1>1, <2>1 DEF BeginWrite
  <2> QED BY <2>2, <2>3 DEF SoloGroup
<1>2. CASE Write(t)
  <2>1. /\ pc[t] \in Ins /\ pc'[t] \in Ins \cup {"idle"}
        /\ \A u \in Threads \ {t} : pc'[u] = pc[u] /\ call'[u] = call[u]
    BY <1>2, StepTakes DEF Takes
  <2>2. ~call[t].reserve /\ pc[t] # "wait"
    BY <2>1 DEF SoloGroup
  <2>3. \A u \in Threads \ {t} : pc[u] \notin Ins /\ pc'[u] \notin Ins
    BY <2>1 DEF Solo
  <2>4. n_active_writters = IF pc[t] \in Counted THEN 1 ELSE 0
    BY <2>3 DEF SoloGroup
  <2>5. ASSUME /\ ~call'[t].reserve \/ pc'[t] = "idle"
               /\ pc'[t] # "wait"
               /\ n_active_writters' = IF pc'[t] \in Counted THEN 1 ELSE 0
        PROVE  SoloGroup'
    BY <2>3, <2>5 DEF SoloGroup
  <2>6. CASE Enter(t)
    BY <1>0, <2>1, <2>2, <2>4, <2>5, <2>6 DEF Enter
  <2>7. CASE LockFirst(t) \/ Count(t) \/ Copy(t) \/ Unlock(t) \/ AddWritten(t)
    BY <1>0, <2>1, <2>2, <2>4, <2>5, <2>7 DEF LockFirst, Count, Copy, Unlock, AddWritten
  <2>8. CASE Claim(t) \/ LoadTmp(t)
    <3>1. call'[t].reserve = call[t].reserve
      <4>1. CASE Claim(t)
        <5>1. PICK a, b : call' = [call EXCEPT ![t] = [call[t] EXCEPT !.start = a, !.writable = b]]
          BY <4>1 DEF Claim
        <5> QED BY <1>0, <5>1 DEF Calls
      <4>2. CASE LoadTmp(t)
        <5>1. call' = [call EXCEPT ![t] = [call[t] EXCEPT !.tmp = n_bytes_written_tmp]]
          BY <4>2 DEF LoadTmp
        <5> QED BY <1>0, <5>1 DEF Calls
      <4> QED BY <2>8, <4>1, <4>2
    <3>2. /\ \/ pc[t] = "claim" /\ pc'[t] \in {"count", "copy"}
             \/ pc[t] = "load" /\ pc'[t] = "add"
          /\ n_active_writters' = n_active_writters
      <4>1. CASE Claim(t)  BY <1>0, <4>1 DEF Claim
      <4>2. CASE LoadTmp(t)  BY <1>0, <4>2 DEF LoadTmp
      <4> QED BY <2>8, <4>1, <4>2
    <3> QED BY <2>2, <2>4, <2>5, <3>1, <3>2
  <2>9. CASE Refuse(t) \/ WaitForGroup(t)
    BY <1>0, <2>2, <2>9 DEF Refuse, WaitForGroup
  <2>10. CASE Leave(t)
    BY <1>0, <2>1, <2>2, <2>4, <2>5, <2>10 DEF Leave
  <2>11. CASE ClearTmp(t)
    BY <1>0, <2>1, <2>2, <2>4, <2>5, <2>11 DEF ClearTmp
  <2> QED
    BY <1>2, <2>6, <2>7, <2>8, <2>9, <2>10, <2>11 DEF Write
<1> QED BY <1>1, <1>2

(* Nobody else changes the group.                                          *)
LEMMA SoloOtherGroup ==
  ASSUME TypeOK, SoloGroup, NEW t \in Threads, Waits(t) \/ BeginRead(t) \/ ReadCopy(t)
  PROVE  SoloGroup'
<1>1. /\ pc[t] \notin Ins /\ pc'[t] \notin Ins
      /\ \A u \in Threads \ {t} : pc'[u] = pc[u] /\ call'[u] = call[u]
  BY StepTakes DEF Waits, Takes, Ins
<1>2. n_active_writters' = n_active_writters
  BY DEF Waits, BeginReset, Reset, CheckWriters, DrainWriters, ResetOff, ResetWritten, ResetTmp,
         BeginSync, Sync, SyncCheck, SyncDrain, BeginRead, BeginCopy, Hold, ReadCopy
<1> QED
  BY <1>1, <1>2 DEF SoloGroup, Ins, Counted

(* As long as nobody resets, what is published grows and stays as it is.   *)
Keeps ==
  (\A u \in Threads : pc[u] \notin Resetting) =>
    /\ n_bytes_written <= n_bytes_written'
    /\ \A i \in Nat : i < n_bytes_written => buf'[i] = buf[i]

(* A step of a write keeps what was announced ahead of what is claimed, and*)
(* neither takes back a published byte nor overwrites one.                 *)
LEMMA AheadWrite ==
  ASSUME TypeOK, TypeOK', Solo, Apart, Ahead, NEW t \in Threads, Write(t), ~call[t].reserve
  PROVE  Ahead' /\ Keeps
<1> USE DEF Go, Ins, Fits, counts, hist
<1>0. /\ call \in [Threads -> Calls] /\ pc \in [Threads -> Steps]
      /\ write_off \in Nat /\ n_bytes_written \in Nat /\ n_bytes_written_tmp \in Nat
      /\ Size \in Nat
  BY BufferAssumption DEF TypeOK
<1>1. /\ pc[t] \in Ins /\ pc'[t] \in Ins \cup {"idle"}
      /\ \A u \in Threads \ {t} : pc'[u] = pc[u] /\ call'[u] = call[u]
  BY StepTakes DEF Takes
<1>2. \A u \in Threads \ {t} : pc[u] \notin Ins /\ pc'[u] \notin Ins
  BY <1>1 DEF Solo
<1>3. \A u \in Threads : pc[u] \notin Resetting /\ pc'[u] \notin Resetting
  BY <1>1 DEF Apart
<1> DEFINE c == call[t]
           nw == n_bytes_written
           tmp == n_bytes_written_tmp
<1>4. /\ c.start \in Nat /\ c.writable \in Nat /\ c.tmp \in Nat /\ c.len \in Nat
  BY <1>0 DEF Calls
<1>5. /\ Fits(nw)
      /\ pc[t] \notin {"add", "clear"} => Fits(nw + tmp)
      /\ pc[t] = "count" => nw + tmp <= c.start /\ Fits(c.start + c.writable)
      /\ pc[t] = "copy" => nw <= c.start
      /\ pc[t] = "add" => Fits(nw + c.tmp)
  <2>1. \A u \in Threads \ {t} : pc[u] \notin {"add", "clear"}
    BY <1>2
  <2> QED BY <1>3, <2>1 DEF Ahead
<1>6. ASSUME /\ Fits(nw)'
             /\ pc'[t] \notin {"add", "clear"} => Fits(nw + tmp)'
             /\ pc'[t] = "count" => nw' + tmp' <= c'.start /\ Fits(c.start + c.writable)'
             /\ pc'[t] = "copy" => nw' <= c'.start
             /\ pc'[t] = "add" => Fits(nw + c.tmp)'
      PROVE  Ahead'
  BY <1>2, <1>3, <1>6 DEF Ahead
<1>7. CASE Enter(t) \/ LockFirst(t) \/ Unlock(t) \/ Leave(t)
  <2>1. /\ UNCHANGED <<write_off, n_bytes_written, n_bytes_written_tmp, call, buf>>
        /\ pc[t] \in {"enter", "first", "unlock", "leave"}
        /\ pc'[t] \in {"first", "claim", "load", "unlock", "wait"}
    BY <1>0, <1>7 DEF Enter, LockFirst, Unlock, Leave
  <2> QED BY <1>0, <1>5, <1>6, <2>1 DEF Keeps
<1>8. CASE Claim(t)
  <2> DEFINE w == c.len - Dropped(write_off, c.len)
  <2>1. w \in Nat /\ w <= c.len /\ (w # 0 => write_off + w <= Size)
    <3>1. ASSUME NEW n \in Nat, NEW d \in 0 .. n
          PROVE  n - d \in Nat /\ n - d <= n /\ (n - d # 0 => d # n)
      OBVIOUS
    <3> HIDE DEF c
    <3> QED BY <1>0, <1>4, <3>1, DroppedType
  <2>2. call' = [call EXCEPT ![t] = [@ EXCEPT !.start = write_off, !.writable = w]]
    BY <1>8 DEF Claim
  <2> HIDE DEF w
  <2>3. c'.start = write_off /\ c'.writable = w
    BY <1>0, <2>2 DEF Calls
  <2>4. /\ write_off' = write_off + c.len
        /\ UNCHANGED <<n_bytes_written, n_bytes_written_tmp, buf>>
        /\ pc[t] = "claim" /\ pc'[t] = IF write_off < Size THEN "count" ELSE "copy"
    BY <1>0, <1>8 DEF Claim
  <2>5. Fits(nw)' /\ Fits(nw + tmp)'
    BY <1>0, <1>4, <1>5, <2>4
  <2>6. pc'[t] = "count" => nw' + tmp' <= c'.start /\ Fits(c.start + c.writable)'
    <3> SUFFICES ASSUME pc'[t] = "count"
                 PROVE  nw' + tmp' <= c'.start /\ Fits(c.start + c.writable)'
      OBVIOUS
    <3>1. write_off < Size
      BY <2>4
    <3>2. write_off + w <= Size /\ write_off + w <= write_off'
      <4> HIDE DEF c
      <4> QED BY <1>0, <1>4, <2>1, <2>4, <3>1
    <3> QED BY <1>5, <2>3, <2>4, <3>2
  <2>7. nw' <= c'.start
    BY <1>5, <2>3, <2>4
  <2>8. pc'[t] # "add"
    BY <2>4
  <2> QED BY <1>0, <1>6, <2>4, <2>5, <2>6, <2>7, <2>8 DEF Keeps
<1>9. CASE Count(t)
  <2>1. /\ n_bytes_written_tmp' = n_bytes_written_tmp + c.writable
        /\ pc[t] = "count" /\ pc'[t] = "copy"
        /\ UNCHANGED <<write_off, n_bytes_written, call, buf>>
    BY <1>0, <1>9 DEF Count
  <2> QED BY <1>0, <1>4, <1>5, <1>6, <2>1 DEF Keeps
<1>10. CASE Copy(t)
  <2>1. PICK good \in Accessible(t, c.writable) :
          buf' = [i \in Index |->
                    IF i \in c.start .. c.start + good - 1 THEN epoch
                    ELSE IF i \in c.start + good .. c.start + c.writable - 1 THEN 0
                    ELSE buf[i]]
    BY <1>10 DEF Copy
  <2>2. /\ UNCHANGED <<write_off, n_bytes_written, n_bytes_written_tmp, call>>
        /\ pc[t] = "copy" /\ pc'[t] = "leave"
    BY <1>0, <1>10 DEF Copy
  <2>3. good \in Nat
    BY <1>4, <2>1 DEF Accessible
  <2>4. \A i \in Nat : i < nw => buf'[i] = buf[i]
    BY <1>0, <1>4, <1>5, <2>1, <2>2, <2>3 DEF Index
  <2> QED BY <1>0, <1>5, <1>6, <2>2, <2>4 DEF Keeps
<1>11. CASE LoadTmp(t)
  <2>1. call' = [call EXCEPT ![t] = [call[t] EXCEPT !.tmp = n_bytes_written_tmp]]
    BY <1>11 DEF LoadTmp
  <2>2. c'.tmp = tmp
    BY <1>0, <2>1 DEF Calls
  <2>3. /\ UNCHANGED <<write_off, n_bytes_written, n_bytes_written_tmp, buf>>
        /\ pc[t] = "load" /\ pc'[t] = "add"
    BY <1>0, <1>11 DEF LoadTmp
  <2> QED BY <1>0, <1>5, <1>6, <2>2, <2>3 DEF Keeps
<1>12. CASE AddWritten(t)
  <2>1. /\ n_bytes_written' = n_bytes_written + c.tmp
        /\ pc[t] = "add" /\ pc'[t] = "clear"
        /\ UNCHANGED <<write_off, n_bytes_written_tmp, call, buf>>
    BY <1>0, <1>12 DEF AddWritten
  <2> QED BY <1>0, <1>4, <1>5, <1>6, <2>1 DEF Keeps
<1>13. CASE ClearTmp(t)
  <2>1. /\ n_bytes_written_tmp' = 0 /\ pc'[t] = "idle"
        /\ UNCHANGED <<write_off, n_bytes_written, buf>>
    BY <1>0, <1>13 DEF ClearTmp
  <2> QED BY <1>0, <1>5, <1>6, <2>1 DEF Keeps
<1>14. CASE WaitForGroup(t)
  <2>1. /\ UNCHANGED <<write_off, n_bytes_written, n_bytes_written_tmp, buf>>
        /\ pc[t] = "wait" /\ pc'[t] = "idle"
    BY <1>0, <1>14 DEF WaitForGroup
  <2> QED BY <1>0, <1>5, <1>6, <2>1 DEF Keeps
<1>15. ~Refuse(t)
  BY DEF Refuse
<1> QED
  BY <1>7, <1>8, <1>9, <1>10, <1>11, <1>12, <1>13, <1>14, <1>15 DEF Write

(* A call that begins finds the counters as the others left them.          *)
LEMMA AheadBegin ==
  ASSUME TypeOK, Apart', Ahead, NEW t \in Threads, BeginWrite(t, FALSE)
  PROVE  Ahead'
<1>1. /\ pc[t] = "idle" /\ pc'[t] = "enter"
      /\ \A u \in Threads \ {t} : pc'[u] = pc[u] /\ call'[u] = call[u]
  BY StepTakes DEF Takes
<1>2. UNCHANGED <<write_off, n_bytes_written, n_bytes_written_tmp, buf>>
  BY DEF BeginWrite, counts
<1>3. \A u \in Threads : pc'[u] \notin Resetting /\ pc[u] \notin Resetting
  BY <1>1 DEF Apart, Ins
<1> QED
  BY <1>1, <1>2, <1>3 DEF Ahead, Fits

(* A reset empties the buffer, a sync or a read leaves it alone.           *)
LEMMA AheadOther ==
  ASSUME TypeOK, Apart, Apart', Ahead,
         NEW t \in Threads, Waits(t) \/ BeginRead(t) \/ ReadCopy(t)
  PROVE  Ahead'
<1> USE DEF Go, Ins, Fits, counts, hist
<1>0. /\ call \in [Threads -> Calls] /\ pc \in [Threads -> Steps]
      /\ write_off \in Nat /\ n_bytes_written \in Nat /\ n_bytes_written_tmp \in Nat
      /\ Size \in Nat
  BY BufferAssumption DEF TypeOK
<1>1. CASE BeginSync(t) \/ Sync(t) \/ BeginRead(t) \/ ReadCopy(t)
  <2>1. /\ pc[t] \notin Resetting \cup Ins /\ pc'[t] \notin Resetting \cup Ins
        /\ \A u \in Threads \ {t} : pc'[u] = pc[u] /\ call'[u] = call[u]
    BY <1>1, StepTakes DEF Takes
  <2>2. UNCHANGED <<write_off, n_bytes_written, n_bytes_written_tmp, buf>>
    BY <1>1 DEF BeginSync, Sync, SyncCheck, SyncDrain, BeginRead, BeginCopy, Hold, ReadCopy
  <2> QED BY <1>0, <2>1, <2>2 DEF Ahead
<1>2. CASE BeginReset(t)
  <2>1. /\ pc'[t] = "check" /\ \A u \in Threads \ {t} : pc'[u] = pc[u]
        /\ UNCHANGED <<n_bytes_written, buf>>
    BY <1>0, <1>2 DEF BeginReset
  <2> QED BY <1>0, <2>1 DEF Ahead
<1>3. CASE Reset(t)
  <2>1. /\ pc[t] \in Resetting /\ pc'[t] \in Resetting \cup {"idle"}
        /\ \A u \in Threads \ {t} : pc'[u] = pc[u] /\ call'[u] = call[u]
    BY <1>3, StepTakes DEF Takes
  <2>2. \A u \in Threads : pc[u] \notin Ins /\ pc'[u] \notin Ins
    BY <2>1 DEF Apart
  <2>3. CASE ResetTmp(t)
    <3>1. n_bytes_written' = 0 /\ n_bytes_written_tmp' = 0 /\ write_off' \in Nat
      BY <1>0, <2>3 DEF ResetTmp, Ahead
    <3> QED BY <1>0, <2>2, <3>1 DEF Ahead
  <2>4. CASE CheckWriters(t) \/ DrainWriters(t) \/ ResetOff(t) \/ ResetWritten(t)
    <3>1. pc'[t] \in Resetting
      BY <1>0, <2>4 DEF CheckWriters, DrainWriters, ResetOff, ResetWritten
    <3>2. \A u \in Threads : pc'[u] = "reset_tmp" => n_bytes_written' = 0
      BY <1>0, <2>1, <2>4 DEF CheckWriters, DrainWriters, ResetOff, ResetWritten, Ahead
    <3> QED BY <3>1, <3>2 DEF Ahead
  <2> QED BY <1>3, <2>3, <2>4 DEF Reset
<1> QED
  BY <1>1, <1>2, <1>3 DEF Waits

(* The callers of a container take these steps, one writer at a time.      *)
Used(t) == BeginWrite(t, FALSE) \/ Write(t) \/ Waits(t) \/ BeginRead(t) \/ ReadCopy(t)

(* Whatever a buffer is used for, its variables keep their types.          *)
LEMMA UsedType ==
  ASSUME TypeOK, NEW t \in Threads, Used(t) \/ UNCHANGED vars
  PROVE  TypeOK'
BY StepType, StutterType DEF Used, BufferStep, Begins

(* A single writer stays the only one of its group.                        *)
LEMMA SoloStep ==
  ASSUME TypeOK, Solo, SoloGroup, NEW t \in Threads, Used(t) \/ UNCHANGED vars
  PROVE  SoloGroup'
<1>1. CASE UNCHANGED vars
  BY <1>1 DEF SoloGroup, vars
<1> QED
  BY <1>1, SoloWriteGroup, SoloOtherGroup DEF Used

(* Only writers change what was published, and they do not.                *)
LEMMA PublishedStays ==
  ASSUME TypeOK, Solo, SoloGroup, Apart, Ahead, NEW t \in Threads, Used(t) \/ UNCHANGED vars
  PROVE  Keeps
<1>1. ASSUME UNCHANGED <<n_bytes_written, buf>> PROVE Keeps
  BY <1>1 DEF Keeps, TypeOK
<1>2. CASE Write(t)
  <2>1. pc[t] \in Ins /\ ~call[t].reserve
    BY <1>2, StepTakes DEF Takes, SoloGroup
  <2> QED
    BY <1>2, <2>1, WriteType, AheadWrite
<1>3. CASE Reset(t)
  BY <1>3, StepTakes DEF Takes, Keeps
<1>4. CASE BeginWrite(t, FALSE) \/ BeginReset(t) \/ BeginSync(t) \/ Sync(t)
  BY <1>1, <1>4 DEF BeginWrite, BeginReset, BeginSync, Sync, SyncCheck, SyncDrain, counts
<1>5. CASE BeginRead(t) \/ ReadCopy(t) \/ UNCHANGED vars
  BY <1>1, <1>5 DEF BeginRead, BeginCopy, Hold, ReadCopy, counts, vars
<1> QED
  BY <1>2, <1>3, <1>4, <1>5 DEF Used, Waits

(* Every step of a buffer with one writer keeps the announced bytes ahead, *)
(* if resets and writes stay apart.                                        *)
LEMMA AheadStep ==
  ASSUME TypeOK, Solo, SoloGroup, Apart, Apart', Ahead,
         NEW t \in Threads, Used(t) \/ UNCHANGED vars
  PROVE  Ahead'
<1>1. CASE UNCHANGED vars
  BY <1>1 DEF Ahead, Fits, vars, counts
<1>2. CASE Write(t)
  <2>1. pc[t] \in Ins /\ ~call[t].reserve
    BY <1>2, StepTakes DEF Takes, SoloGroup
  <2> QED
    BY <1>2, <2>1, WriteType, AheadWrite
<1> QED
  BY <1>1, <1>2, AheadBegin, AheadOther DEF Used

(* Writes and resets stay apart if they begin apart.                       *)
LEMMA ApartStep ==
  ASSUME TypeOK, Apart, NEW t \in Threads, Used(t) \/ UNCHANGED vars,
         BeginWrite(t, FALSE) => \A u \in Threads : pc[u] \notin Resetting,
         BeginReset(t) => \A u \in Threads : pc[u] \notin Ins
  PROVE  Apart'
<1>0. ASSUME NEW from \in SUBSET Steps, NEW to \in SUBSET Steps, Takes(t, from, to),
             \/ to \cap (Resetting \cup Ins) = {}
             \/ from \subseteq Ins /\ to \cap Resetting = {}
             \/ from \subseteq Resetting /\ to \cap Ins = {}
             \/ to \cap Resetting = {} /\ \A u \in Threads : pc[u] \notin Resetting
             \/ to \cap Ins = {} /\ \A u \in Threads : pc[u] \notin Ins
      PROVE  Apart'
  BY <1>0 DEF Apart, Takes
<1> USE DEF Ins
<1>1. CASE UNCHANGED vars
  BY <1>1 DEF vars, Apart
<1>2. CASE BeginWrite(t, FALSE)
  BY <1>0, <1>2, StepTakes
<1>3. CASE BeginReset(t)
  BY <1>0, <1>3, StepTakes
<1>4. CASE Write(t)
  BY <1>0, <1>4, StepTakes
<1>5. CASE Reset(t)
  BY <1>0, <1>5, StepTakes
<1>6. CASE BeginSync(t)
  BY <1>0, <1>6, StepTakes
<1>7. CASE Sync(t)
  BY <1>0, <1>7, StepTakes
<1>8. CASE BeginRead(t)
  BY <1>0, <1>8, StepTakes
<1>9. CASE ReadCopy(t)
  BY <1>0, <1>9, StepTakes
<1> QED
  BY <1>1, <1>2, <1>3, <1>4, <1>5, <1>6, <1>7, <1>8, <1>9 DEF Used, Waits

(* There is one writer at a time if no write begins beside another one.    *)
LEMMA SoloKept ==
  ASSUME TypeOK, Solo, NEW t \in Threads, Used(t) \/ UNCHANGED vars,
         BeginWrite(t, FALSE) => \A u \in Threads : pc[u] \notin Ins
  PROVE  Solo'
<1>1. CASE UNCHANGED vars
  BY <1>1 DEF vars, Solo
<1>2. CASE BeginWrite(t, FALSE) \/ Write(t)
  BY <1>2, StepTakes DEF Takes, Solo
<1>3. CASE Waits(t) \/ BeginRead(t) \/ ReadCopy(t)
  <2>1. pc'[t] \notin Ins /\ \A u \in Threads \ {t} : pc'[u] = pc[u]
    BY <1>3, StepTakes DEF Waits, Takes, Ins
  <2> QED BY <2>1 DEF Solo
<1> QED
  BY <1>1, <1>2, <1>3 DEF Used

(* A read stays below what is published.                                   *)
LEMMA ReadBelow ==
  ASSUME TypeOK, NEW t \in Threads, BeginRead(t)
  PROVE  call'[t].start + call'[t].len <= n_bytes_written'
<1>1. PICK off \in Nat, n \in Nat : off + n <= n_bytes_written /\ Hold(t, off, n)
  BY ReadHolds
<1>2. call'[t].start = off /\ call'[t].len = n /\ n_bytes_written' = n_bytes_written
  BY <1>1 DEF Hold, TypeOK, counts
<1> QED
  BY <1>1, <1>2

(* Before the first step there is nothing to keep.                         *)
LEMMA SoloInit == Init => TypeOK /\ Solo /\ SoloGroup /\ Apart /\ Ahead
BY InitType, BufferAssumption DEF Init, Solo, SoloGroup, Apart, Ahead, Fits, Ins, Counted

=============================================================================
