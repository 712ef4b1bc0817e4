--------------------------- MODULE DualBufferProofs ---------------------------
(***************************************************************************)
(* Theorems about utils/dualbuffer.c for buffers of any size and any       *)
(* finite set of threads that write, read and reset as they like; the last *)
(* one is about their calls as long as they are alone.                     *)
(***************************************************************************)
EXTENDS DualBuffer, BufferProofs, FiniteSetTheorems

(* What is proved of a buffer, of the one with the variables b_.           *)
BP == INSTANCE BufferProofs WITH
  write_off <- b_write_off, n_bytes_written <- b_n_bytes_written,
  n_bytes_written_tmp <- b_n_bytes_written_tmp,
  n_active_writters <- b_n_active_writters, mlock <- b_mlock, buf <- b_buf,
  pc <- b_pc, call <- b_call, epoch <- b_epoch, resets <- b_resets, intact <- b_intact

(* The readers that were counted and are not yet uncounted.                *)
Counting == Swapping \cup {"pick", "read", "copying", "leave"}
Entered == {t \in Threads : place[t] \in Counting}

DualInv ==
  /\ n_dual_readers = Cardinality(Entered)
  /\ \A t, u \in Threads : place[t] \in Swapping /\ place[u] \in Swapping => t = u
  /\ \A t \in Threads : place[t] \in {"reset", "set_write"} => target[t] = write_buf
  /\ \A t \in Threads : place[t] = "set_read" => target[t] # write_buf
  /\ read_buf # write_buf \/ \E t \in Threads : place[t] = "set_read"

(* The readers that were counted can be counted.                           *)
LEMMA EnteredFinite ==
  /\ IsFiniteSet(Entered) /\ IsFiniteSet(Entered')
  /\ Cardinality(Entered) \in Nat /\ Cardinality(Entered') \in Nat
BY DualAssumption, FS_Subset, FS_CardinalityType DEF Entered

(* A step of t that moves neither pointer: it keeps t out of the swap or   *)
(* in it.                                                                  *)
Strolls(t) ==
  /\ UNCHANGED <<n_dual_readers, read_buf, write_buf>>
  /\ \E from \in Places, to \in Places :
       /\ Move(t, from, to)
       /\ (from \in Counting) <=> (to \in Counting)
       /\ to \in Swapping => from \in Swapping
       /\ to \in {"reset", "set_write"} => target'[t] = write_buf
       /\ to # "set_read" /\ from # "set_read"
  /\ \A u \in Threads \ {t} : target'[u] = target[u]
  /\ target' \in [Threads -> {"A", "B"}]
  /\ entries' \in Nat /\ alone' \in BOOLEAN

(* The types, for the steps that concern the place of one thread only.     *)
LEMMA StrollType ==
  ASSUME DualTypeOK, NEW t \in Threads, Strolls(t)
  PROVE  DualTypeOK'
BY DEF DualTypeOK, Strolls, Move

(* These steps keep the counter, the swaps apart, the pointers distinct.   *)
LEMMA StrollStep ==
  ASSUME DualTypeOK, DualInv, NEW t \in Threads, Strolls(t)
  PROVE  DualInv'
<1>1. PICK from \in Places, to \in Places :
        /\ Move(t, from, to)
        /\ (from \in Counting) <=> (to \in Counting)
        /\ to \in Swapping => from \in Swapping
        /\ to \in {"reset", "set_write"} => target'[t] = write_buf
        /\ to # "set_read" /\ from # "set_read"
  BY DEF Strolls
<1>2. place[t] = from /\ place'[t] = to /\ \A u \in Threads \ {t} : place'[u] = place[u]
  BY <1>1 DEF DualTypeOK, Move
<1>3. /\ UNCHANGED <<n_dual_readers, read_buf, write_buf>>
      /\ \A u \in Threads \ {t} : target'[u] = target[u]
  BY DEF Strolls
<1>4. Entered' = Entered
  BY <1>1, <1>2 DEF Entered
<1>5. \A u \in Threads : place'[u] \in Swapping => place[u] \in Swapping
  BY <1>1, <1>2
<1>6. \A u \in Threads : (place'[u] = "set_read") <=> (place[u] = "set_read")
  BY <1>1, <1>2
<1>7. \A u \in Threads : place'[u] \in {"reset", "set_write"} => target'[u] = write_buf
  BY <1>1, <1>2, <1>3 DEF DualInv
<1>8. \A u \in Threads : place'[u] = "set_read" => target'[u] # write_buf
  BY <1>1, <1>2, <1>3, <1>6 DEF DualInv
<1> QED
  BY <1>3, <1>4, <1>5, <1>6, <1>7, <1>8 DEF DualInv

(* All steps are of that kind but those that count, uncount or assign a    *)
(* pointer.                                                                *)
LEMMA MostStroll ==
  ASSUME DualTypeOK, DualInv, NEW t \in Threads, DualCall(t) \/ DualStep(t)
  PROVE  \/ Strolls(t)
         \/ EnterRead(t) \/ SetWriteBuf(t) \/ SetReadBuf(t) \/ LeaveRead(t)
         \/ UNCHANGED dual
<1> USE DEF Move, Load, Places, Swapping, Counting, bufs, DualTypeOK, Strolls
<1>0. /\ place \in [Threads -> Places] /\ target \in [Threads -> {"A", "B"}]
      /\ read_buf \in {"A", "B"} /\ write_buf \in {"A", "B"} /\ entries \in Nat
  OBVIOUS
<1>1. CASE DualWrite(t)      BY <1>0, <1>1 DEF DualWrite
<1>2. CASE WriteTarget(t)    BY <1>0, <1>2 DEF WriteTarget, Emptied
<1>3. CASE LoadWriteBuf(t)   BY <1>0, <1>3 DEF LoadWriteBuf
<1>4. CASE ResetReadBuf(t)   BY <1>0, <1>4 DEF ResetReadBuf, DualInv
<1>5. CASE SyncReadBuf(t)    BY <1>0, <1>5 DEF SyncReadBuf
<1>6. CASE LoadReadBuf(t)    BY <1>0, <1>6 DEF LoadReadBuf
<1>7. CASE ReadTarget(t)     BY <1>0, <1>7 DEF ReadTarget
<1>8. CASE CopyTarget(t)     BY <1>0, <1>8 DEF CopyTarget
<1>9. CASE DualReset(t)      BY <1>0, <1>9 DEF DualReset
<1>10. CASE ResetWriteBuf(t) BY <1>0, <1>10 DEF ResetWriteBuf
<1> QED
  BY <1>1, <1>2, <1>3, <1>4, <1>5, <1>6, <1>7, <1>8, <1>9, <1>10
     DEF DualCall, DualStep, Switch

(* A reader that is the first to be counted is the only one there is.      *)
LEMMA EnterStep ==
  ASSUME DualTypeOK, DualInv, NEW t \in Threads, EnterRead(t)
  PROVE  DualTypeOK' /\ DualInv'
<1> USE DEF Swapping, Counting
<1>1. /\ n_dual_readers' = n_dual_readers + 1
      /\ place[t] = "out"
      /\ place' = [place EXCEPT ![t] = IF n_dual_readers' = 1 THEN "load" ELSE "pick"]
      /\ UNCHANGED <<read_buf, write_buf, target>>
      /\ entries' \in Nat /\ alone' \in BOOLEAN
  BY DEF EnterRead, Entry, Move, bufs, DualTypeOK
<1>2. place'[t] \in {"load", "pick"} /\ \A u \in Threads \ {t} : place'[u] = place[u]
  BY <1>1 DEF DualTypeOK
<1>3. DualTypeOK'
  BY <1>1 DEF DualTypeOK, Places
<1>4. t \notin Entered /\ Entered' = Entered \cup {t}
  BY <1>1, <1>2 DEF Entered
<1>5. n_dual_readers' = Cardinality(Entered')
  BY <1>1, <1>4, EnteredFinite, FS_AddElement DEF DualInv
<1>6. \A u, v \in Threads : place'[u] \in Swapping /\ place'[v] \in Swapping => u = v
  <2>1. CASE n_dual_readers' = 1
    <3>1. Cardinality(Entered) = 0
      BY <1>1, <2>1, EnteredFinite DEF DualInv
    <3>2. Entered = {}
      BY <3>1, EnteredFinite, FS_EmptySet
    <3> QED BY <1>2, <3>2 DEF Entered
  <2>2. CASE n_dual_readers' # 1
    <3>1. place'[t] = "pick"  BY <1>1, <2>2 DEF DualTypeOK
    <3> QED BY <1>2, <3>1 DEF DualInv
  <2> QED BY <2>1, <2>2
<1> QED
  BY <1>1, <1>2, <1>3, <1>5, <1>6 DEF DualInv

(* So does the reader that leaves.                                         *)
LEMMA LeaveStep ==
  ASSUME DualTypeOK, DualInv, NEW t \in Threads, LeaveRead(t)
  PROVE  DualTypeOK' /\ DualInv'
<1> USE DEF Swapping, Counting
<1>1. /\ n_dual_readers' = n_dual_readers - 1
      /\ place[t] = "leave" /\ place' = [place EXCEPT ![t] = "out"]
      /\ UNCHANGED <<read_buf, write_buf, target, entries, alone>>
  BY DEF LeaveRead, Move, bufs
<1>2. place'[t] = "out" /\ \A u \in Threads \ {t} : place'[u] = place[u]
  BY <1>1 DEF DualTypeOK
<1>3. t \in Entered /\ Entered' = Entered \ {t}
  BY <1>1, <1>2 DEF Entered
<1>4. n_dual_readers' = Cardinality(Entered')
  BY <1>1, <1>3, EnteredFinite, FS_RemoveElement DEF DualInv
<1>5. DualTypeOK'
  BY <1>1, <1>4, EnteredFinite DEF DualTypeOK, Places
<1> QED
  BY <1>1, <1>2, <1>4, <1>5 DEF DualInv

(* The swap: write_buf becomes what read_buf is, and then read_buf what    *)
(* write_buf was.                                                          *)
LEMMA SwapStep ==
  ASSUME DualTypeOK, DualInv, NEW t \in Threads, SetWriteBuf(t) \/ SetReadBuf(t)
  PROVE  DualTypeOK' /\ DualInv'
<1> USE DEF Swapping, Counting
<1>1. CASE SetWriteBuf(t)
  <2>1. /\ place[t] = "set_write" /\ place' = [place EXCEPT ![t] = "set_read"]
        /\ write_buf' = read_buf
        /\ UNCHANGED <<n_dual_readers, read_buf, target, entries, alone>>
    BY <1>1 DEF SetWriteBuf, Move
  <2>2. place'[t] = "set_read" /\ \A u \in Threads \ {t} : place'[u] = place[u]
    BY <2>1 DEF DualTypeOK
  <2>3. \A u \in Threads \ {t} : place[u] \notin Swapping
    BY <2>1 DEF DualInv
  <2>4. target[t] = write_buf /\ read_buf # write_buf
    BY <2>1, <2>3 DEF DualInv
  <2>5. Entered' = Entered
    BY <2>1, <2>2 DEF Entered
  <2>6. DualTypeOK'
    BY <2>1 DEF DualTypeOK, Places
  <2> QED BY <2>1, <2>2, <2>3, <2>4, <2>5, <2>6 DEF DualInv
<1>2. CASE SetReadBuf(t)
  <2>1. /\ place[t] = "set_read" /\ place' = [place EXCEPT ![t] = "sync"]
        /\ read_buf' = target[t]
        /\ UNCHANGED <<n_dual_readers, write_buf, target, entries, alone>>
    BY <1>2 DEF SetReadBuf, Move
  <2>2. place'[t] = "sync" /\ \A u \in Threads \ {t} : place'[u] = place[u]
    BY <2>1 DEF DualTypeOK
  <2>3. \A u \in Threads \ {t} : place[u] \notin Swapping
    BY <2>1 DEF DualInv
  <2>4. target[t] # write_buf
    BY <2>1 DEF DualInv
  <2>5. Entered' = Entered
    BY <2>1, <2>2 DEF Entered
  <2>6. DualTypeOK'
    BY <2>1 DEF DualTypeOK, Places
  <2> QED BY <2>1, <2>2, <2>3, <2>4, <2>5, <2>6 DEF DualInv
<1> QED BY <1>1, <1>2

(* The invariant holds always.                                             *)
LEMMA DualInvariant == DualSpec => [](DualTypeOK /\ DualInv)
<1>1. DualInit => DualTypeOK /\ DualInv
  <2> SUFFICES ASSUME DualInit PROVE DualTypeOK /\ DualInv
    OBVIOUS
  <2>1. DualTypeOK  BY DEF DualInit, DualTypeOK, Places
  <2>2. Entered = {}  BY DEF DualInit, Entered, Counting, Swapping
  <2>3. Cardinality(Entered) = 0  BY <2>2, FS_EmptySet
  <2> QED BY <2>1, <2>3 DEF DualInit, DualInv, Swapping
<1>2. DualTypeOK /\ DualInv /\ [DualNext]_<<buffers, dual>> => (DualTypeOK /\ DualInv)'
  <2> SUFFICES ASSUME DualTypeOK, DualInv, [DualNext]_<<buffers, dual>>
               PROVE  DualTypeOK' /\ DualInv'
    OBVIOUS
  <2>1. CASE UNCHANGED dual
    BY <2>1 DEF DualTypeOK, DualInv, Entered, dual, bufs
  <2>2. ASSUME NEW t \in Threads, DualCall(t) \/ DualStep(t), ~UNCHANGED dual
        PROVE  DualTypeOK' /\ DualInv'
    BY <2>2, MostStroll, StrollType, StrollStep, EnterStep, LeaveStep, SwapStep
  <2> QED BY <2>1, <2>2 DEF DualNext
<1> QED
  BY <1>1, <1>2, PTL DEF DualSpec

(* The counter of the readers never goes below zero, and the pointers and  *)
(* places keep their types.                                                *)
THEOREM DualTypeCorrect == DualSpec => []DualTypeOK
BY DualInvariant, PTL

(* However many threads read, write and reset: the two pointers differ,    *)
(* but between the two assignments of a swap, and no two readers swap at a *)
(* time.                                                                   *)
THEOREM BuffersAreDistinct == DualSpec => []BuffersDistinct
<1>1. DualInv => BuffersDistinct
  BY DEF DualInv, BuffersDistinct
<1> QED
  BY <1>1, DualInvariant, PTL

-----------------------------------------------------------------------------
(* The bytes a reader copies.                                              *)

(* The second buffer has the constants of the first.                       *)
LEMMA SameAssumption == BP!BufferAssumption
BY BufferAssumption DEF BufferAssumption, BP!BufferAssumption

(* Both names of the second buffer stand for the same steps.               *)
LEMMA SameBegin ==
  ASSUME NEW t \in Threads
  PROVE  /\ B!BeginWrite(t, FALSE) => BP!BeginWrite(t, FALSE)
         /\ B!BeginReset(t) => BP!BeginReset(t)
         /\ B!BeginSync(t) => BP!BeginSync(t)
         /\ B!BeginRead(t) => BP!BeginRead(t)
         /\ B!ReadCopy(t) => BP!ReadCopy(t)
<1> USE DEF B!Go, BP!Go, B!Undisturbed, BP!Undisturbed, B!counts, BP!counts, B!hist, BP!hist,
            B!Asked, BP!Asked, B!NoCall, BP!NoCall, B!Changing, BP!Changing,
            B!Claiming, BP!Claiming, B!Claimed, BP!Claimed, B!Publishing, BP!Publishing,
            B!Resetting, BP!Resetting, B!Syncing, BP!Syncing,
            B!Index, BP!Index, B!Least, BP!Least, B!Hold, BP!Hold, B!BeginCopy, BP!BeginCopy
<1>1. B!BeginWrite(t, FALSE) => BP!BeginWrite(t, FALSE)
  BY Zenon DEF B!BeginWrite, BP!BeginWrite
<1>2. B!BeginReset(t) => BP!BeginReset(t)
  BY Zenon DEF B!BeginReset, BP!BeginReset
<1>3. B!BeginSync(t) => BP!BeginSync(t)
  BY Zenon DEF B!BeginSync, BP!BeginSync
<1>4. B!BeginRead(t) => BP!BeginRead(t)
  BY Zenon DEF B!BeginRead, BP!BeginRead
<1>5. B!ReadCopy(t) => BP!ReadCopy(t)
  BY Zenon DEF B!ReadCopy, BP!ReadCopy
<1> QED BY <1>1, <1>2, <1>3, <1>4, <1>5

(* The same for the steps of a call.                                       *)
LEMMA SameSteps ==
  ASSUME NEW t \in Threads
  PROVE  /\ B!Write(t) => BP!Write(t)
         /\ B!Reset(t) => BP!Reset(t)
         /\ B!Sync(t) => BP!Sync(t)
<1> USE DEF B!Go, BP!Go, B!Lock, BP!Lock, B!counts, BP!counts, B!hist, BP!hist,
            B!Asked, BP!Asked, B!NoCall, BP!NoCall, B!Dropped, BP!Dropped,
            B!Index, BP!Index, B!Least, BP!Least, B!Accessible, BP!Accessible
<1>1. /\ B!Enter(t) => BP!Enter(t)
      /\ B!LockFirst(t) => BP!LockFirst(t)
      /\ B!Claim(t) => BP!Claim(t)
      /\ B!Count(t) => BP!Count(t)
      /\ B!Refuse(t) => BP!Refuse(t)
      /\ B!Copy(t) => BP!Copy(t)
  BY Zenon DEF B!Enter, BP!Enter, B!LockFirst, BP!LockFirst, B!Claim, BP!Claim,
               B!Count, BP!Count, B!Refuse, BP!Refuse, B!Copy, BP!Copy
<1>2. /\ B!Leave(t) => BP!Leave(t)
      /\ B!Unlock(t) => BP!Unlock(t)
      /\ B!LoadTmp(t) => BP!LoadTmp(t)
      /\ B!AddWritten(t) => BP!AddWritten(t)
      /\ B!ClearTmp(t) => BP!ClearTmp(t)
      /\ B!WaitForGroup(t) => BP!WaitForGroup(t)
  BY Zenon DEF B!Leave, BP!Leave, B!Unlock, BP!Unlock, B!LoadTmp, BP!LoadTmp,
               B!AddWritten, BP!AddWritten, B!ClearTmp, BP!ClearTmp,
               B!WaitForGroup, BP!WaitForGroup
<1>3. B!Write(t) => BP!Write(t)
  BY <1>1, <1>2 DEF B!Write, BP!Write
<1>4. B!Reset(t) => BP!Reset(t)
  BY Zenon DEF B!Reset, BP!Reset, B!CheckWriters, BP!CheckWriters, B!DrainWriters, BP!DrainWriters,
         B!ResetOff, BP!ResetOff, B!ResetWritten, BP!ResetWritten, B!ResetTmp, BP!ResetTmp
<1>5. B!Sync(t) => BP!Sync(t)
  BY Zenon DEF B!Sync, BP!Sync, B!SyncCheck, BP!SyncCheck, B!SyncDrain, BP!SyncDrain
<1> QED BY <1>3, <1>4, <1>5

BTakes(t, from, to) ==
  /\ b_pc[t] \in from /\ b_pc'[t] \in to
  /\ \A u \in Threads \ {t} : b_pc'[u] = b_pc[u] /\ b_call'[u] = b_call[u]

(* Where each step of the second buffer takes its thread from and to.      *)
LEMMA BStepTakes ==
  ASSUME BP!TypeOK, NEW t \in Threads
  PROVE  /\ B!BeginWrite(t, FALSE) => BTakes(t, {"idle"}, {"enter"})
         /\ B!Write(t) => BTakes(t, Ins, Ins \cup {"idle"})
         /\ B!BeginReset(t) => BTakes(t, {"idle"}, {"check"})
         /\ B!Reset(t) => BTakes(t, Resetting, Resetting \cup {"idle"})
         /\ B!BeginSync(t) => BTakes(t, {"idle"}, {"sync"})
         /\ B!Sync(t) => BTakes(t, Syncing, Syncing \cup {"idle"})
         /\ B!BeginRead(t) => BTakes(t, {"idle"}, {"read"})
         /\ B!ReadCopy(t) => BTakes(t, {"read"}, {"idle"})
<1>1. /\ BP!BeginWrite(t, FALSE) => BP!Takes(t, {"idle"}, {"enter"})
      /\ BP!Write(t) => BP!Takes(t, BP!Ins, BP!Ins \cup {"idle"})
      /\ BP!BeginReset(t) => BP!Takes(t, {"idle"}, {"check"})
      /\ BP!Reset(t) => BP!Takes(t, BP!Resetting, BP!Resetting \cup {"idle"})
      /\ BP!BeginSync(t) => BP!Takes(t, {"idle"}, {"sync"})
      /\ BP!Sync(t) => BP!Takes(t, BP!Syncing, BP!Syncing \cup {"idle"})
      /\ BP!BeginRead(t) => BP!Takes(t, {"idle"}, {"read"})
      /\ BP!ReadCopy(t) => BP!Takes(t, {"read"}, {"idle"})
  BY BP!StepTakes, SameAssumption
<1>2. BP!Ins = Ins /\ BP!Resetting = Resetting /\ BP!Syncing = Syncing
  BY DEF BP!Ins, Ins, Claiming, Claimed, Publishing, Resetting, Syncing,
         BP!Claiming, BP!Claimed, BP!Publishing, BP!Resetting, BP!Syncing
<1>3. \A from, to : BP!Takes(t, from, to) <=> BTakes(t, from, to)
  BY DEF BP!Takes, BTakes
<1> QED
  BY <1>1, <1>2, <1>3, SameBegin, SameSteps

(* Every step of the dual buffer is one that a buffer is used with, and    *)
(* leaves the other one alone.                                             *)
LEMMA UsesOne ==
  ASSUME NEW t \in Threads, DualCall(t) \/ DualStep(t)
  PROVE  /\ Used(t) \/ UNCHANGED vars
         /\ BP!Used(t) \/ UNCHANGED bvars
<1> USE DEF In, buffers
<1>1. CASE DualWrite(t) \/ EnterRead(t)
  BY <1>1 DEF DualWrite, EnterRead, Entry
<1>2. CASE DualReset(t)
  BY <1>2, SameBegin DEF DualReset, Used, BP!Used, Waits, BP!Waits
<1>3. CASE WriteTarget(t)
  BY <1>3, SameBegin DEF WriteTarget, Used, BP!Used
<1>4. CASE ResetReadBuf(t)
  BY <1>4, SameBegin DEF ResetReadBuf, Used, BP!Used, Waits, BP!Waits
<1>5. CASE LoadWriteBuf(t) \/ SetWriteBuf(t) \/ SetReadBuf(t) \/ LoadReadBuf(t) \/ LeaveRead(t)
  BY <1>5 DEF LoadWriteBuf, SetWriteBuf, SetReadBuf, LoadReadBuf, LeaveRead
<1>6. CASE SyncReadBuf(t)
  BY <1>6, SameBegin DEF SyncReadBuf, Used, BP!Used, Waits, BP!Waits
<1>7. CASE ReadTarget(t)
  BY <1>7, SameBegin DEF ReadTarget, Used, BP!Used
<1>8. CASE CopyTarget(t)
  BY <1>8, SameBegin DEF CopyTarget, Used, BP!Used
<1>9. CASE ResetWriteBuf(t)
  BY <1>9, SameBegin DEF ResetWriteBuf, Used, BP!Used, Waits, BP!Waits
<1>10. CASE \/ (Write(t) \/ Reset(t) \/ Sync(t)) /\ UNCHANGED bvars
            \/ (B!Write(t) \/ B!Reset(t) \/ B!Sync(t)) /\ UNCHANGED vars
  BY <1>10, SameSteps DEF Used, BP!Used, Waits, BP!Waits
<1> QED
  BY <1>1, <1>2, <1>3, <1>4, <1>5, <1>6, <1>7, <1>8, <1>9, <1>10
     DEF DualCall, DualStep, Switch

(* The buffer calls a thread can be in at each place.                      *)
Where(t) ==
  /\ pc[t] \in Ins \/ b_pc[t] \in Ins => t \in DualWriters
  /\ place[t] = "write" => t \in DualWriters
  /\ pc[t] = "idle" \/ b_pc[t] = "idle"
  /\ place[t] \in {"write", "load", "reset", "set_read", "sync", "read", "leave"} => Returned(t)
  /\ place[t] \in {"set_write", "reset_other"} =>
       pc[t] \in {"idle"} \cup Resetting /\ b_pc[t] \in {"idle"} \cup Resetting
  /\ place[t] = "pick" =>
       pc[t] \in {"idle"} \cup Syncing /\ b_pc[t] \in {"idle"} \cup Syncing
  /\ place[t] = "copying" => IF target[t] = "A" THEN pc[t] = "read" ELSE b_pc[t] = "read"

(* A step of t concerns t only.                                            *)
LEMMA Elsewhere ==
  ASSUME DualTypeOK, TypeOK, BP!TypeOK, NEW t \in Threads, DualCall(t) \/ DualStep(t)
  PROVE  \A u \in Threads \ {t} :
           /\ pc'[u] = pc[u] /\ b_pc'[u] = b_pc[u]
           /\ call'[u] = call[u] /\ b_call'[u] = b_call[u]
           /\ place'[u] = place[u] /\ target'[u] = target[u]
<1>1. \A u \in Threads \ {t} : pc'[u] = pc[u] /\ call'[u] = call[u]
  BY UsesOne, StepTakes DEF Used, Waits, Takes, vars
<1>2. \A u \in Threads \ {t} : b_pc'[u] = b_pc[u] /\ b_call'[u] = b_call[u]
  <2>1. CASE UNCHANGED bvars
    BY <2>1 DEF bvars
  <2>2. CASE BP!Used(t)
    <3>1. \E from, to : BP!Takes(t, from, to)
      <4>1. /\ BP!BeginWrite(t, FALSE) => BP!Takes(t, {"idle"}, {"enter"})
            /\ BP!Write(t) => BP!Takes(t, BP!Ins, BP!Ins \cup {"idle"})
            /\ BP!BeginReset(t) => BP!Takes(t, {"idle"}, {"check"})
            /\ BP!Reset(t) => BP!Takes(t, BP!Resetting, BP!Resetting \cup {"idle"})
            /\ BP!BeginSync(t) => BP!Takes(t, {"idle"}, {"sync"})
            /\ BP!Sync(t) => BP!Takes(t, BP!Syncing, BP!Syncing \cup {"idle"})
            /\ BP!BeginRead(t) => BP!Takes(t, {"idle"}, {"read"})
            /\ BP!ReadCopy(t) => BP!Takes(t, {"read"}, {"idle"})
        BY BP!StepTakes, SameAssumption
      <4> QED BY <2>2, <4>1 DEF BP!Used, BP!Waits
    <3> QED BY <3>1 DEF BP!Takes
  <2> QED BY <2>1, <2>2, UsesOne
<1>3. \A u \in Threads \ {t} : place'[u] = place[u]
  <2>1. place' = place \/ \E to : place' = [place EXCEPT ![t] = to]
    BY DEF DualCall, DualStep, Switch, DualWrite, EnterRead, DualReset, WriteTarget, LoadWriteBuf,
           ResetReadBuf, SetWriteBuf, SetReadBuf, SyncReadBuf, LoadReadBuf, ReadTarget, CopyTarget,
           LeaveRead, ResetWriteBuf, Move, dual
  <2> QED BY <2>1 DEF DualTypeOK
<1>4. \A u \in Threads \ {t} : target'[u] = target[u]
  <2>1. target' = target \/ \E x : target' = [target EXCEPT ![t] = x]
    BY DEF DualCall, DualStep, Switch, DualWrite, EnterRead, Entry, DualReset, WriteTarget,
           LoadWriteBuf, ResetReadBuf, SetWriteBuf, SetReadBuf, SyncReadBuf, LoadReadBuf,
           ReadTarget, CopyTarget, LeaveRead, ResetWriteBuf, Load, dual
  <2> QED BY <2>1 DEF DualTypeOK
<1> QED
  BY <1>1, <1>2, <1>3, <1>4

(* A thread is in the calls of its place after every step.                 *)
LEMMA WhereStep ==
  ASSUME DualTypeOK, TypeOK, BP!TypeOK, \A u \in Threads : Where(u),
         NEW t \in Threads, DualCall(t) \/ DualStep(t)
  PROVE  \A u \in Threads : Where(u)'
<1>1. \A u \in Threads \ {t} : Where(u)'
  BY Elsewhere DEF Where, Returned
<1> SUFFICES Where(t)'
  BY <1>1
<1> USE DEF Where, Returned, Move, In, buffers, Ins, Claiming, Claimed, Publishing, Resetting,
            Syncing, Takes, BTakes
<1>0. place \in [Threads -> Places] /\ target \in [Threads -> {"A", "B"}] /\ Where(t)
  BY DEF DualTypeOK
<1>2. CASE DualWrite(t) \/ EnterRead(t)
  BY <1>0, <1>2 DEF DualWrite, EnterRead, Entry, Free, vars, bvars
<1>3. CASE DualReset(t)
  BY <1>0, <1>3, StepTakes, BStepTakes DEF DualReset, Free, vars, bvars
<1>4. CASE WriteTarget(t)
  BY <1>0, <1>4, StepTakes, BStepTakes DEF WriteTarget, vars, bvars
<1>5. CASE ResetReadBuf(t)
  BY <1>0, <1>5, StepTakes, BStepTakes DEF ResetReadBuf, vars, bvars
<1>6. CASE LoadWriteBuf(t) \/ SetWriteBuf(t) \/ SetReadBuf(t)
  BY <1>0, <1>6 DEF LoadWriteBuf, SetWriteBuf, SetReadBuf, vars, bvars
<1>7. CASE LoadReadBuf(t) \/ LeaveRead(t)
  BY <1>0, <1>7 DEF LoadReadBuf, LeaveRead, vars, bvars
<1>8. CASE SyncReadBuf(t)
  BY <1>0, <1>8, StepTakes, BStepTakes DEF SyncReadBuf, vars, bvars
<1>9. CASE ReadTarget(t)
  <2>1. pc[t] = "idle" /\ b_pc[t] = "idle" /\ target'[t] = target[t]
    BY <1>0, <1>9 DEF ReadTarget
  <2>2. CASE Move(t, "read", "leave") /\ UNCHANGED buffers
    BY <1>0, <2>1, <2>2 DEF vars, bvars
  <2>3. CASE Move(t, "read", "copying") /\ target[t] = "A" /\ BeginRead(t) /\ UNCHANGED bvars
    <3>1. pc'[t] = "read" /\ b_pc'[t] = "idle"
      BY <2>1, <2>3, StepTakes DEF bvars
    <3> QED BY <1>0, <2>1, <2>3, <3>1
  <2>4. CASE Move(t, "read", "copying") /\ target[t] = "B" /\ B!BeginRead(t) /\ UNCHANGED vars
    <3>1. pc'[t] = "idle" /\ b_pc'[t] = "read"
      BY <2>1, <2>4, BStepTakes DEF vars
    <3> QED BY <1>0, <2>1, <2>4, <3>1
  <2> QED BY <1>9, <2>2, <2>3, <2>4 DEF ReadTarget
<1>10. CASE CopyTarget(t)
  BY <1>0, <1>10, StepTakes, BStepTakes DEF CopyTarget, vars, bvars
<1>11. CASE ResetWriteBuf(t)
  BY <1>0, <1>11, StepTakes, BStepTakes DEF ResetWriteBuf, vars, bvars
<1>12. CASE (Write(t) \/ Reset(t) \/ Sync(t)) /\ UNCHANGED bvars /\ UNCHANGED dual
  BY <1>0, <1>12, StepTakes DEF bvars, dual
<1>13. CASE (B!Write(t) \/ B!Reset(t) \/ B!Sync(t)) /\ UNCHANGED vars /\ UNCHANGED dual
  BY <1>0, <1>13, BStepTakes DEF vars, dual
<1> QED
  BY <1>2, <1>3, <1>4, <1>5, <1>6, <1>7, <1>8, <1>9, <1>10, <1>11, <1>12, <1>13
     DEF DualCall, DualStep, Switch

Sound ==
  /\ DualTypeOK /\ DualInv
  /\ TypeOK /\ BP!TypeOK
  /\ \A t \in Threads : Where(t)

(* Types, pointers and places hold after every step.                       *)
LEMMA SoundStep ==
  ASSUME Sound, NEW t \in Threads, DualCall(t) \/ DualStep(t)
  PROVE  Sound'
<1>1. (\A u \in Threads : Where(u))'
  BY WhereStep DEF Sound
<1>2. TypeOK'
  BY UsesOne, UsedType DEF Sound
<1>3. BP!TypeOK'
  <2>1. BP!Used(t) \/ UNCHANGED BP!vars
    BY UsesOne DEF bvars, BP!vars, BP!counts, BP!hist
  <2> QED
    BY <2>1, BP!UsedType, SameAssumption DEF Sound
<1>4. DualTypeOK' /\ DualInv'
  <2>1. CASE UNCHANGED dual
    BY <2>1 DEF Sound, DualTypeOK, DualInv, Entered, dual, bufs
  <2> QED
    BY <2>1, MostStroll, StrollType, StrollStep, EnterStep, LeaveStep, SwapStep DEF Sound
<1> QED
  BY <1>1, <1>2, <1>3, <1>4 DEF Sound

(* While one reader is counted, nobody else swaps or resets.               *)
Settled == \A t, u \in Threads : place[t] \in Counting /\ u # t => ~Unsettled(u)

(* As long as readers keep apart, nobody swaps or resets while a reader is *)
(* counted.                                                                *)
LEMMA SettledStep ==
  ASSUME Sound, Settled, NEW t \in Threads, DualCall(t) \/ DualStep(t), alone'
  PROVE  Settled'
<1> USE DEF Sound
<1>1. \A u \in Threads \ {t} : /\ Unsettled(u)' <=> Unsettled(u)
                               /\ place'[u] = place[u]
  BY Elsewhere DEF Unsettled
<1>2. CASE EnterRead(t)
  <2>1. /\ \A u \in Threads : ~Unsettled(u)
        /\ n_dual_readers' = n_dual_readers + 1 /\ Free(t)
        /\ place[t] = "out" /\ place' = [place EXCEPT ![t] = IF n_dual_readers' = 1 THEN "load" ELSE "pick"]
        /\ UNCHANGED <<pc, b_pc>>
    BY <1>2 DEF EnterRead, Entry, Move, buffers, vars, bvars
  <2>2. CASE n_dual_readers' = 1
    <3>1. Cardinality(Entered) = 0
      BY <2>1, <2>2, EnteredFinite DEF DualInv
    <3>2. Entered = {}
      BY <3>1, EnteredFinite, FS_EmptySet
    <3>3. \A v, u \in Threads : place'[v] \in Counting => v = t
      BY <1>1, <3>2 DEF Entered
    <3> QED BY <1>1, <2>1, <3>3 DEF Settled
  <2>3. CASE n_dual_readers' # 1
    <3>1. place'[t] = "pick" /\ pc'[t] = "idle" /\ b_pc'[t] = "idle"
      BY <2>1, <2>3 DEF DualTypeOK, Free, Returned
    <3>2. ~Unsettled(t)'
      BY <3>1 DEF Unsettled, Swapping, Resetting, Syncing
    <3> QED BY <1>1, <2>1, <3>2 DEF Settled
  <2> QED BY <2>2, <2>3
<1>3. CASE DualReset(t)
  <2>1. n_dual_readers = 0 /\ place'[t] \notin Counting
    BY <1>3 DEF DualReset, Move, DualTypeOK, Counting, Swapping
  <2>2. Entered = {}
    BY <2>1, EnteredFinite, FS_EmptySet DEF DualInv
  <2>3. \A u \in Threads : place'[u] \notin Counting
    BY <1>1, <2>1, <2>2 DEF Entered
  <2> QED BY <2>3 DEF Settled
<1>4. ASSUME Unsettled(t)' => Unsettled(t), place'[t] \in Counting => place[t] \in Counting
      PROVE  Settled'
  BY <1>1, <1>4 DEF Settled
<1> USE DEF Unsettled, Where, Returned, Move, In, buffers, Ins, Claiming, Claimed, Publishing,
            Resetting, Syncing, Swapping, Counting, Takes, BTakes, DualTypeOK
<1>5. CASE DualWrite(t)
  BY <1>4, <1>5 DEF DualWrite, Free, vars, bvars
<1>6. CASE WriteTarget(t)
  BY <1>4, <1>6, StepTakes, BStepTakes DEF WriteTarget, vars, bvars
<1>7. CASE ResetReadBuf(t)
  BY <1>4, <1>7, StepTakes, BStepTakes DEF ResetReadBuf, vars, bvars
<1>8. CASE LoadWriteBuf(t) \/ SetWriteBuf(t) \/ SetReadBuf(t)
  BY <1>4, <1>8 DEF LoadWriteBuf, SetWriteBuf, SetReadBuf, vars, bvars
<1>9. CASE LoadReadBuf(t) \/ LeaveRead(t)
  BY <1>4, <1>9 DEF LoadReadBuf, LeaveRead, vars, bvars
<1>10. CASE SyncReadBuf(t)
  BY <1>4, <1>10, StepTakes, BStepTakes DEF SyncReadBuf, vars, bvars
<1>11. CASE ReadTarget(t)
  <2>1. BeginRead(t) \/ UNCHANGED vars
    BY <1>11 DEF ReadTarget
  <2>2. B!BeginRead(t) \/ UNCHANGED bvars
    BY <1>11 DEF ReadTarget
  <2>3. pc'[t] \in {pc[t], "read"}
    BY <2>1, StepTakes DEF vars
  <2>4. b_pc'[t] \in {b_pc[t], "read"}
    BY <2>2, BStepTakes DEF bvars
  <2>5. place[t] = "read" /\ place'[t] \in {"copying", "leave"}
    BY <1>11 DEF ReadTarget
  <2> QED BY <1>4, <2>3, <2>4, <2>5
<1>12. CASE CopyTarget(t)
  <2>1. ReadCopy(t) \/ UNCHANGED vars
    BY <1>12 DEF CopyTarget
  <2>2. B!ReadCopy(t) \/ UNCHANGED bvars
    BY <1>12 DEF CopyTarget
  <2>3. pc'[t] \in {pc[t], "idle"}
    BY <2>1, StepTakes DEF vars
  <2>4. b_pc'[t] \in {b_pc[t], "idle"}
    BY <2>2, BStepTakes DEF bvars
  <2>5. place[t] = "copying" /\ place'[t] = "leave"
    BY <1>12 DEF CopyTarget
  <2> QED BY <1>4, <2>3, <2>4, <2>5
<1>13. CASE ResetWriteBuf(t)
  BY <1>4, <1>13, StepTakes, BStepTakes DEF ResetWriteBuf, vars, bvars
<1>14. CASE (Write(t) \/ Reset(t) \/ Sync(t)) /\ UNCHANGED bvars /\ UNCHANGED dual
  BY <1>4, <1>14, StepTakes DEF bvars, dual
<1>15. CASE (B!Write(t) \/ B!Reset(t) \/ B!Sync(t)) /\ UNCHANGED vars /\ UNCHANGED dual
  BY <1>4, <1>15, BStepTakes DEF vars, dual
<1> QED
  BY <1>2, <1>3, <1>5, <1>6, <1>7, <1>8, <1>9, <1>10, <1>11, <1>12, <1>13, <1>14, <1>15
     DEF DualCall, DualStep, Switch

(* Writes and resets of one buffer do not begin while the other is under   *)
(* way, nor a write while another one is.                                  *)
LEMMA BeginsApart ==
  ASSUME Sound, NEW t \in Threads, DualCall(t) \/ DualStep(t), alone'
  PROVE  /\ pc[t] = "idle" /\ pc'[t] = "enter" => \A u \in Threads : pc[u] \notin Resetting
         /\ pc[t] = "idle" /\ pc'[t] \in {"enter", "check"} =>
              \A u \in Threads : pc[u] \notin Ins
         /\ b_pc[t] = "idle" /\ b_pc'[t] = "enter" => \A u \in Threads : b_pc[u] \notin Resetting
         /\ b_pc[t] = "idle" /\ b_pc'[t] \in {"enter", "check"} =>
              \A u \in Threads : b_pc[u] \notin Ins
<1> USE DEF In, buffers, Takes, BTakes, Sound
<1>0. read_buf \in {"A", "B"} /\ write_buf \in {"A", "B"} /\ target[t] \in {"A", "B"}
  BY DEF DualTypeOK
<1>1. CASE pc' = pc /\ b_pc' = b_pc
  BY <1>1
<1>2. CASE DualWrite(t) \/ EnterRead(t)
  BY <1>1, <1>2 DEF DualWrite, EnterRead, Entry, vars, bvars
<1>3. CASE DualReset(t)
  <2>1. Inside(read_buf) = {}
    BY <1>3 DEF DualReset
  <2> QED
    BY <1>0, <1>3, <2>1, StepTakes, BStepTakes DEF DualReset, Inside, Ins, vars, bvars
<1>4. CASE WriteTarget(t)
  <2>1. ~Emptied(target[t]) /\ Inside(target[t]) = {}
    BY <1>4 DEF WriteTarget
  <2> QED
    BY <1>0, <1>4, <2>1, StepTakes, BStepTakes
    DEF WriteTarget, Emptied, Inside, Ins, vars, bvars
<1>5. CASE ResetReadBuf(t)
  <2>1. Inside(read_buf) = {}
    BY <1>5 DEF ResetReadBuf
  <2> QED
    BY <1>0, <1>5, <2>1, StepTakes, BStepTakes DEF ResetReadBuf, Inside, Ins, vars, bvars
<1>6. CASE LoadWriteBuf(t) \/ SetWriteBuf(t) \/ SetReadBuf(t) \/ LoadReadBuf(t) \/ LeaveRead(t)
  BY <1>1, <1>6 DEF LoadWriteBuf, SetWriteBuf, SetReadBuf, LoadReadBuf, LeaveRead, vars, bvars
<1>7. CASE SyncReadBuf(t)
  BY <1>7, StepTakes, BStepTakes DEF SyncReadBuf, vars, bvars
<1>8. CASE ReadTarget(t)
  BY <1>8, StepTakes, BStepTakes DEF ReadTarget, vars, bvars
<1>9. CASE CopyTarget(t)
  BY <1>9, StepTakes, BStepTakes DEF CopyTarget, vars, bvars
<1>10. CASE ResetWriteBuf(t)
  <2>1. Inside(write_buf) = {}
    BY <1>10 DEF ResetWriteBuf
  <2> QED
    BY <1>0, <1>10, <2>1, StepTakes, BStepTakes DEF ResetWriteBuf, Inside, Ins, vars, bvars
<1>11. CASE (Write(t) \/ Reset(t) \/ Sync(t)) /\ UNCHANGED bvars
  BY <1>11, StepTakes DEF bvars, Ins, Claiming, Claimed, Publishing, Resetting, Syncing
<1>12. CASE (B!Write(t) \/ B!Reset(t) \/ B!Sync(t)) /\ UNCHANGED vars
  BY <1>12, BStepTakes DEF vars, Ins, Claiming, Claimed, Publishing, Resetting, Syncing
<1> QED
  BY <1>2, <1>3, <1>4, <1>5, <1>6, <1>7, <1>8, <1>9, <1>10, <1>11, <1>12
     DEF DualCall, DualStep, Switch

(* So that in neither buffer a write overlaps a reset or another write.    *)
LEMMA ApartKept ==
  ASSUME Sound, Apart, BP!Apart, Solo, BP!Solo,
         NEW t \in Threads, DualCall(t) \/ DualStep(t), alone'
  PROVE  Apart' /\ BP!Apart' /\ Solo' /\ BP!Solo'
<1> USE DEF Sound
<1>1. /\ BeginWrite(t, FALSE) => \A u \in Threads : pc[u] \notin Resetting \cup Ins
      /\ BeginReset(t) => \A u \in Threads : pc[u] \notin Ins
  BY BeginsApart, StepTakes DEF Takes
<1>2. Apart' /\ Solo'
  BY <1>1, UsesOne, ApartStep, SoloKept
<1>3. BP!Ins = Ins /\ BP!Resetting = Resetting
  BY DEF BP!Ins, Ins, Claiming, Claimed, Publishing, Resetting,
         BP!Claiming, BP!Claimed, BP!Publishing, BP!Resetting
<1>4. /\ BP!BeginWrite(t, FALSE) => BP!Takes(t, {"idle"}, {"enter"})
      /\ BP!BeginReset(t) => BP!Takes(t, {"idle"}, {"check"})
  BY BP!StepTakes, SameAssumption
<1>5. /\ BP!BeginWrite(t, FALSE) => \A u \in Threads : b_pc[u] \notin BP!Resetting \cup BP!Ins
      /\ BP!BeginReset(t) => \A u \in Threads : b_pc[u] \notin BP!Ins
  BY <1>3, <1>4, BeginsApart DEF BP!Takes
<1>6. BP!Used(t) \/ UNCHANGED BP!vars
  BY UsesOne DEF bvars, BP!vars, BP!counts, BP!hist
<1>7. BP!Apart' /\ BP!Solo'
  BY <1>5, <1>6, BP!ApartStep, BP!SoloKept, SameAssumption
<1> QED
  BY <1>2, <1>7

(* What a reader copies is published.                                      *)
Published(x) == IF x = "A" THEN n_bytes_written ELSE b_n_bytes_written

Behind ==
  \A t \in Threads : place[t] = "copying" =>
    Copied(t).start + Copied(t).len <= Published(target[t])

(* Every buffer has one writer at a time.                                  *)
Single == Solo /\ BP!Solo /\ SoloGroup /\ BP!SoloGroup

Unmixed == Single /\ Apart /\ BP!Apart /\ Ahead /\ BP!Ahead /\ Settled /\ Behind

(* While somebody copies, nobody resets.                                   *)
LEMMA CopyingIsQuiet ==
  ASSUME Sound, Settled, NEW t \in Threads, place[t] = "copying"
  PROVE  \A u \in Threads : pc[u] \notin Resetting /\ b_pc[u] \notin Resetting
<1>1. \A u \in Threads \ {t} : ~Unsettled(u)
  BY DEF Settled, Counting
<1>2. pc[t] \in {"idle", "read"} /\ b_pc[t] \in {"idle", "read"}
  BY DEF Sound, Where
<1> QED
  BY <1>1, <1>2 DEF Unsettled, Resetting

(* So what it copies stays as it is.                                       *)
LEMMA BothKeep ==
  ASSUME Sound, Unmixed, NEW t \in Threads, DualCall(t) \/ DualStep(t)
  PROVE  Keeps /\ BP!Keeps
<1>1. BP!Used(t) \/ UNCHANGED BP!vars
  BY UsesOne DEF bvars, BP!vars, BP!counts, BP!hist
<1> QED
  BY <1>1, UsesOne, PublishedStays, BP!PublishedStays, SameAssumption DEF Sound, Unmixed, Single

(* A reader takes no step while it copies but the one that ends it.        *)
LEMMA CopyingWaits ==
  ASSUME Sound, NEW t \in Threads, DualCall(t) \/ DualStep(t), place'[t] = "copying"
  PROVE  place[t] = "read" /\ ReadTarget(t)
<1> USE DEF Move, Sound, DualTypeOK
<1>1. ~DualCall(t) /\ ~Switch(t)
  BY DEF DualCall, DualWrite, EnterRead, DualReset, Switch, LoadWriteBuf, ResetReadBuf,
         SetWriteBuf, SetReadBuf, SyncReadBuf
<1>2. ~WriteTarget(t) /\ ~LoadReadBuf(t) /\ ~CopyTarget(t) /\ ~LeaveRead(t) /\ ~ResetWriteBuf(t)
  BY DEF WriteTarget, LoadReadBuf, CopyTarget, LeaveRead, ResetWriteBuf
<1>3. ASSUME UNCHANGED dual, Write(t) \/ Reset(t) \/ Sync(t)
      PROVE  FALSE
  BY <1>3, StepTakes DEF dual, Where, Takes, Ins, Claiming, Claimed, Publishing, Resetting, Syncing
<1>4. ASSUME UNCHANGED dual, B!Write(t) \/ B!Reset(t) \/ B!Sync(t)
      PROVE  FALSE
  BY <1>4, BStepTakes DEF dual, Where, BTakes, Ins, Claiming, Claimed, Publishing, Resetting,
                          Syncing
<1>5. ReadTarget(t)
  BY <1>1, <1>2, <1>3, <1>4 DEF DualStep
<1>6. place[t] = "read"
  BY <1>5 DEF ReadTarget
<1> QED
  BY <1>5, <1>6

(* What a reader copies stays published, and was when it began.            *)
LEMMA BehindStep ==
  ASSUME Sound, Unmixed, NEW t \in Threads, DualCall(t) \/ DualStep(t)
  PROVE  Behind'
<1> SUFFICES ASSUME NEW v \in Threads, place'[v] = "copying"
             PROVE  Copied(v)'.start + Copied(v)'.len <= Published(target[v])'
  BY DEF Behind
<1>0. /\ call \in [Threads -> Calls] /\ b_call \in [Threads -> BP!Calls]
      /\ n_bytes_written \in Nat /\ b_n_bytes_written \in Nat
      /\ target \in [Threads -> {"A", "B"}]
  BY DEF Sound, TypeOK, BP!TypeOK, DualTypeOK
<1>1. CASE v # t
  <2>1. place[v] = "copying" /\ target'[v] = target[v] /\ call'[v] = call[v] /\ b_call'[v] = b_call[v]
    BY <1>1, Elsewhere DEF Sound
  <2>2. \A u \in Threads : pc[u] \notin Resetting /\ b_pc[u] \notin Resetting
    BY <2>1, CopyingIsQuiet DEF Unmixed
  <2>3. n_bytes_written <= n_bytes_written' /\ b_n_bytes_written <= b_n_bytes_written'
    BY <2>2, BothKeep DEF Keeps, BP!Keeps, Resetting, BP!Resetting
  <2>4. n_bytes_written' \in Nat /\ b_n_bytes_written' \in Nat
    BY SoundStep DEF Sound, TypeOK, BP!TypeOK
  <2>5. Copied(v)' = Copied(v) /\ Copied(v).start \in Nat /\ Copied(v).len \in Nat
    BY <1>0, <2>1 DEF Copied, Calls, BP!Calls
  <2>6. Copied(v).start + Copied(v).len <= Published(target[v])
    BY <2>1 DEF Unmixed, Behind
  <2> QED
    BY <1>0, <2>1, <2>3, <2>4, <2>5, <2>6 DEF Published
<1>2. CASE v = t
  <2>1. ReadTarget(t) /\ place[t] = "read"
    BY <1>2, CopyingWaits
  <2>2. /\ target' = target
        /\ target[t] = "A" => BeginRead(t)
        /\ target[t] # "A" => BP!BeginRead(t)
    <3>1. In(target[t], BeginRead(t), B!BeginRead(t)) /\ target' = target
      BY <1>2, <2>1 DEF ReadTarget, Move, Sound, DualTypeOK
    <3> QED
      BY <3>1, SameBegin DEF In
  <2>3. CASE target[t] = "A"
    <3>1. call'[t].start + call'[t].len <= n_bytes_written'
      BY <2>2, <2>3, ReadBelow DEF Sound
    <3> QED
      BY <1>2, <2>2, <2>3, <3>1 DEF Copied, Published
  <2>4. CASE target[t] # "A"
    <3>1. b_call'[t].start + b_call'[t].len <= b_n_bytes_written'
      BY <2>2, <2>4, BP!ReadBelow, SameAssumption DEF Sound
    <3> QED
      BY <1>2, <2>2, <2>4, <3>1 DEF Copied, Published
  <2> QED BY <2>3, <2>4
<1> QED BY <1>1, <1>2

(* All of this holds after every step, as long as the readers keep apart.  *)
LEMMA UnmixedStep ==
  ASSUME Sound, Unmixed, NEW t \in Threads, DualCall(t) \/ DualStep(t), alone'
  PROVE  Unmixed'
<1> USE DEF Single
<1>1. Apart' /\ BP!Apart' /\ Solo' /\ BP!Solo'
  BY ApartKept DEF Unmixed
<1>2. Settled'
  BY SettledStep DEF Unmixed
<1>3. Ahead' /\ SoloGroup'
  BY <1>1, UsesOne, AheadStep, SoloStep DEF Sound, Unmixed
<1>4. BP!Ahead' /\ BP!SoloGroup'
  <2>1. BP!Used(t) \/ UNCHANGED BP!vars
    BY UsesOne DEF bvars, BP!vars, BP!counts, BP!hist
  <2> QED
    BY <1>1, <2>1, BP!AheadStep, BP!SoloStep, SameAssumption DEF Sound, Unmixed
<1> QED
  BY <1>1, <1>2, <1>3, <1>4, BehindStep DEF Unmixed

(* The history variable never recovers.                                    *)
LEMMA AloneLasts ==
  ASSUME NEW t \in Threads, DualCall(t) \/ DualStep(t), alone'
  PROVE  alone
BY Zenon DEF DualCall, DualStep, Switch, DualWrite, EnterRead, Entry, DualReset, WriteTarget,
   LoadWriteBuf, ResetReadBuf, SetWriteBuf, SetReadBuf, SyncReadBuf, LoadReadBuf, ReadTarget,
   CopyTarget, LeaveRead, ResetWriteBuf, dual

(* It holds before the first call.                                         *)
LEMMA SoundInit == DualInit => Sound /\ Unmixed
<1> SUFFICES ASSUME DualInit PROVE Sound /\ Unmixed
  OBVIOUS
<1>1. TypeOK /\ Solo /\ SoloGroup /\ Apart /\ Ahead
  BY SoloInit DEF DualInit
<1>2. BP!TypeOK /\ BP!Solo /\ BP!SoloGroup /\ BP!Apart /\ BP!Ahead
  <2>1. BP!Init
    BY DEF DualInit, B!Init, BP!Init, B!Index, BP!Index, B!NoCall, BP!NoCall, B!Asked, BP!Asked
  <2> QED
    BY <2>1, BP!SoloInit, SameAssumption
<1>3. \A t \in Threads : Where(t)
  BY DEF DualInit, Init, B!Init, Where, Ins, Claiming, Claimed, Publishing
<1>4. DualTypeOK /\ DualInv
  <2>1. DualTypeOK
    BY DEF DualInit, DualTypeOK, Places
  <2>2. Entered = {}
    BY DEF DualInit, Entered, Counting, Swapping
  <2>3. Cardinality(Entered) = 0
    BY <2>2, FS_EmptySet
  <2> QED BY <2>1, <2>3 DEF DualInit, DualInv, Swapping
<1>5. Settled /\ Behind
  BY DEF DualInit, Settled, Behind, Counting, Swapping
<1> QED
  BY <1>1, <1>2, <1>3, <1>4, <1>5 DEF Sound, Unmixed, Single

(* Where nothing changes, all of this stays.                               *)
LEMMA StutterKeeps ==
  ASSUME Sound, alone => Unmixed, UNCHANGED <<buffers, dual>>
  PROVE  Sound' /\ (alone' => Unmixed')
<1> USE DEF buffers, vars, bvars, counts, hist, dual, bufs
<1>1. DualTypeOK' /\ DualInv'
  BY DEF Sound, DualTypeOK, DualInv, Entered
<1>2. TypeOK'
  BY DEF Sound, TypeOK
<1>3. BP!TypeOK'
  BY DEF Sound, BP!TypeOK
<1>4. (\A t \in Threads : Where(t))'
  BY DEF Sound, Where, Returned
<1>5. Sound'
  BY <1>1, <1>2, <1>3, <1>4 DEF Sound
<1>6. ASSUME alone' PROVE Unmixed'
  <2>1. Unmixed
    BY <1>6
  <2>2. Apart' /\ Ahead'
    BY <2>1 DEF Unmixed, Apart, Ahead, Fits
  <2>3. BP!Apart' /\ BP!Ahead'
    BY <2>1 DEF Unmixed, BP!Apart, BP!Ahead, BP!Fits
  <2>4. Settled'
    BY <2>1 DEF Unmixed, Settled, Unsettled
  <2>5. Behind'
    BY <2>1 DEF Unmixed, Behind, Copied, Published
  <2>6. Solo' /\ SoloGroup'
    BY <2>1 DEF Unmixed, Single, Solo, SoloGroup
  <2>7. BP!Solo' /\ BP!SoloGroup'
    BY <2>1 DEF Unmixed, Single, BP!Solo, BP!SoloGroup
  <2> QED
    BY <2>2, <2>3, <2>4, <2>5, <2>6, <2>7 DEF Unmixed, Single
<1> QED
  BY <1>5, <1>6

(* What the reader t copies stays as it is in a step that leaves it at     *)
(* copying.                                                                *)
Undisturbing ==
  \A t \in Threads :
    (alone /\ place[t] = "copying" /\ place'[t] = "copying") =>
      \A i \in Copied(t).start .. Copied(t).start + Copied(t).len - 1 :
        Bytes(t)'[i] = Bytes(t)[i]

(* In such a state no step changes what a reader copies.                   *)
LEMMA Copies ==
  ASSUME Sound, alone => Unmixed, NEW s \in Threads, DualCall(s) \/ DualStep(s)
  PROVE  Undisturbing
<1> SUFFICES ASSUME NEW t \in Threads, alone, place[t] = "copying", place'[t] = "copying",
                    NEW i \in Copied(t).start .. Copied(t).start + Copied(t).len - 1
             PROVE  Bytes(t)'[i] = Bytes(t)[i]
  BY DEF Undisturbing
<1>1. Unmixed
  OBVIOUS
<1>2. t # s
  BY CopyingWaits
<1>3. target'[t] = target[t] /\ target[t] \in {"A", "B"}
  BY <1>2, Elsewhere DEF Sound, DualTypeOK
<1>4. \A u \in Threads : pc[u] \notin Resetting /\ b_pc[u] \notin Resetting
  BY <1>1, CopyingIsQuiet DEF Unmixed
<1>5. i \in Nat /\ i < Published(target[t])
  <2>1. /\ call \in [Threads -> Calls] /\ b_call \in [Threads -> BP!Calls]
        /\ n_bytes_written \in Nat /\ b_n_bytes_written \in Nat
    BY DEF Sound, TypeOK, BP!TypeOK
  <2>2. Copied(t).start \in Nat /\ Copied(t).len \in Nat
    BY <2>1 DEF Copied, Calls, BP!Calls
  <2>3. Copied(t).start + Copied(t).len <= Published(target[t])
    BY <1>1 DEF Unmixed, Behind
  <2>4. Published(target[t]) \in Nat
    BY <2>1 DEF Published
  <2> QED
    BY <2>2, <2>3, <2>4
<1>6. CASE target[t] = "A"
  <2>1. buf'[i] = buf[i]
    BY <1>1, <1>4, <1>5, <1>6, BothKeep DEF Keeps, Published
  <2> QED
    BY <1>3, <1>6, <2>1 DEF Bytes
<1>7. CASE target[t] = "B"
  <2>1. BP!Resetting = Resetting
    BY DEF Resetting, BP!Resetting
  <2>2. b_buf'[i] = b_buf[i]
    BY <1>1, <1>4, <1>5, <1>7, <2>1, BothKeep DEF BP!Keeps, Published
  <2> QED
    BY <1>3, <1>7, <2>2 DEF Bytes
<1> QED
  BY <1>3, <1>6, <1>7

(* Any number of threads write, read and reset: as long as no reader comes *)
(* while another one swaps or somebody resets, no buffer is reset while it *)
(* is read or written, and no write begins in a buffer that another write  *)
(* is in, the bytes a reader copies stay as they are until it has copied   *)
(* them, also when a writer comes to the buffer that is read because he    *)
(* loaded the pointer before the swap.  Beyond that it does not hold.      *)
THEOREM ReadersAreUndisturbed == DualSpec => ReadersUndisturbed
<1> DEFINE Inv == Sound /\ (alone => Unmixed)
<1>1. DualInit => Inv
  BY SoundInit
<1>2. Inv /\ [DualNext]_<<buffers, dual>> => Inv'
  <2> SUFFICES ASSUME Inv, [DualNext]_<<buffers, dual>> PROVE Inv'
    OBVIOUS
  <2>1. ASSUME NEW t \in Threads, DualCall(t) \/ DualStep(t) PROVE Inv'
    BY <2>1, SoundStep, UnmixedStep, AloneLasts
  <2>2. CASE UNCHANGED <<buffers, dual>>
    BY <2>2, StutterKeeps
  <2> QED BY <2>1, <2>2 DEF DualNext
<1>3. Inv /\ [DualNext]_<<buffers, dual>> => [Undisturbing]_<<buffers, dual>>
  BY Copies DEF DualNext
<1>4. DualSpec => [][Undisturbing]_<<buffers, dual>>
  BY <1>1, <1>2, <1>3, PTL DEF DualSpec
<1> QED
  BY <1>4 DEF Undisturbing, ReadersUndisturbed

=============================================================================
