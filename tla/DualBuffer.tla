------------------------------ MODULE DualBuffer ------------------------------
(***************************************************************************)
(* utils/dualbuffer.c: two buffers, one that is written while the other is *)
(* read.  The first reader to come empties the one that was read, swaps    *)
(* the two and waits for the writers of the one it is about to read; the   *)
(* readers that come while it is there read the same buffer.               *)
(*                                                                         *)
(* One of the two has the variables of Buffer, the other those with b_.    *)
(* A thread that writes has loaded write_buf before its call begins.       *)
(*                                                                         *)
(* The history variable alone says whether so far no reader has come while *)
(* another one was swapping or somebody reset, no buffer was reset while   *)
(* it was written or read, and no write has begun in a buffer that another *)
(* write was still in.  A writer may come in at any moment of a swap and   *)
(* of a read.  No step of the code is guarded by it.                       *)
(***************************************************************************)
EXTENDS Buffer, FiniteSets

CONSTANTS
  DualWriters,    (* threads that write, ...                               *)
  DualReaders,    (* ... those that read ...                               *)
  DualResetters,  (* ... and those that reset                              *)
  MaxSwaps        (* bound: reads and resets                               *)

ASSUME DualAssumption ==
  /\ IsFiniteSet(Threads)
  /\ DualWriters \cup DualReaders \cup DualResetters \subseteq Threads
  /\ MaxSwaps \in Nat

VARIABLES
  b_write_off, b_n_bytes_written, b_n_bytes_written_tmp, b_n_active_writters, b_mlock, b_buf,
  b_pc, b_call, b_epoch, b_resets, b_intact,
  n_dual_readers,       (* n_active_readers                                *)
  read_buf, write_buf,
  place,                (* where each thread is, outside its buffer calls  *)
  target,               (* the buffer it has loaded                        *)
  entries,              (* history: reads and resets begun                 *)
  alone                 (* history: the readers kept apart                 *)

B == INSTANCE Buffer WITH
  write_off <- b_write_off, n_bytes_written <- b_n_bytes_written,
  n_bytes_written_tmp <- b_n_bytes_written_tmp,
  n_active_writters <- b_n_active_writters, mlock <- b_mlock, buf <- b_buf,
  pc <- b_pc, call <- b_call, epoch <- b_epoch, resets <- b_resets, intact <- b_intact

bvars   == <<b_write_off, b_n_bytes_written, b_n_bytes_written_tmp, b_n_active_writters,
             b_mlock, b_buf, b_pc, b_call, b_epoch, b_resets, b_intact>>
buffers == <<vars, bvars>>
bufs    == <<read_buf, write_buf>>
dual    == <<n_dual_readers, bufs, place, target, entries, alone>>

Swapping == {"load", "reset", "set_write", "set_read", "sync"}
Places   == {"out", "write", "pick", "read", "copying", "leave", "reset_other"} \cup Swapping

DualInit ==
  /\ Init /\ B!Init
  /\ n_dual_readers = 0
  /\ read_buf = "A" /\ write_buf = "B"
  /\ place = [t \in Threads |-> "out"]
  /\ target = [t \in Threads |-> "A"]
  /\ entries = 0
  /\ alone = TRUE

-----------------------------------------------------------------------------
Move(t, from, to) == place[t] = from /\ place' = [place EXCEPT ![t] = to]
Load(t, x) == target' = [target EXCEPT ![t] = x]

(* A step of the buffer x: one of the one, or the same of the other.       *)
In(x, a, b) == (x = "A" /\ a /\ UNCHANGED bvars) \/ (x = "B" /\ b /\ UNCHANGED vars)

Returned(t) == pc[t] = "idle" /\ b_pc[t] = "idle"
Free(t) == place[t] = "out" /\ Returned(t)

Inside(x) ==
  {u \in Threads : (IF x = "A" THEN pc[u] ELSE b_pc[u]) \in Claiming \cup Claimed \cup Publishing}
Emptied(x) == \E u \in Threads : (IF x = "A" THEN pc[u] ELSE b_pc[u]) \in Resetting

(* A read that has not finished its swap, or a reset.                      *)
Unsettled(t) ==
  \/ place[t] \in Swapping \cup {"reset_other"}
  \/ pc[t] \in Resetting \cup Syncing \/ b_pc[t] \in Resetting \cup Syncing

(* _write and _write_from_user.                                            *)
DualWrite(t) ==
  /\ t \in DualWriters /\ Free(t)
  /\ Move(t, "out", "write")
  /\ Load(t, write_buf)
  /\ UNCHANGED <<buffers, n_dual_readers, bufs, entries, alone>>

WriteTarget(t) ==
  /\ Move(t, "write", "out")
  /\ In(target[t],
        BeginWrite(t, FALSE) \/ (write_off >= Size /\ UNCHANGED vars),
        B!BeginWrite(t, FALSE) \/ (b_write_off >= Size /\ UNCHANGED bvars))
  /\ alone' = (alone /\ ~Emptied(target[t]) /\ Inside(target[t]) = {})
  /\ UNCHANGED <<n_dual_readers, bufs, target, entries>>

-----------------------------------------------------------------------------
Entry(t) ==
  /\ t \in DualReaders /\ Free(t)
  /\ entries < MaxSwaps /\ entries' = entries + 1
  /\ alone' = (alone /\ \A u \in Threads : ~Unsettled(u))
  /\ UNCHANGED <<buffers, bufs, target>>

(* Slip: the counter is loaded and stored back in two steps.               *)
EnterTorn(t) ==
  /\ n_dual_readers' \in {n_dual_readers, n_dual_readers + 1}
  /\ Move(t, "out", IF n_dual_readers = 0 THEN "load" ELSE "pick")
  /\ Entry(t)

(* Slip: only the reader that swaps is counted.                            *)
SwapperCounts(t) ==
  /\ n_dual_readers' = 1
  /\ Move(t, "out", IF n_dual_readers = 0 THEN "load" ELSE "pick")
  /\ Entry(t)

(* Slip: every reader swaps, one after the other.                          *)
EveryReaderSwaps(t) ==
  /\ \A u \in Threads : place[u] \notin Swapping
  /\ n_dual_readers' = n_dual_readers + 1
  /\ Move(t, "out", "load")
  /\ Entry(t)

(* _switch_buf_start: the first reader swaps, ...                          *)
EnterRead(t) ==
  /\ n_dual_readers' = n_dual_readers + 1
  /\ Move(t, "out", IF n_dual_readers' = 1 THEN "load" ELSE "pick")
  /\ Entry(t)

LoadWriteBuf(t) ==
  /\ Move(t, "load", "reset")
  /\ Load(t, write_buf)
  /\ UNCHANGED <<buffers, n_dual_readers, bufs, entries, alone>>

ResetReadBuf(t) ==
  /\ Move(t, "reset", "set_write")
  /\ In(read_buf, BeginReset(t), B!BeginReset(t))
  /\ alone' = (alone /\ Inside(read_buf) = {})
  /\ UNCHANGED <<n_dual_readers, bufs, target, entries>>

SetWriteBuf(t) ==
  /\ Returned(t)
  /\ Move(t, "set_write", "set_read")
  /\ write_buf' = read_buf
  /\ UNCHANGED <<buffers, n_dual_readers, read_buf, target, entries, alone>>

SetReadBuf(t) ==
  /\ Move(t, "set_read", "sync")
  /\ read_buf' = target[t]
  /\ UNCHANGED <<buffers, n_dual_readers, write_buf, target, entries, alone>>

SyncReadBuf(t) ==
  /\ Move(t, "sync", "pick")
  /\ In(read_buf, BeginSync(t), B!BeginSync(t))
  /\ UNCHANGED <<n_dual_readers, bufs, target, entries, alone>>

Switch(t) ==
  LoadWriteBuf(t) \/ ResetReadBuf(t) \/ SetWriteBuf(t) \/ SetReadBuf(t) \/ SyncReadBuf(t)

(* ... and every reader reads what it then finds in read_buf: _copy and    *)
(* _copy_to_user copy from it, the caller of _read does so until its       *)
(* _release_read.                                                          *)
LoadReadBuf(t) ==
  /\ Returned(t)
  /\ Move(t, "pick", "read")
  /\ Load(t, read_buf)
  /\ UNCHANGED <<buffers, n_dual_readers, bufs, entries, alone>>

ReadTarget(t) ==
  /\ \/ Move(t, "read", "copying") /\ In(target[t], BeginRead(t), B!BeginRead(t))
     \/ Move(t, "read", "leave") /\ UNCHANGED buffers
  /\ UNCHANGED <<n_dual_readers, bufs, target, entries, alone>>

CopyTarget(t) ==
  /\ Move(t, "copying", "leave")
  /\ In(target[t], ReadCopy(t), B!ReadCopy(t))
  /\ UNCHANGED <<n_dual_readers, bufs, target, entries, alone>>

(* _switch_buf_end                                                         *)
LeaveRead(t) ==
  /\ Move(t, "leave", "out")
  /\ n_dual_readers' = n_dual_readers - 1
  /\ UNCHANGED <<buffers, bufs, target, entries, alone>>

(* _reset                                                                  *)
DualReset(t) ==
  /\ t \in DualResetters /\ Free(t)
  /\ entries < MaxSwaps /\ entries' = entries + 1
  /\ Move(t, "out", "reset_other")
  /\ In(read_buf, BeginReset(t), B!BeginReset(t))
  /\ alone' = (alone /\ n_dual_readers = 0 /\ Inside(read_buf) = {})
  /\ UNCHANGED <<n_dual_readers, bufs, target>>

ResetWriteBuf(t) ==
  /\ Returned(t)
  /\ Move(t, "reset_other", "out")
  /\ In(write_buf, BeginReset(t), B!BeginReset(t))
  /\ alone' = (alone /\ Inside(write_buf) = {})
  /\ UNCHANGED <<n_dual_readers, bufs, target, entries>>

-----------------------------------------------------------------------------
DualCall(t) == DualWrite(t) \/ EnterRead(t) \/ DualReset(t)

DualStep(t) ==
  \/ WriteTarget(t) \/ Switch(t) \/ LoadReadBuf(t) \/ ReadTarget(t) \/ CopyTarget(t)
  \/ LeaveRead(t) \/ ResetWriteBuf(t)
  \/ /\ \/ (Write(t) \/ Reset(t) \/ Sync(t)) /\ UNCHANGED bvars
        \/ (B!Write(t) \/ B!Reset(t) \/ B!Sync(t)) /\ UNCHANGED vars
     /\ UNCHANGED dual

DualNext == \E t \in Threads : DualCall(t) \/ DualStep(t)

DualSpec == DualInit /\ [][DualNext]_<<buffers, dual>>

-----------------------------------------------------------------------------
(* The pointers point at one of the two buffers each, and the counter and  *)
(* the places of the threads are of their types.                           *)
DualTypeOK ==
  /\ n_dual_readers \in Nat
  /\ read_buf \in {"A", "B"} /\ write_buf \in {"A", "B"}
  /\ place \in [Threads -> Places]
  /\ target \in [Threads -> {"A", "B"}]
  /\ entries \in Nat
  /\ alone \in BOOLEAN

(* Readers and writers have a buffer each, except for the moment between   *)
(* the two assignments of a swap, and no two readers swap at a time.       *)
BuffersDistinct ==
  /\ read_buf # write_buf \/ \E t \in Threads : place[t] = "set_read"
  /\ \A t, u \in Threads : place[t] \in Swapping /\ place[u] \in Swapping => t = u

(* What a reader copies stays as it is until it has copied it, also when   *)
(* somebody writes to that buffer because he loaded write_buf before the   *)
(* swap, as long as the calls were alone.  That is needed: of two writers  *)
(* in one buffer the first publishes on his way out what the second has    *)
(* announced and not yet copied, and a reader that comes during a swap may *)
(* read the buffer that the next writer fills.                             *)
Bytes(t) == IF target[t] = "A" THEN buf ELSE b_buf
Copied(t) == IF target[t] = "A" THEN call[t] ELSE b_call[t]

ReadersUndisturbed ==
  [][\A t \in Threads :
       (alone /\ place[t] = "copying" /\ place'[t] = "copying") =>
         \A i \in Copied(t).start .. Copied(t).start + Copied(t).len - 1 :
           Bytes(t)'[i] = Bytes(t)[i]]_<<buffers, dual>>

=============================================================================
