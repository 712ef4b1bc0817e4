------------------------------ MODULE PipeBuffer ------------------------------
(***************************************************************************)
(* utils/pipe_buffer.c, which each end of a duplex_pipe_buffer.c calls: a  *)
(* buffer that empties itself when its readers have taken what is in it.   *)
(* Readers register and hold a pointer to the bytes between read_start and *)
(* read_end; writers that copy wait until nobody is registered; the last   *)
(* reader to leave resets the buffer and wakes them.                       *)
(*                                                                         *)
(* A completion is a counter of the waits it lets through.  complete_all   *)
(* sets it to All, which no wait uses up and only reinit_completion clears.*)
(* A wait that is interrupted by a fatal signal goes on like one that was  *)
(* completed.                                                              *)
(*                                                                         *)
(* The history variable tidy says whether so far no read has begun while   *)
(* another one was leaving, and none that copies while there was any other.*)
(* No step of the code is guarded by it.                                   *)
(***************************************************************************)
EXTENDS Buffer, FiniteSets

CONSTANTS
  PipeWriters,    (* threads that call pipe_buffer_copy_from_user, ...     *)
  PipeReservers,  (* ... write_start and write_end, ...                    *)
  PipeReaders,    (* ... read_start and read_end, ...                      *)
  PipeCopiers,    (* ... copy_to_user, ...                                 *)
  MayBeKilled,    (* ... and those that may receive a fatal signal         *)
  MaxReads        (* bound: reads                                          *)

ASSUME PipeAssumption ==
  /\ IsFiniteSet(Threads)
  /\ PipeWriters \cup PipeReservers \cup PipeReaders \cup PipeCopiers \subseteq Threads
  /\ PipeReaders \cap PipeCopiers = {}
  /\ MayBeKilled \subseteq Threads
  /\ MaxReads \in Nat

VARIABLES
  n_active_readers, n_bytes_read,
  read_completion,   (* 0, 1 or All                                        *)
  write_completion,  (* complete_all was called on it                      *)
  stage,             (* where each thread is, outside its buffer calls     *)
  bytes,             (* the bytes its read is about                        *)
  reads,             (* history: reads begun                               *)
  tidy,              (* history: the reads kept apart                      *)
  silent             (* history: there were reservations                   *)

All == 2

readers == <<n_active_readers, n_bytes_read>>
wakers  == <<read_completion, write_completion>>
tales   == <<tidy, silent>>
pipe    == <<readers, wakers, stage, bytes, reads, tales>>

(* A reader is registered between its increment and its decrement, and the *)
(* last one to leave does so afterwards.                                   *)
Registered == {"reinit", "fetch", "hold"}
Leaving    == {"add", "compare", "zero", "reset", "resetting", "complete"}
Copying    == {"copying"} \cup Leaving
Reading    == Registered \cup Copying
Writing    == {"await", "write", "writing"}
Stages     == {"out", "wait_data", "register"} \cup Reading \cup Writing

PipeInit ==
  /\ Init
  /\ n_active_readers = 0
  /\ n_bytes_read = 0
  /\ read_completion = 1
  /\ write_completion = 0
  /\ stage = [t \in Threads |-> "out"]
  /\ bytes = [t \in Threads |-> 0]
  /\ reads = 0
  /\ tidy = TRUE
  /\ silent = FALSE

-----------------------------------------------------------------------------
Pass(t, from, to) == stage[t] = from /\ stage' = [stage EXCEPT ![t] = to]
Outside(t) == stage[t] = "out" /\ pc[t] = "idle"
Amount(t, n) == bytes' = [bytes EXCEPT ![t] = n]

(* wait_for_completion_killable                                            *)
LetThrough(completion) == IF completion = 1 THEN 0 ELSE completion

(* pipe_buffer_copy_from_user: readers are waited for, ...                 *)
CopyFromUser(t) ==
  /\ t \in PipeWriters /\ Outside(t)
  /\ Pass(t, "out", IF n_active_readers # 0 THEN "await" ELSE "write")
  /\ UNCHANGED <<vars, readers, wakers, bytes, reads, tales>>

AwaitReaders(t) ==
  /\ read_completion # 0
  /\ Pass(t, "await", "write")
  /\ read_completion' = LetThrough(read_completion)
  /\ UNCHANGED <<vars, readers, write_completion, bytes, reads, tales>>

(* ... the buffer is written, unless it is full, ...                       *)
PipeWrite(t) ==
  /\ Pass(t, "write", "writing")
  /\ (write_off >= Size /\ UNCHANGED vars) \/ BeginWrite(t, FALSE)
  /\ UNCHANGED <<readers, wakers, bytes, reads, tales>>

(* Slip: they are woken when bytes were dropped.                           *)
NotifyIfDropped(t) ==
  /\ pc[t] = "idle"
  /\ Pass(t, "writing", "out")
  /\ write_completion' = IF write_off >= Size THEN All ELSE write_completion
  /\ UNCHANGED <<vars, readers, read_completion, bytes, reads, tales>>

(* Slip: complete for complete_all.                                        *)
NotifyOne(t) ==
  /\ pc[t] = "idle"
  /\ Pass(t, "writing", "out")
  /\ write_completion' = write_completion + 1
  /\ UNCHANGED <<vars, readers, read_completion, bytes, reads, tales>>

(* ... and whether or not it took a byte, readers that wait are woken.     *)
NotifyDataWrite(t) ==
  /\ pc[t] = "idle"
  /\ Pass(t, "writing", "out")
  /\ write_completion' = All
  /\ UNCHANGED <<vars, readers, read_completion, bytes, reads, tales>>

(* pipe_buffer_write_start and _write_end are the calls of the buffer; they *)
(* wait for nobody and wake nobody.                                        *)
PipeReserve(t) ==
  /\ t \in PipeReservers /\ Outside(t)
  /\ BeginWrite(t, TRUE)
  /\ silent' = TRUE
  /\ UNCHANGED <<readers, wakers, stage, bytes, reads, tidy>>

-----------------------------------------------------------------------------
(* pipe_buffer_read_start, and _read_start_waiting, which first waits for  *)
(* data, if there is none.                                                 *)
ReadStart(t) ==
  /\ t \in PipeReaders /\ Outside(t)
  /\ reads < MaxReads
  /\ \/ Pass(t, "out", "register")
     \/ Pass(t, "out", IF n_bytes_written = 0 THEN "wait_data" ELSE "register")
  /\ reads' = reads + 1
  /\ UNCHANGED <<vars, readers, wakers, bytes, tales>>

AwaitData(t) ==
  /\ write_completion # 0
  /\ Pass(t, "wait_data", "register")
  /\ write_completion' = LetThrough(write_completion)
  /\ UNCHANGED <<vars, readers, read_completion, bytes, reads, tales>>

(* The first reader makes writers wait, ...                                *)
Register(t) ==
  /\ n_active_readers' = n_active_readers + 1
  /\ Pass(t, "register", IF n_active_readers' = 1 THEN "reinit" ELSE "fetch")
  /\ tidy' = (tidy /\ \A u \in Threads : stage[u] \notin Copying)
  /\ UNCHANGED <<vars, n_bytes_read, wakers, bytes, reads, silent>>

ReinitRead(t) ==
  /\ Pass(t, "reinit", "fetch")
  /\ read_completion' = 0
  /\ UNCHANGED <<vars, readers, write_completion, bytes, reads, tales>>

(* ... and every reader gets what there is from the beginning of the       *)
(* buffer.                                                                 *)
Fetch(t) ==
  /\ Pass(t, "fetch", "hold")
  /\ Amount(t, n_bytes_written)
  /\ UNCHANGED <<vars, readers, wakers, reads, tales>>

(* Slip: every reader that leaves resets.                                  *)
EveryEndCounts(t) ==
  \E n \in 0 .. bytes[t] :
    /\ n_active_readers' = n_active_readers - 1
    /\ Pass(t, "hold", "add")
    /\ Amount(t, n)
    /\ UNCHANGED <<vars, n_bytes_read, wakers, reads, tales>>

(* pipe_buffer_read_end: only what the last reader has read is counted.    *)
ReadEnd(t) ==
  \E n \in 0 .. bytes[t] :
    /\ n_active_readers' = n_active_readers - 1
    /\ Pass(t, "hold", IF n_active_readers' = 0 THEN "add" ELSE "out")
    /\ Amount(t, IF n_active_readers' = 0 THEN n ELSE 0)
    /\ UNCHANGED <<vars, n_bytes_read, wakers, reads, tales>>

(* pipe_buffer_copy_to_user: what lies before the offset counts as read.   *)
CopyToUser(t) ==
  /\ t \in PipeCopiers /\ Outside(t)
  /\ reads < MaxReads
  /\ \/ BeginCopy(t) /\ Pass(t, "out", "copying") /\ UNCHANGED bytes
     \/ \E off \in n_bytes_written .. Size :
          Pass(t, "out", "add") /\ Amount(t, off) /\ UNCHANGED vars
  /\ reads' = reads + 1
  /\ tidy' = (tidy /\ \A u \in Threads : stage[u] \notin Reading)
  /\ UNCHANGED <<readers, wakers, silent>>

CopiedToUser(t) ==
  /\ Pass(t, "copying", "add")
  /\ \E good \in Accessible(t, call[t].len) : Amount(t, call[t].start + good)
  /\ ReadCopy(t)
  /\ UNCHANGED <<readers, wakers, reads, tales>>

(* _check_reset_after_read: when as much as there is was read, the buffer  *)
(* is reset.                                                               *)
Left(t) == IF t \in PipeReaders THEN "complete" ELSE "out"

AddRead(t) ==
  /\ Pass(t, "add", "compare")
  /\ n_bytes_read' = n_bytes_read + bytes[t]
  /\ Amount(t, n_bytes_read')
  /\ UNCHANGED <<vars, n_active_readers, wakers, reads, tales>>

(* Slip: waiting writers are woken only if the buffer was emptied.         *)
LeaveQuietly(t) ==
  /\ Pass(t, "compare", IF bytes[t] >= n_bytes_written THEN "zero" ELSE "out")
  /\ Amount(t, 0)
  /\ UNCHANGED <<vars, readers, wakers, reads, tales>>

CompareRead(t) ==
  /\ Pass(t, "compare", IF bytes[t] >= n_bytes_written THEN "zero" ELSE Left(t))
  /\ Amount(t, 0)
  /\ UNCHANGED <<vars, readers, wakers, reads, tales>>

ZeroRead(t) ==
  /\ Pass(t, "zero", "reset")
  /\ n_bytes_read' = 0
  /\ UNCHANGED <<vars, n_active_readers, wakers, bytes, reads, tales>>

PipeReset(t) ==
  /\ Pass(t, "reset", "resetting")
  /\ BeginReset(t)
  /\ UNCHANGED <<readers, wakers, bytes, reads, tales>>

PipeResetDone(t) ==
  /\ pc[t] = "idle"
  /\ Pass(t, "resetting", Left(t))
  /\ UNCHANGED <<vars, readers, wakers, bytes, reads, tales>>

CheckResetAfterRead(t) ==
  AddRead(t) \/ CompareRead(t) \/ ZeroRead(t) \/ PipeReset(t) \/ PipeResetDone(t)

(* The last reader wakes all writers.                                      *)
CompleteRead(t) ==
  /\ Pass(t, "complete", "out")
  /\ read_completion' = All
  /\ UNCHANGED <<vars, readers, write_completion, bytes, reads, tales>>

Killed(t) ==
  /\ t \in MayBeKilled
  /\ Pass(t, "await", "write") \/ Pass(t, "wait_data", "register")
  /\ UNCHANGED <<vars, readers, wakers, bytes, reads, tales>>

-----------------------------------------------------------------------------
PipeCall(t) == CopyFromUser(t) \/ PipeReserve(t) \/ ReadStart(t) \/ CopyToUser(t)

PipeStep(t) ==
  \/ AwaitReaders(t) \/ PipeWrite(t) \/ NotifyDataWrite(t)
  \/ AwaitData(t) \/ Register(t) \/ ReinitRead(t) \/ Fetch(t) \/ ReadEnd(t)
  \/ CopiedToUser(t) \/ CheckResetAfterRead(t) \/ CompleteRead(t)
  \/ (Write(t) \/ Reset(t)) /\ UNCHANGED pipe

PipeNext == \E t \in Threads : PipeCall(t) \/ PipeStep(t) \/ Killed(t)

PipeSpec == PipeInit /\ [][PipeNext]_<<vars, pipe>>

-----------------------------------------------------------------------------
(* The counters, the completions and the stages of the threads.            *)
PipeTypeOK ==
  /\ n_active_readers \in Nat
  /\ n_bytes_read \in Nat
  /\ read_completion \in 0 .. All
  /\ write_completion \in 0 .. All
  /\ stage \in [Threads -> Stages]
  /\ bytes \in [Threads -> Nat]
  /\ reads \in Nat
  /\ tidy \in BOOLEAN /\ silent \in BOOLEAN

(* Until it says that it is done, what a reader holds a pointer to stays   *)
(* as it was, whoever writes and whichever readers hold it as well, as     *)
(* long as no read began while another one was leaving, none that copies   *)
(* beside any other, and no write or reset beside another.                 *)
HeldBytesStay ==
  [][\A t \in Threads : (tidy /\ intact /\ stage[t] = "hold" /\ stage'[t] = "hold") =>
       \A i \in 0 .. bytes[t] - 1 : buf'[i] = buf[i]]_<<vars, pipe>>

(* A writer that waits for readers is not forgotten: while it cannot go    *)
(* on, somebody who reads will complete what it waits for.                 *)
WaitingWritersAreWoken ==
  ((\E t \in Threads : stage[t] = "await") /\ read_completion = 0) =>
    \E u \in PipeReaders : stage[u] \in Registered \cup Leaving

(* Nor is a reader that waits for data, unless the data was written in a   *)
(* reservation: when there is some, it may go on, or a writer is about to  *)
(* wake it.                                                                *)
WaitingReadersAreWoken ==
  (~silent /\ n_bytes_written > 0 /\ \E t \in Threads : stage[t] = "wait_data") =>
    write_completion # 0 \/ \E u \in PipeWriters : stage[u] = "writing"

=============================================================================
