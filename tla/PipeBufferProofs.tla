--------------------------- MODULE PipeBufferProofs ---------------------------
(***************************************************************************)
(* Theorems about utils/pipe_buffer.c for a buffer of any size and any     *)
(* finite set of threads that write, reserve, read and copy as they like.  *)
(***************************************************************************)
EXTENDS PipeBuffer, BufferProofs, FiniteSetTheorems

USE DEF Steps, Changing, Claiming, Claimed, Publishing, Resetting, Syncing

InWrite == Claiming \cup Claimed \cup Publishing
Present == {t \in Threads : stage[t] \in Registered}

(* The counter of the readers is what it says, and everybody keeps to its  *)
(* role.                                                                   *)
RolesKept ==
  /\ n_active_readers = Cardinality(Present)
  /\ \A u \in Threads : stage[u] \in Writing => u \in PipeWriters
  /\ \A u \in Threads :
       stage[u] \in {"wait_data", "register"} \cup Registered => u \in PipeReaders

(* A writer that waits, waits for a reader that will wake it, unless the   *)
(* completion lets it through.                                             *)
WritersAwaited ==
  (\E t \in Threads : stage[t] = "await") /\ read_completion # All =>
    \E u \in PipeReaders : stage[u] \in Registered \cup Leaving

(* Nobody empties the buffer while somebody holds bytes of it.             *)
HoldersApart ==
  /\ tidy => \A t, u \in Threads : stage[t] \in Registered => stage[u] \notin Copying
  /\ \A u \in Threads : pc[u] \in Resetting => stage[u] = "resetting"
  /\ tidy /\ intact => \A u \in Threads : stage[u] = "hold" => bytes[u] <= n_bytes_written

(* What is in the buffer was written by somebody who tells, or has told.   *)
DataTold ==
  ~silent =>
    /\ \A u \in Threads : pc[u] \in InWrite => stage[u] = "writing"
    /\ n_bytes_written > 0 =>
         write_completion = All \/ \E u \in PipeWriters : stage[u] = "writing"

PipeInv == RolesKept /\ WritersAwaited /\ HoldersApart /\ DataTold

Typed == TypeOK /\ PipeTypeOK /\ Orderly

(* The readers that are there can be counted.                              *)
LEMMA ReadersFinite ==
  /\ IsFiniteSet(Present) /\ IsFiniteSet(Present')
  /\ Cardinality(Present) \in Nat /\ Cardinality(Present') \in Nat
BY PipeAssumption, FS_Subset, FS_CardinalityType DEF Present

-----------------------------------------------------------------------------
(* The pipe uses its buffer by the buffer's own steps.                     *)
LEMMA PipeIsBufferStep ==
  ASSUME NEW t \in Threads, PipeCall(t) \/ PipeStep(t) \/ Killed(t)
  PROVE  UNCHANGED vars \/ BufferStep(t)
<1>1. CASE PipeCall(t)
  BY <1>1 DEF PipeCall, CopyFromUser, PipeReserve, ReadStart, CopyToUser, BeginRead,
              BufferStep, Begins
<1>2. CASE PipeWrite(t) \/ PipeReset(t) \/ CopiedToUser(t)
  BY <1>2 DEF PipeWrite, PipeReset, CopiedToUser, BufferStep, Begins, Waits
<1>3. CASE Write(t) \/ Reset(t)
  BY <1>3 DEF BufferStep, Waits
<1>4. CASE AwaitReaders(t) \/ NotifyDataWrite(t) \/ AwaitData(t) \/ Register(t)
           \/ ReinitRead(t) \/ Fetch(t) \/ ReadEnd(t) \/ CompleteRead(t) \/ Killed(t)
  BY <1>4 DEF AwaitReaders, NotifyDataWrite, AwaitData, Register, ReinitRead, Fetch,
              ReadEnd, CompleteRead, Killed
<1>5. CASE AddRead(t) \/ CompareRead(t) \/ ZeroRead(t) \/ PipeResetDone(t)
  BY <1>5 DEF AddRead, CompareRead, ZeroRead, PipeResetDone
<1> QED
  BY <1>1, <1>2, <1>3, <1>4, <1>5 DEF PipeStep, CheckResetAfterRead

(* A step of the buffer within a call.                                     *)
LEMMA BufferWork ==
  ASSUME TypeOK, NEW t \in Threads, Write(t) \/ Reset(t)
  PROVE  /\ \A u \in Threads \ {t} : pc'[u] = pc[u]
         /\ pc[t] \in InWrite \/ pc[t] \in Resetting
         /\ pc'[t] \in Resetting => pc[t] \in Resetting
         /\ pc'[t] \in InWrite => pc[t] \in InWrite
         /\ intact' => intact
         /\ \/ n_bytes_written' = n_bytes_written
            \/ pc[t] \in Resetting /\ n_bytes_written' = 0
            \/ pc[t] \in InWrite /\ n_bytes_written' >= n_bytes_written
<1> USE DEF Go, counts, hist, InWrite
<1>0. /\ pc \in [Threads -> Steps] /\ n_bytes_written \in Nat /\ call[t].tmp \in Nat
      /\ n_active_writters \in Int
  BY DEF TypeOK, Calls
<1>1. CASE Enter(t) \/ LockFirst(t) \/ Claim(t) \/ Count(t) \/ Refuse(t)
  <2>1. CASE Enter(t)      BY <1>0, <2>1 DEF Enter
  <2>2. CASE LockFirst(t)  BY <1>0, <2>2 DEF LockFirst
  <2>3. CASE Claim(t)      BY <1>0, <2>3 DEF Claim
  <2>4. CASE Count(t)      BY <1>0, <2>4 DEF Count
  <2>5. CASE Refuse(t)     BY <1>0, <2>5 DEF Refuse
  <2> QED BY <1>1, <2>1, <2>2, <2>3, <2>4, <2>5
<1>2. CASE Copy(t) \/ Leave(t) \/ Unlock(t) \/ LoadTmp(t)
  <2>1. CASE Copy(t)
    <3>1. intact' => intact  BY <2>1 DEF Copy
    <3> QED BY <1>0, <2>1, <3>1 DEF Copy
  <2>2. CASE Leave(t)    BY <1>0, <2>2 DEF Leave
  <2>3. CASE Unlock(t)   BY <1>0, <2>3 DEF Unlock
  <2>4. CASE LoadTmp(t)  BY <1>0, <2>4 DEF LoadTmp
  <2> QED BY <1>2, <2>1, <2>2, <2>3, <2>4
<1>3. CASE AddWritten(t) \/ ClearTmp(t) \/ WaitForGroup(t)
  BY <1>0, <1>3 DEF AddWritten, ClearTmp, WaitForGroup
<1>4. CASE Reset(t)
  BY <1>0, <1>4 DEF Reset, CheckWriters, DrainWriters, ResetOff, ResetWritten, ResetTmp
<1> QED
  BY <1>1, <1>2, <1>3, <1>4 DEF Write

(* The steps of a write or a reset keep the invariant.                     *)
LEMMA WorkStep ==
  ASSUME Typed, PipeInv, NEW t \in Threads, Write(t) \/ Reset(t), UNCHANGED pipe
  PROVE  PipeInv' /\ PipeTypeOK'
<1>1. UNCHANGED <<n_active_readers, n_bytes_read, read_completion, write_completion, stage,
                  bytes, reads, tidy, silent>>
  BY DEF pipe, readers, wakers, tales
<1>2. PipeTypeOK'  BY <1>1 DEF Typed, PipeTypeOK
<1>3. RolesKept' /\ WritersAwaited'
  BY <1>1 DEF PipeInv, RolesKept, WritersAwaited, Present
<1>4. n_bytes_written \in Nat /\ bytes \in [Threads -> Nat]
  BY DEF Typed, TypeOK, PipeTypeOK
<1>5. HoldersApart'
  <2>1. \A u \in Threads : pc'[u] \in Resetting => stage'[u] = "resetting"
    BY <1>1, BufferWork DEF Typed, PipeInv, HoldersApart
  <2>2. ASSUME tidy', intact', NEW u \in Threads, stage'[u] = "hold"
        PROVE  bytes'[u] <= n_bytes_written'
    <3>1. tidy /\ intact /\ bytes[u] <= n_bytes_written /\ stage[u] \in Registered
      BY <1>1, <2>2, BufferWork DEF Typed, PipeInv, HoldersApart, Registered
    <3>2. pc[t] \notin Resetting
      BY <3>1 DEF PipeInv, HoldersApart, Copying, Leaving
    <3>3. n_bytes_written' >= n_bytes_written
      BY <1>4, <3>2, BufferWork DEF Typed
    <3>4. n_bytes_written' \in Nat
      BY StepType DEF Typed, TypeOK, BufferStep, Waits
    <3> QED BY <1>1, <1>4, <3>1, <3>3, <3>4
  <2> QED BY <1>1, <2>1, <2>2 DEF PipeInv, HoldersApart
<1>6. DataTold'
  <2> SUFFICES ASSUME ~silent'
               PROVE  /\ \A u \in Threads : pc'[u] \in InWrite => stage'[u] = "writing"
                      /\ n_bytes_written' > 0 =>
                           write_completion' = All \/ \E u \in PipeWriters : stage'[u] = "writing"
    BY DEF DataTold
  <2>1. DataTold /\ ~silent  BY <1>1 DEF PipeInv
  <2>2. \A u \in Threads : pc'[u] \in InWrite => stage'[u] = "writing"
    BY <1>1, <2>1, BufferWork DEF Typed, DataTold
  <2>3. ASSUME n_bytes_written' > 0
        PROVE  write_completion' = All \/ \E u \in PipeWriters : stage'[u] = "writing"
    <3>1. CASE pc[t] \in InWrite
      <4>1. stage[t] = "writing"  BY <2>1, <3>1 DEF DataTold
      <4>2. t \in PipeWriters  BY <4>1 DEF PipeInv, RolesKept, Writing
      <4> QED BY <1>1, <4>1, <4>2
    <3>2. CASE pc[t] \notin InWrite
      <4>1. n_bytes_written' = n_bytes_written
        BY <2>3, <3>2, BufferWork DEF Typed
      <4> QED BY <1>1, <2>1, <2>3, <4>1 DEF DataTold
    <3> QED BY <3>1, <3>2
  <2> QED BY <2>2, <2>3
<1> QED BY <1>2, <1>3, <1>5, <1>6 DEF PipeInv

-----------------------------------------------------------------------------
(* A step of t from one stage to another that registers nobody and lets no *)
(* one go: what the invariant asks of it.                                  *)
Passes(t) ==
  /\ \E from \in Stages, to \in Stages :
       /\ Pass(t, from, to)
       /\ (from \in Registered) <=> (to \in Registered)
       /\ to \in Writing => t \in PipeWriters
       /\ to \in {"wait_data", "register"} => t \in PipeReaders
       /\ to = "await" => n_active_readers # 0
       /\ from \in Leaving => to \in Leaving \/ t \notin PipeReaders \/ read_completion' = All
       /\ read_completion # All \/ read_completion' = All \/ to \in Registered
       /\ to \in Copying /\ tidy' => from \in Copying \/ \A u \in Threads : stage[u] \notin Reading
       /\ pc'[t] \in Resetting => to = "resetting"
       /\ to = "hold" => bytes'[t] = n_bytes_written
       /\ ~silent' /\ pc'[t] \in InWrite => to = "writing"
       /\ from = "writing" => to = "writing" \/ write_completion' = All
  /\ write_completion = All => write_completion' = All
  /\ \A u \in Threads \ {t} : pc'[u] = pc[u] /\ bytes'[u] = bytes[u]
  /\ (intact' => intact) /\ (tidy' => tidy) /\ (silent => silent')
  /\ UNCHANGED <<n_active_readers, n_bytes_written>>

(* What such a step leaves of the pipe has its types.                      *)
LEMMA PipeStepType ==
  ASSUME Typed, NEW t \in Threads, PipeCall(t) \/ PipeStep(t) \/ Killed(t),
         n_active_readers' \in Nat
  PROVE  PipeTypeOK'
<1> USE DEF PipeTypeOK, Pass, Amount, readers, wakers, tales, Stages, Reading, Registered,
            Copying, Leaving, Writing, LetThrough, All, Left
<1>0. /\ n_bytes_written \in Nat /\ n_bytes_read \in Nat /\ Size \in Nat /\ reads \in Nat
      /\ bytes \in [Threads -> Nat] /\ stage \in [Threads -> Stages]
      /\ read_completion \in 0 .. 2 /\ write_completion \in 0 .. 2
      /\ call[t].start \in Nat /\ call[t].len \in Nat
  BY BufferAssumption DEF Typed, TypeOK, Calls
<1>1. CASE CopyFromUser(t)     BY <1>0, <1>1 DEF Typed, CopyFromUser
<1>2. CASE AwaitReaders(t)     BY <1>0, <1>2 DEF Typed, AwaitReaders
<1>3. CASE PipeWrite(t)        BY <1>0, <1>3 DEF Typed, PipeWrite
<1>4. CASE NotifyDataWrite(t)  BY <1>0, <1>4 DEF Typed, NotifyDataWrite
<1>5. CASE PipeReserve(t)      BY <1>0, <1>5 DEF Typed, PipeReserve
<1>6. CASE ReadStart(t)        BY <1>0, <1>6 DEF Typed, ReadStart
<1>7. CASE AwaitData(t)        BY <1>0, <1>7 DEF Typed, AwaitData
<1>8. CASE Register(t)         BY <1>0, <1>8 DEF Typed, Register
<1>9. CASE ReinitRead(t)       BY <1>0, <1>9 DEF Typed, ReinitRead
<1>10. CASE Fetch(t)           BY <1>0, <1>10 DEF Typed, Fetch
<1>11. CASE ReadEnd(t)
  <2>1. bytes' \in [Threads -> Nat]
    BY <1>0, <1>11 DEF ReadEnd
  <2>2. stage' \in [Threads -> Stages] /\ UNCHANGED <<n_bytes_read, wakers, reads, tales>>
    BY <1>0, <1>11 DEF ReadEnd
  <2> QED BY <1>0, <2>1, <2>2 DEF Typed
<1>12. CASE CopyToUser(t)
  <2>1. bytes' \in [Threads -> Nat]
    BY <1>0, <1>12 DEF CopyToUser
  <2>2. stage' \in [Threads -> Stages] /\ tidy' \in BOOLEAN /\ reads' \in Nat
    BY <1>0, <1>12 DEF CopyToUser
  <2> QED BY <1>0, <1>12, <2>1, <2>2 DEF Typed, CopyToUser
<1>13. CASE CopiedToUser(t)
  <2>1. \A n \in Accessible(t, call[t].len) : n \in Nat
    BY <1>0 DEF Accessible
  <2>2. bytes' \in [Threads -> Nat]
    BY <1>0, <1>13, <2>1 DEF CopiedToUser
  <2> QED BY <1>0, <1>13, <2>2 DEF Typed, CopiedToUser
<1>14. CASE AddRead(t)        BY <1>0, <1>14 DEF Typed, AddRead
<1>15. CASE CompareRead(t)    BY <1>0, <1>15 DEF Typed, CompareRead
<1>16. CASE ZeroRead(t)       BY <1>0, <1>16 DEF Typed, ZeroRead
<1>17. CASE PipeReset(t)      BY <1>0, <1>17 DEF Typed, PipeReset
<1>18. CASE PipeResetDone(t)  BY <1>0, <1>18 DEF Typed, PipeResetDone
<1>19. CASE CompleteRead(t)   BY <1>0, <1>19 DEF Typed, CompleteRead
<1>20. CASE Killed(t)         BY <1>0, <1>20 DEF Typed, Killed
<1>21. CASE UNCHANGED pipe    BY <1>0, <1>21 DEF Typed, pipe
<1> QED
  BY <1>1, <1>2, <1>3, <1>4, <1>5, <1>6, <1>7, <1>8, <1>9, <1>10, <1>11, <1>12, <1>13,
     <1>14, <1>15, <1>16, <1>17, <1>18, <1>19, <1>20, <1>21
     DEF PipeCall, PipeStep, CheckResetAfterRead

(* All steps that move a stage are of that kind, but a registration and    *)
(* its end.                                                                *)
LEMMA MostPass ==
  ASSUME Typed, PipeInv, NEW t \in Threads, PipeCall(t) \/ PipeStep(t) \/ Killed(t)
  PROVE  \/ Passes(t) \/ Register(t) \/ ReadEnd(t)
         \/ (Write(t) \/ Reset(t)) /\ UNCHANGED pipe
<1> USE DEF Passes, Pass, Amount, readers, wakers, tales, Stages, Reading, Registered,
            Copying, Leaving, Writing, LetThrough, All, Left, Outside, vars, counts, hist,
            InWrite
<1>0. /\ bytes \in [Threads -> Nat] /\ stage \in [Threads -> Stages]
      /\ read_completion \in 0 .. 2 /\ write_completion \in 0 .. 2
      /\ pc \in [Threads -> Steps]
  BY DEF Typed, TypeOK, PipeTypeOK
<1>1. /\ stage[t] \in Writing => t \in PipeWriters
      /\ stage[t] \in {"wait_data", "register"} \cup Registered => t \in PipeReaders
      /\ pc[t] \in Resetting => stage[t] = "resetting"
      /\ ~silent /\ pc[t] \in InWrite => stage[t] = "writing"
  BY DEF PipeInv, RolesKept, HoldersApart, DataTold
<1>2. CASE CopyFromUser(t)     BY <1>0, <1>1, <1>2 DEF CopyFromUser
<1>3. CASE AwaitReaders(t)     BY <1>0, <1>1, <1>3 DEF AwaitReaders
<1>4. CASE PipeWrite(t)
  <2>1. CASE write_off >= Size /\ UNCHANGED vars
    BY <1>0, <1>1, <1>4, <2>1 DEF PipeWrite
  <2>2. CASE BeginWrite(t, FALSE)
    <3>1. /\ pc' = [pc EXCEPT ![t] = "enter"] /\ (intact' => intact)
          /\ UNCHANGED n_bytes_written
      BY <2>2 DEF BeginWrite, Go
    <3> QED BY <1>0, <1>1, <1>4, <3>1 DEF PipeWrite
  <2> QED BY <1>4, <2>1, <2>2 DEF PipeWrite
<1>5. CASE NotifyDataWrite(t)  BY <1>0, <1>1, <1>5 DEF NotifyDataWrite
<1>6. CASE PipeReserve(t)
  <2>1. /\ pc' = [pc EXCEPT ![t] = "enter"] /\ (intact' => intact)
        /\ UNCHANGED n_bytes_written
    BY <1>6 DEF PipeReserve, BeginWrite, Go
  <2>2. stage' = [stage EXCEPT ![t] = "out"] /\ stage[t] = "out"
    BY <1>0, <1>6 DEF PipeReserve
  <2>3. silent' = TRUE /\ UNCHANGED <<readers, wakers, bytes, tidy>>
    BY <1>6 DEF PipeReserve
  <2> QED BY <1>0, <1>1, <2>1, <2>2, <2>3
<1>7. CASE ReadStart(t)        BY <1>0, <1>1, <1>7 DEF ReadStart
<1>8. CASE AwaitData(t)        BY <1>0, <1>1, <1>8 DEF AwaitData
<1>9. CASE ReinitRead(t)       BY <1>0, <1>1, <1>9 DEF ReinitRead
<1>10. CASE Fetch(t)           BY <1>0, <1>1, <1>10 DEF Fetch
<1>11. CASE CopyToUser(t)
  <2>1. /\ stage[t] = "out"
        /\ \E to \in {"copying", "add"} : stage' = [stage EXCEPT ![t] = to]
        /\ tidy' => tidy /\ \A u \in Threads : stage[u] \notin Reading
        /\ \A u \in Threads \ {t} : bytes'[u] = bytes[u]
        /\ UNCHANGED <<readers, wakers, silent>>
    BY <1>0, <1>11 DEF CopyToUser
  <2>2. /\ pc'[t] \in {"read", "idle"} /\ \A u \in Threads \ {t} : pc'[u] = pc[u]
        /\ intact' = intact /\ UNCHANGED n_bytes_written
    BY <1>0, <1>11 DEF CopyToUser, BeginCopy, Hold, Go
  <2>3. PICK to \in {"copying", "add"} : stage' = [stage EXCEPT ![t] = to]
    BY <2>1
  <2>4. Pass(t, "out", to) /\ pc'[t] \notin Resetting \cup InWrite
    BY <2>1, <2>2, <2>3
  <2>5. /\ tidy' => tidy /\ \A u \in Threads : stage[u] \notin Reading
        /\ \A u \in Threads \ {t} : pc'[u] = pc[u] /\ bytes'[u] = bytes[u]
        /\ UNCHANGED <<n_active_readers, read_completion, write_completion, silent>>
    BY <2>1, <2>2
  <2> QED BY <1>0, <1>1, <2>2, <2>4, <2>5
<1>12. CASE CopiedToUser(t)
  <2>1. /\ stage[t] = "copying" /\ stage' = [stage EXCEPT ![t] = "add"]
        /\ \A u \in Threads \ {t} : bytes'[u] = bytes[u]
        /\ UNCHANGED <<readers, wakers, tales>>
    BY <1>0, <1>12 DEF CopiedToUser
  <2>2. /\ pc'[t] = "idle" /\ \A u \in Threads \ {t} : pc'[u] = pc[u]
        /\ intact' = intact /\ UNCHANGED n_bytes_written
    BY <1>0, <1>12 DEF CopiedToUser, ReadCopy, Go
  <2> QED BY <1>0, <1>1, <2>1, <2>2
<1>13. CASE AddRead(t)         BY <1>0, <1>1, <1>13 DEF AddRead
<1>14. CASE CompareRead(t)     BY <1>0, <1>1, <1>14 DEF CompareRead
<1>15. CASE ZeroRead(t)        BY <1>0, <1>1, <1>15 DEF ZeroRead
<1>16. CASE PipeReset(t)
  <2>1. /\ pc' = [pc EXCEPT ![t] = "check"] /\ (intact' => intact)
        /\ UNCHANGED n_bytes_written
    BY <1>16 DEF PipeReset, BeginReset, Go
  <2> QED BY <1>0, <1>1, <1>16, <2>1 DEF PipeReset
<1>17. CASE PipeResetDone(t)   BY <1>0, <1>1, <1>17 DEF PipeResetDone
<1>18. CASE CompleteRead(t)    BY <1>0, <1>1, <1>18 DEF CompleteRead
<1>19. CASE Killed(t)          BY <1>0, <1>1, <1>19 DEF Killed
<1> QED
  BY <1>2, <1>3, <1>4, <1>5, <1>6, <1>7, <1>8, <1>9, <1>10, <1>11, <1>12, <1>13, <1>14,
     <1>15, <1>16, <1>17, <1>18, <1>19
     DEF PipeCall, PipeStep, CheckResetAfterRead

(* Such a step keeps the invariant.                                        *)
LEMMA PassStep ==
  ASSUME Typed, PipeInv, NEW t \in Threads, Passes(t)
  PROVE  PipeInv'
<1> USE DEF Pass
<1>1. PICK from \in Stages, to \in Stages :
       /\ Pass(t, from, to)
       /\ (from \in Registered) <=> (to \in Registered)
       /\ to \in Writing => t \in PipeWriters
       /\ to \in {"wait_data", "register"} => t \in PipeReaders
       /\ to = "await" => n_active_readers # 0
       /\ from \in Leaving => to \in Leaving \/ t \notin PipeReaders \/ read_completion' = All
       /\ read_completion # All \/ read_completion' = All \/ to \in Registered
       /\ to \in Copying /\ tidy' => from \in Copying \/ \A u \in Threads : stage[u] \notin Reading
       /\ pc'[t] \in Resetting => to = "resetting"
       /\ to = "hold" => bytes'[t] = n_bytes_written
       /\ ~silent' /\ pc'[t] \in InWrite => to = "writing"
       /\ from = "writing" => to = "writing" \/ write_completion' = All
  BY DEF Passes
<1>2. /\ write_completion = All => write_completion' = All
      /\ \A u \in Threads \ {t} : pc'[u] = pc[u] /\ bytes'[u] = bytes[u]
      /\ (intact' => intact) /\ (tidy' => tidy) /\ (silent => silent')
      /\ UNCHANGED <<n_active_readers, n_bytes_written>>
  BY DEF Passes
<1>3. stage[t] = from /\ stage'[t] = to /\ \A u \in Threads \ {t} : stage'[u] = stage[u]
  BY <1>1 DEF Typed, PipeTypeOK
<1>4. Present' = Present
  BY <1>1, <1>3 DEF Present
<1>5. RolesKept'
  BY <1>1, <1>2, <1>3, <1>4 DEF PipeInv, RolesKept
<1>6. WritersAwaited'
  <2> SUFFICES ASSUME NEW w \in Threads, stage'[w] = "await", read_completion' # All
               PROVE  \E u \in PipeReaders : stage'[u] \in Registered \cup Leaving
    BY DEF WritersAwaited
  <2>1. CASE to \in Registered
    <3>1. t \in PipeReaders  BY <1>1, <1>3, <2>1 DEF PipeInv, RolesKept
    <3> QED BY <1>3, <2>1, <3>1
  <2>2. CASE to \notin Registered
    <3>1. read_completion # All  BY <1>1, <2>2
    <3>2. \E u \in PipeReaders : stage[u] \in Registered \cup Leaving
      <4>1. CASE stage[w] = "await"
        BY <3>1, <4>1 DEF PipeInv, WritersAwaited
      <4>2. CASE stage[w] # "await"
        <5>1. n_active_readers # 0  BY <1>1, <1>3, <4>2
        <5>2. Present # {}
          BY <5>1, FS_EmptySet DEF PipeInv, RolesKept
        <5> QED BY <5>2 DEF Present, PipeInv, RolesKept
      <4> QED BY <4>1, <4>2
    <3>3. PICK u \in PipeReaders : stage[u] \in Registered \cup Leaving
      BY <3>2
    <3>4. u \in Threads  BY PipeAssumption
    <3> QED BY <1>1, <1>3, <2>2, <3>3, <3>4
  <2> QED BY <2>1, <2>2
<1>7. HoldersApart'
  <2>1. ASSUME tidy', NEW u \in Threads, NEW v \in Threads,
               stage'[u] \in Registered
        PROVE  stage'[v] \notin Copying
    <3>1. stage[u] \in Registered  BY <1>1, <1>3, <2>1
    <3>2. stage[v] \notin Copying  BY <1>2, <2>1, <3>1 DEF PipeInv, HoldersApart
    <3>3. stage[u] \in Reading  BY <3>1 DEF Reading
    <3> QED BY <1>1, <1>3, <2>1, <3>2, <3>3
  <2>2. \A u \in Threads : pc'[u] \in Resetting => stage'[u] = "resetting"
    BY <1>1, <1>2, <1>3 DEF PipeInv, HoldersApart
  <2>3. ASSUME tidy', intact', NEW u \in Threads, stage'[u] = "hold"
        PROVE  bytes'[u] <= n_bytes_written'
    <3>1. n_bytes_written \in Nat  BY DEF Typed, TypeOK
    <3>2. CASE u = t  BY <1>1, <1>2, <1>3, <2>3, <3>1, <3>2
    <3>3. CASE u # t  BY <1>2, <1>3, <2>3, <3>3 DEF PipeInv, HoldersApart
    <3> QED BY <3>2, <3>3
  <2> QED BY <2>1, <2>2, <2>3 DEF HoldersApart
<1>8. DataTold'
  <2> SUFFICES ASSUME ~silent'
               PROVE  /\ \A u \in Threads : pc'[u] \in InWrite => stage'[u] = "writing"
                      /\ n_bytes_written' > 0 =>
                           write_completion' = All \/ \E u \in PipeWriters : stage'[u] = "writing"
    BY DEF DataTold
  <2>1. DataTold /\ ~silent  BY <1>2 DEF PipeInv
  <2>2. \A u \in Threads : pc'[u] \in InWrite => stage'[u] = "writing"
    BY <1>1, <1>2, <1>3, <2>1 DEF DataTold
  <2>3. ASSUME n_bytes_written' > 0
        PROVE  write_completion' = All \/ \E u \in PipeWriters : stage'[u] = "writing"
    <3>1. CASE write_completion = All  BY <1>2, <3>1
    <3>2. CASE write_completion # All
      <4>1. PICK u \in PipeWriters : stage[u] = "writing"
        BY <1>2, <2>1, <2>3, <3>2 DEF DataTold
      <4>2. u \in Threads  BY PipeAssumption
      <4> QED BY <1>1, <1>3, <4>1, <4>2
    <3> QED BY <3>1, <3>2
  <2> QED BY <2>2, <2>3
<1> QED BY <1>5, <1>6, <1>7, <1>8 DEF PipeInv

(* What a registration and its end have in common: the buffer and the      *)
(* writers are left alone.                                                 *)
LEMMA SameBuffer ==
  ASSUME DataTold, NEW t \in Threads, NEW from, NEW to, Pass(t, from, to),
         from # "writing", UNCHANGED <<vars, write_completion, silent>>,
         stage \in [Threads -> Stages]
  PROVE  DataTold'
<1>1. \A u \in Threads : stage[u] = "writing" => stage'[u] = "writing"
  BY DEF Pass
<1>2. UNCHANGED <<pc, n_bytes_written>>
  BY DEF vars, counts
<1> QED BY <1>1, <1>2, PipeAssumption DEF DataTold

(* A reader that comes is counted, and the invariant kept.                 *)
LEMMA RegisterStep ==
  ASSUME Typed, PipeInv, NEW t \in Threads, Register(t)
  PROVE  PipeInv' /\ n_active_readers' \in Nat
<1>1. /\ n_active_readers' = n_active_readers + 1
      /\ stage[t] = "register"
      /\ stage' = [stage EXCEPT ![t] = IF n_active_readers' = 1 THEN "reinit" ELSE "fetch"]
      /\ tidy' = (tidy /\ \A u \in Threads : stage[u] \notin Copying)
      /\ UNCHANGED <<vars, n_bytes_read, wakers, bytes, reads, silent>>
  BY DEF Register, Pass
<1>2. PICK to \in {"reinit", "fetch"} : stage'[t] = to
  BY <1>1 DEF Typed, PipeTypeOK
<1>3. \A u \in Threads \ {t} : stage'[u] = stage[u]
  BY <1>1 DEF Typed, PipeTypeOK
<1>4. t \in PipeReaders
  BY <1>1 DEF PipeInv, RolesKept
<1>5. t \notin Present /\ Present' = Present \cup {t}
  BY <1>1, <1>2, <1>3 DEF Present, Registered
<1>6. n_active_readers' = Cardinality(Present')
  BY <1>1, <1>5, ReadersFinite, FS_AddElement DEF PipeInv, RolesKept
<1>7. RolesKept'
  BY <1>2, <1>3, <1>4, <1>6 DEF PipeInv, RolesKept, Writing
<1>8. WritersAwaited'
  BY <1>2, <1>4 DEF WritersAwaited, Registered
<1>9. HoldersApart'
  <2>1. UNCHANGED <<pc, intact, n_bytes_written, bytes>>
    BY <1>1 DEF vars, counts, hist
  <2>2. pc[t] \notin Resetting
    BY <1>1 DEF PipeInv, HoldersApart
  <2>3. tidy' => tidy /\ \A u \in Threads : stage[u] \notin Copying
    BY <1>1
  <2>4. \A u \in Threads : stage'[u] \in Copying => stage[u] \in Copying
    BY <1>2, <1>3 DEF Copying, Leaving
  <2>5. \A u \in Threads : stage'[u] = "hold" => stage[u] = "hold"
    BY <1>2, <1>3
  <2>6. \A u \in Threads : pc'[u] \in Resetting => stage'[u] = "resetting"
    BY <1>3, <2>1, <2>2 DEF PipeInv, HoldersApart
  <2> QED BY <2>1, <2>3, <2>4, <2>5, <2>6 DEF PipeInv, HoldersApart
<1>10. DataTold'
  BY <1>1, SameBuffer DEF PipeInv, Typed, PipeTypeOK, wakers, Pass
<1>11. n_active_readers' \in Nat
  BY <1>6, ReadersFinite
<1> QED BY <1>7, <1>8, <1>9, <1>10, <1>11 DEF PipeInv

(* The last reader finds the counter at zero exactly when nobody else is   *)
(* registered.                                                             *)
LEMMA EndStep ==
  ASSUME Typed, PipeInv, NEW t \in Threads, ReadEnd(t)
  PROVE  PipeInv' /\ n_active_readers' \in Nat
<1>1. /\ n_active_readers' = n_active_readers - 1
      /\ stage[t] = "hold"
      /\ stage' = [stage EXCEPT ![t] = IF n_active_readers' = 0 THEN "add" ELSE "out"]
      /\ \A u \in Threads \ {t} : bytes'[u] = bytes[u]
      /\ UNCHANGED <<vars, n_bytes_read, wakers, reads, tales>>
  BY DEF ReadEnd, Pass, Amount, Typed, PipeTypeOK
<1>2. stage'[t] = IF n_active_readers' = 0 THEN "add" ELSE "out"
  BY <1>1 DEF Typed, PipeTypeOK
<1>3. \A u \in Threads \ {t} : stage'[u] = stage[u]
  BY <1>1 DEF Typed, PipeTypeOK
<1>4. t \in PipeReaders
  BY <1>1 DEF PipeInv, RolesKept, Registered
<1>5. t \in Present /\ Present' = Present \ {t}
  BY <1>1, <1>2, <1>3 DEF Present, Registered
<1>6. n_active_readers' = Cardinality(Present')
  BY <1>1, <1>5, ReadersFinite, FS_RemoveElement DEF PipeInv, RolesKept
<1>7. n_active_readers' = 0 => Present' = {}
  BY <1>6, ReadersFinite, FS_EmptySet
<1>8. RolesKept'
  BY <1>2, <1>3, <1>6 DEF PipeInv, RolesKept, Writing, Registered
<1>9. WritersAwaited'
  <2>1. CASE n_active_readers' = 0
    BY <1>2, <1>4, <2>1 DEF WritersAwaited, Leaving
  <2>2. CASE n_active_readers' # 0
    <3>1. Present' # {}  BY <1>6, <2>2, FS_EmptySet
    <3>2. PICK u \in Threads : stage'[u] \in Registered  BY <3>1 DEF Present
    <3>3. u \in PipeReaders  BY <1>8, <3>2 DEF RolesKept
    <3> QED BY <3>2, <3>3 DEF WritersAwaited
  <2> QED BY <2>1, <2>2
<1>10. HoldersApart'
  <2>1. UNCHANGED <<pc, intact, n_bytes_written, tidy>>
    BY <1>1 DEF vars, counts, hist, tales
  <2>2. pc[t] \notin Resetting
    BY <1>1 DEF PipeInv, HoldersApart
  <2>3. ASSUME tidy', NEW u \in Threads, NEW v \in Threads, stage'[u] \in Registered
        PROVE  stage'[v] \notin Copying
    <3>1. n_active_readers' # 0  BY <1>7, <2>3 DEF Present
    <3>2. stage'[t] = "out"  BY <1>2, <3>1
    <3>3. u # t  BY <2>3, <3>2 DEF Registered
    <3>4. stage[u] \in Registered /\ tidy  BY <1>3, <2>1, <2>3, <3>3
    <3>5. stage[v] \notin Copying  BY <3>4 DEF PipeInv, HoldersApart
    <3> QED BY <1>3, <3>2, <3>5 DEF Copying, Leaving
  <2>4. \A u \in Threads : stage'[u] = "hold" => u # t /\ stage[u] = "hold"
    BY <1>2, <1>3
  <2>5. \A u \in Threads : pc'[u] \in Resetting => stage'[u] = "resetting"
    BY <1>3, <2>1, <2>2 DEF PipeInv, HoldersApart
  <2> QED BY <1>1, <2>1, <2>3, <2>4, <2>5 DEF PipeInv, HoldersApart
<1>11. DataTold'
  BY <1>1, SameBuffer DEF PipeInv, Typed, PipeTypeOK, wakers, tales, Pass
<1>12. n_active_readers' \in Nat
  BY <1>6, ReadersFinite
<1> QED BY <1>8, <1>9, <1>10, <1>11, <1>12 DEF PipeInv

-----------------------------------------------------------------------------
(* Every step keeps the invariant.                                         *)
LEMMA PipeNextStep ==
  ASSUME Typed, PipeInv, [PipeNext]_<<vars, pipe>>
  PROVE  Typed' /\ PipeInv'
<1>1. CASE UNCHANGED <<vars, pipe>>
  <2>1. TypeOK' /\ Orderly'
    BY <1>1, StutterType, StutterKeepsOrder DEF Typed
  <2>2. UNCHANGED <<n_active_readers, n_bytes_read, read_completion, write_completion,
                    stage, bytes, reads, tidy, silent, pc, intact, n_bytes_written>>
    BY <1>1 DEF pipe, readers, wakers, tales, vars, counts, hist
  <2>3. PipeTypeOK'  BY <2>2 DEF Typed, PipeTypeOK
  <2>4. PipeInv'
    BY <2>2 DEF PipeInv, RolesKept, WritersAwaited, HoldersApart, DataTold, Present
  <2> QED BY <2>1, <2>3, <2>4 DEF Typed
<1>2. ASSUME NEW t \in Threads, PipeCall(t) \/ PipeStep(t) \/ Killed(t)
      PROVE  Typed' /\ PipeInv'
  <2>1. TypeOK' /\ Orderly'
    BY <1>2, PipeIsBufferStep, StepType, StepKeepsOrder, StutterType, StutterKeepsOrder
       DEF Typed
  <2>2. CASE Passes(t)
    <3>1. n_active_readers' \in Nat  BY <2>2 DEF Passes, Typed, PipeTypeOK
    <3> QED BY <1>2, <2>1, <2>2, <3>1, PipeStepType, PassStep DEF Typed
  <2>3. CASE Register(t) \/ ReadEnd(t)
    BY <1>2, <2>1, <2>3, PipeStepType, RegisterStep, EndStep DEF Typed
  <2>4. CASE (Write(t) \/ Reset(t)) /\ UNCHANGED pipe
    BY <2>1, <2>4, WorkStep DEF Typed
  <2> QED BY <1>2, <2>2, <2>3, <2>4, MostPass
<1> QED BY <1>1, <1>2 DEF PipeNext

(* The invariant holds always.                                             *)
LEMMA PipeInvariant == PipeSpec => [](Typed /\ PipeInv)
<1>1. PipeInit => Typed /\ PipeInv
  <2> SUFFICES ASSUME PipeInit PROVE Typed /\ PipeInv
    OBVIOUS
  <2>1. TypeOK /\ Orderly  BY InitType, InitOrder DEF PipeInit
  <2>2. PipeTypeOK
    <3>1. tidy \in BOOLEAN /\ silent \in BOOLEAN  BY DEF PipeInit
    <3>2. stage \in [Threads -> Stages] /\ bytes \in [Threads -> Nat]
      BY DEF PipeInit, Stages
    <3>3. /\ n_active_readers \in Nat /\ n_bytes_read \in Nat /\ reads \in Nat
          /\ read_completion \in 0 .. All /\ write_completion \in 0 .. All
      BY DEF PipeInit, All
    <3> QED BY <3>1, <3>2, <3>3 DEF PipeTypeOK
  <2>3. Present = {}  BY DEF PipeInit, Present, Registered
  <2>4. Cardinality(Present) = 0  BY <2>3, FS_EmptySet
  <2>5. n_bytes_written = 0 /\ \A u \in Threads : pc[u] = "idle" /\ stage[u] = "out"
    BY DEF PipeInit, Init
  <2>6. n_active_readers = 0  BY DEF PipeInit
  <2>7. RolesKept  BY <2>4, <2>5, <2>6 DEF RolesKept, Writing, Registered
  <2>8. WritersAwaited /\ HoldersApart
    BY <2>5 DEF WritersAwaited, HoldersApart, Registered
  <2>9. DataTold
    BY <2>5 DEF DataTold, InWrite
  <2> QED BY <2>1, <2>2, <2>7, <2>8, <2>9 DEF Typed, PipeInv
<1>2. Typed /\ PipeInv /\ [PipeNext]_<<vars, pipe>> => (Typed /\ PipeInv)'
  BY PipeNextStep
<1> QED
  BY <1>1, <1>2, PTL DEF PipeSpec

(* The counters of a pipe never go below zero, its completions keep to     *)
(* their values, and the amounts are amounts.                              *)
THEOREM PipeTypeCorrect == PipeSpec => []PipeTypeOK
<1>1. Typed => PipeTypeOK  BY DEF Typed
<1> QED BY <1>1, PipeInvariant, PTL

(* However many threads write and read: a writer that waits for readers    *)
(* and cannot go on waits for one that is still there.                     *)
THEOREM WritersAreWoken == PipeSpec => []WaitingWritersAreWoken
<1>1. PipeInv => WaitingWritersAreWoken
  BY DEF PipeInv, WritersAwaited, WaitingWritersAreWoken, All
<1> QED BY <1>1, PipeInvariant, PTL

(* And a reader that waits for data that was written by copy may go on, or *)
(* is about to be told.                                                    *)
THEOREM ReadersAreWoken == PipeSpec => []WaitingReadersAreWoken
<1>1. PipeInv => WaitingReadersAreWoken
  BY DEF PipeInv, DataTold, WaitingReadersAreWoken, All
<1> QED BY <1>1, PipeInvariant, PTL

(* As long as reads keep apart, and writes and resets of the buffer do,    *)
(* what a reader holds a pointer to is not touched.                        *)
THEOREM HeldBytesAreKept == PipeSpec => HeldBytesStay
<1>1. ASSUME Typed, PipeInv, [PipeNext]_<<vars, pipe>>
      PROVE  [\A t \in Threads : (tidy /\ intact /\ stage[t] = "hold" /\ stage'[t] = "hold") =>
                \A i \in 0 .. bytes[t] - 1 : buf'[i] = buf[i]]_<<vars, pipe>>
  <2> SUFFICES ASSUME PipeNext, NEW t \in Threads, tidy, intact, stage[t] = "hold",
                      NEW i \in 0 .. bytes[t] - 1
               PROVE  buf'[i] = buf[i]
    BY <1>1
  <2>0. /\ bytes[t] \in Nat /\ n_bytes_written \in Nat /\ bytes[t] <= n_bytes_written
        /\ Size \in Nat
    BY <1>1, BufferAssumption DEF Typed, TypeOK, PipeTypeOK, PipeInv, HoldersApart
  <2>1. PICK u \in Threads : PipeCall(u) \/ PipeStep(u) \/ Killed(u)
    BY DEF PipeNext
  <2>2. CASE UNCHANGED buf
    BY <2>2
  <2>3. CASE Copy(u)
    <3>1. At(u) /\ pc[u] = "copy"
      BY <1>1, <2>3 DEF Typed, Orderly, Copy, Go
    <3>2. /\ n_bytes_written <= Size
          /\ call[u].writable > 0 => call[u].start = n_bytes_written
      BY <3>1 DEF At, StoredBelow
    <3>3. i \in Index /\ i < n_bytes_written
      BY <2>0, <3>2 DEF Index
    <3>4. call[u].start \in Nat /\ call[u].writable \in Nat
      BY <1>1 DEF Typed, TypeOK, Calls
    <3>5. PICK good \in Accessible(u, call[u].writable) :
            buf' = [j \in Index |->
                      IF j \in call[u].start .. call[u].start + good - 1 THEN epoch
                      ELSE IF j \in call[u].start + good .. call[u].start + call[u].writable - 1
                           THEN 0 ELSE buf[j]]
      BY <2>3 DEF Copy
    <3>6. good \in 0 .. call[u].writable
      BY <3>4, <3>5 DEF Accessible
    <3>7. /\ i \notin call[u].start .. call[u].start + good - 1
          /\ i \notin call[u].start + good .. call[u].start + call[u].writable - 1
      <4>1. CASE call[u].writable = 0  BY <3>3, <3>4, <3>6, <4>1
      <4>2. CASE call[u].writable > 0
        <5>1. call[u].start = n_bytes_written  BY <3>2, <4>2
        <5> QED BY <2>0, <3>3, <3>4, <3>6, <5>1 DEF Index
      <4> QED BY <3>4, <4>1, <4>2
    <3> QED BY <3>3, <3>5, <3>7
  <2>4. UNCHANGED buf \/ Copy(u)
    <3>1. UNCHANGED vars \/ BufferStep(u)
      BY <2>1, PipeIsBufferStep
    <3>2. CASE UNCHANGED vars  BY <3>2 DEF vars
    <3>3. CASE Begins(u) \/ BeginReset(u) \/ BeginSync(u) \/ BeginRead(u) \/ ReadCopy(u)
      BY <3>3 DEF Begins, BeginWrite, BeginReset, BeginSync, BeginRead, BeginCopy,
                  Hold, ReadCopy
    <3>4. CASE Write(u)
      BY <3>4 DEF Write, Enter, LockFirst, Claim, Count, Refuse, Leave, Unlock, LoadTmp,
                  AddWritten, ClearTmp, WaitForGroup
    <3>5. CASE Reset(u) \/ Sync(u)
      BY <3>5 DEF Reset, Sync, CheckWriters, DrainWriters, ResetOff, ResetWritten, ResetTmp,
                  SyncCheck, SyncDrain
    <3> QED BY <3>1, <3>2, <3>3, <3>4, <3>5 DEF BufferStep, Waits
  <2> QED BY <2>2, <2>3, <2>4
<1> QED
  BY <1>1, PipeInvariant, PTL DEF PipeSpec, HeldBytesStay

=============================================================================
