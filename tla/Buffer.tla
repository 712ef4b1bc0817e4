-------------------------------- MODULE Buffer --------------------------------
(***************************************************************************)
(* utils/buffer.c: a buffer that writers fill from its beginning to its    *)
(* end and that a reset empties.  Writers claim their range with an atomic *)
(* addition and copy side by side; the first of a group locks the mutex,   *)
(* the last one unlocks it and publishes what the group has written, and   *)
(* the others wait for that by locking the mutex themselves.  Readers look *)
(* at the published bytes and take no lock.                                *)
(*                                                                         *)
(* Every atomic operation is a step of its own.  A mutex is locked or not: *)
(* mutex_unlock releases it whoever calls it, and the waiters and resets   *)
(* that lock it return without releasing it.                               *)
(*                                                                         *)
(* A byte is represented by the epoch it was stored in; a reset that takes *)
(* effect begins a new one.  The history variable intact says whether so   *)
(* far no write, reset or sync has begun while another was under way, no   *)
(* user memory was inaccessible and no reservation was refused.  No step   *)
(* of the code is guarded by it.                                           *)
(***************************************************************************)
EXTENDS Integers

CONSTANTS
  Size,       (* bufsize                                                   *)
  Threads,    (* the callers, ...                                          *)
  Writers,    (* ... those that write by copy                              *)
  Reservers,  (* ... those that reserve, fill and finish                   *)
  Readers,    (* ... those that read by copy                               *)
  Resetters,  (* ... those that reset                                      *)
  MayFault,   (* ... and those whose user memory may be inaccessible       *)
  Lens,       (* lengths asked for                                         *)
  MaxResets   (* bound: resets                                             *)

ASSUME BufferAssumption ==
  /\ Size \in Nat \ {0}
  /\ Writers \cup Reservers \cup Readers \cup Resetters \subseteq Threads
  /\ MayFault \subseteq Writers \cup Readers
  /\ Lens \subseteq Nat \ {0}
  /\ MaxResets \in Nat

Index == 0 .. Size - 1
Least(a, b) == IF a < b THEN a ELSE b

VARIABLES
  write_off, n_bytes_written, n_bytes_written_tmp,
  n_active_writters,
  mlock,        (* the mutex is locked                                     *)
  buf,          (* for each byte, the epoch it was stored in               *)
  pc,           (* where each thread is                                    *)
  call,         (* the locals of its call                                  *)
  epoch,        (* history: resets that took effect                        *)
  resets,       (* history: resets begun                                   *)
  intact        (* history: the calls kept out of each other's way         *)

counts == <<write_off, n_bytes_written, n_bytes_written_tmp>>
hist   == <<epoch, resets, intact>>
vars   == <<counts, n_active_writters, mlock, buf, pc, call, hist>>

Claiming   == {"enter", "first", "claim"}
Claimed    == {"count", "copy", "leave"}
Publishing == {"unlock", "load", "add", "clear", "wait"}
Resetting  == {"check", "drain", "reset_off", "reset_written", "reset_tmp"}
Syncing    == {"sync", "sync_drain"}
Changing   == Claiming \cup Claimed \cup Publishing \cup Resetting \cup Syncing
Steps      == {"idle", "read"} \cup Changing

Calls == [len : Nat, reserve : BOOLEAN, start : Nat, writable : Nat, tmp : Nat, epoch : Nat]
Asked(n, r) == [len |-> n, reserve |-> r, start |-> 0, writable |-> 0, tmp |-> 0, epoch |-> 0]
NoCall == Asked(0, FALSE)

Init ==
  /\ write_off = 0
  /\ n_bytes_written = 0
  /\ n_bytes_written_tmp = 0
  /\ n_active_writters = 0
  /\ mlock = FALSE
  /\ buf = [i \in Index |-> 0]
  /\ pc = [t \in Threads |-> "idle"]
  /\ call = [t \in Threads |-> NoCall]
  /\ epoch = 1
  /\ resets = 0
  /\ intact = TRUE

-----------------------------------------------------------------------------
Go(t, from, to) == pc[t] = from /\ pc' = [pc EXCEPT ![t] = to]

(* mutex_lock                                                              *)
Lock == ~mlock /\ mlock' = TRUE

(* No write, reset or sync is under way.                                   *)
Undisturbed == \A t \in Threads : pc[t] \notin Changing

(* buffer_write_copy, buffer_copy_from_user and (r) buffer_write_reserve up *)
(* to _write_check_full: a call that finds the buffer full returns at once. *)
BeginWrite(t, r) ==
  /\ write_off < Size
  /\ Go(t, "idle", "enter")
  /\ \E n \in Lens : call' = [call EXCEPT ![t] = Asked(n, r)]
  /\ intact' = (intact /\ Undisturbed)
  /\ UNCHANGED <<counts, n_active_writters, mlock, buf, epoch, resets>>

WriteCall(t) ==
  \E r \in BOOLEAN : t \in (IF r THEN Reservers ELSE Writers) /\ BeginWrite(t, r)

(* _write_request_off_range_sync: the first writer of a group locks, ...   *)
Enter(t) ==
  /\ n_active_writters' = n_active_writters + 1
  /\ Go(t, "enter", IF n_active_writters' = 1 THEN "first" ELSE "claim")
  /\ UNCHANGED <<counts, mlock, buf, call, hist>>

LockFirst(t) ==
  /\ Go(t, "first", "claim")
  /\ Lock
  /\ UNCHANGED <<counts, n_active_writters, buf, call, hist>>

(* Slip: the length is forgotten.                                          *)
DroppedUncut(start, n) == IF start + n < Size THEN 0 ELSE start + n - Size + 1

(* ... every writer claims its range, ...                                  *)
Dropped(start, n) ==
  IF start + n < Size THEN 0 ELSE Least(start + n - Size + 1, n)

(* Slip: the offset is loaded and stored back in two steps, so that two    *)
(* writers may load the same one.                                          *)
ClaimTorn(t) ==
  /\ Go(t, "claim", "count")
  /\ write_off' \in {write_off, write_off + call[t].len}
  /\ call' = [call EXCEPT ![t] = [@ EXCEPT !.start = write_off, !.writable = call[t].len]]
  /\ UNCHANGED <<n_bytes_written, n_bytes_written_tmp, n_active_writters, mlock, buf, hist>>

Claim(t) ==
  LET n == call[t].len
  IN  /\ Go(t, "claim", IF write_off < Size THEN "count" ELSE "copy")
      /\ write_off' = write_off + n
      /\ call' = [call EXCEPT ![t] = [@ EXCEPT !.start = write_off,
                                               !.writable = n - Dropped(write_off, n)]]
      /\ UNCHANGED <<n_bytes_written, n_bytes_written_tmp, n_active_writters, mlock,
                     buf, hist>>

(* Slip: it is published at once.                                          *)
CountPublishes(t) ==
  /\ Go(t, "count", "copy")
  /\ n_bytes_written' = n_bytes_written + call[t].writable
  /\ UNCHANGED <<write_off, n_bytes_written_tmp, n_active_writters, mlock, buf, call, hist>>

(* ... and announces what it will write.  A reservation that got nothing   *)
(* returns 0, and its caller must not finish it.                           *)
Count(t) ==
  /\ Go(t, "count", "copy")
  /\ n_bytes_written_tmp' = n_bytes_written_tmp + call[t].writable
  /\ UNCHANGED <<write_off, n_bytes_written, n_active_writters, mlock, buf, call, hist>>

Refuse(t) ==
  /\ call[t].reserve /\ call[t].writable = 0
  /\ Go(t, "copy", "idle")
  /\ call' = [call EXCEPT ![t] = NoCall]
  /\ intact' = FALSE
  /\ UNCHANGED <<counts, n_active_writters, mlock, buf, epoch, resets>>

(* The bytes are copied, by the call or by the caller that has reserved    *)
(* them; what copy_from_user cannot fetch is zero-filled, and stays        *)
(* announced.  buffer_write_finish finds at least its own caller among the *)
(* active writers.                                                         *)
Accessible(t, n) == IF t \in MayFault THEN 0 .. n ELSE {n}

Copy(t) ==
  LET c == call[t]
  IN  /\ c.writable > 0 \/ ~c.reserve
      /\ Go(t, "copy", "leave")
      /\ \E good \in Accessible(t, c.writable) :
           /\ buf' = [i \in Index |->
                        IF i \in c.start .. c.start + good - 1 THEN epoch
                        ELSE IF i \in c.start + good .. c.start + c.writable - 1 THEN 0
                        ELSE buf[i]]
           /\ intact' = (intact /\ good = c.writable)
           /\ UNCHANGED <<counts, n_active_writters, mlock, call, epoch, resets>>

(* _write_finish_sync: the last writer of a group unlocks and publishes,   *)
(* the others wait for the mutex and keep it.                              *)
Leave(t) ==
  /\ n_active_writters' = n_active_writters - 1
  /\ Go(t, "leave", IF n_active_writters' = 0 THEN "unlock" ELSE "wait")
  /\ UNCHANGED <<counts, mlock, buf, call, hist>>

(* Slip: the mutex stays locked.                                           *)
UnlockForgotten(t) ==
  /\ Go(t, "unlock", "load")
  /\ UNCHANGED <<counts, n_active_writters, mlock, buf, call, hist>>

Unlock(t) ==
  /\ Go(t, "unlock", "load")
  /\ mlock' = FALSE
  /\ UNCHANGED <<counts, n_active_writters, buf, call, hist>>

LoadTmp(t) ==
  /\ Go(t, "load", "add")
  /\ call' = [call EXCEPT ![t] = [@ EXCEPT !.tmp = n_bytes_written_tmp]]
  /\ UNCHANGED <<counts, n_active_writters, mlock, buf, hist>>

AddWritten(t) ==
  /\ Go(t, "add", "clear")
  /\ n_bytes_written' = n_bytes_written + call[t].tmp
  /\ UNCHANGED <<write_off, n_bytes_written_tmp, n_active_writters, mlock, buf, call, hist>>

(* Slip: the counter is left as it is.                                     *)
ClearForgotten(t) ==
  /\ Go(t, "clear", "idle")
  /\ call' = [call EXCEPT ![t] = NoCall]
  /\ UNCHANGED <<counts, n_active_writters, mlock, buf, hist>>

ClearTmp(t) ==
  /\ Go(t, "clear", "idle")
  /\ n_bytes_written_tmp' = 0
  /\ call' = [call EXCEPT ![t] = NoCall]
  /\ UNCHANGED <<write_off, n_bytes_written, n_active_writters, mlock, buf, hist>>

WaitForGroup(t) ==
  /\ Go(t, "wait", "idle")
  /\ Lock
  /\ call' = [call EXCEPT ![t] = NoCall]
  /\ UNCHANGED <<counts, n_active_writters, buf, hist>>

Write(t) ==
  \/ Enter(t) \/ LockFirst(t) \/ Claim(t) \/ Count(t) \/ Refuse(t) \/ Copy(t)
  \/ Leave(t) \/ Unlock(t) \/ LoadTmp(t) \/ AddWritten(t) \/ ClearTmp(t) \/ WaitForGroup(t)

-----------------------------------------------------------------------------
(* buffer_reset: keep new writers out, ...                                 *)
BeginReset(t) ==
  /\ resets' = resets + 1
  /\ Go(t, "idle", "check")
  /\ write_off' = Size
  /\ intact' = (intact /\ Undisturbed)
  /\ UNCHANGED <<n_bytes_written, n_bytes_written_tmp, n_active_writters, mlock, buf, call,
                 epoch>>

ResetCall(t) ==
  /\ t \in Resetters
  /\ resets < MaxResets
  /\ BeginReset(t)

(* ... wait for the others, keeping the mutex, ...                         *)
CheckWriters(t) ==
  /\ Go(t, "check", IF n_active_writters # 0 THEN "drain" ELSE "reset_off")
  /\ UNCHANGED <<counts, n_active_writters, mlock, buf, call, hist>>

DrainWriters(t) ==
  /\ Go(t, "drain", "reset_off")
  /\ Lock
  /\ UNCHANGED <<counts, n_active_writters, buf, call, hist>>

(* ... and clear the three counters.                                       *)
ResetOff(t) ==
  /\ Go(t, "reset_off", "reset_written")
  /\ write_off' = 0
  /\ UNCHANGED <<n_bytes_written, n_bytes_written_tmp, n_active_writters, mlock, buf, call,
                 hist>>

ResetWritten(t) ==
  /\ Go(t, "reset_written", "reset_tmp")
  /\ n_bytes_written' = 0
  /\ epoch' = epoch + 1
  /\ UNCHANGED <<write_off, n_bytes_written_tmp, n_active_writters, mlock, buf, call,
                 resets, intact>>

ResetTmp(t) ==
  /\ Go(t, "reset_tmp", "idle")
  /\ n_bytes_written_tmp' = 0
  /\ UNCHANGED <<write_off, n_bytes_written, n_active_writters, mlock, buf, call, hist>>

(* buffer_sync: the wait of a reset without the reset; it keeps the mutex  *)
(* as well.                                                                *)
BeginSync(t) ==
  /\ Go(t, "idle", "sync")
  /\ intact' = (intact /\ Undisturbed)
  /\ UNCHANGED <<counts, n_active_writters, mlock, buf, call, epoch, resets>>

SyncCall(t) == t \in Resetters /\ BeginSync(t)

SyncCheck(t) ==
  /\ Go(t, "sync", IF n_active_writters # 0 THEN "sync_drain" ELSE "idle")
  /\ UNCHANGED <<counts, n_active_writters, mlock, buf, call, hist>>

SyncDrain(t) ==
  /\ Go(t, "sync_drain", "idle")
  /\ Lock
  /\ UNCHANGED <<counts, n_active_writters, buf, call, hist>>

Sync(t) == SyncCheck(t) \/ SyncDrain(t)

Reset(t) ==
  CheckWriters(t) \/ DrainWriters(t) \/ ResetOff(t) \/ ResetWritten(t) \/ ResetTmp(t)

-----------------------------------------------------------------------------
(* The caller is given the n bytes from off on.                            *)
Hold(t, off, n) ==
  /\ Go(t, "idle", "read")
  /\ call' = [call EXCEPT ![t] = [len |-> n, reserve |-> FALSE, start |-> off,
                                 writable |-> 0, tmp |-> 0, epoch |-> epoch]]
  /\ UNCHANGED <<counts, n_active_writters, mlock, buf, hist>>

(* _copy_impl: what is readable behind an offset is loaded once, ...       *)
BeginCopy(t) ==
  \E off \in Index, n \in Lens :
    off < n_bytes_written /\ Hold(t, off, Least(n_bytes_written - off, n))

(* ... and so it is by buffer_read, which hands out a pointer.  Behind an  *)
(* offset that is too large it answers n_bytes_written all the same, but   *)
(* leaves the pointer unset, so that the caller has no byte of the buffer. *)
BeginRead(t) ==
  \/ BeginCopy(t)
  \/ (\E off \in Index : off > n_bytes_written) /\ Hold(t, 0, 0)

ReadCall(t) == t \in Readers /\ BeginRead(t)

(* ... and the bytes are copied later.                                     *)
ReadCopy(t) ==
  /\ Go(t, "read", "idle")
  /\ call' = [call EXCEPT ![t] = NoCall]
  /\ UNCHANGED <<counts, n_active_writters, mlock, buf, hist>>

Next ==
  \E t \in Threads :
    \/ WriteCall(t) \/ Write(t) \/ ResetCall(t) \/ Reset(t)
    \/ SyncCall(t) \/ Sync(t) \/ ReadCall(t) \/ ReadCopy(t)

Spec == Init /\ [][Next]_vars

(* A thread in a call keeps running, and a caller finishes what it has     *)
(* reserved.                                                               *)
Fairness == \A t \in Threads : WF_vars(Write(t) \/ Reset(t) \/ Sync(t) \/ ReadCopy(t))

FairSpec == Spec /\ Fairness

-----------------------------------------------------------------------------
(* The counters are what an atomic_t of this code can hold, and the calls  *)
(* are in a step of theirs.                                                *)
TypeOK ==
  /\ write_off \in Nat
  /\ n_bytes_written \in Nat
  /\ n_bytes_written_tmp \in Nat
  /\ n_active_writters \in Int
  /\ mlock \in BOOLEAN
  /\ buf \in [Index -> Nat]
  /\ pc \in [Threads -> Steps]
  /\ call \in [Threads -> Calls]
  /\ epoch \in Nat
  /\ resets \in Nat
  /\ intact \in BOOLEAN

(* Until the first reset, writers that copy at the same time copy into     *)
(* disjoint ranges of the buffer, however many there are.                  *)
Extent(t) == call[t].start .. call[t].start + call[t].writable - 1
ClaimsDisjoint ==
  resets = 0 =>
    \A t \in Threads : pc[t] \in Claimed =>
      /\ Extent(t) \subseteq Index
      /\ \A u \in Threads \ {t} : pc[u] \in Claimed => Extent(t) \cap Extent(u) = {}

(* What a reader is about to copy has been stored since the last reset:    *)
(* bytes are published after they were stored, and not before.             *)
ReadersSeeStored ==
  intact => \A t \in Threads : (pc[t] = "read" /\ call[t].epoch = epoch) =>
    \A i \in call[t].start .. call[t].start + call[t].len - 1 : buf[i] = epoch

(* Between two calls everything that was stored is published.              *)
StoredIsPublished ==
  (intact /\ Undisturbed) =>
    \A i \in Index : (buf[i] = epoch) <=> (i < n_bytes_written)

(* A write, reset or sync that overlaps no other one returns.  It says     *)
(* nothing of the ones that wait for each other.                           *)
OrderlyCallsReturn ==
  \A t \in Threads : (pc[t] # "idle") ~> (pc[t] = "idle" \/ ~intact)

-----------------------------------------------------------------------------
(* What the code says of itself, and does not keep.                        *)

(* buffer.h on buffer_write_finish: "only call this if                     *)
(* buffer_write_reserve returned sth > 0".  A caller that keeps to it, and *)
(* is the only one there is, gets every call back.                         *)
EveryCallReturns == \A t \in Threads : (pc[t] # "idle") ~> (pc[t] = "idle")

=============================================================================
