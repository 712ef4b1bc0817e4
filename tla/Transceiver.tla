------------------------------ MODULE Transceiver ------------------------------
(***************************************************************************)
(* periphery/transceiver.c: the kernel thread that feeds the SPI           *)
(* controller, the completion callback that drives the LRCK pin, and       *)
(* tx_init and tx_cleanup, which _probe_pcm3060_device and                 *)
(* _remove_pcm3060_device call when the first file is opened and the last  *)
(* one is closed.                                                          *)
(*                                                                         *)
(* The thread queues a transfer with spi_async, whose result it ignores,   *)
(* and goes on; the callback spi_complete runs later, in the controller's  *)
(* context, unless the message was refused.                                *)
(*                                                                         *)
(* The message is a local of _tx_rx_on_channel: once that has returned,    *)
(* the controller works on a dead stack frame, which any later call of the *)
(* thread may overwrite.  Every transfer uses the same spi_transfer t:     *)
(* queueing one while another is in flight links an element into a list    *)
(* that already holds it.  What happens then is undefined, as it is when   *)
(* the error pointer spi_get may return is used; the model stops there     *)
(* (corrupt), and nothing is claimed of what follows.                      *)
(*                                                                         *)
(* The semaphore spi_completion is left out: it is only ever upped, and    *)
(* nothing waits for it.  So is mem_rx, which nothing reads.               *)
(***************************************************************************)
EXTENDS Integers

CONSTANTS
  RxRooms,      (* how much an RX ring may have room for                   *)
  MaxSessions   (* bound: calls of tx_init                                 *)

ASSUME TransceiverAssumption ==
  /\ RxRooms \subseteq Nat
  /\ MaxSessions \in Nat

(* A channel is named by the LRCK level _tx_run passes for it.             *)
Left  == 0
Right == 1
Channels == {Left, Right}
NoTransfer == 2

VARIABLES
  thread,         (* where the kernel thread is                            *)
  channel,        (* the channel it is serving                             *)
  readable,       (* n_bytes_to_write_over_spi > 0                         *)
  err,            (* err of _tx_run                                        *)
  state,          (* its task state, as far as a wake-up can change it     *)
  should_stop,    (* kthread_stop was called                               *)
  tx_completion,  (* times completed and not yet waited for                *)
  wire,           (* the channel of the transfer in flight                 *)
  lrck_level,     (* the static of spi_complete                            *)
  lrck,           (* the level of the LRCK pin                             *)
  gpio, spi,      (* the pin and the SPI device are held                   *)
  owner,          (* where the caller of tx_init and tx_cleanup is         *)
  rx_room,        (* bytes writable in an RX ring: nothing ever writes there *)
  corrupt,        (* a message in flight or an error pointer was used      *)
  sessions,       (* history: calls of tx_init                             *)
  ticks,          (* history: callbacks since the pin was set up, at most 2  *)
  phase,          (* history: the level at which left went out after that   *)
  slipped,        (* history: since then an odd number of turns of a channel *)
                  (* has passed without a transfer                         *)
  inHalf          (* history: transfers queued since LRCK last changed     *)

threadVars == <<thread, channel, readable, err, state, tx_completion>>
pinVars    == <<lrck_level, lrck, ticks>>
histVars   == <<phase, slipped, inHalf>>
ownerVars  == <<owner, gpio, spi, should_stop, sessions>>
vars == <<threadVars, wire, pinVars, histVars, ownerVars, rx_room, corrupt>>

Running == {"check", "fill", "send", "marked", "asleep", "exiting"}
Threads == {"none", "created", "gone"} \cup Running
Owners  == {"closed", "direct", "find_spi", "setup", "run", "open", "failed",
            "stop", "join", "wait", "free"}
NoPhase == 2

(* One more, in a history that is not counted any further than max.        *)
Counted(n, max) == IF n < max THEN n + 1 ELSE n

Init ==
  /\ thread = "none"
  /\ channel = Left
  /\ readable = FALSE
  /\ err = FALSE
  /\ state = "running"
  /\ should_stop = FALSE
  /\ tx_completion = 0
  /\ wire = NoTransfer
  /\ lrck_level = 0
  /\ lrck = 0
  /\ gpio = FALSE
  /\ spi = FALSE
  /\ owner = "closed"
  /\ rx_room \in RxRooms
  /\ corrupt = FALSE
  /\ sessions = 0
  /\ ticks = 0
  /\ phase = NoPhase
  /\ slipped = FALSE
  /\ inHalf = 0

-----------------------------------------------------------------------------
(* tx_init.  A step that fails returns at once, and what was acquired      *)
(* stays acquired.  The caller never cleans up after a failure: the open   *)
(* fails, so that file is never released, and its reference is never put.  *)

Own(from, to) == owner = from /\ owner' = to

InitUnchanged == UNCHANGED <<threadVars, wire, lrck_level, corrupt, should_stop>>

InitFails(from) ==
  /\ Own(from, "failed")
  /\ InitUnchanged
  /\ UNCHANGED <<gpio, spi, sessions, lrck, ticks, histVars>>

(* get_gpio: it also returns 0 when no pin of that name is valid yet.      *)
RequestGpio ==
  /\ sessions < MaxSessions
  /\ sessions' = sessions + 1
  /\ \/ Own("closed", "direct") /\ gpio' \in BOOLEAN
     \/ Own("closed", "failed") /\ gpio' = gpio
  /\ InitUnchanged
  /\ UNCHANGED <<spi, lrck, ticks, histVars>>

(* gpio_direction_output(gpio_num, 0), which refuses a number that is none *)
DirectGpio ==
  /\ gpio
  /\ Own("direct", "find_spi")
  /\ lrck' = 0
  /\ ticks' = 0
  /\ phase' = NoPhase
  /\ slipped' = FALSE
  /\ inHalf' = 0
  /\ InitUnchanged
  /\ UNCHANGED <<gpio, spi, sessions>>

(* spi_get reports most failures as an error pointer, not as NULL, and     *)
(* tx_init goes on to use it.                                              *)
UseErrorPointer ==
  /\ Own("find_spi", "failed")
  /\ corrupt' = TRUE
  /\ UNCHANGED <<threadVars, wire, lrck_level, should_stop, gpio, spi, sessions, lrck,
                 ticks, histVars>>

(* spi_get                                                                 *)
GetSpi ==
  /\ Own("find_spi", "setup")
  /\ spi' = TRUE
  /\ InitUnchanged
  /\ UNCHANGED <<gpio, sessions, lrck, ticks, histVars>>

(* spi_setup                                                               *)
SetupSpi ==
  /\ Own("setup", "run")
  /\ InitUnchanged
  /\ UNCHANGED <<gpio, spi, sessions, lrck, ticks, histVars>>

(* kthread_run.  On failure this one step is undone: spi_dev_put.          *)
RunThread ==
  /\ \/ /\ Own("run", "open")
        /\ thread' = "created"
        /\ should_stop' = FALSE
        /\ spi' = spi
     \/ /\ Own("run", "failed")
        /\ spi' = FALSE
        /\ UNCHANGED <<thread, should_stop>>
  /\ UNCHANGED <<channel, readable, err, state, tx_completion, wire, pinVars, histVars,
                 gpio, sessions, corrupt>>

TxInit ==
  \/ RequestGpio \/ DirectGpio \/ GetSpi \/ UseErrorPointer \/ SetupSpi \/ RunThread
  \/ InitFails("direct") \/ InitFails("find_spi") \/ InitFails("setup")

-----------------------------------------------------------------------------
(* tx_cleanup, called when the last file is closed.                        *)

CleanupUnchanged ==
  UNCHANGED <<channel, readable, err, wire, pinVars, histVars, sessions, corrupt>>

BeginCleanup ==
  /\ Own("open", "stop")
  /\ CleanupUnchanged
  /\ UNCHANGED <<thread, state, should_stop, tx_completion, gpio, spi>>

(* Slip: the thread is told to stop and not waited for.                    *)
SignalThread ==
  /\ Own("stop", "free")
  /\ should_stop' = TRUE
  /\ state' = "running"
  /\ thread' = IF thread = "asleep" THEN "check" ELSE thread
  /\ CleanupUnchanged
  /\ UNCHANGED <<tx_completion, gpio, spi>>

(* kthread_stop: set the flag, wake the thread, ...                        *)
StopThread ==
  /\ Own("stop", "join")
  /\ should_stop' = TRUE
  /\ state' = "running"
  /\ thread' = IF thread = "asleep" THEN "check" ELSE thread
  /\ CleanupUnchanged
  /\ UNCHANGED <<tx_completion, gpio, spi>>

(* ... and wait until it is gone.                                          *)
JoinThread ==
  /\ thread = "gone"
  /\ Own("join", "wait")
  /\ CleanupUnchanged
  /\ UNCHANGED <<thread, state, should_stop, tx_completion, gpio, spi>>

(* Slips: the wait gives up and counts as one; the join is thought enough. *)
WaitTimedOut ==
  /\ tx_completion' = tx_completion - 1
  /\ Own("wait", "free")
  /\ CleanupUnchanged
  /\ UNCHANGED <<thread, state, should_stop, gpio, spi>>

WaitSkipped ==
  /\ Own("wait", "free")
  /\ CleanupUnchanged
  /\ UNCHANGED <<thread, state, should_stop, tx_completion, gpio, spi>>

(* wait_for_completion(&tx_completion)                                     *)
WaitCompletion ==
  /\ tx_completion > 0
  /\ tx_completion' = tx_completion - 1
  /\ Own("wait", "free")
  /\ CleanupUnchanged
  /\ UNCHANGED <<thread, state, should_stop, gpio, spi>>

(* gpio_free and spi_dev_put, whatever is still in flight                  *)
Release ==
  /\ Own("free", "closed")
  /\ gpio' = FALSE
  /\ spi' = FALSE
  /\ CleanupUnchanged
  /\ UNCHANGED <<thread, state, should_stop, tx_completion>>

TxCleanup ==
  BeginCleanup \/ StopThread \/ JoinThread \/ WaitCompletion \/ Release

-----------------------------------------------------------------------------
(* The thread.                                                             *)

ThreadUnchanged == UNCHANGED <<pinVars, ownerVars>>
Go(from, to) == thread = from /\ thread' = to

(* The kernel runs _tx_run only if nobody has asked the thread to stop.    *)
StartThread ==
  /\ Go("created", IF should_stop THEN "gone" ELSE "check")
  /\ state' = "running"
  /\ ThreadUnchanged
  /\ UNCHANGED <<channel, readable, err, tx_completion, wire, histVars, corrupt>>

(* while (!kthread_should_stop())                                          *)
CheckStop ==
  /\ Go("check", IF should_stop THEN "exiting" ELSE "fill")
  /\ channel' = Left
  /\ err' = FALSE
  /\ ThreadUnchanged
  /\ UNCHANGED <<readable, state, tx_completion, wire, histVars, corrupt>>

(* duplex_ring_end_n_bytes_readable and duplex_ring_end_read into mem_tx.  *)
FillFrame ==
  /\ Go("fill", "send")
  /\ readable' \in BOOLEAN
  /\ ThreadUnchanged
  /\ UNCHANGED <<channel, err, state, tx_completion, wire, histVars, corrupt>>

(* The return to _tx_run: the other channel, or the end of the round.      *)
AfterChannel(failed) ==
  /\ err' = (err \/ failed)
  /\ channel' = Right
  /\ thread' = IF channel = Left THEN "fill" ELSE IF err' THEN "marked" ELSE "check"
  /\ state' = IF channel = Right /\ err' THEN "interruptible" ELSE state

(* A turn passes without a transfer; from the first one that counts for    *)
(* the phase on, the history notes it.                                     *)
Pass ==
  /\ slipped' = (phase # NoPhase /\ ~slipped)
  /\ UNCHANGED <<readable, tx_completion, wire, phase, inHalf, corrupt>>

(* Nothing to send and no room to receive: "Cannot do anything!"           *)
NothingToDo ==
  /\ thread = "send"
  /\ ~readable /\ rx_room = 0
  /\ Pass
  /\ AfterChannel(TRUE)
  /\ ThreadUnchanged

(* The level of LRCK at which the left channel goes out, as a transfer of  *)
(* channel c shows it ...                                                  *)
LeftLevel(c) == IF c = Left THEN lrck ELSE 1 - lrck

(* ... and as the phase and the turns that have passed since make it.      *)
PhaseLevel == IF slipped THEN 1 - phase ELSE phase

(* spi_async on a message that is free: it is accepted ...                 *)
QueueTransfer ==
  /\ thread = "send"
  /\ readable \/ rx_room > 0
  /\ wire = NoTransfer
  /\ wire' = channel
  /\ inHalf' = Counted(inHalf, 3)
  /\ phase' = IF ticks > 0 /\ phase = NoPhase THEN LeftLevel(channel) ELSE phase
  /\ AfterChannel(FALSE)
  /\ ThreadUnchanged
  /\ UNCHANGED <<readable, tx_completion, slipped, corrupt>>

(* ... or refused, which nobody looks at: no callback comes, and it is the *)
(* other channel's turn all the same.                                      *)
RefuseTransfer ==
  /\ thread = "send"
  /\ readable \/ rx_room > 0
  /\ wire = NoTransfer
  /\ Pass
  /\ AfterChannel(FALSE)
  /\ ThreadUnchanged

(* On one that is still in flight it links t a second time, whether or not *)
(* it is refused.                                                          *)
ReuseMessage ==
  /\ thread = "send"
  /\ readable \/ rx_room > 0
  /\ wire # NoTransfer
  /\ corrupt' = TRUE
  /\ ThreadUnchanged
  /\ UNCHANGED <<threadVars, wire, histVars>>

(* schedule_timeout: a task that was woken since it marked itself returns  *)
(* at once.                                                                *)
Sleep ==
  /\ Go("marked", IF state = "interruptible" THEN "asleep" ELSE "check")
  /\ ThreadUnchanged
  /\ UNCHANGED <<channel, readable, err, state, tx_completion, wire, histVars, corrupt>>

Timeout ==
  /\ Go("asleep", "check")
  /\ state' = "running"
  /\ ThreadUnchanged
  /\ UNCHANGED <<channel, readable, err, tx_completion, wire, histVars, corrupt>>

(* Slip: the thread returns without a word.                                *)
ExitSilently ==
  /\ Go("exiting", "gone")
  /\ ThreadUnchanged
  /\ UNCHANGED <<channel, readable, err, state, tx_completion, wire, histVars, corrupt>>

(* complete(&tx_completion); return 0                                      *)
ExitThread ==
  /\ Go("exiting", "gone")
  /\ tx_completion' = tx_completion + 1
  /\ ThreadUnchanged
  /\ UNCHANGED <<channel, readable, err, state, wire, histVars, corrupt>>

TxRun ==
  \/ StartThread \/ CheckStop \/ FillFrame \/ NothingToDo \/ QueueTransfer
  \/ RefuseTransfer \/ ReuseMessage \/ Sleep \/ Timeout \/ ExitThread

-----------------------------------------------------------------------------
(* Slip: the static level is never toggled.                                *)
SpiCompleteStuck ==
  /\ wire # NoTransfer
  /\ wire' = NoTransfer
  /\ lrck' = lrck_level
  /\ ticks' = Counted(ticks, 2)
  /\ inHalf' = IF lrck' = lrck THEN inHalf ELSE 0
  /\ UNCHANGED <<lrck_level, threadVars, phase, slipped, ownerVars, corrupt>>

(* spi_complete, in the context of the SPI controller.                     *)
SpiComplete ==
  /\ wire # NoTransfer
  /\ wire' = NoTransfer
  /\ lrck' = lrck_level
  /\ lrck_level' = 1 - lrck_level
  /\ ticks' = Counted(ticks, 2)
  /\ inHalf' = IF lrck' = lrck THEN inHalf ELSE 0
  /\ UNCHANGED <<threadVars, phase, slipped, ownerVars, corrupt>>

(* The function that queued the transfer has returned, and its message may *)
(* be overwritten before the controller is done with it.                   *)
LoseMessage ==
  /\ wire # NoTransfer
  /\ corrupt' = TRUE
  /\ UNCHANGED <<threadVars, wire, pinVars, histVars, ownerVars>>

(* Nothing happens after undefined behaviour, and RX rings keep their room. *)
Steady == ~corrupt /\ rx_room' = rx_room

Next == Steady /\ (TxInit \/ TxCleanup \/ TxRun \/ SpiComplete \/ LoseMessage)

Spec == Init /\ [][Next]_vars

(* The scheduler runs the thread and the caller, the controller completes  *)
(* its transfers and the timer fires.                                      *)
Fairness ==
  /\ WF_vars(Steady /\ TxRun)
  /\ WF_vars(Steady /\ SpiComplete)
  /\ WF_vars(Steady /\ TxCleanup /\ ~BeginCleanup)

FairSpec == Spec /\ Fairness

-----------------------------------------------------------------------------
(* The thread, its caller, the semaphores and the pin are in a state the   *)
(* code can name; tx_completion is never waited for below zero.            *)
TypeOK ==
  /\ thread \in Threads
  /\ channel \in Channels
  /\ readable \in BOOLEAN
  /\ err \in BOOLEAN
  /\ state \in {"running", "interruptible"}
  /\ should_stop \in BOOLEAN
  /\ tx_completion \in Nat
  /\ wire \in Channels \cup {NoTransfer}
  /\ lrck_level \in {0, 1}
  /\ lrck \in {0, 1}
  /\ gpio \in BOOLEAN
  /\ spi \in BOOLEAN
  /\ owner \in Owners
  /\ rx_room \in Nat
  /\ corrupt \in BOOLEAN
  /\ sessions \in Nat
  /\ ticks \in 0 .. 2
  /\ phase \in {0, 1, NoPhase}
  /\ slipped \in BOOLEAN
  /\ inHalf \in 0 .. 3

(* While the thread can touch the rings and the SPI device, the session it *)
(* belongs to holds both the pin and the device: tx_cleanup has joined it  *)
(* before it releases anything.                                            *)
ThreadHoldsDevice == thread \in Running \cup {"created"} => gpio /\ spi

(* A completion of tx_completion never outlives its session, so that a     *)
(* later tx_cleanup does not take it for that of its own thread.           *)
NoStaleCompletion == tx_completion > 0 => owner \in {"join", "wait"}

(* Once the callback has run in a session, LRCK tells the channels apart:  *)
(* a transfer goes out at the level the first one that followed fixed,     *)
(* turned over once for every turn of a channel that has passed without a  *)
(* transfer since -- refused by spi_async, or with nothing to do -- and by *)
(* nothing else: the thread alternates channels, the callback alternates   *)
(* levels, and no order of theirs makes one slip against the other.        *)
PhaseKept ==
  [][(wire = NoTransfer /\ wire' # NoTransfer /\ phase # NoPhase) =>
       LeftLevel(wire') = PhaseLevel]_vars

(* One transfer goes out per half cycle of LRCK.  Only the first callback  *)
(* of a session may find the pin at the level it sets, so that the half    *)
(* cycle the session begins with can carry two.                            *)
HalfCycleCarriesOne == inHalf <= IF ticks < 2 THEN 2 ELSE 1

(* If the thread ran at all before it was told to stop, tx_cleanup         *)
(* returns -- also when kthread_stop wakes the thread just before it goes  *)
(* to sleep, and although the controller is never drained.                 *)
CleanupReturns ==
  (owner = "join" /\ thread \in Running) ~> (owner = "closed" \/ corrupt)

-----------------------------------------------------------------------------
(* What the code says of itself, and does not keep.                        *)

(* transceiver.c, tx_cleanup: "Waiting to join...".                        *)
CleanupAlwaysReturns == (owner = "join") ~> (owner = "closed" \/ corrupt)

=============================================================================
