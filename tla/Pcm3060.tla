-------------------------------- MODULE Pcm3060 --------------------------------
(***************************************************************************)
(* periphery/pcm3060.c with chrdev_pcm3060_open and _release: one device   *)
(* shared by all open files.  The first open allocates the interface       *)
(* struct, finds the platform device, allocates the configuration and the  *)
(* ring buffers, switches the clock of periphery/clock_generator.c on and  *)
(* starts the transceiver; the close that brings the reference count to    *)
(* zero takes everything down again.  Only a part of get_pcm3060 runs      *)
(* under _pcm3060_mutex.                                                   *)
(*                                                                         *)
(* Each file is opened and closed by a process of its own, again and       *)
(* again; overlapped says whether a system call has begun while another    *)
(* was under way, as a single-threaded program never does.                 *)
(*                                                                         *)
(* A pointer is 0 (NULL) or the number of an allocation of its kind.       *)
(* Using or freeing one that is not live, or the error pointer that stands *)
(* for a clock, is undefined: the model stops there (corrupt).             *)
(***************************************************************************)
EXTENDS Integers, FiniteSets

CONSTANTS
  Files,      (* open file descriptions                                    *)
  LeftFiles,  (* those on channel 0; the others are on channel 1           *)
  MayFail,    (* what may fail: a Kind or one of Fallible                  *)
  MaxOpens,   (* bound: opens                                              *)
  MaxOverlapped,  (* bound: opens, in a history with overlapping calls     *)
  NoFile      (* nobody holds the mutex                                    *)

Kinds == {"ext", "config", "left", "right"}
Fallible == {"device", "pwm", "clock", "probe"}

ASSUME Pcm3060Assumption ==
  /\ IsFiniteSet(Files)
  /\ LeftFiles \subseteq Files
  /\ MayFail \subseteq Kinds \cup Fallible
  /\ MaxOpens \in Nat
  /\ MaxOverlapped \in Nat
  /\ NoFile \notin Files

Channels == {0, 1}
Channel(f) == IF f \in LeftFiles THEN 0 ELSE 1

VARIABLES
  refcount,      (* _pcm3060_i.refcount                                    *)
  ptr,           (* the other pointers of _pcm3060_i                       *)
  pdev,          (* _pcm3060_i.pdev, held                                  *)
  mutex,         (* _pcm3060_mutex                                         *)
  data,          (* pcm3060 of _chrdev_pcm3060_file_data_array             *)
  pwm,           (* dev_pwm_sck: none, an error pointer, or a clock off/on *)
  etx,           (* etx_spi_thread: 0, or the number of the thread started *)
  threads,       (* the running transceiver threads and their rings        *)
  pc,            (* where the process of each file is                      *)
  dev,           (* dev_pcm3060, the argument of put_pcm3060               *)
  live, made,    (* history: live allocations, and all, by kind            *)
  ends,          (* history: ends of ring buffers allocated and not freed  *)
  started,       (* history: transceiver threads started                   *)
  opens,         (* history: opens begun                                   *)
  overlapped,    (* history: a system call began beside another             *)
  failed,        (* history: a step of an open failed                      *)
  corrupt        (* history: a dead pointer was used or freed              *)

heap == <<ptr, live, made, ends>>
tx   == <<etx, threads, started, pwm>>
calls == <<opens, overlapped>>
vars == <<refcount, heap, pdev, mutex, data, tx, pc, dev, calls, failed, corrupt>>

Opening == {"lock", "find", "return", "init", "config", "left", "right", "clock", "probe"}
Closing == {"put", "dec"}
TakingDown == {"remove", "join", "put_dev", "free_ext", "free_left", "free_right",
               "free_config", "forget_ext", "forget_config"}
Steps == {"closed", "open"} \cup Opening \cup Closing \cup TakingDown

Init ==
  /\ refcount = 0
  /\ ptr = [k \in Kinds |-> 0]
  /\ pdev = FALSE
  /\ mutex = NoFile
  /\ data = [c \in Channels |-> 0]
  /\ pwm = "none"
  /\ etx = 0
  /\ threads = {}
  /\ pc = [f \in Files |-> "closed"]
  /\ dev = [f \in Files |-> 0]
  /\ live = [k \in Kinds |-> {}]
  /\ made = [k \in Kinds |-> 0]
  /\ ends = 0
  /\ started = 0
  /\ opens = 0
  /\ overlapped = FALSE
  /\ failed = FALSE
  /\ corrupt = FALSE

-----------------------------------------------------------------------------
Go(f, from, to) == pc[f] = from /\ pc' = [pc EXCEPT ![f] = to]

(* No system call is under way; one begins, maybe beside others.           *)
Quiet == \A f \in Files : pc[f] \in {"closed", "open"}

Begin ==
  /\ overlapped' = (overlapped \/ ~Quiet)
  /\ overlapped' => opens' <= MaxOverlapped

(* kmalloc or get_duplex_ring_buffer into the pointer of kind k.  A ring   *)
(* buffer has two ends, which are allocations of their own.                *)
Alloc(k) ==
  /\ made' = [made EXCEPT ![k] = @ + 1]
  /\ ptr' = [ptr EXCEPT ![k] = made'[k]]
  /\ live' = [live EXCEPT ![k] = @ \cup {made'[k]}]
  /\ ends' = IF k \in {"left", "right"} THEN ends + 2 ELSE ends

AllocFails(k) ==
  /\ k \in MayFail
  /\ ptr' = [ptr EXCEPT ![k] = 0]
  /\ UNCHANGED <<live, made, ends>>

(* kfree or put_duplex_ring_buffer: the pointers are left to the caller,   *)
(* and the ends of a ring buffer to nobody.                                *)
Free(k, old, new) ==
  /\ live' = [live EXCEPT ![k] = @ \ {old}]
  /\ ptr' = new
  /\ made' = made
  /\ ends' = ends
  /\ corrupt' = (old # 0 /\ old \notin live[k])

Cleared(ks) == [k \in Kinds |-> IF k \in ks THEN 0 ELSE ptr[k]]

(* A step of an open that closes the file again has failed.                *)
NoteFailure(f) == failed' = (failed \/ pc'[f] = "closed")

-----------------------------------------------------------------------------
(* get_pcm3060: the reference comes first.                                 *)
Open(f) ==
  /\ opens < MaxOpens
  /\ opens' = opens + 1
  /\ Begin
  /\ refcount' = refcount + 1
  /\ Go(f, "closed", IF refcount' > 1 THEN "return" ELSE "lock")
  /\ UNCHANGED <<heap, pdev, mutex, data, tx, dev, failed, corrupt>>

(* An open that fails here returns -1 with data of its channel NULL; the   *)
(* reference is kept.                                                      *)
AllocInterface(f) ==
  /\ mutex = NoFile
  /\ \/ /\ Alloc("ext")
        /\ Go(f, "lock", "find")
        /\ mutex' = f
        /\ data' = data
     \/ /\ AllocFails("ext")
        /\ Go(f, "lock", "closed")
        /\ mutex' = mutex
        /\ data' = [data EXCEPT ![Channel(f)] = 0]
  /\ NoteFailure(f)
  /\ UNCHANGED <<refcount, pdev, tx, dev, calls, corrupt>>

(* Slip: an open that fails gives all references up, not its own.          *)
FindDeviceResets(f) ==
  /\ \/ /\ Go(f, "find", "return")
        /\ pdev' = TRUE
        /\ ptr' = Cleared({"left", "right", "config"})
        /\ UNCHANGED <<refcount, live, made, ends, data, corrupt>>
     \/ /\ "device" \in MayFail
        /\ Go(f, "find", "closed")
        /\ pdev' = FALSE
        /\ Free("ext", ptr["ext"], ptr)
        /\ data' = [data EXCEPT ![Channel(f)] = 0]
        /\ refcount' = 0
  /\ mutex' = NoFile
  /\ NoteFailure(f)
  /\ UNCHANGED <<tx, dev, calls>>

(* dt_find_pcm3060_device                                                  *)
FindDevice(f) ==
  /\ \/ /\ Go(f, "find", "return")
        /\ pdev' = TRUE
        /\ ptr' = Cleared({"left", "right", "config"})
        /\ UNCHANGED <<live, made, ends, data, corrupt>>
     \/ /\ "device" \in MayFail
        /\ Go(f, "find", "closed")
        /\ pdev' = FALSE
        /\ Free("ext", ptr["ext"], ptr)
        /\ data' = [data EXCEPT ![Channel(f)] = 0]
  /\ mutex' = NoFile
  /\ NoteFailure(f)
  /\ UNCHANGED <<refcount, tx, dev, calls>>

(* return _pcm3060_i.pcm3060_ext, without the mutex                        *)
ReturnInterface(f) ==
  /\ data' = [data EXCEPT ![Channel(f)] = ptr["ext"]]
  /\ Go(f, "return", IF ptr["ext"] = 0 THEN "closed" ELSE "init")
  /\ NoteFailure(f)
  /\ UNCHANGED <<refcount, heap, pdev, mutex, tx, dev, calls, corrupt>>

(* The functions in the struct are set after the device was found: until   *)
(* then another open may get a struct whose pointers are not set.          *)
Unset(x) == x = ptr["ext"] /\ \E f \in Files : pc[f] = "find"

(* pcm3060->init, _configure_pcm3060: nothing is done twice.               *)
CheckConfig(f) ==
  /\ corrupt' = (data[Channel(f)] \notin live["ext"] \/ Unset(data[Channel(f)]))
  /\ Go(f, "init", IF ptr["config"] = 0 THEN "config" ELSE "open")
  /\ UNCHANGED <<refcount, heap, pdev, mutex, data, tx, dev, calls, failed>>

AllocConfig(f) ==
  /\ \/ Alloc("config") /\ Go(f, "config", "left")
     \/ AllocFails("config") /\ Go(f, "config", "closed")
  /\ NoteFailure(f)
  /\ UNCHANGED <<refcount, pdev, mutex, data, tx, dev, calls, corrupt>>

(* The label r_conf: the configuration is freed and its pointer is kept.   *)
AllocLeft(f) ==
  /\ \/ Alloc("left") /\ Go(f, "left", "right") /\ corrupt' = corrupt
     \/ /\ "left" \in MayFail
        /\ Go(f, "left", "closed")
        /\ Free("config", ptr["config"], Cleared({"left"}))
  /\ NoteFailure(f)
  /\ UNCHANGED <<refcount, pdev, mutex, data, tx, dev, calls>>

(* The label r_buf: the left buffer is freed and its pointer is kept; the  *)
(* configuration stays.                                                    *)
AllocRight(f) ==
  /\ \/ Alloc("right") /\ Go(f, "right", "clock") /\ corrupt' = corrupt
     \/ /\ "right" \in MayFail
        /\ Go(f, "right", "closed")
        /\ Free("left", ptr["left"], Cleared({"right"}))
  /\ NoteFailure(f)
  /\ UNCHANGED <<refcount, pdev, mutex, data, tx, dev, calls>>

Alive(k) == ptr[k] \in live[k]

(* Slip: a clock that was requested before is not switched on again.       *)
ClockStaysOff(f) ==
  /\ corrupt' = (~Alive("config") \/ (pdev /\ pwm = "error"))
  /\ \/ pdev /\ pwm' = (IF pwm = "none" THEN "on" ELSE pwm) /\ Go(f, "clock", "probe")
     \/ ~pdev /\ UNCHANGED pwm /\ Go(f, "clock", "closed")
  /\ NoteFailure(f)
  /\ UNCHANGED <<etx, threads, started, refcount, heap, pdev, mutex, data, dev, calls>>

(* *config = *cfg, and _probe_pcm3060_device: clock_generator_init requests *)
(* the clock once and keeps what it got, be it an error; a clock whose new *)
(* state is refused may be on already.                                     *)
ClockInit(f) ==
  /\ corrupt' = (~Alive("config") \/ (pdev /\ pwm = "error"))
  /\ \/ pdev /\ pwm' = "on" /\ Go(f, "clock", "probe")
     \/ /\ Go(f, "clock", "closed")
        /\ \/ ~pdev /\ UNCHANGED pwm
           \/ pdev /\ "pwm" \in MayFail /\ pwm = "none" /\ pwm' = "error"
           \/ pdev /\ "clock" \in MayFail /\ pwm' \in {"off", "on"}
  /\ NoteFailure(f)
  /\ UNCHANGED <<etx, threads, started, refcount, heap, pdev, mutex, data, dev, calls>>

(* Slip: etx_spi_thread keeps the error kthread_run returned.              *)
ErrPtr == -1

ProbeKeepsError(f) ==
  /\ corrupt' = ~(Alive("config") /\ Alive("left") /\ Alive("right"))
  /\ "probe" \in MayFail
  /\ Go(f, "probe", "closed")
  /\ etx' = ErrPtr
  /\ NoteFailure(f)
  /\ UNCHANGED <<threads, started, pwm, refcount, heap, pdev, mutex, data, dev, calls>>

(* tx_init, which keeps the ring ends.  A failed kthread_run forgets the   *)
(* thread of before.                                                       *)
Probe(f) ==
  /\ corrupt' = ~(Alive("config") /\ Alive("left") /\ Alive("right"))
  /\ \/ /\ Go(f, "probe", "open")
        /\ started' = started + 1
        /\ etx' = started'
        /\ threads' = threads \cup
             {[thread |-> etx', left |-> ptr["left"], right |-> ptr["right"]]}
     \/ /\ "probe" \in MayFail
        /\ Go(f, "probe", "closed")
        /\ etx' \in {etx, 0}
        /\ UNCHANGED <<threads, started>>
  /\ NoteFailure(f)
  /\ UNCHANGED <<refcount, heap, pdev, pwm, mutex, data, dev, calls>>

-----------------------------------------------------------------------------
(* chrdev_pcm3060_read and _write: the interface, then a ring of the       *)
(* channel.  Only a use of something dead changes a state here.            *)
RingOf(f) == IF Channel(f) = 0 THEN "left" ELSE "right"

AccessDead(f) ==
  /\ pc[f] = "open"
  /\ data[Channel(f)] # 0
  /\ data[Channel(f)] \notin live["ext"] \/ Unset(data[Channel(f)]) \/ ~Alive(RingOf(f))
  /\ corrupt' = TRUE
  /\ opens' = opens
  /\ Begin
  /\ UNCHANGED <<refcount, heap, pdev, mutex, data, tx, pc, dev, failed>>

-----------------------------------------------------------------------------
(* chrdev_pcm3060_release                                                  *)
Close(f) ==
  /\ opens' = opens
  /\ Begin
  /\ dev' = [dev EXCEPT ![f] = data[Channel(f)]]
  /\ Go(f, "open", IF data[Channel(f)] = 0 THEN "closed" ELSE "put")
  /\ UNCHANGED <<refcount, heap, pdev, mutex, data, tx, failed, corrupt>>

(* put_pcm3060: the checks ...                                             *)
PutCheck(f) ==
  /\ Go(f, "put", IF refcount = 0 \/ ptr["ext"] # dev[f] THEN "closed" ELSE "dec")
  /\ UNCHANGED <<refcount, heap, pdev, mutex, data, tx, dev, calls, failed, corrupt>>

(* Slip: the last but one close takes the device down.                     *)
DecrementEarly(f) ==
  /\ refcount' = refcount - 1
  /\ Go(f, "dec", IF refcount' <= 1 THEN "remove" ELSE "closed")
  /\ UNCHANGED <<heap, pdev, mutex, data, tx, dev, calls, failed, corrupt>>

(* ... atomic_dec_and_test ...                                             *)
Decrement(f) ==
  /\ refcount' = refcount - 1
  /\ Go(f, "dec", IF refcount' = 0 THEN "remove" ELSE "closed")
  /\ UNCHANGED <<heap, pdev, mutex, data, tx, dev, calls, failed, corrupt>>

(* ... _remove_pcm3060_device: clock_generator_cleanup switches the clock  *)
(* off, ...                                                                *)
StopClock(f) ==
  /\ Go(f, "remove", "join")
  /\ corrupt' = (pwm = "error")
  /\ pwm' = IF pwm = "on" THEN "off" ELSE pwm
  /\ UNCHANGED <<refcount, heap, pdev, mutex, data, etx, threads, started, dev, calls, failed>>

(* Slip: the thread is left running.                                       *)
LeaveThread(f) ==
  /\ Go(f, "join", "put_dev")
  /\ UNCHANGED <<refcount, heap, pdev, mutex, data, tx, dev, calls, failed, corrupt>>

(* tx_cleanup joins the thread etx_spi_thread points to, and keeps the     *)
(* pointer, ...                                                            *)
Joined == {r \in threads : r.thread = etx}

StopTransceiver(f) ==
  /\ Go(f, "join", "put_dev")
  /\ corrupt' = (etx # 0 /\ Joined = {})
  /\ threads' = threads \ Joined
  /\ UNCHANGED <<refcount, heap, pdev, mutex, data, etx, started, pwm, dev, calls, failed>>

(* ... and the device is put ...                                           *)
PutDevice(f) ==
  /\ Go(f, "put_dev", "free_ext")
  /\ pdev' = FALSE
  /\ UNCHANGED <<refcount, heap, mutex, data, tx, dev, calls, failed, corrupt>>

(* ... and the memory.                                                     *)
FreeStep(f, from, to, k, new) ==
  /\ Go(f, from, to)
  /\ Free(k, ptr[k], new)
  /\ UNCHANGED <<refcount, pdev, mutex, data, tx, dev, calls, failed>>

(* Slips: the right buffer is forgotten, not freed; or it is confused with *)
(* the configuration.                                                      *)
ForgetRight(f) ==
  /\ Go(f, "free_right", "free_config")
  /\ ptr' = Cleared({"right"})
  /\ UNCHANGED <<refcount, live, made, ends, pdev, mutex, data, tx, dev, calls, failed, corrupt>>

FreeConfused(f) ==
  FreeStep(f, "free_right", "free_config", "config", Cleared({"right"}))

FreeInterface(f) == FreeStep(f, "free_ext", "free_left", "ext", ptr)
FreeLeft(f)  == FreeStep(f, "free_left", "free_right", "left", Cleared({"left"}))
FreeRight(f) == FreeStep(f, "free_right", "free_config", "right", Cleared({"right"}))
FreeConfig(f) == FreeStep(f, "free_config", "forget_ext", "config", ptr)

(* The two pointers that are left are cleared last.                        *)
ForgetStep(f, from, to, k) ==
  /\ Go(f, from, to)
  /\ ptr' = Cleared({k})
  /\ UNCHANGED <<refcount, live, made, ends, pdev, mutex, data, tx, dev, calls, failed, corrupt>>

ForgetInterface(f) == ForgetStep(f, "forget_ext", "forget_config", "ext")
ForgetConfig(f)    == ForgetStep(f, "forget_config", "closed", "config")

-----------------------------------------------------------------------------
OpenStep(f) ==
  \/ Open(f) \/ AllocInterface(f) \/ FindDevice(f) \/ ReturnInterface(f)
  \/ CheckConfig(f) \/ AllocConfig(f) \/ AllocLeft(f) \/ AllocRight(f) \/ ClockInit(f) \/ Probe(f)

CloseStep(f) ==
  \/ Close(f) \/ PutCheck(f) \/ Decrement(f)
  \/ StopClock(f) \/ StopTransceiver(f) \/ PutDevice(f)
  \/ FreeInterface(f) \/ FreeLeft(f) \/ FreeRight(f) \/ FreeConfig(f)
  \/ ForgetInterface(f) \/ ForgetConfig(f)

Next == ~corrupt /\ \E f \in Files : OpenStep(f) \/ CloseStep(f) \/ AccessDead(f)

Spec == Init /\ [][Next]_vars

-----------------------------------------------------------------------------
(* Every pointer is NULL or an allocation that was made, every process is  *)
(* in a step of open or release, and the count is an int.                  *)
TypeOK ==
  /\ refcount \in Int
  /\ ptr \in [Kinds -> Nat]
  /\ live \in [Kinds -> SUBSET Nat]
  /\ made \in [Kinds -> Nat]
  /\ ends \in Nat
  /\ pdev \in BOOLEAN
  /\ mutex \in Files \cup {NoFile}
  /\ data \in [Channels -> Nat]
  /\ pwm \in {"none", "error", "off", "on"}
  /\ etx \in Nat
  /\ threads \subseteq [thread : Nat, left : Nat, right : Nat]
  /\ started \in Nat
  /\ pc \in [Files -> Steps]
  /\ dev \in [Files -> Nat]
  /\ opens \in Nat
  /\ overlapped \in BOOLEAN
  /\ failed \in BOOLEAN
  /\ corrupt \in BOOLEAN

(* However opens, closes and failures interleave, the count is at least    *)
(* the number of files that are open or on their way there or back.        *)
Holders == {f \in Files : pc[f] \in {"open"} \cup Opening \cup Closing}
RefcountCoversFiles == refcount >= Cardinality(Holders)

(* ... so that a teardown begins only when no other file is open and no    *)
(* open is under way.                                                      *)
TeardownWhenUnused ==
  [][\A f \in Files : (pc[f] = "dec" /\ pc'[f] = "remove") => Holders = {f}]_vars

(* While calls do not overlap, the thread that runs on the rings was given *)
(* is stopped before they are freed, also after opens that failed half-way. *)
RingsOutliveThread ==
  ~(corrupt \/ overlapped) =>
    \A r \in threads : r.left \in live["left"] /\ r.right \in live["right"]

(* ... and it runs on a clock that is on, from its start until the last    *)
(* close: put_pcm3060 switches the clock off first and joins the thread    *)
(* after that, and only in between does the thread run without its clock.  *)
ThreadHasClock ==
  (~(corrupt \/ overlapped) /\ threads # {}) =>
    IF \E f \in Files : pc[f] = "join" THEN pwm = "off" ELSE pwm = "on"

(* In a program that makes one call after the other, while none has        *)
(* failed: an open file has a configured, running device, ...              *)
Regular == ~overlapped /\ ~failed

OpenMeansRunning ==
  (Regular /\ \E f \in Files : pc[f] = "open") =>
    /\ pdev /\ pwm = "on" /\ \A k \in Kinds : Alive(k)
    /\ threads = {[thread |-> etx, left |-> ptr["left"], right |-> ptr["right"]]}

(* ... when all files are closed everything is freed and stopped, except   *)
(* for four ends of ring buffers that each session has left behind, ...    *)
ClosedMeansFreed ==
  (Regular /\ \A f \in Files : pc[f] = "closed") =>
    /\ refcount = 0 /\ ~pdev /\ pwm # "on" /\ threads = {}
    /\ \A k \in Kinds : live[k] = {}
    /\ ends = 4 * started

(* ... and no call uses or frees what is not there.                        *)
NothingDeadIsUsed == Regular => ~corrupt

-----------------------------------------------------------------------------
(* What the code says of itself, and does not keep.                        *)

(* pcm3060.h on get_pcm3060: "alloacate and setup the struct".             *)
InterfaceIsAllocated ==
  \A f \in Files : pc[f] = "init" => data[Channel(f)] \in live["ext"]

=============================================================================
