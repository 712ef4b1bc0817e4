-------------------------- MODULE TransceiverProofs --------------------------
(***************************************************************************)
(* Theorems about periphery/transceiver.c for any number of sessions.      *)
(***************************************************************************)
EXTENDS Transceiver, TLAPS

USE DEF Left, Right, Channels, NoTransfer, NoPhase, Running, Threads, Owners, Counted

(* The thread exists only between kthread_run and the join, it is asked to *)
(* stop only then, and it completes tx_completion once, on its way out.    *)
Alive == Running \cup {"created"}

Lifetime ==
  /\ owner \in {"find_spi", "setup", "run", "open", "stop", "join", "wait", "free"} => gpio
  /\ owner \in {"setup", "run", "open", "stop", "join", "wait", "free"} => spi
  /\ thread \in Alive => owner \in {"open", "stop", "join"}
  /\ (thread \in Alive /\ should_stop) => owner = "join"
  /\ thread = "exiting" => should_stop
  /\ tx_completion <= 1
  /\ tx_completion > 0 => thread = "gone" /\ owner \in {"join", "wait"}

(* The channel _tx_run serves next.                                        *)
Upcoming == IF thread \in {"fill", "send"} THEN channel ELSE Left

(* LRCK is the opposite of the static level once the callback has run; the *)
(* channel to come has the level of the phase, once the callback of the    *)
(* transfer on the wire has come.                                          *)
PhaseInv ==
  /\ ticks > 0 => lrck = 1 - lrck_level
  /\ phase # NoPhase => ticks > 0 /\ owner \notin {"find_spi", "setup", "run"}
  /\ thread = "created" => phase = NoPhase
  /\ phase = NoPhase => ~slipped
  /\ (phase # NoPhase /\ thread \in Running) =>
        LeftLevel(Upcoming) = IF wire = NoTransfer THEN PhaseLevel ELSE 1 - PhaseLevel

-----------------------------------------------------------------------------
(* Types.                                                                  *)

(* The truth values and the rest.                                          *)
Flags ==
  /\ readable \in BOOLEAN /\ err \in BOOLEAN /\ should_stop \in BOOLEAN
  /\ gpio \in BOOLEAN /\ spi \in BOOLEAN /\ corrupt \in BOOLEAN /\ slipped \in BOOLEAN

Values ==
  /\ thread \in Threads
  /\ channel \in Channels
  /\ state \in {"running", "interruptible"}
  /\ tx_completion \in Nat
  /\ wire \in Channels \cup {NoTransfer}
  /\ lrck_level \in {0, 1}
  /\ lrck \in {0, 1}
  /\ owner \in Owners
  /\ rx_room \in Nat
  /\ sessions \in Nat
  /\ ticks \in 0 .. 2
  /\ phase \in {0, 1, NoPhase}
  /\ inHalf \in 0 .. 3

(* The two parts make up the type invariant.                               *)
LEMMA TypeParts ==
  /\ TypeOK <=> Flags /\ Values
  /\ TypeOK' <=> Flags' /\ Values'
BY DEF TypeOK, Flags, Values

(* The variables are declared with values of their types.                  *)
LEMMA InitTypeOK == Init => TypeOK
<1>1. Init => Flags
  BY DEF Init, Flags
<1>2. Init => Values
  BY TransceiverAssumption DEF Init, Values
<1> QED
  BY <1>1, <1>2, TypeParts

(* Every step keeps the truth values ...                                   *)
LEMMA FlagsStep ==
  ASSUME Flags, Next
  PROVE  Flags'
<1> USE DEF Flags, threadVars, pinVars, histVars, ownerVars
<1>1. CASE TxInit
  BY <1>1 DEF TxInit, RequestGpio, DirectGpio, GetSpi, UseErrorPointer, SetupSpi,
    RunThread, InitFails, InitUnchanged
<1>2. CASE TxCleanup
  BY <1>2 DEF TxCleanup, BeginCleanup, StopThread, JoinThread, WaitCompletion, Release,
              CleanupUnchanged
<1>3. CASE TxRun
  BY <1>3 DEF TxRun, StartThread, CheckStop, FillFrame, NothingToDo, QueueTransfer,
              RefuseTransfer, Pass, ReuseMessage, Sleep, Timeout, ExitThread, AfterChannel,
              ThreadUnchanged
<1>4. CASE SpiComplete \/ LoseMessage
  BY <1>4 DEF SpiComplete, LoseMessage
<1> QED
  BY <1>1, <1>2, <1>3, <1>4 DEF Next, Steady

(* ... and the values.                                                     *)
LEMMA ValuesStep ==
  ASSUME Values, Next
  PROVE  Values'
<1> rx_room' \in Nat
  BY DEF Values, Next, Steady
<1> USE DEF Values, Go, threadVars, pinVars, histVars, ownerVars, ThreadUnchanged
<1>1. CASE TxInit
  BY <1>1 DEF TxInit, RequestGpio, DirectGpio, GetSpi, UseErrorPointer, SetupSpi,
    RunThread, InitFails, InitUnchanged, Own
<1>2. CASE TxCleanup
  BY <1>2 DEF TxCleanup, BeginCleanup, StopThread, JoinThread, WaitCompletion, Release,
              CleanupUnchanged, Own
<1>3. CASE QueueTransfer
  BY <1>3 DEF QueueTransfer, AfterChannel, LeftLevel
<1>4. CASE NothingToDo \/ RefuseTransfer
  BY <1>4 DEF NothingToDo, RefuseTransfer, Pass, AfterChannel
<1>5. CASE SpiComplete \/ LoseMessage
  BY <1>5 DEF SpiComplete, LoseMessage
<1>6. CASE StartThread \/ CheckStop \/ FillFrame \/ ReuseMessage \/ Sleep \/ Timeout \/ ExitThread
  BY <1>6 DEF StartThread, CheckStop, FillFrame, ReuseMessage, Sleep, Timeout, ExitThread
<1> QED
  BY <1>1, <1>2, <1>3, <1>4, <1>5, <1>6 DEF Next, Steady, TxRun

(* Every variable keeps its type.                                          *)
THEOREM TypeCorrect == Spec => []TypeOK
<1>1. TypeOK /\ [Next]_vars => TypeOK'
  <2> SUFFICES ASSUME TypeOK, [Next]_vars PROVE TypeOK'
    OBVIOUS
  <2>1. CASE Next
    BY <2>1, FlagsStep, ValuesStep, TypeParts
  <2>2. CASE UNCHANGED vars
    BY <2>2 DEF TypeOK, vars, threadVars, pinVars, histVars, ownerVars
  <2> QED
    BY <2>1, <2>2
<1> QED
  BY InitTypeOK, <1>1, PTL DEF Spec

-----------------------------------------------------------------------------
(* The life of the thread.                                                 *)

(* tx_init and tx_cleanup acquire and release in the right order.          *)
LEMMA OwnerLifetime ==
  ASSUME TypeOK, Lifetime, TxInit \/ TxCleanup
  PROVE  Lifetime'
<1> USE DEF TypeOK, Lifetime, Alive, Own, threadVars, pinVars, histVars, ownerVars
<1>1. CASE DirectGpio
  BY <1>1 DEF DirectGpio, InitUnchanged
<1>2. CASE RequestGpio \/ InitFails("direct") \/ InitFails("find_spi") \/ InitFails("setup")
  BY <1>2 DEF RequestGpio, InitFails, InitUnchanged
<1>3. CASE GetSpi \/ UseErrorPointer \/ SetupSpi
  BY <1>3 DEF GetSpi, UseErrorPointer, SetupSpi, InitUnchanged
<1>4. CASE RunThread
  BY <1>4 DEF RunThread
<1>5. CASE TxCleanup
  BY <1>5 DEF TxCleanup, BeginCleanup, StopThread, JoinThread, WaitCompletion, Release,
              CleanupUnchanged
<1> QED
  BY <1>1, <1>2, <1>3, <1>4, <1>5 DEF TxInit

(* The thread stops only when it is told to, and completes once.           *)
LEMMA ThreadLifetime ==
  ASSUME TypeOK, Lifetime, TxRun \/ SpiComplete \/ LoseMessage
  PROVE  Lifetime'
<1> USE DEF TypeOK, Lifetime, Alive, Go, threadVars, pinVars, histVars, ownerVars,
            ThreadUnchanged
<1>1. CASE QueueTransfer
  BY <1>1 DEF QueueTransfer, AfterChannel
<1>2. CASE NothingToDo \/ RefuseTransfer
  BY <1>2 DEF NothingToDo, RefuseTransfer, Pass, AfterChannel
<1>3. CASE SpiComplete \/ LoseMessage
  BY <1>3 DEF SpiComplete, LoseMessage
<1>4. CASE StartThread \/ CheckStop \/ FillFrame \/ ReuseMessage \/ Sleep \/ Timeout
  BY <1>4 DEF StartThread, CheckStop, FillFrame, ReuseMessage, Sleep, Timeout
<1>5. CASE ExitThread
  BY <1>5 DEF ExitThread
<1> QED
  BY <1>1, <1>2, <1>3, <1>4, <1>5 DEF TxRun

(* The thread lives between kthread_run and the join in every session.     *)
LEMMA LifetimeHolds == Spec => []Lifetime
<1>1. Init => Lifetime
  BY DEF Init, Lifetime, Alive
<1>2. TypeOK /\ Lifetime /\ [Next]_vars => Lifetime'
  <2> SUFFICES ASSUME TypeOK, Lifetime, [Next]_vars PROVE Lifetime'
    OBVIOUS
  <2>1. CASE Next
    BY <2>1, OwnerLifetime, ThreadLifetime DEF Next, Steady
  <2>2. CASE UNCHANGED vars
    BY <2>2 DEF Lifetime, Alive, vars, threadVars, ownerVars
  <2> QED
    BY <2>1, <2>2
<1> QED
  BY <1>1, <1>2, TypeCorrect, PTL DEF Spec

(* In any number of sessions the thread never outlives the pin and the     *)
(* device it uses.                                                         *)
THEOREM ThreadIsCovered == Spec => []ThreadHoldsDevice
<1>1. Lifetime => ThreadHoldsDevice
  BY DEF Lifetime, ThreadHoldsDevice, Alive
<1> QED
  BY <1>1, LifetimeHolds, PTL

(* No session leaves a completion behind for the next one.                 *)
THEOREM CompletionsBalance == Spec => []NoStaleCompletion
<1>1. Lifetime => NoStaleCompletion
  BY DEF Lifetime, NoStaleCompletion
<1> QED
  BY <1>1, LifetimeHolds, PTL

-----------------------------------------------------------------------------
(* The phase of LRCK.                                                      *)

(* Channels alternate with levels, and a turn that passes is noted.        *)
LEMMA PhaseStep ==
  ASSUME TypeOK, Lifetime, PhaseInv, Next
  PROVE  PhaseInv'
<1> USE DEF TypeOK, PhaseInv, LeftLevel, PhaseLevel, threadVars, pinVars, histVars, ownerVars
<1>1. CASE TxInit
  BY <1>1 DEF TxInit, RequestGpio, DirectGpio, GetSpi, UseErrorPointer, SetupSpi,
    RunThread, InitFails, InitUnchanged, Own, Lifetime, Alive, Upcoming
<1>2. CASE TxCleanup
  BY <1>2 DEF TxCleanup, BeginCleanup, StopThread, JoinThread, WaitCompletion, Release,
              CleanupUnchanged, Own, Upcoming
<1>3. CASE QueueTransfer
  <2>1. /\ thread = "send" /\ thread' \in Running
        /\ Upcoming = channel /\ Upcoming' = 1 - channel
    BY <1>3 DEF QueueTransfer, AfterChannel, Upcoming
  <2>2. LeftLevel(Upcoming)' = 1 - LeftLevel(Upcoming)
    BY <1>3, <2>1 DEF QueueTransfer, ThreadUnchanged
  <2>3. wire = NoTransfer /\ wire' # NoTransfer /\ slipped' = slipped
    BY <1>3 DEF QueueTransfer
  <2>4. CASE phase # NoPhase
    BY <1>3, <2>1, <2>2, <2>3, <2>4 DEF QueueTransfer, ThreadUnchanged
  <2>5. CASE phase = NoPhase
    <3>1. ~slipped  BY <2>5
    <3>2. phase' = IF ticks > 0 THEN LeftLevel(Upcoming) ELSE NoPhase
      BY <1>3, <2>1, <2>5 DEF QueueTransfer
    <3> QED BY <1>3, <2>1, <2>2, <2>3, <2>5, <3>1, <3>2
               DEF QueueTransfer, ThreadUnchanged, Lifetime, Alive
  <2> QED BY <2>4, <2>5
<1>4. CASE NothingToDo \/ RefuseTransfer
  <2>1. /\ thread = "send" /\ thread' \in Running
        /\ Upcoming = channel /\ Upcoming' = 1 - channel
    BY <1>4 DEF NothingToDo, RefuseTransfer, AfterChannel, Upcoming
  <2>2. UNCHANGED <<wire, phase, lrck, lrck_level, ticks, owner>>
    BY <1>4 DEF NothingToDo, RefuseTransfer, Pass, ThreadUnchanged
  <2>3. LeftLevel(Upcoming)' = 1 - LeftLevel(Upcoming)
    BY <2>1, <2>2
  <2>4. phase = NoPhase => ~slipped'
    BY <1>4 DEF NothingToDo, RefuseTransfer, Pass
  <2>5. phase # NoPhase => PhaseLevel' = 1 - PhaseLevel
    <3>1. phase # NoPhase => (slipped' <=> ~slipped)
      BY <1>4 DEF NothingToDo, RefuseTransfer, Pass
    <3>2. phase # NoPhase => phase \in {0, 1}
      OBVIOUS
    <3>3. CASE slipped  BY <2>2, <3>1, <3>2, <3>3
    <3>4. CASE ~slipped  BY <2>2, <3>1, <3>2, <3>4
    <3> QED BY <3>3, <3>4
  <2>6. phase # NoPhase => PhaseLevel \in {0, 1}
    OBVIOUS
  <2>7. phase # NoPhase =>
          LeftLevel(Upcoming)' = IF wire' = NoTransfer THEN PhaseLevel' ELSE 1 - PhaseLevel'
    BY <2>1, <2>2, <2>3, <2>5, <2>6
  <2>8. ticks > 0 => lrck' = 1 - lrck_level'
    BY <2>2
  <2>9. phase' # NoPhase => ticks' > 0 /\ owner' \notin {"find_spi", "setup", "run"}
    BY <2>2
  <2> HIDE DEF LeftLevel, PhaseLevel
  <2> QED BY <2>1, <2>2, <2>4, <2>7, <2>8, <2>9
<1>5. CASE SpiComplete \/ LoseMessage
  BY <1>5 DEF SpiComplete, LoseMessage, Upcoming
<1>6. CASE StartThread \/ CheckStop \/ FillFrame \/ ReuseMessage \/ Sleep \/ Timeout \/ ExitThread
  BY <1>6 DEF StartThread, CheckStop, FillFrame, ReuseMessage, Sleep, Timeout, ExitThread,
              ThreadUnchanged, Go, Upcoming
<1> QED
  BY <1>1, <1>2, <1>3, <1>4, <1>5, <1>6 DEF Next, Steady, TxRun

(* Whatever the controller refuses and whenever there is nothing to send:  *)
(* the channel a transfer carries is told by LRCK and the parity of the    *)
(* turns that have passed, from the first callback to the end of a session. *)
THEOREM PhaseIsKept == Spec => PhaseKept
<1> DEFINE Queued == wire = NoTransfer /\ wire' # NoTransfer /\ phase # NoPhase
<1>1. Init => PhaseInv
  BY DEF Init, PhaseInv
<1>2. TypeOK /\ Lifetime /\ PhaseInv /\ [Next]_vars => PhaseInv'
  <2> SUFFICES ASSUME TypeOK, Lifetime, PhaseInv, [Next]_vars
               PROVE  PhaseInv'
    OBVIOUS
  <2>1. CASE Next
    BY <2>1, PhaseStep
  <2>2. CASE UNCHANGED vars
    BY <2>2 DEF PhaseInv, LeftLevel, PhaseLevel, Upcoming, vars, threadVars, pinVars, histVars,
                ownerVars
  <2> QED
    BY <2>1, <2>2
<1>3. PhaseInv /\ [Next]_vars => [Queued => LeftLevel(wire') = PhaseLevel]_vars
  <2> SUFFICES ASSUME PhaseInv, Next, Queued
               PROVE  LeftLevel(wire') = PhaseLevel
    OBVIOUS
  <2>1. CASE QueueTransfer
    BY <2>1 DEF QueueTransfer, PhaseInv, Upcoming, LeftLevel
  <2>2. CASE ~QueueTransfer
    <3>1. wire' = wire \/ wire' = NoTransfer
      BY <2>2 DEF Next, TxInit, RequestGpio, DirectGpio, GetSpi, UseErrorPointer, SetupSpi,
        RunThread, InitFails, InitUnchanged, TxCleanup, BeginCleanup, StopThread, JoinThread,
        WaitCompletion, Release, CleanupUnchanged, TxRun, StartThread, CheckStop, FillFrame,
        NothingToDo, RefuseTransfer, Pass, ReuseMessage, Sleep, Timeout, ExitThread,
        SpiComplete, LoseMessage
    <3> QED BY <3>1
  <2> QED
    BY <2>1, <2>2
<1> QED
  BY <1>1, <1>2, <1>3, TypeCorrect, LifetimeHolds, PTL DEF Spec, PhaseKept

-----------------------------------------------------------------------------
(* Transfers and half cycles.                                              *)

(* What one half cycle can have carried: the transfer on the wire, and     *)
(* between the first callback and the second one more.                     *)
HalfInv ==
  /\ inHalf <= (IF ticks = 1 THEN 1 ELSE 0) + (IF wire = NoTransfer THEN 0 ELSE 1)
  /\ ticks > 0 => lrck = 1 - lrck_level

(* A callback either is the first one or changes LRCK, and a transfer is   *)
(* queued only after the callback of the one before.                       *)
LEMMA HalfStep ==
  ASSUME TypeOK, HalfInv, Next
  PROVE  HalfInv'
<1> USE DEF TypeOK, HalfInv, threadVars, pinVars, histVars, ownerVars
<1>1. CASE TxInit
  BY <1>1 DEF TxInit, RequestGpio, DirectGpio, GetSpi, UseErrorPointer, SetupSpi,
    RunThread, InitFails, InitUnchanged
<1>2. CASE TxCleanup
  BY <1>2 DEF TxCleanup, BeginCleanup, StopThread, JoinThread, WaitCompletion, Release,
              CleanupUnchanged
<1>3. CASE QueueTransfer
  BY <1>3 DEF QueueTransfer, ThreadUnchanged
<1>4. CASE NothingToDo \/ RefuseTransfer
  BY <1>4 DEF NothingToDo, RefuseTransfer, Pass, ThreadUnchanged
<1>5. CASE SpiComplete \/ LoseMessage
  BY <1>5 DEF SpiComplete, LoseMessage
<1>6. CASE StartThread \/ CheckStop \/ FillFrame \/ ReuseMessage \/ Sleep \/ Timeout \/ ExitThread
  BY <1>6 DEF StartThread, CheckStop, FillFrame, ReuseMessage, Sleep, Timeout, ExitThread,
              ThreadUnchanged
<1> QED
  BY <1>1, <1>2, <1>3, <1>4, <1>5, <1>6 DEF Next, Steady, TxRun

(* In every session a half cycle of LRCK carries one transfer, except for  *)
(* the one the session begins with, which may carry two.                   *)
THEOREM HalfCycles == Spec => []HalfCycleCarriesOne
<1>1. Init => HalfInv
  BY DEF Init, HalfInv
<1>2. TypeOK /\ HalfInv /\ [Next]_vars => HalfInv'
  <2> SUFFICES ASSUME TypeOK, HalfInv, [Next]_vars PROVE HalfInv'
    OBVIOUS
  <2>1. CASE Next
    BY <2>1, HalfStep
  <2>2. CASE UNCHANGED vars
    BY <2>2 DEF HalfInv, vars, pinVars, histVars
  <2> QED
    BY <2>1, <2>2
<1>3. TypeOK /\ HalfInv => HalfCycleCarriesOne
  BY DEF TypeOK, HalfInv, HalfCycleCarriesOne
<1> QED
  BY <1>1, <1>2, <1>3, TypeCorrect, PTL DEF Spec

=============================================================================
