---------------------------- MODULE Pcm3060Proofs ----------------------------
(***************************************************************************)
(* Theorems about periphery/pcm3060.c for any finite set of open files and *)
(* any number of opens: the count, whether or not the system calls         *)
(* overlap; types; what a program that makes one call after the other gets *)
(* as long as no step of an open fails; and what it still has after one    *)
(* did.                                                                    *)
(***************************************************************************)
EXTENDS Pcm3060, FiniteSetTheorems, TLAPS

-----------------------------------------------------------------------------
(* The reference count.                                                    *)

HolderSteps == {"open"} \cup Opening \cup Closing

(* The part of the type invariant the count rests on.                      *)
CountType == refcount \in Int /\ pc \in [Files -> Steps]

CountInv == CountType /\ RefcountCoversFiles

(* There are finitely many holders, so that they can be counted.           *)
LEMMA HoldersFinite ==
  /\ IsFiniteSet(Holders)
  /\ Cardinality(Holders) \in Nat
<1>1. Holders \subseteq Files  BY DEF Holders
<1>2. IsFiniteSet(Files)  BY Pcm3060Assumption
<1>3. IsFiniteSet(Holders)  BY <1>1, <1>2, FS_Subset
<1> QED BY <1>3, FS_CardinalityType

(* What a step does to the count and to the files that hold a reference:   *)
(* it takes one for a file that held none, or gives one up for a file that *)
(* held one, or leaves the count alone and adds no holder.                 *)
Takes(f) ==
  /\ refcount' = refcount + 1
  /\ f \notin Holders /\ Holders' = Holders \cup {f}
Gives(f) ==
  /\ refcount' = refcount - 1
  /\ pc[f] = "dec"
  /\ f \in Holders /\ Holders' = Holders \ {f}
Keeps == refcount' = refcount /\ Holders' \subseteq Holders

(* When one file moves from one step to another, only its own membership   *)
(* among the holders can change.                                           *)
LEMMA OneFileMoves ==
  ASSUME NEW f \in Files, NEW from, NEW to, pc \in [Files -> Steps], Go(f, from, to)
  PROVE  /\ from \notin HolderSteps => f \notin Holders
         /\ from \in HolderSteps => f \in Holders
         /\ to \notin HolderSteps => Holders' = Holders \ {f}
         /\ to \in HolderSteps => Holders' = Holders \cup {f}
         /\ to \in Steps => pc' \in [Files -> Steps]
BY DEF Go, Holders, HolderSteps

USE DEF HolderSteps, Steps, Opening, Closing, TakingDown

(* Every step of get_pcm3060, put_pcm3060 and the file operations has one  *)
(* of the three shapes.                                                    *)
LEMMA StepShape ==
  ASSUME pc \in [Files -> Steps], [Next]_vars
  PROVE  /\ pc' \in [Files -> Steps]
         /\ Keeps \/ \E f \in Files : Takes(f) \/ Gives(f)
<1>1. CASE UNCHANGED vars
  BY <1>1 DEF vars, Keeps, Holders
<1>2. ASSUME NEW f \in Files, OpenStep(f)
      PROVE  pc' \in [Files -> Steps] /\ (Keeps \/ Takes(f))
  <2>1. CASE Open(f)
    <3>1. PICK to \in {"return", "lock"} : Go(f, "closed", to)
      BY <2>1 DEF Open
    <3>2. refcount' = refcount + 1
      BY <2>1 DEF Open
    <3> QED BY <3>1, <3>2, OneFileMoves DEF Takes
  <2>2. ASSUME ~Open(f)
        PROVE  /\ refcount' = refcount
               /\ \E from \in Opening, to \in {"closed", "open"} \cup Opening :
                    Go(f, from, to)
    <3>1. CASE AllocInterface(f)  BY <3>1 DEF AllocInterface
    <3>2. CASE FindDevice(f)  BY <3>2 DEF FindDevice
    <3>3. CASE ReturnInterface(f)  BY <3>3 DEF ReturnInterface
    <3>4. CASE CheckConfig(f)  BY <3>4 DEF CheckConfig
    <3>5. CASE AllocConfig(f)  BY <3>5 DEF AllocConfig
    <3>6. CASE AllocLeft(f)  BY <3>6 DEF AllocLeft
    <3>7. CASE AllocRight(f)  BY <3>7 DEF AllocRight
    <3>8. CASE ClockInit(f)  BY <3>8 DEF ClockInit
    <3>9. CASE Probe(f)  BY <3>9 DEF Probe
    <3> QED BY <1>2, <2>2, <3>1, <3>2, <3>3, <3>4, <3>5, <3>6, <3>7, <3>8, <3>9 DEF OpenStep
  <2>3. CASE ~Open(f)
    <3>1. PICK from \in Opening, to \in {"closed", "open"} \cup Opening : Go(f, from, to)
      BY <2>2, <2>3
    <3>2. f \in Holders /\ (Holders' = Holders \ {f} \/ Holders' = Holders \cup {f})
      BY <3>1, OneFileMoves
    <3>3. pc' \in [Files -> Steps]
      BY <3>1, OneFileMoves
    <3> QED BY <2>2, <2>3, <3>2, <3>3 DEF Keeps
  <2> QED BY <2>1, <2>3
<1>3. ASSUME NEW f \in Files, CloseStep(f)
      PROVE  pc' \in [Files -> Steps] /\ (Keeps \/ Gives(f))
  <2>1. CASE Decrement(f)
    <3>1. PICK to \in {"remove", "closed"} : Go(f, "dec", to)
      BY <2>1 DEF Decrement
    <3>2. refcount' = refcount - 1 /\ pc[f] = "dec"
      BY <2>1 DEF Decrement, Go
    <3> QED BY <3>1, <3>2, OneFileMoves DEF Gives
  <2>2. CASE Close(f) \/ PutCheck(f)
    <3>1. PICK from \in {"open", "put"}, to \in {"closed", "put", "dec"} : Go(f, from, to)
      BY <2>2 DEF Close, PutCheck
    <3>2. f \in Holders /\ (Holders' = Holders \ {f} \/ Holders' = Holders \cup {f})
      BY <3>1, OneFileMoves
    <3>3. refcount' = refcount  BY <2>2 DEF Close, PutCheck
    <3>4. pc' \in [Files -> Steps]  BY <3>1, OneFileMoves
    <3> QED BY <3>2, <3>3, <3>4 DEF Keeps
  <2>3. CASE \/ StopClock(f) \/ StopTransceiver(f) \/ PutDevice(f)
             \/ FreeInterface(f) \/ FreeLeft(f) \/ FreeRight(f) \/ FreeConfig(f)
             \/ ForgetInterface(f) \/ ForgetConfig(f)
    <3>1. PICK from \in TakingDown, to \in {"closed"} \cup TakingDown : Go(f, from, to)
      BY <2>3 DEF StopClock, StopTransceiver, PutDevice, FreeInterface, FreeLeft, FreeRight,
                  FreeConfig, FreeStep, ForgetInterface, ForgetConfig, ForgetStep
    <3>2. Holders' = Holders \ {f} /\ pc' \in [Files -> Steps]
      BY <3>1, OneFileMoves
    <3>3. refcount' = refcount
      BY <2>3 DEF StopClock, StopTransceiver, PutDevice, FreeInterface, FreeLeft, FreeRight,
                  FreeConfig, FreeStep, ForgetInterface, ForgetConfig, ForgetStep
    <3> QED BY <3>2, <3>3 DEF Keeps
  <2> QED BY <1>3, <2>1, <2>2, <2>3 DEF CloseStep
<1>4. ASSUME NEW f \in Files, AccessDead(f)
      PROVE  pc' \in [Files -> Steps] /\ Keeps
  BY <1>4 DEF AccessDead, Keeps, Holders
<1> QED BY <1>1, <1>2, <1>3, <1>4 DEF Next

-----------------------------------------------------------------------------
(* Nothing is open and nothing is counted at first.                        *)
LEMMA CountInvInit == Init => CountInv
<1> SUFFICES ASSUME Init PROVE CountInv
  OBVIOUS
<1>1. Holders = {}  BY DEF Init, Holders
<1>2. Cardinality(Holders) = 0  BY <1>1, FS_EmptySet
<1> QED BY <1>2 DEF Init, CountInv, CountType, RefcountCoversFiles

(* Each shape keeps the count at or above the number of holders.           *)
LEMMA CountInvStep == CountInv /\ [Next]_vars => CountInv'
<1> SUFFICES ASSUME CountInv, [Next]_vars PROVE CountInv'
  OBVIOUS
<1> USE DEF CountInv, CountType, RefcountCoversFiles
<1>1. IsFiniteSet(Holders) /\ Cardinality(Holders) \in Nat
  BY HoldersFinite
<1>2. CASE Keeps
  <2>1. IsFiniteSet(Holders) /\ Holders' \subseteq Holders
    BY <1>1, <1>2 DEF Keeps
  <2>2. Cardinality(Holders') <= Cardinality(Holders) /\ Cardinality(Holders') \in Nat
    BY <2>1, FS_Subset, FS_CardinalityType
  <2>3. refcount' = refcount  BY <1>2 DEF Keeps
  <2> QED BY <1>1, <2>2, <2>3, StepShape
<1>3. ASSUME NEW f \in Files, Takes(f) PROVE CountInv'
  <2>1. Cardinality(Holders') = Cardinality(Holders) + 1
    BY <1>1, <1>3, FS_AddElement DEF Takes
  <2>2. refcount' = refcount + 1  BY <1>3 DEF Takes
  <2> QED BY <1>1, <2>1, <2>2, StepShape
<1>4. ASSUME NEW f \in Files, Gives(f) PROVE CountInv'
  <2>1. Cardinality(Holders') = Cardinality(Holders) - 1
    BY <1>1, <1>4, FS_RemoveElement DEF Gives
  <2>2. refcount' = refcount - 1  BY <1>4 DEF Gives
  <2> QED BY <1>1, <2>1, <2>2, StepShape
<1> QED BY <1>2, <1>3, <1>4, StepShape

(* The reference count is never smaller than the number of files that are  *)
(* open, on their way there, or about to give their reference up.          *)
THEOREM CountCovers == Spec => []RefcountCoversFiles
<1>1. CountInv => RefcountCoversFiles  BY DEF CountInv
<1> QED BY <1>1, CountInvInit, CountInvStep, PTL DEF Spec

-----------------------------------------------------------------------------
(* The close that starts to take the device down is the only one left that *)
(* holds a reference: no other file is open, or half-way through an open.  *)
THEOREM TeardownIsLast == Spec => TeardownWhenUnused
<1>1. ASSUME CountInv, [Next]_vars, NEW f \in Files, pc[f] = "dec", pc'[f] = "remove"
      PROVE  Holders = {f}
  <2>1. IsFiniteSet(Holders) /\ Cardinality(Holders) \in Nat
    BY HoldersFinite
  <2>2. refcount' = 0 /\ refcount' = refcount - 1
    <3>1. PICK g \in Files : OpenStep(g) \/ CloseStep(g) \/ AccessDead(g)
      BY <1>1 DEF Next, vars
    <3>2. pc' # pc  BY <1>1
    <3>3. CASE OpenStep(g)
      BY <1>1, <3>3 DEF OpenStep, Open, AllocInterface, FindDevice, ReturnInterface,
        CheckConfig, AllocConfig, AllocLeft, AllocRight, ClockInit, Probe, Go, CountInv, CountType
    <3>4. CASE CloseStep(g)
      BY <1>1, <3>4 DEF CloseStep, Close, PutCheck, Decrement, StopClock, StopTransceiver,
        PutDevice, FreeInterface, FreeLeft, FreeRight, FreeConfig, FreeStep,
        ForgetInterface, ForgetConfig, ForgetStep, Go, CountInv, CountType
    <3>5. CASE AccessDead(g)  BY <3>2, <3>5 DEF AccessDead
    <3> QED BY <3>1, <3>3, <3>4, <3>5
  <2>3. f \in Holders  BY <1>1 DEF Holders
  <2>4. Cardinality(Holders) <= 1
    BY <1>1, <2>1, <2>2 DEF CountInv, CountType, RefcountCoversFiles
  <2>5. Cardinality(Holders \ {f}) = Cardinality(Holders) - 1 /\ IsFiniteSet(Holders \ {f})
    BY <2>1, <2>3, FS_RemoveElement
  <2>6. Cardinality(Holders \ {f}) \in Nat
    BY <2>5, FS_CardinalityType
  <2>7. Cardinality(Holders \ {f}) = 0
    BY <2>1, <2>4, <2>5, <2>6
  <2>8. Holders \ {f} = {}
    BY <2>5, <2>7, FS_EmptySet
  <2> QED BY <2>3, <2>8
<1>2. CountInv /\ [Next]_vars =>
        [\A f \in Files : (pc[f] = "dec" /\ pc'[f] = "remove") => Holders = {f}]_vars
  BY <1>1
<1> QED BY <1>2, CountInvInit, CountInvStep, PTL DEF Spec, TeardownWhenUnused

-----------------------------------------------------------------------------
(* Types.                                                                  *)

HeapType ==
  /\ ptr \in [Kinds -> Nat] /\ live \in [Kinds -> SUBSET Nat]
  /\ made \in [Kinds -> Nat] /\ ends \in Nat

(* An allocation keeps the types.                                          *)
LEMMA AllocType ==
  ASSUME TypeOK, NEW k \in Kinds, Alloc(k)
  PROVE  HeapType'
<1>1. made[k] \in Nat  BY DEF TypeOK
<1>2. made' \in [Kinds -> Nat]  BY <1>1 DEF TypeOK, Alloc
<1>3. made'[k] \in Nat  BY <1>2
<1>4. ptr' \in [Kinds -> Nat]  BY <1>3 DEF TypeOK, Alloc
<1>5. live[k] \cup {made'[k]} \in SUBSET Nat  BY <1>3 DEF TypeOK
<1>6. live' \in [Kinds -> SUBSET Nat]  BY <1>5 DEF TypeOK, Alloc
<1>7. ends' \in Nat  BY DEF TypeOK, Alloc
<1> QED BY <1>2, <1>4, <1>6, <1>7 DEF HeapType

(* So does a free.                                                         *)
LEMMA FreeType ==
  ASSUME TypeOK, NEW k \in Kinds, NEW old, NEW new \in [Kinds -> Nat], Free(k, old, new)
  PROVE  HeapType' /\ corrupt' \in BOOLEAN
<1>1. live[k] \ {old} \in SUBSET Nat  BY DEF TypeOK
<1>2. live' \in [Kinds -> SUBSET Nat]  BY <1>1 DEF TypeOK, Free
<1>3. corrupt' \in BOOLEAN  BY DEF Free
<1> QED BY <1>2, <1>3 DEF TypeOK, Free, HeapType

(* So does clearing pointers.                                              *)
LEMMA ClearedType ==
  ASSUME TypeOK, NEW ks
  PROVE  Cleared(ks) \in [Kinds -> Nat]
BY DEF TypeOK, Cleared

(* A file has a channel.                                                   *)
LEMMA ChannelType ==
  ASSUME NEW f \in Files
  PROVE  Channel(f) \in Channels
BY DEF Channel, Channels

(* The steps of an open keep the types.                                    *)
LEMMA OpenStepType ==
  ASSUME TypeOK, NEW f \in Files, OpenStep(f)
  PROVE  TypeOK'
<1> USE ChannelType DEF Go, heap, tx, calls, HeapType
<1>0. /\ refcount \in Int /\ ptr \in [Kinds -> Nat] /\ live \in [Kinds -> SUBSET Nat]
      /\ made \in [Kinds -> Nat] /\ ends \in Nat /\ data \in [Channels -> Nat] /\ etx \in Nat
      /\ threads \subseteq [thread : Nat, left : Nat, right : Nat]
      /\ started \in Nat /\ dev \in [Files -> Nat] /\ opens \in Nat
      /\ mutex \in Files \cup {NoFile}
  BY DEF TypeOK
<1>1. /\ pdev \in BOOLEAN /\ pwm \in {"none", "error", "off", "on"} /\ pc \in [Files -> Steps]
      /\ overlapped \in BOOLEAN /\ failed \in BOOLEAN /\ corrupt \in BOOLEAN
  BY DEF TypeOK
<1>2. ptr["ext"] \in Nat  BY <1>0 DEF Kinds
<1>3. CASE Open(f)
  <2>1. /\ pc' \in [Files -> Steps] /\ overlapped' \in BOOLEAN
    BY <1>1, <1>3 DEF Open, Begin
  <2>2. refcount' \in Int /\ opens' \in Nat  BY <1>0, <1>3 DEF Open
  <2>3. UNCHANGED <<heap, pdev, mutex, data, tx, dev, failed, corrupt>>  BY <1>3 DEF Open
  <2> QED BY <1>0, <1>1, <2>1, <2>2, <2>3 DEF TypeOK
<1>4. CASE AllocInterface(f)
  <2>1. /\ pc' \in [Files -> Steps] /\ failed' \in BOOLEAN
        /\ mutex' \in Files \cup {NoFile} /\ data' \in [Channels -> Nat]
    <3>1. failed' \in BOOLEAN  BY <1>1, <1>4 DEF AllocInterface, NoteFailure
    <3>2. pc' \in [Files -> Steps] /\ mutex' \in Files \cup {NoFile}
      BY <1>0, <1>1, <1>4 DEF AllocInterface
    <3>3. data' \in [Channels -> Nat]  BY <1>0, <1>4 DEF AllocInterface
    <3> QED BY <3>1, <3>2, <3>3
  <2>2. HeapType'
    BY <1>0, <1>4, AllocType DEF AllocInterface, AllocFails, Kinds
  <2>3. UNCHANGED <<refcount, pdev, tx, dev, calls, corrupt>>  BY <1>4 DEF AllocInterface
  <2> QED BY <1>0, <1>1, <2>1, <2>2, <2>3 DEF TypeOK
<1>5. CASE FindDevice(f)
  <2>1. /\ pc' \in [Files -> Steps] /\ failed' \in BOOLEAN /\ pdev' \in BOOLEAN
        /\ mutex' \in Files \cup {NoFile} /\ data' \in [Channels -> Nat]
    <3>1. failed' \in BOOLEAN  BY <1>1, <1>5 DEF FindDevice, NoteFailure
    <3>2. pc' \in [Files -> Steps] /\ mutex' \in Files \cup {NoFile}
      BY <1>0, <1>1, <1>5 DEF FindDevice
    <3>3. pdev' \in BOOLEAN  BY <1>5 DEF FindDevice
    <3>4. data' \in [Channels -> Nat]  BY <1>0, <1>5 DEF FindDevice
    <3> QED BY <3>1, <3>2, <3>3, <3>4
  <2>2. HeapType' /\ corrupt' \in BOOLEAN
    <3>1. CASE ptr' = Cleared({"left", "right", "config"}) /\ UNCHANGED <<live, made, ends, corrupt>>
      BY <1>0, <1>1, <3>1, ClearedType
    <3>2. CASE Free("ext", ptr["ext"], ptr)
      BY <1>0, <3>2, FreeType DEF Kinds
    <3> QED BY <1>5, <3>1, <3>2 DEF FindDevice
  <2>3. UNCHANGED <<refcount, tx, dev, calls>>  BY <1>5 DEF FindDevice
  <2> QED BY <1>0, <1>1, <2>1, <2>2, <2>3 DEF TypeOK
<1>6. CASE ReturnInterface(f)
  <2>1. pc' \in [Files -> Steps] /\ failed' \in BOOLEAN /\ data' \in [Channels -> Nat]
    BY <1>0, <1>1, <1>2, <1>6 DEF ReturnInterface, NoteFailure
  <2>2. UNCHANGED <<refcount, heap, pdev, mutex, tx, dev, calls, corrupt>>
    BY <1>6 DEF ReturnInterface
  <2> QED BY <1>0, <1>1, <2>1, <2>2 DEF TypeOK
<1>7. CASE CheckConfig(f)
  <2>1. pc' \in [Files -> Steps] /\ corrupt' \in BOOLEAN
    BY <1>1, <1>7 DEF CheckConfig
  <2>2. UNCHANGED <<refcount, heap, pdev, mutex, data, tx, dev, calls, failed>>
    BY <1>7 DEF CheckConfig
  <2> QED BY <1>0, <1>1, <2>1, <2>2 DEF TypeOK
<1>8. CASE AllocConfig(f) \/ AllocLeft(f) \/ AllocRight(f)
  <2>1. /\ pc' \in [Files -> Steps] /\ failed' \in BOOLEAN
        /\ UNCHANGED <<refcount, pdev, mutex, data, tx, dev, calls>>
    BY <1>1, <1>8 DEF AllocConfig, AllocLeft, AllocRight, NoteFailure
  <2>2. \/ \E k \in Kinds : (Alloc(k) \/ AllocFails(k)) /\ corrupt' = corrupt
        \/ \E k \in Kinds, ks \in SUBSET Kinds : Free(k, ptr[k], Cleared(ks))
    BY <1>8 DEF AllocConfig, AllocLeft, AllocRight, Kinds
  <2>3. HeapType' /\ corrupt' \in BOOLEAN
    <3>1. ASSUME NEW k \in Kinds, Alloc(k), corrupt' = corrupt
          PROVE  HeapType' /\ corrupt' \in BOOLEAN
      BY <1>1, <3>1, AllocType
    <3>2. ASSUME NEW k \in Kinds, AllocFails(k), corrupt' = corrupt
          PROVE  HeapType' /\ corrupt' \in BOOLEAN
      BY <1>0, <1>1, <3>2 DEF AllocFails
    <3>3. ASSUME NEW k \in Kinds, NEW ks \in SUBSET Kinds, Free(k, ptr[k], Cleared(ks))
          PROVE  HeapType' /\ corrupt' \in BOOLEAN
      BY <3>3, ClearedType, FreeType
    <3> QED BY <2>2, <3>1, <3>2, <3>3
  <2> QED BY <1>0, <1>1, <2>1, <2>3 DEF TypeOK
<1>9. CASE ClockInit(f)
  <2>1. pc' \in [Files -> Steps] /\ failed' \in BOOLEAN /\ corrupt' \in BOOLEAN
    BY <1>1, <1>9 DEF ClockInit, NoteFailure
  <2>2. pwm' \in {"none", "error", "off", "on"}
    BY <1>1, <1>9 DEF ClockInit
  <2>3. UNCHANGED <<etx, threads, started, refcount, heap, pdev, mutex, data, dev, calls>>
    BY <1>9 DEF ClockInit
  <2> QED BY <1>0, <1>1, <2>1, <2>2, <2>3 DEF TypeOK
<1>10. CASE Probe(f)
  <2>1. pc' \in [Files -> Steps] /\ failed' \in BOOLEAN /\ corrupt' \in BOOLEAN
    BY <1>1, <1>10 DEF Probe, NoteFailure
  <2>2. /\ etx' \in Nat /\ started' \in Nat
        /\ threads' \subseteq [thread : Nat, left : Nat, right : Nat]
    <3>1. ptr["left"] \in Nat /\ ptr["right"] \in Nat  BY <1>0 DEF Kinds
    <3> QED BY <1>0, <1>10, <3>1 DEF Probe
  <2>3. UNCHANGED <<refcount, heap, pdev, pwm, mutex, data, dev, calls>>
    BY <1>10 DEF Probe
  <2> QED BY <1>0, <1>1, <2>1, <2>2, <2>3 DEF TypeOK
<1> QED
  BY <1>3, <1>4, <1>5, <1>6, <1>7, <1>8, <1>9, <1>10 DEF OpenStep

(* So do those of a close, and an access after it.                         *)
LEMMA CloseStepType ==
  ASSUME TypeOK, NEW f \in Files, CloseStep(f) \/ AccessDead(f)
  PROVE  TypeOK'
<1> USE ChannelType DEF Go, heap, tx, calls, HeapType
<1>0. /\ refcount \in Int /\ ptr \in [Kinds -> Nat] /\ live \in [Kinds -> SUBSET Nat]
      /\ made \in [Kinds -> Nat] /\ ends \in Nat /\ data \in [Channels -> Nat] /\ etx \in Nat
      /\ threads \subseteq [thread : Nat, left : Nat, right : Nat]
      /\ started \in Nat /\ dev \in [Files -> Nat] /\ opens \in Nat
      /\ mutex \in Files \cup {NoFile}
  BY DEF TypeOK
<1>1. /\ pdev \in BOOLEAN /\ pwm \in {"none", "error", "off", "on"} /\ pc \in [Files -> Steps]
      /\ overlapped \in BOOLEAN /\ failed \in BOOLEAN /\ corrupt \in BOOLEAN
  BY DEF TypeOK
<1>2. CASE Close(f)
  <2>1. pc' \in [Files -> Steps] /\ overlapped' \in BOOLEAN
    BY <1>1, <1>2 DEF Close, Begin
  <2>2. dev' \in [Files -> Nat]  BY <1>0, <1>2 DEF Close
  <2>3. UNCHANGED <<refcount, heap, pdev, mutex, data, tx, failed, corrupt, opens>>
    BY <1>2 DEF Close
  <2> QED BY <1>0, <1>1, <2>1, <2>2, <2>3 DEF TypeOK
<1>3. CASE PutCheck(f)
  <2>1. pc' \in [Files -> Steps]  BY <1>1, <1>3 DEF PutCheck
  <2>2. UNCHANGED <<refcount, heap, pdev, mutex, data, tx, dev, calls, failed, corrupt>>
    BY <1>3 DEF PutCheck
  <2> QED BY <1>0, <1>1, <2>1, <2>2 DEF TypeOK
<1>4. CASE Decrement(f)
  <2>1. pc' \in [Files -> Steps]  BY <1>1, <1>4 DEF Decrement
  <2>2. refcount' \in Int  BY <1>0, <1>4 DEF Decrement
  <2>3. UNCHANGED <<heap, pdev, mutex, data, tx, dev, calls, failed, corrupt>>
    BY <1>4 DEF Decrement
  <2> QED BY <1>0, <1>1, <2>1, <2>2, <2>3 DEF TypeOK
<1>5. CASE StopClock(f) \/ StopTransceiver(f) \/ PutDevice(f)
  <2>1. pc' \in [Files -> Steps] /\ corrupt' \in BOOLEAN /\ pdev' \in BOOLEAN
    BY <1>1, <1>5 DEF StopClock, StopTransceiver, PutDevice
  <2>2. pwm' \in {"none", "error", "off", "on"}
    BY <1>1, <1>5 DEF StopClock, StopTransceiver, PutDevice
  <2>3. threads' \subseteq [thread : Nat, left : Nat, right : Nat]
    BY <1>0, <1>5 DEF StopClock, StopTransceiver, PutDevice
  <2>4. UNCHANGED <<refcount, heap, mutex, data, etx, started, dev, calls, failed>>
    BY <1>5 DEF StopClock, StopTransceiver, PutDevice
  <2> QED BY <1>0, <1>1, <2>1, <2>2, <2>3, <2>4 DEF TypeOK
<1>6. CASE FreeInterface(f) \/ FreeLeft(f) \/ FreeRight(f) \/ FreeConfig(f)
  <2>1. /\ pc' \in [Files -> Steps]
        /\ UNCHANGED <<refcount, pdev, mutex, data, tx, dev, calls, failed>>
    BY <1>1, <1>6 DEF FreeInterface, FreeLeft, FreeRight, FreeConfig, FreeStep
  <2>2. PICK k \in Kinds, new \in [Kinds -> Nat] : Free(k, ptr[k], new)
    BY <1>0, <1>6, ClearedType
       DEF FreeInterface, FreeLeft, FreeRight, FreeConfig, FreeStep, Kinds
  <2>3. HeapType' /\ corrupt' \in BOOLEAN
    BY <2>2, FreeType
  <2> QED BY <1>0, <1>1, <2>1, <2>3 DEF TypeOK
<1>8. CASE ForgetInterface(f) \/ ForgetConfig(f)
  <2>1. /\ pc' \in [Files -> Steps]
        /\ UNCHANGED <<refcount, live, made, ends, pdev, mutex, data, tx, dev, calls, failed, corrupt>>
    BY <1>1, <1>8 DEF ForgetInterface, ForgetConfig, ForgetStep
  <2>2. ptr' \in [Kinds -> Nat]
    BY <1>8, ClearedType DEF ForgetInterface, ForgetConfig, ForgetStep
  <2> QED BY <1>0, <1>1, <2>1, <2>2 DEF TypeOK
<1>7. CASE AccessDead(f)
  <2>1. overlapped' \in BOOLEAN /\ corrupt' \in BOOLEAN
    BY <1>1, <1>7 DEF AccessDead, Begin
  <2>2. UNCHANGED <<refcount, heap, pdev, mutex, data, tx, pc, dev, failed, opens>>
    BY <1>7 DEF AccessDead
  <2> QED BY <1>0, <1>1, <2>1, <2>2 DEF TypeOK
<1> QED
  BY <1>2, <1>3, <1>4, <1>5, <1>6, <1>7, <1>8 DEF CloseStep

(* Every variable of the device keeps its type: in particular what a file  *)
(* keeps is NULL or was allocated, however opens and closes interleave.    *)
THEOREM DeviceTypeCorrect == Spec => []TypeOK
<1>1. Init => TypeOK
  <2> SUFFICES ASSUME Init PROVE TypeOK
    OBVIOUS
  <2>1. /\ pdev \in BOOLEAN /\ overlapped \in BOOLEAN /\ failed \in BOOLEAN
        /\ corrupt \in BOOLEAN
    BY DEF Init
  <2>2. /\ refcount \in Int /\ etx \in Nat /\ started \in Nat /\ opens \in Nat
        /\ mutex \in Files \cup {NoFile} /\ pwm \in {"none", "error", "off", "on"}
        /\ threads \subseteq [thread : Nat, left : Nat, right : Nat]
    BY DEF Init
  <2>3. /\ ptr \in [Kinds -> Nat] /\ live \in [Kinds -> SUBSET Nat]
        /\ made \in [Kinds -> Nat] /\ ends \in Nat /\ data \in [Channels -> Nat]
        /\ pc \in [Files -> Steps] /\ dev \in [Files -> Nat]
    BY DEF Init
  <2> QED BY <2>1, <2>2, <2>3 DEF TypeOK
<1>2. TypeOK /\ [Next]_vars => TypeOK'
  <2> SUFFICES ASSUME TypeOK, [Next]_vars PROVE TypeOK'
    OBVIOUS
  <2>1. CASE Next  BY <2>1, OpenStepType, CloseStepType DEF Next
  <2>2. CASE UNCHANGED vars  BY <2>2 DEF TypeOK, vars, heap, tx, calls
  <2> QED BY <2>1, <2>2
<1> QED BY <1>1, <1>2, PTL DEF Spec

(* A step of f moves no other process, forgets neither an overlap nor a    *)
(* failure, and begins a call beside another one only by noting it.        *)
LEMMA StepFrame ==
  ASSUME TypeOK, NEW f \in Files, OpenStep(f) \/ CloseStep(f) \/ AccessDead(f)
  PROVE  /\ ~overlapped' => (~overlapped /\ (pc[f] \in {"closed", "open"} => Quiet))
         /\ ~failed' => ~failed
         /\ \A g \in Files \ {f} : pc'[g] = pc[g]
<1> USE DEF Go, calls, tx, heap
<1>0. pc \in [Files -> Steps]  BY DEF TypeOK
<1>1. CASE Open(f)
  BY <1>0, <1>1 DEF Open, Begin, TypeOK
<1>2. CASE Close(f)
  BY <1>0, <1>2 DEF Close, Begin, TypeOK
<1>3. CASE AccessDead(f)
  BY <1>3 DEF AccessDead, Begin, TypeOK
<1>4. CASE AllocInterface(f) \/ FindDevice(f)
  <2>1. pc[f] \in {"lock", "find"} /\ overlapped' = overlapped /\ NoteFailure(f)
    BY <1>4 DEF AllocInterface, FindDevice
  <2>2. \A g \in Files \ {f} : pc'[g] = pc[g]
    BY <1>0, <1>4 DEF AllocInterface, FindDevice
  <2> QED BY <2>1, <2>2 DEF NoteFailure
<1>5. CASE ReturnInterface(f) \/ CheckConfig(f)
  <2>1. pc[f] \in {"return", "init"} /\ overlapped' = overlapped
    BY <1>5 DEF ReturnInterface, CheckConfig
  <2>2. ~failed' => ~failed
    <3>1. CASE ReturnInterface(f)  BY <3>1 DEF ReturnInterface, NoteFailure
    <3>2. CASE CheckConfig(f)  BY <3>2 DEF CheckConfig
    <3> QED BY <1>5, <3>1, <3>2
  <2>3. \A g \in Files \ {f} : pc'[g] = pc[g]
    BY <1>0, <1>5 DEF ReturnInterface, CheckConfig
  <2> QED BY <2>1, <2>2, <2>3
<1>6. CASE AllocConfig(f) \/ AllocLeft(f) \/ AllocRight(f)
  <2>1. pc[f] \in {"config", "left", "right"} /\ overlapped' = overlapped /\ NoteFailure(f)
    BY <1>6 DEF AllocConfig, AllocLeft, AllocRight
  <2>2. \A g \in Files \ {f} : pc'[g] = pc[g]
    BY <1>0, <1>6 DEF AllocConfig, AllocLeft, AllocRight
  <2> QED BY <2>1, <2>2 DEF NoteFailure
<1>7. CASE ClockInit(f) \/ Probe(f)
  <2>1. pc[f] \in {"clock", "probe"} /\ overlapped' = overlapped /\ NoteFailure(f)
    BY <1>7 DEF ClockInit, Probe
  <2>2. \A g \in Files \ {f} : pc'[g] = pc[g]
    <3>1. CASE ClockInit(f)  BY <1>0, <3>1 DEF ClockInit
    <3>2. CASE Probe(f)  BY <1>0, <3>2 DEF Probe
    <3> QED BY <1>7, <3>1, <3>2
  <2> QED BY <2>1, <2>2 DEF NoteFailure
<1>8. CASE PutCheck(f) \/ Decrement(f) \/ StopClock(f) \/ StopTransceiver(f) \/ PutDevice(f)
  BY <1>0, <1>8 DEF PutCheck, Decrement, StopClock, StopTransceiver, PutDevice
<1>9. CASE \/ FreeInterface(f) \/ FreeLeft(f) \/ FreeRight(f) \/ FreeConfig(f)
         \/ ForgetInterface(f) \/ ForgetConfig(f)
  BY <1>0, <1>9 DEF FreeInterface, FreeLeft, FreeRight, FreeConfig, FreeStep,
                    ForgetInterface, ForgetConfig, ForgetStep
<1> QED
  BY <1>1, <1>2, <1>3, <1>4, <1>5, <1>6, <1>7, <1>8, <1>9 DEF OpenStep, CloseStep

-----------------------------------------------------------------------------
(* A program that makes one call after the other, while none has failed.   *)

(* The other files are not in a call; they are closed.                     *)
Calm(f) == \A g \in Files \ {f} : pc[g] \in {"closed", "open"}
Lone(f) == \A g \in Files \ {f} : pc[g] = "closed"

(* Of the kinds ks the allocation in ptr is live, and no other is.         *)
Exactly(ks) ==
  \A k \in Kinds : live[k] = (IF k \in ks THEN {ptr[k]} ELSE {}) /\ (k \in ks => ptr[k] # 0)

Stopped == threads = {} /\ pwm \in {"none", "off"}
Running ==
  etx # 0 /\ threads = {[thread |-> etx, left |-> ptr["left"], right |-> ptr["right"]]}

Down  == Exactly({}) /\ Stopped /\ ~pdev
Fresh == Exactly({"ext"}) /\ Stopped /\ pdev /\ ptr["config"] = 0
Up    == Exactly(Kinds) /\ Running /\ pwm = "on" /\ pdev

Bound(f) == data[Channel(f)] = ptr["ext"]

(* How far the device is up where the process of f is, when no other       *)
(* process is in a call.                                                   *)
At(f) ==
  /\ pc[f] = "lock" => Lone(f) /\ Down
  /\ pc[f] = "find" => Lone(f) /\ Exactly({"ext"}) /\ Stopped
  /\ pc[f] \in {"return", "init"} => IF Lone(f) THEN Fresh ELSE Up
  /\ pc[f] \in {"init", "config", "left", "right", "clock", "probe", "put", "dec"} => Bound(f)
  /\ pc[f] = "config" => Lone(f) /\ Fresh
  /\ pc[f] = "left"  => Lone(f) /\ Exactly({"ext", "config"}) /\ Stopped /\ pdev
  /\ pc[f] = "right" => Lone(f) /\ Exactly({"ext", "config", "left"}) /\ Stopped /\ pdev
  /\ pc[f] = "clock" => Lone(f) /\ Exactly(Kinds) /\ Stopped /\ pdev
  /\ pc[f] = "probe" => Lone(f) /\ Exactly(Kinds) /\ threads = {} /\ pwm = "on" /\ pdev
  /\ pc[f] \in {"put", "dec"} => Up /\ dev[f] = ptr["ext"]
  /\ pc[f] = "remove" => Lone(f) /\ Up
  /\ pc[f] = "join" => Lone(f) /\ Exactly(Kinds) /\ Running /\ pwm = "off"
  /\ pc[f] = "put_dev" => Lone(f) /\ Exactly(Kinds) /\ Stopped
  /\ pc[f] \in TakingDown \ {"remove", "join", "put_dev"} => Lone(f) /\ Stopped /\ ~pdev
  /\ pc[f] = "free_ext"    => Exactly(Kinds)
  /\ pc[f] = "free_left"   => Exactly({"left", "right", "config"})
  /\ pc[f] = "free_right"  => Exactly({"right", "config"})
  /\ pc[f] = "free_config" => Exactly({"config"})
  /\ pc[f] \in {"forget_ext", "forget_config"} => Exactly({})
  /\ pc[f] = "open"   => Up
  /\ pc[f] = "closed" => IF Lone(f) THEN Down ELSE Up

LifeInv ==
  Regular =>
    /\ ~corrupt
    /\ refcount = Cardinality(Holders)
    /\ \A f \in Files : pc[f] \notin {"closed", "open"} => Calm(f)
    /\ \A f \in Files : Calm(f) => At(f)
    /\ \A f \in Files : pc[f] = "open" => Bound(f)

(* If exactly the kinds ks are allocated, after an allocation of k exactly *)
(* they and k are.                                                         *)
LEMMA AllocExactly ==
  ASSUME TypeOK, NEW ks \in SUBSET Kinds, NEW k \in Kinds \ ks, Exactly(ks), Alloc(k)
  PROVE  /\ Exactly(ks \cup {k})'
         /\ \A j \in Kinds \ {k} : ptr'[j] = ptr[j]
<1>1. made[k] \in Nat /\ live[k] = {}  BY DEF TypeOK, Exactly
<1>2. made'[k] = made[k] + 1  BY DEF TypeOK, Alloc
<1>3. ptr'[k] = made'[k] /\ \A j \in Kinds \ {k} : ptr'[j] = ptr[j]
  BY DEF TypeOK, Alloc
<1>4. live'[k] = {made'[k]} /\ \A j \in Kinds \ {k} : live'[j] = live[j]
  BY <1>1 DEF TypeOK, Alloc
<1>5. made'[k] # 0  BY <1>1, <1>2
<1>6. \A j \in Kinds \ {k} :
        live'[j] = (IF j \in ks \cup {k} THEN {ptr'[j]} ELSE {}) /\ (j \in ks \cup {k} => ptr'[j] # 0)
  BY <1>3, <1>4 DEF Exactly
<1> QED BY <1>3, <1>4, <1>5, <1>6 DEF Exactly

(* After a free of k exactly the others are, and nothing was freed twice.  *)
LEMMA FreeExactly ==
  ASSUME TypeOK, NEW ks \in SUBSET Kinds, NEW k \in ks, Exactly(ks), NEW new,
         Free(k, ptr[k], new), \A j \in ks \ {k} : new[j] = ptr[j]
  PROVE  Exactly(ks \ {k})' /\ ~corrupt' /\ \A j \in ks \ {k} : ptr'[j] = ptr[j]
<1>1. live[k] = {ptr[k]}  BY DEF Exactly
<1>2. live'[k] = {} /\ \A j \in Kinds \ {k} : live'[j] = live[j]
  BY <1>1 DEF TypeOK, Free
<1>3. ptr' = new /\ ~corrupt'  BY <1>1 DEF Free
<1> QED BY <1>2, <1>3 DEF Exactly

(* What a step of f is, in such a program: one move of f that neither      *)
(* fails nor touches anything dead, to where At says.                      *)
Lives(f) ==
  /\ \E from \in Steps, to \in Steps :
       /\ Go(f, from, to)
       /\ \/ refcount' = refcount /\ (from \in HolderSteps <=> to \in HolderSteps)
          \/ refcount' = refcount + 1 /\ from \notin HolderSteps /\ to \in HolderSteps
          \/ refcount' = refcount - 1 /\ from \in HolderSteps /\ to \notin HolderSteps
  /\ ~corrupt' /\ At(f)'
  /\ \A g \in Files \ {f} : pc[g] = "open" => Bound(g)'
  /\ pc'[f] = "open" => Bound(f)'

(* If all calls were made in turn up to and with this step, the invariant  *)
(* says these things of the state before it.                               *)
LEMMA LifeFrame ==
  ASSUME TypeOK, LifeInv, NEW f \in Files, OpenStep(f) \/ CloseStep(f) \/ AccessDead(f), Regular'
  PROVE  /\ Regular /\ ~corrupt /\ refcount = Cardinality(Holders)
         /\ Calm(f) /\ At(f)
         /\ \A g \in Files : pc[g] = "open" => Bound(g)
         /\ Lone(f)' = Lone(f)
<1>1. Regular /\ (pc[f] \in {"closed", "open"} => Quiet)
  BY StepFrame DEF Regular
<1>2. Calm(f)  BY <1>1 DEF LifeInv, Quiet, Calm
<1>3. Lone(f)' = Lone(f)  BY StepFrame DEF Lone
<1> QED BY <1>1, <1>2, <1>3 DEF LifeInv

(* An open that does not fail brings the device up one step.               *)
LEMMA OpenLives ==
  ASSUME TypeOK, LifeInv, NEW f \in Files, OpenStep(f), Regular'
  PROVE  Lives(f)
<1> USE ChannelType DEF Go, Lives
<1>0. /\ pc \in [Files -> Steps] /\ refcount \in Int /\ data \in [Channels -> Nat]
      /\ ptr \in [Kinds -> Nat] /\ etx \in Nat /\ started \in Nat
      /\ threads \subseteq [thread : Nat, left : Nat, right : Nat]
  BY DEF TypeOK
<1>1. /\ Regular /\ ~corrupt /\ refcount = Cardinality(Holders)
      /\ Calm(f) /\ At(f)
      /\ \A g \in Files : pc[g] = "open" => Bound(g)
      /\ Lone(f)' = Lone(f)
  BY LifeFrame
<1>2. ~failed'  BY DEF Regular
<1>3. {"ext", "config", "left", "right"} = Kinds  BY DEF Kinds
<1>4. CASE Open(f)
  <2>1. /\ pc[f] = "closed" /\ refcount' = refcount + 1
        /\ UNCHANGED <<ptr, live, made, pdev, data, etx, threads, started, pwm, corrupt>>
        /\ pc' = [pc EXCEPT ![f] = IF refcount' > 1 THEN "return" ELSE "lock"]
    BY <1>4 DEF Open, heap, tx
  <2>2. IF Lone(f) THEN Down ELSE Up  BY <1>1, <2>1 DEF At
  <2>3. Lone(f) <=> refcount = 0
    <3>1. Holders = {g \in Files \ {f} : pc[g] # "closed"}
      BY <1>1, <2>1 DEF Holders, Calm
    <3>2. Lone(f) <=> Holders = {}  BY <3>1 DEF Lone
    <3> QED BY <1>1, <3>2, HoldersFinite, FS_EmptySet
  <2>4. refcount \in Nat  BY <1>1, HoldersFinite
  <2>5. pc'[f] = IF Lone(f) THEN "lock" ELSE "return"
    BY <1>0, <2>1, <2>3, <2>4
  <2>6. (Down => Down') /\ (Up => Up')
    BY <2>1 DEF Down, Up, Exactly, Stopped, Running
  <2>7. At(f)'  BY <1>1, <2>2, <2>5, <2>6 DEF At
  <2> QED BY <1>0, <1>1, <2>1, <2>5, <2>7 DEF Bound
<1>5. CASE AllocInterface(f)
  <2>1. /\ Alloc("ext") /\ pc[f] = "lock" /\ pc' = [pc EXCEPT ![f] = "find"]
        /\ UNCHANGED <<refcount, data, pdev, etx, threads, started, pwm, corrupt>>
    BY <1>0, <1>2, <1>5 DEF AllocInterface, NoteFailure, tx
  <2>2. Lone(f) /\ Exactly({}) /\ Stopped  BY <1>1, <2>1 DEF At, Down
  <2>3. Exactly({"ext"})'  BY <2>1, <2>2, AllocExactly DEF Kinds
  <2>4. Stopped'  BY <2>1, <2>2 DEF Stopped
  <2>5. At(f)'  BY <1>0, <1>1, <2>1, <2>2, <2>3, <2>4 DEF At
  <2> QED BY <1>0, <1>1, <2>1, <2>2, <2>5 DEF Lone
<1>6. CASE FindDevice(f)
  <2>1. /\ pc[f] = "find" /\ pc' = [pc EXCEPT ![f] = "return"]
        /\ pdev' = TRUE /\ ptr' = Cleared({"left", "right", "config"})
        /\ UNCHANGED <<refcount, live, made, data, etx, threads, started, pwm, corrupt>>
    BY <1>0, <1>2, <1>6 DEF FindDevice, NoteFailure, tx
  <2>2. Lone(f) /\ Exactly({"ext"}) /\ Stopped  BY <1>1, <2>1 DEF At
  <2>3. ptr'["ext"] = ptr["ext"] /\ ptr'["config"] = 0
    BY <2>1 DEF Cleared, Kinds
  <2>4. Fresh'  BY <2>1, <2>2, <2>3 DEF Fresh, Exactly, Stopped
  <2>5. At(f)'  BY <1>0, <1>1, <2>1, <2>2, <2>4 DEF At
  <2> QED BY <1>0, <1>1, <2>1, <2>2, <2>5 DEF Lone
<1>7. CASE ReturnInterface(f)
  <2>1. /\ pc[f] = "return"
        /\ data' = [data EXCEPT ![Channel(f)] = ptr["ext"]]
        /\ UNCHANGED <<refcount, ptr, live, made, pdev, etx, threads, started, pwm, corrupt>>
        /\ pc' = [pc EXCEPT ![f] = IF ptr["ext"] = 0 THEN "closed" ELSE "init"]
    BY <1>7 DEF ReturnInterface, heap, tx
  <2>2. IF Lone(f) THEN Fresh ELSE Up  BY <1>1, <2>1 DEF At
  <2>3. ptr["ext"] # 0  BY <2>2 DEF Fresh, Up, Exactly, Kinds
  <2>4. pc'[f] = "init"  BY <1>0, <2>1, <2>3
  <2>5. Bound(f)' /\ \A g \in Files : Bound(g) => Bound(g)'
    BY <1>0, <2>1 DEF Bound
  <2>6. (Fresh => Fresh') /\ (Up => Up')
    BY <2>1 DEF Fresh, Up, Exactly, Stopped, Running
  <2>7. At(f)'  BY <1>1, <2>2, <2>4, <2>5, <2>6 DEF At
  <2> QED BY <1>0, <1>1, <2>1, <2>3, <2>5, <2>7
<1>8. CASE CheckConfig(f)
  <2>1. /\ pc[f] = "init"
        /\ corrupt' = (data[Channel(f)] \notin live["ext"] \/ Unset(data[Channel(f)]))
        /\ UNCHANGED <<refcount, ptr, live, made, data, pdev, etx, threads, started, pwm>>
        /\ pc' = [pc EXCEPT ![f] = IF ptr["config"] = 0 THEN "config" ELSE "open"]
    BY <1>8 DEF CheckConfig, heap, tx
  <2>2. Bound(f) /\ IF Lone(f) THEN Fresh ELSE Up  BY <1>1, <2>1 DEF At
  <2>3. /\ live["ext"] = {ptr["ext"]}
        /\ IF Lone(f) THEN ptr["config"] = 0 ELSE ptr["config"] # 0
    BY <2>2 DEF Fresh, Up, Exactly, Kinds
  <2>4. ~corrupt'
    <3>1. \A g \in Files : pc[g] # "find"  BY <1>1, <2>1 DEF Calm
    <3> QED BY <2>1, <2>2, <2>3, <3>1 DEF Bound, Unset
  <2>5. pc'[f] = IF Lone(f) THEN "config" ELSE "open"  BY <1>0, <2>1, <2>3
  <2>6. (Fresh => Fresh') /\ (Up => Up') /\ \A g \in Files : Bound(g) => Bound(g)'
    BY <2>1 DEF Fresh, Up, Exactly, Stopped, Running, Bound
  <2>7. At(f)'  BY <1>1, <2>2, <2>5, <2>6 DEF At
  <2> QED BY <1>0, <1>1, <2>1, <2>2, <2>4, <2>5, <2>6, <2>7
<1>9. CASE AllocConfig(f) \/ AllocLeft(f) \/ AllocRight(f)
  <2>1. PICK k \in {"config", "left", "right"} :
          /\ Alloc(k) /\ pc[f] = k
          /\ pc' = [pc EXCEPT ![f] = IF k = "config" THEN "left"
                                     ELSE IF k = "left" THEN "right" ELSE "clock"]
          /\ UNCHANGED <<refcount, data, pdev, etx, threads, started, pwm, corrupt>>
    <3>1. CASE AllocConfig(f)
      BY <1>0, <1>2, <3>1 DEF AllocConfig, NoteFailure, tx
    <3>2. CASE AllocLeft(f)
      BY <1>0, <1>2, <3>2 DEF AllocLeft, NoteFailure, tx
    <3>3. CASE AllocRight(f)
      BY <1>0, <1>2, <3>3 DEF AllocRight, NoteFailure, tx
    <3> QED BY <1>9, <3>1, <3>2, <3>3
  <2> DEFINE ks == IF k = "config" THEN {"ext"}
                   ELSE IF k = "left" THEN {"ext", "config"} ELSE {"ext", "config", "left"}
  <2>2. Lone(f) /\ Exactly(ks) /\ Stopped /\ pdev /\ Bound(f)
    BY <1>1, <2>1 DEF At, Fresh
  <2>3. ks \in SUBSET Kinds /\ k \in Kinds \ ks  BY <2>1 DEF Kinds
  <2>4. Exactly(ks \cup {k})' /\ ptr'["ext"] = ptr["ext"]
    BY <2>1, <2>2, <2>3, AllocExactly DEF Kinds
  <2>5. Stopped' /\ Bound(f)' /\ pdev'  BY <2>1, <2>2, <2>4 DEF Stopped, Bound
  <2>6. At(f)'
    <3>1. CASE k = "config"
      <4>1. pc'[f] = "left" /\ ks \cup {k} = {"ext", "config"}  BY <1>0, <2>1, <3>1
      <4> QED BY <1>1, <2>2, <2>4, <2>5, <4>1 DEF At
    <3>2. CASE k = "left"
      <4>1. pc'[f] = "right" /\ ks \cup {k} = {"ext", "config", "left"}  BY <1>0, <2>1, <3>2
      <4> QED BY <1>1, <2>2, <2>4, <2>5, <4>1 DEF At
    <3>3. CASE k = "right"
      <4>1. pc'[f] = "clock" /\ ks \cup {k} = Kinds  BY <1>0, <1>3, <2>1, <3>3
      <4> QED BY <1>1, <2>2, <2>4, <2>5, <4>1 DEF At
    <3> QED BY <2>1, <3>1, <3>2, <3>3
  <2>7. pc'[f] \in {"left", "right", "clock"}  BY <1>0, <2>1
  <2> HIDE DEF ks
  <2> QED BY <1>0, <1>1, <2>1, <2>2, <2>6, <2>7 DEF Lone
<1>10. CASE ClockInit(f)
  <2>1. /\ pc[f] = "clock"
        /\ corrupt' = (~Alive("config") \/ (pdev /\ pwm = "error"))
        /\ UNCHANGED <<refcount, ptr, live, made, pdev, data, etx, threads, started>>
    BY <1>10 DEF ClockInit, heap
  <2>2. pc' = [pc EXCEPT ![f] = "probe"] /\ pwm' = "on"
    BY <1>0, <1>2, <1>10 DEF ClockInit, NoteFailure
  <2>3. Lone(f) /\ Exactly(Kinds) /\ Stopped /\ pdev /\ Bound(f)
    BY <1>1, <2>1 DEF At
  <2>4. ~corrupt'  BY <2>1, <2>3 DEF Alive, Exactly, Stopped, Kinds
  <2>5. Exactly(Kinds)' /\ Bound(f)' /\ threads' = {} /\ pdev'
    BY <2>1, <2>3 DEF Exactly, Bound, Stopped
  <2>6. At(f)'  BY <1>0, <1>1, <2>2, <2>3, <2>5 DEF At
  <2> QED BY <1>0, <1>1, <2>1, <2>2, <2>3, <2>4, <2>6 DEF Lone
<1>11. CASE Probe(f)
  <2>1. /\ pc[f] = "probe"
        /\ corrupt' = ~(Alive("config") /\ Alive("left") /\ Alive("right"))
        /\ UNCHANGED <<refcount, ptr, live, made, pdev, data, pwm>>
    BY <1>11 DEF Probe, heap
  <2>2. /\ pc' = [pc EXCEPT ![f] = "open"] /\ etx' = started + 1
        /\ threads' = threads \cup
             {[thread |-> etx', left |-> ptr["left"], right |-> ptr["right"]]}
    BY <1>0, <1>2, <1>11 DEF Probe, NoteFailure
  <2>3. Lone(f) /\ Exactly(Kinds) /\ threads = {} /\ pwm = "on" /\ pdev /\ Bound(f)
    BY <1>1, <2>1 DEF At
  <2>4. ~corrupt'  BY <2>1, <2>3 DEF Alive, Exactly, Kinds
  <2>5. Exactly(Kinds)' /\ Bound(f)'  BY <2>1, <2>3 DEF Exactly, Bound
  <2>6. Running'  BY <1>0, <2>1, <2>2, <2>3 DEF Running
  <2>7. Up'  BY <2>1, <2>3, <2>5, <2>6 DEF Up
  <2>8. At(f)'  BY <1>0, <2>2, <2>7 DEF At
  <2> QED BY <1>0, <1>1, <2>1, <2>2, <2>3, <2>4, <2>5, <2>8 DEF Lone
<1> QED
  BY <1>4, <1>5, <1>6, <1>7, <1>8, <1>9, <1>10, <1>11 DEF OpenStep

(* A close takes it down, if it is the last one.                           *)
LEMMA CloseLives ==
  ASSUME TypeOK, LifeInv, NEW f \in Files, CloseStep(f), Regular'
  PROVE  Lives(f)
<1> USE ChannelType DEF Go, Lives
<1>0. /\ pc \in [Files -> Steps] /\ refcount \in Int /\ dev \in [Files -> Nat]
  BY DEF TypeOK
<1>1. /\ Regular /\ ~corrupt /\ refcount = Cardinality(Holders)
      /\ Calm(f) /\ At(f)
      /\ \A g \in Files : pc[g] = "open" => Bound(g)
      /\ Lone(f)' = Lone(f)
  BY LifeFrame
<1>2. CASE Close(f)
  <2>1. /\ pc[f] = "open" /\ dev' = [dev EXCEPT ![f] = data[Channel(f)]]
        /\ UNCHANGED <<refcount, ptr, live, made, pdev, data, etx, threads, started, pwm, corrupt>>
        /\ pc' = [pc EXCEPT ![f] = IF data[Channel(f)] = 0 THEN "closed" ELSE "put"]
    BY <1>2 DEF Close, heap, tx
  <2>2. Up /\ Bound(f)  BY <1>1, <2>1 DEF At
  <2>3. data[Channel(f)] # 0 /\ dev'[f] = ptr'["ext"]
    BY <1>0, <2>1, <2>2 DEF Up, Exactly, Bound, Kinds
  <2>4. pc'[f] = "put"  BY <1>0, <2>1, <2>3
  <2>5. Up' /\ \A g \in Files : Bound(g) => Bound(g)'
    BY <2>1, <2>2 DEF Up, Exactly, Running, Bound
  <2>6. At(f)'  BY <2>2, <2>3, <2>4, <2>5 DEF At
  <2> QED BY <1>0, <1>1, <2>1, <2>3, <2>4, <2>5, <2>6
<1>3. CASE PutCheck(f)
  <2>1. /\ pc[f] = "put"
        /\ UNCHANGED <<refcount, ptr, live, made, pdev, data, etx, threads, started, pwm, corrupt, dev>>
        /\ pc' = [pc EXCEPT ![f] = IF refcount = 0 \/ ptr["ext"] # dev[f] THEN "closed" ELSE "dec"]
    BY <1>3 DEF PutCheck, heap, tx
  <2>2. Up /\ Bound(f) /\ dev[f] = ptr["ext"]  BY <1>1, <2>1 DEF At
  <2>3. refcount # 0
    <3>1. f \in Holders  BY <2>1 DEF Holders
    <3> QED BY <1>1, <3>1, HoldersFinite, FS_EmptySet
  <2>4. pc'[f] = "dec" /\ pc' = [pc EXCEPT ![f] = "dec"]  BY <1>0, <2>1, <2>2, <2>3
  <2>5. Up' /\ \A g \in Files : Bound(g) => Bound(g)'
    BY <2>1, <2>2 DEF Up, Exactly, Running, Bound
  <2>6. At(f)'  BY <2>1, <2>2, <2>4, <2>5 DEF At
  <2> QED BY <1>0, <1>1, <2>1, <2>4, <2>5, <2>6
<1>4. CASE Decrement(f)
  <2>1. /\ pc[f] = "dec" /\ refcount' = refcount - 1
        /\ UNCHANGED <<ptr, live, made, pdev, data, etx, threads, started, pwm, corrupt>>
        /\ pc' = [pc EXCEPT ![f] = IF refcount' = 0 THEN "remove" ELSE "closed"]
    BY <1>4 DEF Decrement, heap, tx
  <2>2. Up  BY <1>1, <2>1 DEF At
  <2>3. Lone(f) <=> refcount' = 0
    <3>1. f \in Holders  BY <2>1 DEF Holders
    <3>2. Holders \ {f} = {g \in Files \ {f} : pc[g] # "closed"}
      BY <1>1 DEF Holders, Calm
    <3>3. Lone(f) <=> Holders \ {f} = {}  BY <3>2 DEF Lone
    <3>4. Cardinality(Holders \ {f}) = refcount - 1 /\ IsFiniteSet(Holders \ {f})
      BY <1>1, <3>1, HoldersFinite, FS_RemoveElement
    <3> QED BY <2>1, <3>3, <3>4, FS_EmptySet
  <2>4. pc'[f] = IF Lone(f) THEN "remove" ELSE "closed"  BY <1>0, <2>1, <2>3
  <2>5. Up' /\ \A g \in Files : Bound(g) => Bound(g)'
    BY <2>1, <2>2 DEF Up, Exactly, Running, Bound
  <2>6. At(f)'  BY <1>1, <2>4, <2>5 DEF At
  <2>7. PICK to \in {"remove", "closed"} : pc' = [pc EXCEPT ![f] = to]
    BY <2>1
  <2>8. Go(f, "dec", to) /\ "dec" \in HolderSteps /\ to \notin HolderSteps /\ to # "open"
    BY <2>1, <2>7
  <2>9. pc'[f] # "open"  BY <1>0, <2>7
  <2>10. ~corrupt' /\ \A g \in Files \ {f} : pc[g] = "open" => Bound(g)'
    BY <1>1, <2>1, <2>5
  <2>11. "dec" \in Steps /\ to \in Steps  BY <2>7
  <2> QED BY <2>1, <2>6, <2>8, <2>9, <2>10, <2>11
<1>5. CASE StopClock(f) \/ StopTransceiver(f) \/ PutDevice(f)
  <2>1. Lone(f) /\ Exactly(Kinds)
    BY <1>1, <1>5 DEF At, Up, StopClock, StopTransceiver, PutDevice
  <2>2. UNCHANGED <<refcount, ptr, live, made, data>>
    BY <1>5 DEF StopClock, StopTransceiver, PutDevice, heap
  <2>3. Exactly(Kinds)'  BY <2>1, <2>2 DEF Exactly
  <2>4. CASE StopClock(f)
    <3>1. /\ pc[f] = "remove" /\ pc' = [pc EXCEPT ![f] = "join"]
          /\ corrupt' = (pwm = "error") /\ pwm' = IF pwm = "on" THEN "off" ELSE pwm
          /\ UNCHANGED <<etx, threads>>
      BY <2>4 DEF StopClock
    <3>2. Running /\ pwm = "on"  BY <1>1, <3>1 DEF At, Up
    <3>3. Running' /\ pwm' = "off" /\ ~corrupt'
      BY <2>2, <3>1, <3>2 DEF Running
    <3>4. At(f)'  BY <1>0, <1>1, <2>1, <2>3, <3>1, <3>3 DEF At
    <3> QED BY <1>0, <1>1, <2>1, <2>2, <3>1, <3>3, <3>4 DEF Lone
  <2>5. CASE StopTransceiver(f)
    <3>1. /\ pc[f] = "join" /\ pc' = [pc EXCEPT ![f] = "put_dev"]
          /\ corrupt' = (etx # 0 /\ Joined = {})
          /\ threads' = threads \ Joined /\ pwm' = pwm
      BY <2>5 DEF StopTransceiver
    <3>2. Running /\ pwm = "off"  BY <1>1, <3>1 DEF At
    <3>3. Joined = threads /\ threads # {}  BY <3>2 DEF Joined, Running
    <3>4. Stopped' /\ ~corrupt'  BY <3>1, <3>2, <3>3 DEF Stopped
    <3>5. At(f)'  BY <1>0, <1>1, <2>1, <2>3, <3>1, <3>4 DEF At
    <3> QED BY <1>0, <1>1, <2>1, <2>2, <3>1, <3>4, <3>5 DEF Lone
  <2>6. CASE PutDevice(f)
    <3>1. /\ pc[f] = "put_dev" /\ pc' = [pc EXCEPT ![f] = "free_ext"]
          /\ ~pdev' /\ UNCHANGED <<corrupt, pwm, threads>>
      BY <2>6 DEF PutDevice, tx
    <3>2. Stopped'  BY <1>1, <3>1 DEF At, Stopped
    <3>3. At(f)'  BY <1>0, <1>1, <2>1, <2>3, <3>1, <3>2 DEF At
    <3> QED BY <1>0, <1>1, <2>1, <2>2, <3>1, <3>3 DEF Lone
  <2> QED BY <1>5, <2>4, <2>5, <2>6
<1>6. CASE FreeInterface(f) \/ FreeLeft(f) \/ FreeRight(f) \/ FreeConfig(f)
  <2>1. Lone(f) /\ Stopped /\ ~pdev
    BY <1>1, <1>6 DEF At, FreeInterface, FreeLeft, FreeRight, FreeConfig, FreeStep
  <2>2. UNCHANGED <<refcount, pdev, data, threads, pwm>>
    BY <1>6 DEF FreeInterface, FreeLeft, FreeRight, FreeConfig, FreeStep, tx
  <2>3. Stopped' /\ ~pdev'  BY <2>1, <2>2 DEF Stopped
  <2>4. CASE FreeInterface(f)
    <3>1. /\ pc[f] = "free_ext" /\ pc' = [pc EXCEPT ![f] = "free_left"]
          /\ Free("ext", ptr["ext"], ptr)
      BY <2>4 DEF FreeInterface, FreeStep
    <3>2. Exactly(Kinds)  BY <1>1, <3>1 DEF At
    <3>3. Exactly(Kinds \ {"ext"})' /\ ~corrupt'
      BY <3>1, <3>2, FreeExactly DEF Kinds
    <3>4. Kinds \ {"ext"} = {"left", "right", "config"}  BY DEF Kinds
    <3>5. At(f)'  BY <1>0, <1>1, <2>1, <2>3, <3>1, <3>3, <3>4 DEF At
    <3> QED BY <1>0, <1>1, <2>1, <2>2, <3>1, <3>3, <3>5 DEF Lone
  <2>5. CASE FreeLeft(f)
    <3>1. /\ pc[f] = "free_left" /\ pc' = [pc EXCEPT ![f] = "free_right"]
          /\ Free("left", ptr["left"], Cleared({"left"}))
      BY <2>5 DEF FreeLeft, FreeStep
    <3>2. Exactly({"left", "right", "config"})  BY <1>1, <3>1 DEF At
    <3>3. \A j \in {"left", "right", "config"} \ {"left"} : Cleared({"left"})[j] = ptr[j]
      BY DEF Cleared, Kinds
    <3>4. Exactly({"left", "right", "config"} \ {"left"})' /\ ~corrupt'
      BY <3>1, <3>2, <3>3, FreeExactly DEF Kinds
    <3>5. {"left", "right", "config"} \ {"left"} = {"right", "config"}  OBVIOUS
    <3>6. At(f)'  BY <1>0, <1>1, <2>1, <2>3, <3>1, <3>4, <3>5 DEF At
    <3> QED BY <1>0, <1>1, <2>1, <2>2, <3>1, <3>4, <3>6 DEF Lone
  <2>6. CASE FreeRight(f)
    <3>1. /\ pc[f] = "free_right" /\ pc' = [pc EXCEPT ![f] = "free_config"]
          /\ Free("right", ptr["right"], Cleared({"right"}))
      BY <2>6 DEF FreeRight, FreeStep
    <3>2. Exactly({"right", "config"})  BY <1>1, <3>1 DEF At
    <3>3. \A j \in {"right", "config"} \ {"right"} : Cleared({"right"})[j] = ptr[j]
      BY DEF Cleared, Kinds
    <3>4. Exactly({"right", "config"} \ {"right"})' /\ ~corrupt'
      BY <3>1, <3>2, <3>3, FreeExactly DEF Kinds
    <3>5. {"right", "config"} \ {"right"} = {"config"}  OBVIOUS
    <3>6. At(f)'  BY <1>0, <1>1, <2>1, <2>3, <3>1, <3>4, <3>5 DEF At
    <3> QED BY <1>0, <1>1, <2>1, <2>2, <3>1, <3>4, <3>6 DEF Lone
  <2>7. CASE FreeConfig(f)
    <3>1. /\ pc[f] = "free_config" /\ pc' = [pc EXCEPT ![f] = "forget_ext"]
          /\ Free("config", ptr["config"], ptr)
      BY <2>7 DEF FreeConfig, FreeStep
    <3>2. Exactly({"config"})  BY <1>1, <3>1 DEF At
    <3>3. Exactly({"config"} \ {"config"})' /\ ~corrupt'
      BY <3>1, <3>2, FreeExactly DEF Kinds
    <3>4. {"config"} \ {"config"} = {}  OBVIOUS
    <3>5. At(f)'  BY <1>0, <1>1, <2>1, <2>3, <3>1, <3>3, <3>4 DEF At
    <3> QED BY <1>0, <1>1, <2>1, <2>2, <3>1, <3>3, <3>5 DEF Lone
  <2> QED BY <1>6, <2>4, <2>5, <2>6, <2>7
<1>7. CASE ForgetInterface(f) \/ ForgetConfig(f)
  <2>1. PICK from \in {"forget_ext", "forget_config"}, to \in {"forget_config", "closed"} :
          Go(f, from, to)
    BY <1>7 DEF ForgetInterface, ForgetConfig, ForgetStep
  <2>2. UNCHANGED <<refcount, live, pdev, data, threads, pwm, corrupt>>
    BY <1>7 DEF ForgetInterface, ForgetConfig, ForgetStep, tx
  <2>3. Lone(f) /\ Exactly({}) /\ Stopped /\ ~pdev  BY <1>1, <2>1 DEF At
  <2>4. Down'  BY <2>2, <2>3 DEF Down, Exactly, Stopped
  <2>5. At(f)'  BY <1>0, <1>1, <2>1, <2>3, <2>4 DEF At, Down
  <2> QED BY <1>0, <1>1, <2>1, <2>2, <2>3, <2>5 DEF Lone
<1> QED
  BY <1>2, <1>3, <1>4, <1>5, <1>6, <1>7 DEF CloseStep

(* Nothing dead is there to be accessed.                                   *)
LEMMA NoAccess ==
  ASSUME TypeOK, LifeInv, NEW f \in Files, AccessDead(f), Regular'
  PROVE  FALSE
<1>1. At(f) /\ Calm(f) /\ \A g \in Files : pc[g] = "open" => Bound(g)
  BY LifeFrame
<1>2. pc[f] = "open"  BY DEF AccessDead
<1>3. Up /\ Bound(f)  BY <1>1, <1>2 DEF At
<1>4. \A k \in Kinds : live[k] = {ptr[k]}  BY <1>3 DEF Up, Exactly
<1>5. RingOf(f) \in Kinds /\ "ext" \in Kinds  BY DEF RingOf, Kinds
<1>6. \A g \in Files : pc[g] # "find"  BY <1>1, <1>2 DEF Calm
<1> QED BY <1>3, <1>4, <1>5, <1>6 DEF AccessDead, Alive, Bound, Unset

(* Where f is, tells where everybody is.                                   *)
LEMMA LivesKeeps ==
  ASSUME TypeOK, LifeInv, NEW f \in Files, Lives(f), Regular, Calm(f), Regular'
  PROVE  LifeInv'
<1>1. PICK from \in Steps, to \in Steps :
        /\ Go(f, from, to)
        /\ \/ refcount' = refcount /\ (from \in HolderSteps <=> to \in HolderSteps)
           \/ refcount' = refcount + 1 /\ from \notin HolderSteps /\ to \in HolderSteps
           \/ refcount' = refcount - 1 /\ from \in HolderSteps /\ to \notin HolderSteps
  BY DEF Lives
<1>2. pc[f] = from /\ pc'[f] = to /\ \A g \in Files \ {f} : pc'[g] = pc[g]
  BY <1>1 DEF Go, TypeOK
<1>3. refcount = Cardinality(Holders) /\ \A g \in Files : pc[g] = "open" => Bound(g)
  BY DEF LifeInv
<1>4. refcount' = Cardinality(Holders')
  <2>1. \A g \in Files : (g \in Holders <=> pc[g] \in HolderSteps)
                         /\ (g \in Holders' <=> pc'[g] \in HolderSteps)
    BY DEF Holders
  <2>2. CASE from \in HolderSteps <=> to \in HolderSteps
    <3>1. Holders' = Holders  BY <1>2, <2>1, <2>2 DEF Holders
    <3> QED BY <1>1, <1>3, <2>2, <3>1
  <2>3. CASE from \notin HolderSteps /\ to \in HolderSteps
    <3>1. f \notin Holders /\ Holders' = Holders \cup {f}
      BY <1>2, <2>1, <2>3 DEF Holders
    <3>2. refcount' = refcount + 1  BY <1>1, <2>3
    <3> QED BY <1>3, <3>1, <3>2, HoldersFinite, FS_AddElement
  <2>4. CASE from \in HolderSteps /\ to \notin HolderSteps
    <3>1. f \in Holders /\ Holders' = Holders \ {f}
      BY <1>2, <2>1, <2>4 DEF Holders
    <3>2. refcount' = refcount - 1  BY <1>1, <2>4
    <3> QED BY <1>3, <3>1, <3>2, HoldersFinite, FS_RemoveElement
  <2> QED BY <2>2, <2>3, <2>4
<1>5. At(f)' /\ ~corrupt'  BY DEF Lives
<1>6. \A g \in Files \ {f} : pc'[g] \in {"closed", "open"}
  BY <1>2 DEF Calm
<1>7. \A g \in Files : pc'[g] \notin {"closed", "open"} => Calm(g)'
  BY <1>6 DEF Calm
<1>8. ASSUME NEW g \in Files, Calm(g)'
      PROVE  At(g)'
  <2>1. CASE g = f  BY <1>5, <2>1
  <2>2. CASE g # f
    <3>1. pc'[f] \in {"closed", "open"} /\ pc'[g] \in {"closed", "open"}
      BY <1>6, <1>8, <2>2 DEF Calm
    <3>2. pc'[f] = "open" => Up'  BY <1>5 DEF At
    <3>3. pc'[f] = "closed" => IF Lone(f)' THEN Down' ELSE Up'  BY <1>5 DEF At
    <3>4. CASE pc'[g] = "open"
      <4>1. ~Lone(f)'  BY <2>2, <3>4 DEF Lone
      <4>2. Up'  BY <3>1, <3>2, <3>3, <4>1
      <4> QED BY <3>4, <4>2 DEF At
    <3>5. CASE pc'[g] = "closed"
      <4>1. CASE Lone(g)'
        <5>1. pc'[f] = "closed" /\ Lone(f)'  BY <2>2, <3>5, <4>1 DEF Lone
        <5>2. Down'  BY <3>3, <5>1
        <5> QED BY <3>5, <4>1, <5>2 DEF At
      <4>2. CASE ~Lone(g)'
        <5>1. PICK h \in Files \ {g} : pc'[h] # "closed"  BY <4>2 DEF Lone
        <5>2. pc'[f] = "open" \/ ~Lone(f)'  BY <3>1, <5>1 DEF Lone
        <5>3. Up'  BY <3>1, <3>2, <3>3, <5>2
        <5> QED BY <3>5, <4>2, <5>3 DEF At
      <4> QED BY <4>1, <4>2
    <3> QED BY <3>1, <3>4, <3>5
  <2> QED BY <2>1, <2>2
<1>9. \A g \in Files : pc'[g] = "open" => Bound(g)'
  BY <1>2, <1>3 DEF Lives
<1> QED BY <1>4, <1>5, <1>7, <1>8, <1>9 DEF LifeInv

(* The invariant holds always.                                             *)
LEMMA LifeInvariant == Spec => []LifeInv
<1>1. Init => LifeInv
  <2> SUFFICES ASSUME Init PROVE LifeInv
    OBVIOUS
  <2>1. Holders = {}  BY DEF Init, Holders
  <2>2. Cardinality(Holders) = 0  BY <2>1, FS_EmptySet
  <2>3. \A f \in Files : pc[f] = "closed"  BY DEF Init
  <2>4. Exactly({}) /\ Stopped  BY DEF Init, Exactly, Stopped
  <2>5. Down  BY <2>4 DEF Init, Down
  <2>6. \A f \in Files : At(f)  BY <2>3, <2>5 DEF At, Lone
  <2>7. refcount = 0 /\ ~corrupt  BY DEF Init
  <2> QED BY <2>2, <2>3, <2>6, <2>7 DEF LifeInv, Calm
<1>2. TypeOK /\ LifeInv /\ [Next]_vars => LifeInv'
  <2> SUFFICES ASSUME TypeOK, LifeInv, [Next]_vars PROVE LifeInv'
    OBVIOUS
  <2>1. CASE UNCHANGED vars
    <3>1. UNCHANGED <<refcount, ptr, live, made, pdev, data, etx, threads, pwm, pc, dev,
                      overlapped, failed, corrupt>>
      BY <2>1 DEF vars, heap, tx, calls
    <3>2. \A f \in Files : (Calm(f)' = Calm(f)) /\ (Bound(f)' = Bound(f)) /\ (Lone(f)' = Lone(f))
      BY <3>1 DEF Calm, Bound, Lone
    <3>3. \A ks : Exactly(ks)' = Exactly(ks)  BY <3>1 DEF Exactly
    <3>4. Stopped' = Stopped /\ Running' = Running  BY <3>1 DEF Stopped, Running
    <3>5. \A f \in Files : At(f) => At(f)'
      BY <3>1, <3>2, <3>3, <3>4 DEF At, Up, Down, Fresh
    <3> QED BY <3>1, <3>2, <3>5 DEF LifeInv, Regular, Holders
  <2>2. ASSUME NEW f \in Files, OpenStep(f) \/ CloseStep(f) \/ AccessDead(f)
        PROVE  LifeInv'
    <3>1. CASE Regular'
      <4>1. Regular /\ Calm(f)  BY <2>2, <3>1, LifeFrame
      <4>2. Lives(f)  BY <2>2, <3>1, OpenLives, CloseLives, NoAccess
      <4> QED BY <3>1, <4>1, <4>2, LivesKeeps
    <3>2. CASE ~Regular'  BY <3>2 DEF LifeInv
    <3> QED BY <3>1, <3>2
  <2> QED BY <2>1, <2>2 DEF Next
<1> QED BY <1>1, <1>2, DeviceTypeCorrect, PTL DEF Spec

(* What an open that is under way has added to the ends.                   *)
Added(p) == IF p = "right" THEN 2 ELSE IF p \in {"clock", "probe"} THEN 4 ELSE 0

EndsInv == Regular => \A f \in Files : Calm(f) => ends = 4 * started + Added(pc[f])

(* A session starts its thread when it has both its ring buffers, and      *)
(* nothing takes ends away again.                                          *)
LEMMA EndsStep ==
  ASSUME TypeOK, LifeInv, EndsInv, NEW f \in Files, OpenStep(f) \/ CloseStep(f) \/ AccessDead(f),
         Regular'
  PROVE  EndsInv'
<1> USE DEF Go, heap, tx
<1>0. pc \in [Files -> Steps] /\ ends \in Nat /\ started \in Nat  BY DEF TypeOK
<1>1. Regular /\ Calm(f) /\ ~failed'  BY LifeFrame DEF Regular
<1>2. ends = 4 * started + Added(pc[f])  BY <1>1 DEF EndsInv
<1>3. ends' = 4 * started' + Added(pc'[f])
  <2>1. CASE AllocConfig(f) \/ AllocInterface(f)
    BY <1>0, <1>1, <1>2, <2>1 DEF AllocConfig, AllocInterface, Alloc, NoteFailure, Added
  <2>2. CASE AllocLeft(f)
    <3>1. /\ pc[f] = "left" /\ pc'[f] = "right" /\ Alloc("left") /\ started' = started
      BY <1>0, <1>1, <2>2 DEF AllocLeft, NoteFailure
    <3> QED BY <1>0, <1>2, <3>1 DEF Alloc, Added
  <2>3. CASE AllocRight(f)
    <3>1. /\ pc[f] = "right" /\ pc'[f] = "clock" /\ Alloc("right") /\ started' = started
      BY <1>0, <1>1, <2>3 DEF AllocRight, NoteFailure
    <3> QED BY <1>0, <1>2, <3>1 DEF Alloc, Added
  <2>4. CASE Probe(f)
    <3>1. pc[f] = "probe" /\ pc'[f] = "open" /\ ends' = ends /\ started' = started + 1
      BY <1>0, <1>1, <2>4 DEF Probe, NoteFailure
    <3> QED BY <1>0, <1>2, <3>1 DEF Added
  <2>5. CASE ClockInit(f)
    <3>1. /\ pc[f] = "clock" /\ pc'[f] = "probe" /\ ends' = ends /\ started' = started
      BY <1>0, <1>1, <2>5 DEF ClockInit, NoteFailure
    <3> QED BY <1>0, <1>2, <3>1 DEF Added
  <2>6. CASE FindDevice(f)
    <3>1. pc[f] = "find" /\ pc'[f] = "return" /\ ends' = ends /\ started' = started
      BY <1>0, <1>1, <2>6 DEF FindDevice, NoteFailure
    <3> QED BY <1>0, <1>2, <3>1 DEF Added
  <2>7. CASE Open(f) \/ ReturnInterface(f) \/ CheckConfig(f)
    <3>1. /\ pc[f] \in {"closed", "return", "init"} /\ ends' = ends /\ started' = started
          /\ pc'[f] \in {"lock", "return", "closed", "init", "config", "open"}
      BY <1>0, <2>7 DEF Open, ReturnInterface, CheckConfig
    <3> QED BY <1>0, <1>2, <3>1 DEF Added
  <2>8. CASE CloseStep(f) \/ AccessDead(f)
    <3>1. /\ pc[f] \in {"open"} \cup Closing \cup TakingDown
          /\ pc'[f] \in {"open", "closed"} \cup Closing \cup TakingDown
          /\ ends' = ends /\ started' = started
      <4>1. CASE Close(f) \/ PutCheck(f) \/ Decrement(f) \/ AccessDead(f)
        BY <1>0, <4>1 DEF Close, PutCheck, Decrement, AccessDead
      <4>2. CASE StopClock(f) \/ StopTransceiver(f) \/ PutDevice(f)
        BY <1>0, <4>2 DEF StopClock, StopTransceiver, PutDevice
      <4>3. CASE FreeInterface(f) \/ FreeLeft(f) \/ FreeRight(f) \/ FreeConfig(f)
        BY <1>0, <4>3 DEF FreeInterface, FreeLeft, FreeRight, FreeConfig, FreeStep, Free
      <4>4. CASE ForgetInterface(f) \/ ForgetConfig(f)
        BY <1>0, <4>4 DEF ForgetInterface, ForgetConfig, ForgetStep
      <4> QED BY <2>8, <4>1, <4>2, <4>3, <4>4 DEF CloseStep
    <3> QED BY <1>0, <1>2, <3>1 DEF Added
  <2> QED BY <2>1, <2>2, <2>3, <2>4, <2>5, <2>6, <2>7, <2>8 DEF OpenStep
<1>4. ASSUME NEW g \in Files, Calm(g)', g # f
      PROVE  Added(pc'[g]) = Added(pc'[f])
  <2>1. pc'[f] \in {"closed", "open"}  BY <1>4 DEF Calm
  <2>2. pc'[g] = pc[g] /\ pc[g] \in {"closed", "open"}  BY <1>1, <1>4, StepFrame DEF Calm
  <2> QED BY <2>1, <2>2 DEF Added
<1> QED BY <1>3, <1>4 DEF EndsInv

(* The invariant holds always.                                             *)
LEMMA EndsInvariant == Spec => []EndsInv
<1>1. Init => EndsInv  BY DEF Init, EndsInv, Added
<1>2. TypeOK /\ LifeInv /\ EndsInv /\ [Next]_vars => EndsInv'
  <2> SUFFICES ASSUME TypeOK, LifeInv, EndsInv, [Next]_vars PROVE EndsInv'
    OBVIOUS
  <2>1. CASE UNCHANGED vars
    BY <2>1 DEF EndsInv, Regular, Calm, vars, heap, tx, calls
  <2>2. CASE Next /\ Regular'  BY <2>2, EndsStep DEF Next
  <2>3. CASE ~Regular'  BY <2>3 DEF EndsInv
  <2> QED BY <2>1, <2>2, <2>3
<1> QED BY <1>1, <1>2, LifeInvariant, DeviceTypeCorrect, PTL DEF Spec

(* One call after the other, and none failed: an open file has a device    *)
(* that is allocated, configured, clocked and run by one thread, ...       *)
THEOREM OpenRuns == Spec => []OpenMeansRunning
<1>1. TypeOK /\ LifeInv => OpenMeansRunning
  <2> SUFFICES ASSUME TypeOK, LifeInv, Regular, NEW f \in Files, pc[f] = "open" PROVE Up
    BY DEF OpenMeansRunning, Up, Exactly, Running, Alive
  <2>1. CASE Calm(f)
    BY <2>1 DEF LifeInv, At
  <2>2. CASE ~Calm(f)
    <3>1. PICK g \in Files \ {f} : pc[g] \notin {"closed", "open"}  BY <2>2 DEF Calm
    <3>2. At(g) /\ ~Lone(g)  BY <3>1 DEF LifeInv, Lone
    <3>3. pc[g] \in {"return", "init", "put", "dec"}  BY <3>1, <3>2 DEF At, TypeOK
    <3> QED BY <3>2, <3>3 DEF At
  <2> QED BY <2>1, <2>2
<1> QED BY <1>1, LifeInvariant, DeviceTypeCorrect, PTL

(* ... when all files are closed nothing of it is left but the four ends   *)
(* of the ring buffers of every session so far, ...                        *)
THEOREM ClosedFrees == Spec => []ClosedMeansFreed
<1>1. TypeOK /\ LifeInv /\ EndsInv /\ Files # {} => ClosedMeansFreed
  <2> SUFFICES ASSUME TypeOK, LifeInv, EndsInv, Files # {}, Regular,
                      \A f \in Files : pc[f] = "closed"
               PROVE  refcount = 0 /\ Down /\ ends = 4 * started
    BY DEF ClosedMeansFreed, Down, Exactly, Stopped
  <2>1. Holders = {}  BY DEF Holders
  <2>2. refcount = 0  BY <2>1, FS_EmptySet DEF LifeInv
  <2>3. PICK f \in Files : TRUE  OBVIOUS
  <2>4. Calm(f) /\ Lone(f) /\ pc[f] = "closed"  BY <2>3 DEF Calm, Lone
  <2>5. ends = 4 * started  BY <2>4 DEF EndsInv, Added, TypeOK
  <2> QED BY <2>2, <2>4, <2>5 DEF LifeInv, At
<1>2. Files = {} /\ Init => ClosedMeansFreed
  BY DEF Init, ClosedMeansFreed
<1>3. Files = {} /\ [Next]_vars => UNCHANGED vars
  BY DEF Next
<1>4. ClosedMeansFreed /\ UNCHANGED vars => ClosedMeansFreed'
  BY DEF ClosedMeansFreed, Regular, vars, heap, tx, calls
<1>5. CASE Files = {}  BY <1>2, <1>3, <1>4, <1>5, PTL DEF Spec
<1>6. CASE Files # {}  BY <1>1, <1>6, LifeInvariant, EndsInvariant, DeviceTypeCorrect, PTL
<1> QED BY <1>5, <1>6

(* ... and no call uses or frees anything that is not there.               *)
THEOREM NothingDead == Spec => []NothingDeadIsUsed
<1>1. LifeInv => NothingDeadIsUsed  BY DEF LifeInv, NothingDeadIsUsed
<1> QED BY <1>1, LifeInvariant, PTL

-----------------------------------------------------------------------------
(* The same program after opens have failed half-way.                      *)

(* An allocation is never NULL.                                            *)
LiveNotNull == \A k \in Kinds : 0 \notin live[k]

(* What is allocated has a pointer to it that is not NULL, always.         *)
LEMMA LiveNotNullInvariant == Spec => []LiveNotNull
<1>1. Init => LiveNotNull  BY DEF Init, LiveNotNull
<1>2. TypeOK /\ LiveNotNull /\ [Next]_vars => LiveNotNull'
  <2> SUFFICES ASSUME TypeOK, LiveNotNull, [Next]_vars PROVE LiveNotNull'
    OBVIOUS
  <2> USE DEF heap
  <2>1. ASSUME NEW k \in Kinds, Alloc(k) PROVE LiveNotNull'
    <3>1. made'[k] = made[k] + 1 /\ made[k] \in Nat  BY <2>1 DEF Alloc, TypeOK
    <3>2. made'[k] # 0  BY <3>1
    <3>3. live'[k] = live[k] \cup {made'[k]} /\ \A j \in Kinds \ {k} : live'[j] = live[j]
      BY <2>1 DEF Alloc, TypeOK
    <3> QED BY <3>2, <3>3 DEF LiveNotNull
  <2>2. ASSUME NEW k \in Kinds, NEW old, NEW new, Free(k, old, new) PROVE LiveNotNull'
    BY <2>2 DEF Free, LiveNotNull, TypeOK
  <2>3. CASE live' = live  BY <2>3 DEF LiveNotNull
  <2>4. ASSUME NEW f \in Files, OpenStep(f) \/ CloseStep(f) \/ AccessDead(f)
        PROVE  \/ live' = live
               \/ \E k \in Kinds : Alloc(k)
               \/ \E k \in Kinds : \E old, new : Free(k, old, new)
    <3>1. CASE AllocInterface(f) \/ FindDevice(f)
      BY <3>1 DEF AllocInterface, FindDevice, AllocFails, Kinds
    <3>2. CASE AllocConfig(f) \/ AllocLeft(f) \/ AllocRight(f)
      BY <3>2 DEF AllocConfig, AllocLeft, AllocRight, AllocFails, Kinds
    <3>3. CASE FreeInterface(f) \/ FreeLeft(f) \/ FreeRight(f) \/ FreeConfig(f)
      BY <3>3 DEF FreeInterface, FreeLeft, FreeRight, FreeConfig, FreeStep, Kinds
    <3>4. CASE Open(f) \/ ReturnInterface(f) \/ CheckConfig(f) \/ ClockInit(f) \/ Probe(f)
      BY <3>4 DEF Open, ReturnInterface, CheckConfig, ClockInit, Probe
    <3>5. CASE Close(f) \/ PutCheck(f) \/ Decrement(f) \/ AccessDead(f)
      BY <3>5 DEF Close, PutCheck, Decrement, AccessDead
    <3>6. CASE \/ StopClock(f) \/ StopTransceiver(f) \/ PutDevice(f)
               \/ ForgetInterface(f) \/ ForgetConfig(f)
      BY <3>6 DEF StopClock, StopTransceiver, PutDevice, ForgetInterface, ForgetConfig,
                  ForgetStep
    <3> QED BY <2>4, <3>1, <3>2, <3>3, <3>4, <3>5, <3>6 DEF OpenStep, CloseStep
  <2>5. CASE UNCHANGED vars  BY <2>3, <2>5 DEF vars
  <2> QED BY <2>1, <2>2, <2>3, <2>4, <2>5 DEF Next
<1> QED BY <1>1, <1>2, DeviceTypeCorrect, PTL DEF Spec

(* The steps at which no thread runs: an open that sets the device up, and *)
(* a close that has joined the thread.                                     *)
Threadless ==
  {"lock", "find", "config", "left", "right", "clock", "probe"} \cup (TakingDown \ {"remove", "join"})

(* The one thread that runs is the one etx_spi_thread points to, on the    *)
(* rings _pcm3060_i points to; they are live, the clock is on until the    *)
(* close that joins the thread has switched it off, and a reference, or    *)
(* that close, will see it joined.                                         *)
Attached ==
  /\ Running
  /\ Alive("left") /\ Alive("right") /\ ptr["config"] # 0
  /\ IF \E f \in Files : pc[f] = "join" THEN pwm = "off" ELSE pwm = "on"
  /\ \A f \in Files : pc[f] \notin Threadless
  /\ refcount > 0 \/ \E f \in Files : pc[f] \in {"remove", "join"}

ThreadInv ==
  ~(corrupt \/ overlapped) =>
    /\ \A f \in Files : pc[f] \notin {"closed", "open"} => Calm(f)
    /\ \A f \in Files : pc[f] = "probe" => pwm = "on"
    /\ threads # {} => Attached

(* A step of f that leaves the thread and what it uses alone.              *)
LEMMA StaysAttached ==
  ASSUME Attached, NEW f \in Files, \A g \in Files \ {f} : pc'[g] = pc[g],
         UNCHANGED <<threads, etx, ptr, live, pwm>>, pc[f] # "join",
         pc'[f] \notin Threadless \cup {"join"}, refcount' > 0 \/ pc'[f] = "remove"
  PROVE  Attached'
BY DEF Attached, Running, Alive

(* Whatever step of an open or a close comes next, a thread that still     *)
(* runs is attached, and one that is about to be started finds the clock   *)
(* on.                                                                     *)
LEMMA OpenAttached ==
  ASSUME TypeOK, CountInv, LiveNotNull, NEW f \in Files, OpenStep(f), Calm(f),
         pc[f] \in {"closed", "open"} => Quiet,
         pc[f] = "probe" => pwm = "on", threads # {} => Attached, ~corrupt'
  PROVE  /\ threads' # {} => Attached'
         /\ pc'[f] = "probe" => pwm' = "on"
<1> USE DEF Go, heap, tx
<1>0. pc \in [Files -> Steps] /\ refcount \in Int  BY DEF TypeOK
<1>1. \A g \in Files \ {f} : pc'[g] = pc[g]  BY StepFrame
<1>2. \A g \in Files \ {f} : pc[g] \notin Threadless \cup {"remove", "join"}
  BY DEF Calm, Threadless
<1>3. pc[f] \in Threadless => threads = {}  BY DEF Attached
<1>4. pc[f] \notin {"remove", "join"} /\ threads # {} => refcount > 0
  BY <1>2 DEF Attached
<1>5. CASE Open(f)
  <2>1. /\ pc[f] = "closed" /\ refcount' = refcount + 1
        /\ UNCHANGED <<ptr, live, threads, etx, pwm>>
        /\ pc' = [pc EXCEPT ![f] = IF refcount' > 1 THEN "return" ELSE "lock"]
    BY <1>5 DEF Open
  <2>2. CASE threads = {}  BY <1>0, <2>1, <2>2
  <2>3. CASE threads # {}
    <3>1. refcount > 0  BY <1>4, <2>1, <2>3
    <3>2. refcount' > 1  BY <1>0, <2>1, <3>1
    <3>3. pc'[f] = "return" /\ refcount' > 0  BY <1>0, <2>1, <3>2
    <3> QED BY <1>1, <2>1, <2>3, <3>3, StaysAttached DEF Threadless
  <2> QED BY <2>2, <2>3
<1>6. CASE AllocInterface(f) \/ FindDevice(f) \/ AllocConfig(f) \/ AllocLeft(f) \/ AllocRight(f)
  <2>1. pc[f] \in Threadless /\ threads' = threads
    BY <1>6 DEF AllocInterface, FindDevice, AllocConfig, AllocLeft, AllocRight, Threadless
  <2>2. pc'[f] # "probe"
    BY <1>0, <1>6 DEF AllocInterface, FindDevice, AllocConfig, AllocLeft, AllocRight
  <2> QED BY <1>3, <2>1, <2>2
<1>7. CASE ReturnInterface(f)
  <2>1. /\ pc[f] = "return" /\ pc'[f] \in {"closed", "init"}
        /\ UNCHANGED <<refcount, ptr, live, threads, etx, pwm>>
    BY <1>0, <1>7 DEF ReturnInterface
  <2> QED BY <1>1, <1>4, <2>1, StaysAttached DEF Threadless
<1>8. CASE CheckConfig(f)
  <2>1. /\ pc[f] = "init" /\ UNCHANGED <<refcount, ptr, live, threads, etx, pwm>>
        /\ pc'[f] = IF ptr["config"] = 0 THEN "config" ELSE "open"
    BY <1>0, <1>8 DEF CheckConfig
  <2>2. threads # {} => pc'[f] = "open"  BY <2>1 DEF Attached
  <2> QED BY <1>1, <1>4, <2>1, <2>2, StaysAttached DEF Threadless
<1>9. CASE ClockInit(f)
  <2>1. pc[f] = "clock" /\ threads' = threads  BY <1>9 DEF ClockInit
  <2>2. pc'[f] = "probe" => pwm' = "on"  BY <1>0, <1>9 DEF ClockInit
  <2> QED BY <1>3, <2>1, <2>2 DEF Threadless
<1>10. CASE Probe(f)
  <2>1. pc[f] = "probe" /\ threads = {} /\ pwm = "on"
    BY <1>3, <1>10 DEF Probe, Threadless
  <2>2. pc'[f] \in {"open", "closed"}  BY <1>0, <1>10 DEF Probe
  <2>3. CASE threads' = threads  BY <2>1, <2>2, <2>3
  <2>4. CASE threads' # threads
    <3>1. /\ pc' = [pc EXCEPT ![f] = "open"] /\ started' = started + 1 /\ etx' = started'
          /\ threads' = {[thread |-> etx', left |-> ptr["left"], right |-> ptr["right"]]}
      BY <1>10, <2>1, <2>4 DEF Probe
    <3>2. Alive("config") /\ Alive("left") /\ Alive("right")
      BY <1>10 DEF Probe
    <3>3. UNCHANGED <<refcount, ptr, live, pwm>>  BY <1>10 DEF Probe
    <3>4. etx' # 0  BY <3>1 DEF TypeOK
    <3>5. ptr["config"] # 0  BY <3>2 DEF Alive, LiveNotNull, Kinds
    <3>6. refcount > 0
      <4>1. f \in Holders  BY <2>1 DEF Holders
      <4>2. Cardinality(Holders) # 0  BY <4>1, HoldersFinite, FS_EmptySet
      <4> QED BY <1>0, <4>2, HoldersFinite DEF CountInv, RefcountCoversFiles
    <3>7. pc'[f] = "open"  BY <1>0, <3>1
    <3> QED
      BY <1>1, <1>2, <2>1, <3>1, <3>2, <3>3, <3>4, <3>5, <3>6, <3>7
         DEF Attached, Running, Alive, Threadless
  <2> QED BY <2>3, <2>4
<1> QED
  BY <1>5, <1>6, <1>7, <1>8, <1>9, <1>10 DEF OpenStep

(* A thread stays the one the device points at, whatever a close does.     *)
LEMMA CloseAttached ==
  ASSUME TypeOK, CountInv, CountInv', NEW f \in Files, CloseStep(f), Calm(f),
         pc[f] \in {"closed", "open"} => Quiet, threads # {} => Attached
  PROVE  /\ threads' # {} => Attached'
         /\ pc'[f] # "probe"
<1> USE DEF Go, heap, tx
<1>0. pc \in [Files -> Steps] /\ refcount \in Int  BY DEF TypeOK
<1>1. \A g \in Files \ {f} : pc'[g] = pc[g]  BY StepFrame
<1>2. \A g \in Files \ {f} : pc[g] \notin Threadless \cup {"remove", "join"}
  BY DEF Calm, Threadless
<1>3. pc[f] \in Threadless => threads = {}  BY DEF Attached
<1>4. pc[f] \notin {"remove", "join"} /\ threads # {} => refcount > 0
  BY <1>2 DEF Attached
<1>5. CASE Close(f) \/ PutCheck(f)
  <2>1. /\ pc[f] \in {"open", "put"} /\ pc'[f] \in {"closed", "put", "dec"}
        /\ UNCHANGED <<refcount, ptr, live, threads, etx, pwm>>
    BY <1>0, <1>5 DEF Close, PutCheck
  <2> QED BY <1>1, <1>4, <2>1, StaysAttached DEF Threadless
<1>6. CASE Decrement(f)
  <2>1. /\ pc[f] = "dec" /\ UNCHANGED <<ptr, live, threads, etx, pwm>>
        /\ pc'[f] = IF refcount' = 0 THEN "remove" ELSE "closed"
    BY <1>0, <1>6 DEF Decrement
  <2>2. refcount' >= 0
    <3>1. Cardinality(Holders') \in Nat
      <4>1. Holders' \subseteq Files  BY DEF Holders
      <4> QED BY <4>1, Pcm3060Assumption, FS_Subset, FS_CardinalityType
    <3> QED BY <3>1 DEF CountInv, CountType, RefcountCoversFiles
  <2>3. refcount' \in Int  BY DEF CountInv, CountType
  <2>4. refcount' > 0 \/ pc'[f] = "remove"  BY <2>1, <2>2, <2>3
  <2>5. pc'[f] \in {"remove", "closed"}  BY <2>1
  <2> QED BY <1>1, <2>1, <2>4, <2>5, StaysAttached DEF Threadless
<1>7. CASE StopClock(f)
  <2>1. /\ pc[f] = "remove" /\ pc'[f] = "join"
        /\ pwm' = IF pwm = "on" THEN "off" ELSE pwm
        /\ UNCHANGED <<refcount, ptr, live, threads, etx>>
    BY <1>0, <1>7 DEF StopClock
  <2>2. threads # {} => pwm = "on"  BY <1>2, <2>1 DEF Attached
  <2>3. threads # {} => Attached'
    BY <1>1, <1>2, <2>1, <2>2 DEF Attached, Running, Alive, Threadless
  <2> QED BY <2>1, <2>3
<1>9. CASE StopTransceiver(f)
  <2>1. threads' = threads \ Joined /\ pc'[f] = "put_dev"
    BY <1>0, <1>9 DEF StopTransceiver
  <2>2. threads # {} => Joined = threads  BY DEF Joined, Attached, Running
  <2> QED BY <2>1, <2>2
<1>8. CASE \/ PutDevice(f) \/ FreeInterface(f) \/ FreeLeft(f) \/ FreeRight(f) \/ FreeConfig(f)
         \/ ForgetInterface(f) \/ ForgetConfig(f)
  <2>1. pc[f] \in Threadless /\ threads' = threads
    BY <1>8 DEF PutDevice, FreeInterface, FreeLeft, FreeRight, FreeConfig, FreeStep,
                ForgetInterface, ForgetConfig, ForgetStep, Threadless
  <2>2. pc'[f] # "probe"
    BY <1>0, <1>8 DEF PutDevice, FreeInterface, FreeLeft, FreeRight, FreeConfig, FreeStep,
                      ForgetInterface, ForgetConfig, ForgetStep
  <2> QED BY <1>3, <2>1, <2>2
<1> QED
  BY <1>5, <1>6, <1>7, <1>8, <1>9 DEF CloseStep

(* The invariant holds always.                                             *)
LEMMA ThreadInvariant == Spec => []ThreadInv
<1>1. Init => ThreadInv  BY DEF Init, ThreadInv
<1>2. TypeOK /\ CountInv /\ CountInv' /\ LiveNotNull /\ ThreadInv /\ [Next]_vars => ThreadInv'
  <2> SUFFICES ASSUME TypeOK, CountInv, CountInv', LiveNotNull, ThreadInv, [Next]_vars,
                      ~corrupt', ~overlapped'
               PROVE  /\ \A f \in Files : pc'[f] \notin {"closed", "open"} => Calm(f)'
                      /\ \A f \in Files : pc'[f] = "probe" => pwm' = "on"
                      /\ threads' # {} => Attached'
    BY DEF ThreadInv
  <2>1. CASE UNCHANGED vars
    <3>1. UNCHANGED <<corrupt, overlapped, pc, pwm, threads, etx, ptr, live, refcount>>
      BY <2>1 DEF vars, heap, tx, calls
    <3> QED BY <3>1 DEF ThreadInv, Calm, Attached, Running, Alive
  <2>2. ASSUME NEW f \in Files, ~corrupt, OpenStep(f) \/ CloseStep(f) \/ AccessDead(f)
        PROVE  /\ \A g \in Files : pc'[g] \notin {"closed", "open"} => Calm(g)'
               /\ \A g \in Files : pc'[g] = "probe" => pwm' = "on"
               /\ threads' # {} => Attached'
    <3>1. /\ ~overlapped /\ (pc[f] \in {"closed", "open"} => Quiet)
          /\ \A g \in Files \ {f} : pc'[g] = pc[g]
      BY <2>2, StepFrame
    <3>2. Calm(f)  BY <2>2, <3>1 DEF ThreadInv, Calm, Quiet
    <3>3. /\ pc[f] = "probe" => pwm = "on"
          /\ threads # {} => Attached
      BY <2>2, <3>1 DEF ThreadInv
    <3>4. ~AccessDead(f)  BY DEF AccessDead
    <3>5. (threads' # {} => Attached') /\ (pc'[f] = "probe" => pwm' = "on")
      BY <2>2, <3>1, <3>2, <3>3, <3>4, OpenAttached, CloseAttached
    <3> QED BY <3>1, <3>2, <3>5 DEF Calm
  <2> QED BY <2>1, <2>2 DEF Next
<1> QED
  BY <1>1, <1>2, CountInvInit, CountInvStep, LiveNotNullInvariant, DeviceTypeCorrect, PTL DEF Spec

(* One call after the other, whatever failed before and until something    *)
(* dead is used: the rings a transceiver thread was given are freed only   *)
(* after put_pcm3060 has joined it, ...                                    *)
THEOREM ThreadOutlived == Spec => []RingsOutliveThread
<1>1. ThreadInv => RingsOutliveThread
  BY DEF ThreadInv, RingsOutliveThread, Attached, Running, Alive
<1> QED BY <1>1, ThreadInvariant, PTL

(* ... and its clock is on from its start to the last close, which         *)
(* switches it off just before it joins the thread.                        *)
THEOREM ThreadClocked == Spec => []ThreadHasClock
<1>1. ThreadInv => ThreadHasClock
  BY DEF ThreadInv, ThreadHasClock, Attached
<1> QED BY <1>1, ThreadInvariant, PTL

=============================================================================
