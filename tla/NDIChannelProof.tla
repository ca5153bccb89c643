--------------------------- MODULE NDIChannelProof ---------------------------
(***************************************************************************)
(* Proofs about NDIChannel and about the provider whose actions it takes   *)
(* over, for every limit of the queues and the lists, every share of the   *)
(* pools and every number of pairs.                                        *)
(*                                                                         *)
(* First the provider on its own (FrameProviderYuvFile).  The inductive    *)
(* invariant IInv says where each pair is; it has one lemma for each       *)
(* thread and one for the owner, whose steps leave the frames alone.  Then *)
(* the consumer inside the channel: C!PairsInv is kept whatever pairs the  *)
(* callback brings.  Last the channel: a step of it is a step of each of   *)
(* the two, MainInv, CallInv and LocalsInv say what connects them, and     *)
(* with ChannelInv the pairs can be followed from buildFrame to NDI.       *)
(***************************************************************************)
EXTENDS NDIChannel, SequenceTheorems, FiniteSetTheorems, TLAPS


-----------------------------------------------------------------------------
(* The provider: the types.                                                *)

(* Every step of readThread keeps the types.                               *)
LEMMA ReaderTypes == TypeOK /\ HandInv /\ ReadThread => TypeOK'
<1> SUFFICES ASSUME TypeOK, HandInv, ReadThread PROVE TypeOK'
  OBVIOUS
<1> USE ProviderAssumption DEF TypeOK, queues, readerVars, senderVars, ownerVars
<1>1. CASE ReaderTest
  BY <1>1 DEF ReaderTest
<1>2. CASE BuildNotReady \/ BuildNoFrame \/ ReaderLock \/ ReaderUnlock \/ ReaderRelease
  BY <1>2 DEF BuildNotReady, BuildNoFrame, ReaderLock, ReaderUnlock, ReaderRelease
<1>3. CASE BuildReadFails
  BY <1>3 DEF BuildReadFails, MayBuild, Id
<1>4. CASE BuildFrame
  <2>1. [v |-> rV', a |-> rA'] \in Pair /\ rV' \in Id /\ rA' \in Id
    BY <1>4 DEF BuildFrame, Pair, Id
  <2>2. built' \in Seq(Pair)
    BY <1>4, <2>1, AppendProperties DEF BuildFrame
  <2>3. times' \in Id
    BY <1>4 DEF BuildFrame, MayBuild, Id
  <2> QED
    BY <1>4, <2>1, <2>2, <2>3 DEF BuildFrame
<1>5. CASE ReaderPushV
  BY <1>5, AppendProperties DEF ReaderPushV, HandInv
<1>6. CASE ReaderPushA
  BY <1>6, AppendProperties DEF ReaderPushA, HandInv
<1> QED
  BY <1>1, <1>2, <1>3, <1>4, <1>5, <1>6 DEF ReadThread, BuildAttempt

(* Every step of SendOneVideoFrm, the callback included, keeps the types.  *)
LEMMA SenderTypes == TypeOK /\ HandInv /\ SendThread => TypeOK'
<1> SUFFICES ASSUME TypeOK, HandInv, SendThread PROVE TypeOK'
  OBVIOUS
<1> USE ProviderAssumption DEF TypeOK, queues, readerVars, senderVars, ownerVars
<1>1. CASE SenderTest \/ SenderLock \/ SenderUnlock \/ SenderNothing \/ SenderRelease
  BY <1>1 DEF SenderTest, SenderLock, SenderUnlock, SenderNothing, SenderRelease
<1>2. CASE SenderPopV
  <2>1. qV # <<>> /\ qA # <<>>
    BY <1>2 DEF SenderPopV, HandInv
  <2>2. Head(qV) \in Id /\ Tail(qV) \in Seq(Id) /\ Head(qA) \in Id
    BY <2>1, HeadTailProperties
  <2> QED
    BY <1>2, <2>2 DEF SenderPopV
<1>3. CASE SenderPopA
  <2>1. qA # <<>>
    BY <1>3 DEF SenderPopA, HandInv
  <2>2. Tail(qA) \in Seq(Id)
    BY <2>1, HeadTailProperties
  <2> QED
    BY <1>3, <2>2 DEF SenderPopA
<1>4. CASE SenderDeliver
  <2>1. [v |-> sV, a |-> sA] \in Pair
    BY <1>4 DEF SenderDeliver, Pair
  <2> QED
    BY <1>4, <2>1, AppendProperties DEF SenderDeliver
<1>5. CASE FrameConsumed
  BY <1>5 DEF FrameConsumed
<1> QED
  BY <1>1, <1>2, <1>3, <1>4, <1>5 DEF SendThread, SendLoop

(* Every step of the owner keeps the types.                                *)
LEMMA OwnerTypes == TypeOK /\ Owner => TypeOK'
<1> SUFFICES ASSUME TypeOK, Owner PROVE TypeOK'
  OBVIOUS
<1>1. UNCHANGED <<qV, qA, lock, consumed, rV, rA, sV, sA, built, sent>>
  BY DEF Owner, CloseSteps, AddChannel, AddChannelFails, AddChannelDone, StartCapture,
         RemoveChannel, Destructor, CloseChannel, JoinReader, JoinSender, CloseChannelEnd,
         DestructorEnd, CloseVideoFile, queues, readerVars, senderVars
<1>2. times' \in Id
  BY ProviderAssumption
     DEF Owner, CloseSteps, AddChannel, AddChannelFails, AddChannelDone, StartCapture,
         RemoveChannel, Destructor, CloseChannel, JoinReader, JoinSender, CloseChannelEnd,
         DestructorEnd, CloseVideoFile, readerVars, TypeOK, Id
<1>3. /\ bStop' \in BOOLEAN /\ initDone' \in BOOLEAN /\ cbSet' \in BOOLEAN
      /\ rHandle' \in BOOLEAN /\ sHandle' \in BOOLEAN
  BY DEF Owner, CloseSteps, AddChannel, AddChannelFails, AddChannelDone, StartCapture,
         RemoveChannel, Destructor, CloseChannel, JoinReader, JoinSender, CloseChannelEnd,
         DestructorEnd, CloseVideoFile, TypeOK
<1>4. /\ fpVideo' \in {"null", "set"} /\ closes' \in Nat
      /\ object' \in {"alive", "dtor", "gone"}
      /\ mPc' \in {"idle", "started", "joinReader", "joinSender", "fclose"}
  BY DEF Owner, CloseSteps, AddChannel, AddChannelFails, AddChannelDone, StartCapture,
         RemoveChannel, Destructor, CloseChannel, JoinReader, JoinSender, CloseChannelEnd,
         DestructorEnd, CloseVideoFile, TypeOK
<1>5. /\ rPc' \in {rPc, "test"}
      /\ sPc' \in {sPc, "test"}
  BY DEF Owner, CloseSteps, AddChannel, AddChannelFails, AddChannelDone, StartCapture,
         RemoveChannel, Destructor, CloseChannel, JoinReader, JoinSender, CloseChannelEnd,
         DestructorEnd, CloseVideoFile, readerVars, senderVars
<1> QED
  BY <1>1, <1>2, <1>3, <1>4, <1>5 DEF TypeOK

-----------------------------------------------------------------------------
(* The provider: the invariant.                                            *)

(* Before addChannel there is no pair and no thread.                       *)
LEMMA InitInvariant == Init => IInv
<1> SUFFICES ASSUME Init PROVE IInv
  OBVIOUS
<1> USE ProviderAssumption DEF Init
<1>1. TypeOK
  <2>1. 0 \in Id /\ <<>> \in Seq(Id) /\ <<>> \in Seq(Pair)
    BY EmptySeq DEF Id
  <2>2. /\ qV \in Seq(Id) /\ qA \in Seq(Id) /\ built \in Seq(Pair) /\ sent \in Seq(Pair)
        /\ times \in Id /\ consumed \in Int
    BY <2>1
  <2> QED
    BY <2>2 DEF TypeOK
<1>2. LockInv /\ HandInv /\ RoomInv /\ NumberInv /\ ThreadInv /\ OwnerInv
  BY DEF LockInv, HandInv, RoomInv, NumberInv, ThreadInv, OwnerInv, Joined
<1>3. SentInv /\ VideoInv /\ AudioInv
  BY DEF SentInv, VideoInv, AudioInv, InHand, TakenA, ToPushV, ToPushA
<1> QED
  BY <1>1, <1>2, <1>3 DEF IInv

(* The lengths are numbers, and a hand holds one frame at most.            *)
LEMMA Lengths ==
    ASSUME TypeOK
    PROVE  /\ Len(built) \in Nat /\ Len(sent) \in Nat /\ Len(qV) \in Nat /\ Len(qA) \in Nat
           /\ InHand \in 0 .. 1 /\ TakenA \in 0 .. 1
           /\ ToPushV \in 0 .. 1 /\ ToPushA \in 0 .. 1
           /\ times \in Nat
           /\ \A n \in 1 .. Len(built) : built[n] \in Pair /\ built[n].v \in Nat
<1>1. /\ InHand \in 0 .. 1 /\ TakenA \in 0 .. 1
      /\ ToPushV \in 0 .. 1 /\ ToPushA \in 0 .. 1
  BY DEF InHand, TakenA, ToPushV, ToPushA
<1>2. \A n \in 1 .. Len(built) : built[n] \in Pair
  BY DEF TypeOK
<1>3. \A n \in 1 .. Len(built) : built[n].v \in Nat
  BY <1>2, ProviderAssumption DEF Pair, Id
<1>4. times \in Nat
  BY ProviderAssumption DEF TypeOK, Id
<1> QED
  BY <1>1, <1>2, <1>3, <1>4 DEF TypeOK

(* A step that leaves the queues, the histories and what the threads hold  *)
(* alone keeps what is said of them.                                       *)
LEMMA PairsStable ==
    ASSUME IInv, UNCHANGED <<queues, built, sent, times, rV, rA, sV, sA>>,
           InHand' = InHand, TakenA' = TakenA, ToPushV' = ToPushV, ToPushA' = ToPushA
    PROVE  SentInv' /\ VideoInv' /\ AudioInv' /\ NumberInv'
BY DEF IInv, SentInv, VideoInv, AudioInv, NumberInv, queues

(* The owner's steps touch neither pairs nor queues.                       *)
LEMMA OwnerInvariant == IInv /\ Owner => IInv'
<1> SUFFICES ASSUME IInv, Owner PROVE IInv'
  OBVIOUS
<1> USE DEF Owner, CloseSteps, queues, readerVars, senderVars, ownerVars
<1>1. TypeOK'
  BY OwnerTypes DEF IInv
<1>2. CASE AddChannel
  <2> USE <1>2 DEF AddChannel
  <2>1. rPc = "none" /\ sPc = "none" /\ built = <<>> /\ closes = 0 /\ ~rHandle /\ ~sHandle
    BY DEF IInv, OwnerInv, ThreadInv
  <2>2. LockInv' /\ HandInv' /\ RoomInv'
    BY <2>1 DEF IInv, LockInv, HandInv, RoomInv
  <2>3. ThreadInv' /\ OwnerInv'
    BY <2>1 DEF IInv, ThreadInv, OwnerInv, Joined
  <2>4. SentInv' /\ VideoInv' /\ AudioInv'
    BY <2>1 DEF IInv, SentInv, VideoInv, AudioInv, InHand, TakenA, ToPushV, ToPushA
  <2>5. NumberInv'
    BY <2>1 DEF NumberInv
  <2> QED
    BY <1>1, <2>2, <2>3, <2>4, <2>5 DEF IInv
<1>3. CASE StartCapture
  <2> USE <1>3 DEF StartCapture
  <2>1. initDone => fpVideo = "set" /\ ~bStop /\ ~Joined
    BY DEF IInv, ThreadInv, Joined
  <2>2. sPc \in {"none", "done"} /\ sV = Null
    BY DEF IInv, ThreadInv, HandInv
  <2>3. LockInv' /\ HandInv' /\ RoomInv'
    BY <2>2 DEF IInv, LockInv, HandInv, RoomInv
  <2>4. ThreadInv' /\ OwnerInv'
    BY <2>1, <2>2 DEF IInv, ThreadInv, OwnerInv, Joined
  <2>5. InHand' = InHand /\ TakenA' = TakenA /\ ToPushV' = ToPushV /\ ToPushA' = ToPushA
    BY <2>2 DEF InHand, TakenA, ToPushV, ToPushA
  <2> QED
    BY <1>1, <2>3, <2>4, <2>5, PairsStable DEF IInv
<1>4. ASSUME UNCHANGED <<queues, lock, readerVars, senderVars>> PROVE IInv' \/ ~(ThreadInv' /\ OwnerInv')
  <2>1. LockInv' /\ HandInv' /\ RoomInv'
    BY <1>4 DEF IInv, LockInv, HandInv, RoomInv
  <2>2. InHand' = InHand /\ TakenA' = TakenA /\ ToPushV' = ToPushV /\ ToPushA' = ToPushA
    BY <1>4 DEF InHand, TakenA, ToPushV, ToPushA
  <2> QED
    BY <1>1, <1>4, <2>1, <2>2, PairsStable DEF IInv
<1>5. CASE AddChannelFails \/ AddChannelDone
  <2>1. ThreadInv' /\ OwnerInv'
    BY <1>5 DEF AddChannelFails, AddChannelDone, IInv, ThreadInv, OwnerInv, Joined
  <2> QED
    BY <1>4, <1>5, <2>1 DEF AddChannelFails, AddChannelDone
<1>6. CASE RemoveChannel \/ Destructor
  <2>1. ThreadInv' /\ OwnerInv'
    BY <1>6 DEF RemoveChannel, Destructor, CloseChannel, IInv, ThreadInv, OwnerInv, Joined
  <2> QED
    BY <1>4, <1>6, <2>1 DEF RemoveChannel, Destructor, CloseChannel
<1>7. CASE JoinReader \/ JoinSender
  <2>1. ThreadInv' /\ OwnerInv'
    BY <1>7 DEF JoinReader, JoinSender, IInv, ThreadInv, OwnerInv, Joined
  <2> QED
    BY <1>4, <1>7, <2>1 DEF JoinReader, JoinSender
<1>8. CASE CloseChannelEnd \/ DestructorEnd
  <2>1. ThreadInv' /\ OwnerInv'
    BY <1>8 DEF CloseChannelEnd, DestructorEnd, CloseVideoFile, IInv, TypeOK, ThreadInv,
                OwnerInv, Joined
  <2> QED
    BY <1>4, <1>8, <2>1 DEF CloseChannelEnd, DestructorEnd, CloseVideoFile
<1> QED
  BY <1>2, <1>3, <1>5, <1>6, <1>7, <1>8

(* The steps of readThread before it has built a pair and after it has     *)
(* pushed both frames.                                                     *)
LEMMA ReaderAloneInvariant ==
    ASSUME IInv,
           \/ ReaderTest \/ BuildNotReady \/ BuildNoFrame \/ BuildReadFails
           \/ ReaderLock \/ ReaderUnlock \/ ReaderRelease
    PROVE  IInv'
<1> USE ProviderAssumption
        DEF ReaderTest, BuildNotReady, BuildNoFrame, BuildReadFails, ReaderLock,
            ReaderUnlock, ReaderRelease, queues, senderVars, ownerVars
<1>1. TypeOK'
  BY ReaderTypes DEF IInv, ReadThread, BuildAttempt
<1>2. LockInv' /\ HandInv'
  BY DEF IInv, LockInv, HandInv
<1>3. ThreadInv' /\ OwnerInv'
  BY DEF IInv, ThreadInv, OwnerInv, Joined
<1>4. RoomInv'
  <2>1. CASE ReaderTest
    BY <2>1 DEF IInv, RoomInv, SizeSeen
  <2>2. CASE ~ReaderTest
    BY <2>2 DEF IInv, RoomInv, LockInv
  <2> QED
    BY <2>1, <2>2
<1>5. InHand' = InHand /\ TakenA' = TakenA /\ ToPushV' = ToPushV /\ ToPushA' = ToPushA
  BY DEF InHand, TakenA, ToPushV, ToPushA
<1>6. SentInv' /\ VideoInv' /\ AudioInv'
  BY <1>5 DEF IInv, SentInv, VideoInv, AudioInv, ToPushV, ToPushA
<1>7. NumberInv'
  <2>1. times' \in {times, times + 1} /\ built' = built
    BY DEF readerVars
  <2> QED
    BY <2>1, Lengths DEF IInv, NumberInv
<1> QED
  BY <1>1, <1>2, <1>3, <1>4, <1>6, <1>7 DEF IInv

(* buildFrame: the new pair is the last one, its number the largest.       *)
LEMMA BuildFrameInvariant ==
    ASSUME IInv, BuildFrame
    PROVE  IInv'
<1> USE ProviderAssumption DEF BuildFrame, queues, senderVars, ownerVars
<1>1. TypeOK'
  BY ReaderTypes DEF IInv, ReadThread, BuildAttempt
<1>2. LockInv' /\ HandInv'
  BY <1>1 DEF IInv, TypeOK, Id, LockInv, HandInv
<1>3. RoomInv' /\ ThreadInv' /\ OwnerInv'
  BY DEF IInv, RoomInv, ThreadInv, OwnerInv, Joined
<1>4. /\ built \in Seq(Pair) /\ Len(built') = Len(built) + 1
      /\ \A n \in 1 .. Len(built) : built'[n] = built[n]
      /\ built'[Len(built')] = [v |-> times, a |-> times]
  BY AppendProperties DEF IInv, TypeOK
<1>5. InHand' = InHand /\ TakenA' = TakenA /\ InHand \in 0 .. 1 /\ TakenA \in 0 .. 1
  BY DEF InHand, TakenA
<1>6. ToPushV = 0 /\ ToPushA = 0 /\ ToPushV' = 1 /\ ToPushA' = 1
  BY DEF ToPushV, ToPushA
<1>7. SentInv'
  BY <1>4, <1>5 DEF IInv, TypeOK, SentInv
<1>8. VideoInv'
  BY <1>4, <1>5, <1>6 DEF IInv, TypeOK, VideoInv
<1>9. AudioInv'
  BY <1>4, <1>5, <1>6 DEF IInv, TypeOK, AudioInv
<1>10. NumberInv'
  BY <1>4, Lengths DEF IInv, NumberInv
<1> QED
  BY <1>1, <1>2, <1>3, <1>7, <1>8, <1>9, <1>10 DEF IInv

(* The two pushes, under the lock.                                         *)
LEMMA PushInvariant ==
    ASSUME IInv, ReaderPushV \/ ReaderPushA
    PROVE  IInv'
<1> USE ProviderAssumption DEF ReaderPushV, ReaderPushA, senderVars, ownerVars
<1>1. TypeOK'
  BY ReaderTypes DEF IInv, ReadThread
<1>2. LockInv'
  BY DEF IInv, LockInv
<1>3. sPc \notin {"popV", "popA", "unlock"}
  BY DEF IInv, LockInv
<1>a. HandInv'
  BY <1>3 DEF IInv, HandInv
<1>b. ThreadInv' /\ OwnerInv' /\ NumberInv'
  BY DEF IInv, ThreadInv, OwnerInv, Joined, NumberInv
<1>c. SentInv'
  BY <1>3 DEF IInv, SentInv, InHand
<1>4. HandInv' /\ ThreadInv' /\ OwnerInv' /\ SentInv' /\ NumberInv'
  BY <1>a, <1>b, <1>c
<1>5. /\ InHand' = InHand /\ TakenA' = TakenA /\ InHand \in 0 .. 1
      /\ TakenA = InHand
  BY <1>3 DEF InHand, TakenA
<1>6. CASE ReaderPushV
  <2>1. /\ Len(qV') = Len(qV) + 1 /\ qV'[Len(qV) + 1] = rV
        /\ \A n \in 1 .. Len(qV) : qV'[n] = qV[n]
    BY <1>6, AppendProperties DEF IInv, TypeOK, HandInv
  <2>2. ToPushV = 1 /\ ToPushV' = 0 /\ ToPushA' = ToPushA
    BY <1>6 DEF ToPushV, ToPushA
  <2>3. RoomInv'
    BY <1>6, <2>1 DEF IInv, TypeOK, RoomInv
  <2>4. VideoInv'
    <3>1. UNCHANGED <<built, sent>> /\ VideoInv
      BY <1>6 DEF IInv
    <3>a. Len(built) = Len(sent) + InHand + Len(qV) + 1
      BY <2>2, <3>1 DEF VideoInv
    <3>b. Len(qV') = Len(qV) + 1
      BY <2>1
    <3>c. Len(built) \in Nat /\ Len(sent) \in Nat /\ Len(qV) \in Nat /\ InHand \in 0 .. 1
      BY Lengths DEF IInv
    <3>2. Len(built) = Len(sent) + InHand + Len(qV') + 0
      BY <3>a, <3>b, <3>c
    <3>3. Len(sent) + InHand + (Len(qV) + 1) = Len(built)
      BY <2>1, <3>2, Lengths DEF IInv
    <3>4. ASSUME NEW n \in 1 .. Len(qV') PROVE qV'[n] = built[Len(sent) + InHand + n].v
      <4>1. CASE n = Len(qV) + 1
        BY <2>1, <2>2, <3>1, <3>3, <4>1 DEF VideoInv
      <4>2. CASE n \in 1 .. Len(qV)
        BY <2>1, <3>1, <4>2 DEF VideoInv
      <4> QED
        BY <2>1, <4>1, <4>2, Lengths DEF IInv
    <3> QED
      BY <1>5, <2>2, <3>1, <3>2, <3>4 DEF VideoInv
  <2>5. AudioInv'
    BY <1>5, <1>6, <2>2 DEF IInv, AudioInv
  <2> QED
    BY <1>1, <1>2, <1>4, <2>3, <2>4, <2>5 DEF IInv
<1>7. CASE ReaderPushA
  <2>1. /\ Len(qA') = Len(qA) + 1 /\ qA'[Len(qA) + 1] = rA
        /\ \A n \in 1 .. Len(qA) : qA'[n] = qA[n]
    BY <1>7, AppendProperties DEF IInv, TypeOK, HandInv
  <2>2. ToPushA = 1 /\ ToPushA' = 0 /\ ToPushV' = ToPushV
    BY <1>7 DEF ToPushV, ToPushA
  <2>3. RoomInv'
    BY <1>7 DEF IInv, RoomInv
  <2>4. AudioInv'
    <3>1. UNCHANGED <<built, sent>> /\ AudioInv
      BY <1>7 DEF IInv
    <3>a. Len(built) = Len(sent) + TakenA + Len(qA) + 1
      BY <2>2, <3>1 DEF AudioInv
    <3>b. Len(qA') = Len(qA) + 1
      BY <2>1
    <3>c. Len(built) \in Nat /\ Len(sent) \in Nat /\ Len(qA) \in Nat /\ TakenA \in 0 .. 1
      BY Lengths DEF IInv
    <3>2. Len(built) = Len(sent) + TakenA + Len(qA') + 0
      BY <3>a, <3>b, <3>c
    <3>3. Len(sent) + TakenA + (Len(qA) + 1) = Len(built)
      BY <2>1, <3>2, Lengths DEF IInv
    <3>4. ASSUME NEW n \in 1 .. Len(qA') PROVE qA'[n] = built[Len(sent) + TakenA + n].a
      <4>1. CASE n = Len(qA) + 1
        BY <2>1, <2>2, <3>1, <3>3, <4>1 DEF AudioInv
      <4>2. CASE n \in 1 .. Len(qA)
        BY <2>1, <3>1, <4>2 DEF AudioInv
      <4> QED
        BY <2>1, <4>1, <4>2, Lengths DEF IInv
    <3> QED
      BY <1>5, <2>2, <3>1, <3>2, <3>4 DEF AudioInv
  <2>5. VideoInv'
    BY <1>5, <1>7, <2>2 DEF IInv, VideoInv
  <2> QED
    BY <1>1, <1>2, <1>4, <2>3, <2>4, <2>5 DEF IInv
<1> QED
  BY <1>6, <1>7

(* The steps of SendOneVideoFrm that move no pair.                         *)
LEMMA SenderAloneInvariant ==
    ASSUME IInv,
           \/ SenderTest \/ SenderLock \/ SenderUnlock \/ SenderNothing
           \/ FrameConsumed \/ SenderRelease
    PROVE  IInv'
<1> USE ProviderAssumption
        DEF SenderTest, SenderLock, SenderUnlock, SenderNothing, FrameConsumed,
            SenderRelease, queues, readerVars, ownerVars
<1>1. TypeOK'
  BY SenderTypes DEF IInv, SendThread, SendLoop
<1>2. LockInv'
  BY DEF IInv, LockInv
<1>3. HandInv'
  BY DEF IInv, HandInv
<1>4. RoomInv'
  BY DEF IInv, RoomInv
<1>5. ThreadInv' /\ OwnerInv'
  BY DEF IInv, ThreadInv, OwnerInv, Joined
<1>6. SenderNothing => sV = Null
  BY DEF IInv, ThreadInv, HandInv
<1>7. /\ InHand' = InHand /\ TakenA' = TakenA /\ ToPushV' = ToPushV /\ ToPushA' = ToPushA
      /\ InHand = 1 => sV' = sV /\ sA' = sA
  BY <1>6 DEF IInv, HandInv, InHand, TakenA, ToPushV, ToPushA
<1>8. SentInv' /\ VideoInv' /\ AudioInv' /\ NumberInv'
  BY <1>7 DEF IInv, SentInv, VideoInv, AudioInv, NumberInv
<1> QED
  BY <1>1, <1>2, <1>3, <1>4, <1>5, <1>8 DEF IInv

(* The two pops: the heads of the queues are one pair, the next to send.   *)
LEMMA PopInvariant ==
    ASSUME IInv, SenderPopV \/ SenderPopA
    PROVE  IInv'
<1> USE ProviderAssumption DEF SenderPopV, SenderPopA, readerVars, ownerVars
<1>1. TypeOK'
  BY SenderTypes DEF IInv, SendThread, SendLoop
<1>2. LockInv' /\ ThreadInv' /\ OwnerInv' /\ NumberInv'
  BY DEF IInv, LockInv, ThreadInv, OwnerInv, Joined, NumberInv
<1>3. rPc \notin {"pushV", "pushA", "unlock"} /\ ToPushV' = ToPushV /\ ToPushA' = ToPushA
      /\ ToPushA = ToPushV /\ ToPushV \in 0 .. 1
  BY DEF IInv, LockInv, ToPushV, ToPushA
<1>4. CASE SenderPopV
  <2>1. qV # <<>> /\ qA # <<>> /\ qV \in Seq(Id) /\ qA \in Seq(Id)
    BY <1>4 DEF IInv, TypeOK, HandInv
  <2>2. /\ Len(qV') = Len(qV) - 1 /\ Len(qV) >= 1
        /\ \A n \in 1 .. Len(qV) - 1 : qV'[n] = qV[n + 1]
        /\ sV' = qV[1] /\ sA' = qA[1] /\ Len(qA) >= 1
        /\ sV' # Null /\ sA' # Null
    BY <1>4, <2>1, HeadTailProperties DEF Id
  <2>3. InHand = 0 /\ TakenA = 0 /\ InHand' = 1 /\ TakenA' = 0
    BY <1>4, <2>2 DEF InHand, TakenA
  <2>4. HandInv' /\ RoomInv'
    BY <1>3, <1>4, <2>1, <2>2 DEF IInv, TypeOK, HandInv, RoomInv
  <2>5. Len(sent) + 1 <= Len(built) /\ built[Len(sent) + 1] \in Pair
        /\ sV' = built[Len(sent) + 1].v /\ sA' = built[Len(sent) + 1].a
    <3>1. Len(sent) + 1 <= Len(built) /\ built[Len(sent) + 1] \in Pair
      <4>1. Len(built) = Len(sent) + Len(qV) + ToPushV
        BY <2>3, Lengths DEF IInv, VideoInv
      <4>2. Len(sent) + 1 \in 1 .. Len(built) /\ built \in Seq(Pair)
        BY <1>3, <2>2, <4>1, Lengths DEF IInv, TypeOK
      <4> QED BY <4>2, Lengths
    <3>2. qV[1] = built[Len(sent) + 0 + 1].v
      BY <2>2, <2>3, Lengths DEF IInv, VideoInv
    <3>3. qA[1] = built[Len(sent) + 0 + 1].a
      BY <2>2, <2>3, Lengths DEF IInv, AudioInv
    <3> QED BY <2>2, <3>1, <3>2, <3>3, Lengths
  <2>6. SentInv'
    BY <1>4, <2>3, <2>5 DEF IInv, TypeOK, SentInv, Pair
  <2>7. VideoInv'
    <3>1. Len(built) = Len(sent) + 1 + Len(qV') + ToPushV
      BY <1>3, <2>2, <2>3, Lengths DEF IInv, VideoInv
    <3>2. ASSUME NEW n \in 1 .. Len(qV') PROVE qV'[n] = built[Len(sent) + 1 + n].v
      <4>1. n + 1 \in 1 .. Len(qV) /\ Len(sent) + InHand + (n + 1) = Len(sent) + 1 + n
        BY <2>2, <2>3, Lengths DEF IInv
      <4> QED
        BY <2>2, <4>1, Lengths DEF IInv, VideoInv
    <3>3. ToPushV = 1 => rV = built[Len(built)].v
      BY DEF IInv, VideoInv
    <3> QED
      BY <1>3, <1>4, <2>3, <3>1, <3>2, <3>3 DEF VideoInv
  <2>8. AudioInv'
    BY <1>3, <1>4, <2>3 DEF IInv, AudioInv
  <2> QED
    BY <1>1, <1>2, <2>4, <2>6, <2>7, <2>8 DEF IInv
<1>5. CASE SenderPopA
  <2>1. sV # Null /\ InHand = 1 /\ TakenA = 0 /\ InHand' = 1 /\ TakenA' = 1
    BY <1>5 DEF IInv, HandInv, InHand, TakenA
  <2>2. Len(sent) + 1 <= Len(built)
    BY <2>1 DEF IInv, TypeOK, SentInv
  <2>3. Len(qA) >= 1
    BY <1>3, <2>1 DEF IInv, TypeOK, AudioInv, VideoInv
  <2>4. Len(qA') = Len(qA) - 1 /\ \A n \in 1 .. Len(qA) - 1 : qA'[n] = qA[n + 1]
    BY <1>5, <2>3, HeadTailProperties DEF IInv, TypeOK
  <2>5. HandInv' /\ RoomInv' /\ SentInv' /\ VideoInv'
    BY <1>3, <1>5, <2>1 DEF IInv, HandInv, RoomInv, SentInv, VideoInv
  <2>6. AudioInv'
    <3>1. Len(built) = Len(sent) + 1 + Len(qA') + ToPushA
      BY <1>3, <2>1, <2>4, Lengths DEF IInv, AudioInv
    <3>2. ASSUME NEW n \in 1 .. Len(qA') PROVE qA'[n] = built[Len(sent) + 1 + n].a
      <4>1. n + 1 \in 1 .. Len(qA) /\ Len(sent) + TakenA + (n + 1) = Len(sent) + 1 + n
        BY <2>1, <2>4, Lengths DEF IInv
      <4> QED
        BY <2>4, <4>1, Lengths DEF IInv, AudioInv
    <3>3. ToPushA = 1 => rA = built[Len(built)].a
      BY DEF IInv, AudioInv
    <3> QED
      BY <1>3, <1>5, <2>1, <3>1, <3>2, <3>3 DEF AudioInv
  <2> QED
    BY <1>1, <1>2, <2>5, <2>6 DEF IInv
<1> QED
  BY <1>4, <1>5

(* The pair goes to the callback.                                          *)
LEMMA DeliverInvariant ==
    ASSUME IInv, SenderDeliver
    PROVE  IInv'
<1> USE ProviderAssumption DEF SenderDeliver, queues, readerVars, ownerVars
<1>1. TypeOK'
  BY SenderTypes DEF IInv, SendThread, SendLoop
<1>2. LockInv' /\ HandInv' /\ RoomInv' /\ ThreadInv' /\ OwnerInv' /\ NumberInv'
  BY DEF IInv, LockInv, HandInv, RoomInv, ThreadInv, OwnerInv, Joined, NumberInv
<1>3. /\ InHand = 1 /\ TakenA = 1 /\ InHand' = 0 /\ TakenA' = 0
      /\ ToPushV' = ToPushV /\ ToPushA' = ToPushA /\ ToPushV \in 0 .. 1 /\ ToPushA \in 0 .. 1
  BY DEF InHand, TakenA, ToPushV, ToPushA
<1>4. /\ Len(sent') = Len(sent) + 1 /\ sent'[Len(sent) + 1] = [v |-> sV, a |-> sA]
      /\ \A n \in 1 .. Len(sent) : sent'[n] = sent[n]
  BY AppendProperties DEF IInv, TypeOK, Pair
<1>5. SentInv'
  BY <1>3, <1>4 DEF IInv, TypeOK, SentInv
<1>6. VideoInv'
  <2>1. Len(built) = Len(sent') + 0 + Len(qV) + ToPushV
    BY <1>3, <1>4, Lengths DEF IInv, VideoInv
  <2>2. ASSUME NEW n \in 1 .. Len(qV) PROVE qV[n] = built[Len(sent') + 0 + n].v
    <3>1. Len(sent) + InHand + n = Len(sent') + 0 + n
      BY <1>3, <1>4, Lengths DEF IInv
    <3> QED
      BY <3>1 DEF IInv, VideoInv
  <2>3. ToPushV = 1 => rV = built[Len(built)].v
    BY DEF IInv, VideoInv
  <2> QED
    BY <1>3, <2>1, <2>2, <2>3 DEF VideoInv
<1>7. AudioInv'
  <2>1. Len(built) = Len(sent') + 0 + Len(qA) + ToPushA
    BY <1>3, <1>4, Lengths DEF IInv, AudioInv
  <2>2. ASSUME NEW n \in 1 .. Len(qA) PROVE qA[n] = built[Len(sent') + 0 + n].a
    <3>1. Len(sent) + TakenA + n = Len(sent') + 0 + n
      BY <1>3, <1>4, Lengths DEF IInv
    <3> QED
      BY <3>1 DEF IInv, AudioInv
  <2>3. ToPushA = 1 => rA = built[Len(built)].a
    BY DEF IInv, AudioInv
  <2> QED
    BY <1>3, <2>1, <2>2, <2>3 DEF AudioInv
<1> QED
  BY <1>1, <1>2, <1>5, <1>6, <1>7 DEF IInv

(* Every step keeps the invariant.                                         *)
LEMMA StepInvariant == IInv /\ [Next]_vars => IInv'
<1> SUFFICES ASSUME IInv, [Next]_vars PROVE IInv'
  OBVIOUS
<1>1. CASE ReadThread
  BY <1>1, ReaderAloneInvariant, BuildFrameInvariant, PushInvariant DEF ReadThread, BuildAttempt
<1>2. CASE SendThread
  BY <1>2, SenderAloneInvariant, PopInvariant, DeliverInvariant DEF SendThread, SendLoop
<1>3. CASE Owner
  BY <1>3, OwnerInvariant
<1>4. CASE UNCHANGED vars
  <2> USE <1>4 DEF vars, queues, readerVars, senderVars, ownerVars
  <2>1. TypeOK' /\ LockInv' /\ HandInv' /\ RoomInv' /\ ThreadInv' /\ OwnerInv'
    BY DEF IInv, TypeOK, LockInv, HandInv, RoomInv, ThreadInv, OwnerInv, Joined
  <2>2. InHand' = InHand /\ TakenA' = TakenA /\ ToPushV' = ToPushV /\ ToPushA' = ToPushA
    BY DEF InHand, TakenA, ToPushV, ToPushA
  <2> QED
    BY <2>1, <2>2, PairsStable DEF IInv
<1> QED
  BY <1>1, <1>2, <1>3, <1>4 DEF Next, Finished

(* In every reachable state each pair is in one place, in the order it was *)
(* built, m_locker is held as the code means it, the queues respect their  *)
(* limit, and the threads live only between startCapture or addChannel and *)
(* closeChannel.                                                           *)
THEOREM Invariance == Safety => []IInv
<1> QED
  BY InitInvariant, StepInvariant, PTL DEF Safety

(* readThread's push and SendOneVideoFrm's pop exclude each other.         *)
THEOREM QueuesExclusive == Safety => []MutualExclusion
<1>1. IInv => MutualExclusion
  BY DEF IInv, LockInv, MutualExclusion
<1> QED
  BY <1>1, Invariance, PTL

(* buildFrame never reads from a closed FILE.                              *)
THEOREM OpenWhileRead == Safety => []NoReadAfterClose
<1>1. IInv => NoReadAfterClose
  BY DEF IInv, ThreadInv, NoReadAfterClose
<1> QED
  BY <1>1, Invariance, PTL

(* After closeChannel has returned neither thread runs, for good.          *)
THEOREM ClosedIsQuiet == Safety => []QuietWhenClosed
<1>1. IInv => QuietWhenClosed
  BY DEF IInv, TypeOK, ThreadInv, Joined, Closed, QuietWhenClosed
<1> QED
  BY <1>1, Invariance, PTL

(* The numbers of the pairs given to the callback grow.                    *)
THEOREM SentNumbersGrow == Safety => NumbersGrow
<1>1. IInv' => \A n \in 2 .. Len(sent') : sent'[n].v > sent'[n - 1].v
  <2> SUFFICES ASSUME IInv', NEW n \in 2 .. Len(sent') PROVE sent'[n].v > sent'[n - 1].v
    OBVIOUS
  <2>1. Len(sent') \in Nat /\ Len(sent') <= Len(built') /\ Len(built') \in Nat
    BY DEF IInv, TypeOK, SentInv, InHand
  <2>2. sent'[n] = built'[n] /\ sent'[n - 1] = built'[n - 1]
    BY <2>1 DEF IInv, SentInv
  <2>3. built'[n] \in Pair /\ built'[n - 1] \in Pair
    BY <2>1 DEF IInv, TypeOK
  <2> QED
    BY <2>1, <2>2, <2>3, ProviderAssumption DEF IInv, NumberInv, Pair, Id
<1> QED
  BY <1>1, Invariance, PTL DEF NumbersGrow

-----------------------------------------------------------------------------
(* The provider is a FramePipe.                                            *)

(* How many pairs are inside: never more than the limit and one.           *)
LEMMA InsideBounded ==
    ASSUME IInv
    PROVE  /\ Pipe!Inside = InHand + Len(qV) + ToPushV
           /\ rPc = "build" => Pipe!Inside < QueueLimit + 1
<1>1. /\ Len(built) \in Nat /\ Len(sent) \in Nat /\ Len(qV) \in Nat
      /\ InHand \in 0 .. 1 /\ ToPushV \in 0 .. 1
      /\ Len(built) = Len(sent) + InHand + Len(qV) + ToPushV
  BY Lengths DEF IInv, VideoInv
<1>2. Pipe!Inside = InHand + Len(qV) + ToPushV
  BY <1>1 DEF Pipe!Inside
<1>3. ASSUME rPc = "build" PROVE Pipe!Inside < QueueLimit + 1
  <2>1. ToPushV = 0
    BY <1>3 DEF ToPushV
  <2>2. sPc = "popV" => InHand = 0
    BY DEF InHand
  <2> QED
    BY <1>1, <1>2, <1>3, <2>1, <2>2, ProviderAssumption DEF IInv, RoomInv
<1> QED
  BY <1>2, <1>3

(* Initially nothing is inside.                                            *)
LEMMA InitPipe == Init => Pipe!Init
  BY DEF Init, Pipe!Init

(* buildFrame accepts, the call of the callback delivers.                  *)
LEMMA StepPipe == IInv /\ [Next]_vars => [Pipe!Next]_(Pipe!vars)
<1> SUFFICES ASSUME IInv, [Next]_vars PROVE [Pipe!Next]_(Pipe!vars)
  OBVIOUS
<1> USE DEF queues, readerVars, senderVars, ownerVars
<1>1. CASE BuildFrame
  <2>1. Pipe!Inside < QueueLimit + 1
    BY <1>1, InsideBounded DEF BuildFrame
  <2>2. [v |-> times, a |-> times] \in Pair /\ built' = Append(built, [v |-> times, a |-> times])
    BY <1>1 DEF BuildFrame, IInv, TypeOK, Pair
  <2>3. UNCHANGED <<sent, sHandle, bStop>>
    BY <1>1 DEF BuildFrame
  <2>4. Pipe!Accept
    BY <2>1, <2>2, <2>3 DEF Pipe!Accept
  <2> QED
    BY <2>4 DEF Pipe!Next
<1>2. CASE SenderDeliver
  <2>1. InHand = 1
    BY <1>2 DEF SenderDeliver, InHand
  <2>2. Pipe!Inside > 0
    BY <2>1 DEF IInv, TypeOK, SentInv, Pipe!Inside
  <2>3. sent' = Append(sent, built[Len(sent) + 1])
    BY <1>2, <2>1 DEF SenderDeliver, IInv, SentInv
  <2>4. UNCHANGED <<built, sHandle, bStop>>
    BY <1>2 DEF SenderDeliver
  <2>5. Pipe!Deliver
    BY <2>2, <2>3, <2>4 DEF Pipe!Deliver
  <2> QED
    BY <2>5 DEF Pipe!Next
<1>3. ASSUME UNCHANGED <<built, sent>> PROVE [Pipe!Next]_(Pipe!vars)
  BY <1>3 DEF Pipe!Next, Pipe!StartOrStop, Pipe!vars, IInv, TypeOK
<1>4. CASE ReadThread /\ ~BuildFrame
  BY <1>3, <1>4 DEF ReadThread, BuildAttempt, ReaderTest, BuildNotReady, BuildNoFrame,
        BuildReadFails, ReaderLock, ReaderPushV, ReaderPushA, ReaderUnlock, ReaderRelease
<1>5. CASE SendThread /\ ~SenderDeliver
  BY <1>3, <1>5 DEF SendThread, SendLoop, SenderTest, SenderLock, SenderPopV, SenderPopA,
        SenderUnlock, SenderNothing, FrameConsumed, SenderRelease
<1>6. CASE Owner
  BY <1>3, <1>6 DEF Owner, AddChannel, AddChannelFails, AddChannelDone, StartCapture,
        RemoveChannel, Destructor, CloseChannel, CloseSteps, JoinReader, JoinSender,
        CloseChannelEnd, DestructorEnd, CloseVideoFile
<1>7. CASE UNCHANGED vars
  BY <1>3, <1>7 DEF vars
<1> QED
  BY <1>1, <1>2, <1>4, <1>5, <1>6, <1>7 DEF Next, Finished

(* The provider implements the safety part of FramePipe: its n-th pair to  *)
(* the callback is the n-th it built, and at most the queue's limit and    *)
(* one pair are inside.                                                    *)
THEOREM PipeSafety == Safety => Pipe!Safety
<1> QED
  BY InitPipe, StepPipe, Invariance, PTL DEF Safety, Pipe!Safety

-----------------------------------------------------------------------------
(* The consumer inside the channel.                                        *)

(* What a step of the channel does to its consumer, whatever the pair is.   *)
ConsumerStep ==
    \/ \E x, y \in Id : C!OutputFrames(x, y)
    \/ C!CallerStep \/ C!SendThread
    \/ C!AddChannel \/ C!StopChannelCall \/ C!StopChannelJoin
    \/ C!Destructor \/ C!DestructorEnd
    \/ UNCHANGED cVars

(* Every step of the caller, of the thread and of the owner keeps them.    *)
LEMMA ConsumerTypes == C!TypeOK /\ ConsumerStep => C!TypeOK'
<1> SUFFICES ASSUME C!TypeOK, ConsumerStep PROVE C!TypeOK'
  OBVIOUS
<1> USE DEF C!TypeOK, C!callVars, C!threadVars, C!lifeVars, C!lists
<1>1. ASSUME NEW x \in Id, NEW y \in Id, C!OutputFrames(x, y) PROVE C!TypeOK'
  <2>1. [v |-> x, a |-> y] \in C!Pair
    BY DEF C!Pair
  <2> QED
    BY <1>1, <2>1, AppendProperties DEF C!OutputFrames
<1>2. CASE C!PushV
  BY <1>2, AppendProperties DEF C!PushV, C!Pair
<1>3. CASE C!PushA
  BY <1>3, AppendProperties DEF C!PushA, C!Pair
<1>4. CASE C!RaiseEvent
  BY <1>4 DEF C!RaiseEvent
<1>5. CASE C!OutputFramesReturn
  BY <1>5 DEF C!OutputFramesReturn
<1>6. CASE C!TestExit
  BY <1>6 DEF C!TestExit
<1>7. CASE C!WaitEvent
  BY <1>7 DEF C!WaitEvent
<1>8. CASE C!WaitTimeout
  BY <1>8 DEF C!WaitTimeout
<1>9. CASE C!SendAudio
  <2>1. CASE listA = <<>>
    BY <1>9, <2>1 DEF C!SendAudio
  <2>2. CASE listA # <<>>
    <3>1. Head(listA) \in Id /\ Tail(listA) \in Seq(Id)
      BY <2>2, HeadTailProperties
    <3>2. Append(airedA, Head(listA)) \in Seq(Id)
      BY <3>1, AppendProperties
    <3> QED
      BY <1>9, <2>2, <3>1, <3>2 DEF C!SendAudio
  <2> QED
    BY <2>1, <2>2
<1>10. CASE C!SendVideo
  <2>1. CASE listV = <<>>
    BY <1>10, <2>1 DEF C!SendVideo
  <2>2. CASE listV # <<>>
    <3>1. Head(listV) \in Id /\ Tail(listV) \in Seq(Id)
      BY <2>2, HeadTailProperties
    <3>2. Append(airedV, Head(listV)) \in Seq(Id)
      BY <3>1, AppendProperties
    <3> QED
      BY <1>10, <2>2, <3>1, <3>2 DEF C!SendVideo
  <2> QED
    BY <2>1, <2>2
<1>11. CASE C!SentToNDIReturn
  BY <1>11 DEF C!SentToNDIReturn
<1>12. CASE C!AddChannel
  BY <1>12 DEF C!AddChannel
<1>13. CASE C!StopChannelCall \/ C!Destructor
  BY <1>13 DEF C!StopChannelCall, C!Destructor, C!StopChannel
<1>14. CASE C!StopChannelJoin
  BY <1>14 DEF C!StopChannelJoin
<1>15. CASE C!DestructorEnd
  BY <1>15 DEF C!DestructorEnd
<1>16. CASE UNCHANGED cVars
  BY <1>16 DEF cVars
<1> QED
  BY <1>1, <1>2, <1>3, <1>4, <1>5, <1>6, <1>7, <1>8, <1>9, <1>10, <1>11,
     <1>12, <1>13, <1>14, <1>15, <1>16
     DEF ConsumerStep, C!CallerStep, C!SendThread

(* The video frame of a pair is in its list when the audio frame has been  *)
(* sent: only the audio frame can be missing, and only if the semaphore    *)
(* counts too many.                                                        *)
LEMMA VideoWaits == C!PairsInv /\ sendPc = "video" => listV # <<>>
<1> SUFFICES ASSUME C!PairsInv, sendPc = "video", listV = <<>> PROVE FALSE
  OBVIOUS
<1>1. C!HalfSent = 1 /\ C!PendingV <= C!PendingA /\ C!PendingV \in Nat /\ C!PendingA \in Nat
  BY DEF C!HalfSent, C!PendingV, C!PendingA
<1>2. /\ Len(listA) \in Nat /\ Len(airedV) \in Nat /\ Len(listV) \in Nat
      /\ Len(airedA) \in Nat /\ Len(accepted) \in Nat
  BY LenProperties DEF C!PairsInv, C!TypeOK
<1> QED
  BY <1>1, <1>2, EmptySeq DEF C!PairsInv, C!ListCounts

(* No step lets the counts of accepted, queued and sent frames disagree.   *)
LEMMA ConsumerCounts == C!PairsInv /\ ConsumerStep => C!ListCounts'
<1> SUFFICES ASSUME C!PairsInv, ConsumerStep PROVE C!ListCounts'
  OBVIOUS
<1>a. C!TypeOK /\ C!ListCounts
  BY DEF C!PairsInv
<1>b. /\ Len(listV) \in Nat /\ Len(listA) \in Nat
      /\ Len(airedV) \in Nat /\ Len(airedA) \in Nat
      /\ Len(accepted) \in Nat /\ FrameBufferSize \in Nat
  BY <1>a, LenProperties, ChannelAssumption
     DEF C!TypeOK, C!ConsumerAssumption
<1>c. C!PendingV \in Nat /\ C!PendingA \in Nat /\ C!HalfSent \in Nat
  BY DEF C!PendingV, C!PendingA, C!HalfSent
<1>d. ASSUME UNCHANGED outPc PROVE UNCHANGED <<C!PendingV, C!PendingA>>
  BY <1>d DEF C!PendingV, C!PendingA
<1>e. ASSUME UNCHANGED sendPc PROVE UNCHANGED C!HalfSent
  BY <1>e DEF C!HalfSent
<1> USE DEF C!callVars, C!threadVars, C!lifeVars, C!lists
<1>1. ASSUME NEW x \in Id, NEW y \in Id, C!OutputFrames(x, y) PROVE C!ListCounts'
  <2>1. [v |-> x, a |-> y] \in C!Pair
    BY DEF C!Pair
  <2>2. Len(accepted') = Len(accepted) + 1
    BY <1>1, <1>a, <2>1, AppendProperties DEF C!OutputFrames, C!TypeOK
  <2>3. C!PendingV = 0 /\ C!PendingA = 0 /\ C!PendingV' = 1 /\ C!PendingA' = 1
    BY <1>1 DEF C!OutputFrames, C!PendingV, C!PendingA
  <2>4. /\ ~(Len(listV) > FrameBufferSize)
        /\ UNCHANGED <<C!lists, airedV, airedA, sendPc>>
    BY <1>1 DEF C!OutputFrames, C!Full
  <2> QED
    BY <1>a, <1>b, <1>c, <1>e, <2>2, <2>3, <2>4 DEF C!ListCounts
<1>2. CASE C!PushV
  <2>1. Len(listV') = Len(listV) + 1
    BY <1>2, <1>a, AppendProperties DEF C!PushV, C!TypeOK, C!Pair
  <2>2. C!PendingV = 1 /\ C!PendingA = 1 /\ C!PendingV' = 0 /\ C!PendingA' = 1
    BY <1>2 DEF C!PushV, C!PendingV, C!PendingA
  <2>3. UNCHANGED <<listA, accepted, airedV, airedA, sendPc>>
    BY <1>2 DEF C!PushV
  <2> QED
    BY <1>a, <1>b, <1>c, <1>e, <2>1, <2>2, <2>3 DEF C!ListCounts
<1>3. CASE C!PushA
  <2>1. Len(listA') = Len(listA) + 1
    BY <1>3, <1>a, AppendProperties DEF C!PushA, C!TypeOK, C!Pair
  <2>2. C!PendingV = 0 /\ C!PendingA = 1 /\ C!PendingV' = 0 /\ C!PendingA' = 0
    BY <1>3 DEF C!PushA, C!PendingV, C!PendingA
  <2>3. UNCHANGED <<listV, accepted, airedV, airedA, sendPc>>
    BY <1>3 DEF C!PushA
  <2> QED
    BY <1>a, <1>b, <1>c, <1>e, <2>1, <2>2, <2>3 DEF C!ListCounts
<1>4. CASE C!RaiseEvent \/ C!OutputFramesReturn
  <2>1. UNCHANGED <<C!PendingV, C!PendingA>>
    BY <1>4 DEF C!RaiseEvent, C!OutputFramesReturn, C!PendingV, C!PendingA
  <2>2. UNCHANGED <<C!lists, accepted, airedV, airedA, sendPc>>
    BY <1>4 DEF C!RaiseEvent, C!OutputFramesReturn
  <2> QED
    BY <1>a, <1>e, <2>1, <2>2 DEF C!ListCounts
<1>5. CASE C!TestExit \/ C!WaitTimeout \/ C!WaitEvent \/ C!SentToNDIReturn \/ C!AddChannel
  <2>1. C!AddChannel => sendPc = "none"
    BY DEF C!PairsInv, C!Lifetime, C!AddChannel
  <2>2. UNCHANGED C!HalfSent
    BY <1>5, <2>1 DEF C!TestExit, C!WaitTimeout, C!WaitEvent, C!SentToNDIReturn,
                      C!AddChannel, C!HalfSent
  <2>3. UNCHANGED <<C!lists, accepted, airedV, airedA, outPc>>
    BY <1>5 DEF C!TestExit, C!WaitTimeout, C!WaitEvent, C!SentToNDIReturn, C!AddChannel
  <2> QED
    BY <1>a, <1>d, <2>2, <2>3 DEF C!ListCounts
<1>6. CASE C!SendAudio
  <2>1. C!HalfSent = 0 /\ UNCHANGED <<listV, accepted, airedV, outPc>>
    BY <1>6 DEF C!SendAudio, C!HalfSent
  <2>2. CASE listA = <<>>
    <3>1. C!HalfSent' = 0 /\ UNCHANGED <<listA, airedA>>
      BY <1>6, <2>2 DEF C!SendAudio, C!HalfSent
    <3> QED
      BY <1>a, <1>d, <2>1, <3>1 DEF C!ListCounts
  <2>3. CASE listA # <<>>
    <3>1. Len(listA') = Len(listA) - 1 /\ Len(airedA') = Len(airedA) + 1
      BY <1>6, <1>a, <2>3, HeadTailProperties, AppendProperties DEF C!SendAudio, C!TypeOK
    <3>2. C!HalfSent' = 1
      BY <1>6, <2>3 DEF C!SendAudio, C!HalfSent
    <3> QED
      BY <1>a, <1>b, <1>c, <1>d, <2>1, <3>1, <3>2 DEF C!ListCounts
  <2> QED
    BY <2>2, <2>3
<1>7. CASE C!SendVideo
  <2>1. C!HalfSent = 1 /\ listV # <<>>
    BY <1>7, VideoWaits DEF C!SendVideo, C!HalfSent
  <2>2. Len(listV') = Len(listV) - 1 /\ Len(airedV') = Len(airedV) + 1
    BY <1>7, <1>a, <2>1, HeadTailProperties, AppendProperties DEF C!SendVideo, C!TypeOK
  <2>3. C!HalfSent' = 0
    BY <1>7, <2>1 DEF C!SendVideo, C!HalfSent
  <2>4. UNCHANGED <<listA, accepted, airedA, outPc>>
    BY <1>7, <2>1 DEF C!SendVideo
  <2> QED
    BY <1>a, <1>b, <1>c, <1>d, <2>1, <2>2, <2>3, <2>4 DEF C!ListCounts
<1>8. CASE C!StopChannelCall \/ C!StopChannelJoin \/ C!Destructor \/ C!DestructorEnd
           \/ UNCHANGED cVars
  <2>1. UNCHANGED <<C!lists, accepted, airedV, airedA, outPc, sendPc>>
    BY <1>8 DEF C!StopChannelCall, C!StopChannelJoin, C!Destructor, C!DestructorEnd,
                C!StopChannel, cVars
  <2> QED
    BY <1>a, <1>d, <1>e, <2>1 DEF C!ListCounts
<1> QED
  BY <1>1, <1>2, <1>3, <1>4, <1>5, <1>6, <1>7, <1>8
     DEF ConsumerStep, C!CallerStep, C!SendThread

(* No step changes, drops or swaps a frame of an accepted pair.            *)
LEMMA ConsumerContents == C!PairsInv /\ ConsumerStep => C!Contents'
<1> SUFFICES ASSUME C!PairsInv, ConsumerStep PROVE C!Contents'
  OBVIOUS
<1>a. C!TypeOK /\ C!ListCounts /\ C!Contents
  BY DEF C!PairsInv
<1>b. /\ Len(listV) \in Nat /\ Len(listA) \in Nat
      /\ Len(airedV) \in Nat /\ Len(airedA) \in Nat
      /\ Len(accepted) \in Nat
  BY <1>a, LenProperties DEF C!TypeOK
<1>c. /\ Len(airedV) + Len(listV) <= Len(accepted)
      /\ Len(airedA) + Len(listA) <= Len(accepted)
  <2>1. C!PendingV \in Nat /\ C!PendingA \in Nat
    BY DEF C!PendingV, C!PendingA
  <2> QED
    BY <1>a, <1>b, <2>1 DEF C!ListCounts
<1> USE DEF C!callVars, C!threadVars, C!lifeVars, C!lists
<1>1. ASSUME NEW x \in Id, NEW y \in Id, C!OutputFrames(x, y) PROVE C!Contents'
  <2> DEFINE p == [v |-> x, a |-> y]
  <2>1. p \in C!Pair
    BY DEF C!Pair
  <2>2. /\ accepted' = Append(accepted, p) /\ out' = p
        /\ UNCHANGED <<listV, listA, airedV, airedA>>
    BY <1>1 DEF C!OutputFrames
  <2>3. \A n \in 1 .. Len(accepted) : accepted'[n] = accepted[n]
    BY <1>a, <1>b, <2>1, <2>2, AppendProperties DEF C!TypeOK
  <2>4. /\ \A i \in 1 .. Len(airedV') : airedV'[i] = accepted'[i].v
        /\ \A i \in 1 .. Len(airedA') : airedA'[i] = accepted'[i].a
    BY <1>a, <1>b, <1>c, <2>2, <2>3 DEF C!Contents
  <2>5. \A i \in 1 .. Len(listV') : listV'[i] = accepted'[Len(airedV') + i].v
    BY <1>a, <1>b, <1>c, <2>2, <2>3 DEF C!Contents
  <2>6. \A i \in 1 .. Len(listA') : listA'[i] = accepted'[Len(airedA') + i].a
    BY <1>a, <1>b, <1>c, <2>2, <2>3 DEF C!Contents
  <2>7. out' = accepted'[Len(accepted')]
    BY <1>a, <1>b, <2>1, <2>2, AppendProperties DEF C!TypeOK
  <2> QED
    BY <2>4, <2>5, <2>6, <2>7 DEF C!Contents
<1>2. CASE C!PushV
  <2>1. /\ listV' = Append(listV, out.v) /\ outPc' = "pushA"
        /\ UNCHANGED <<listA, out, accepted, airedV, airedA>>
    BY <1>2 DEF C!PushV
  <2>2. out.v \in Id
    BY <1>2, <1>a DEF C!PushV, C!TypeOK, C!Pair
  <2>3. out = accepted[Len(accepted)]
    BY <1>2, <1>a DEF C!PushV, C!Contents
  <2>4. Len(accepted) = Len(airedV) + Len(listV) + 1
    BY <1>2, <1>a DEF C!PushV, C!ListCounts, C!PendingV
  <2>5. ASSUME NEW i \in 1 .. Len(listV')
        PROVE  listV'[i] = accepted'[Len(airedV') + i].v
    <3>1. i \in 1 .. Len(listV) + 1
      BY <1>a, <2>1, <2>2, AppendProperties DEF C!TypeOK
    <3>2. listV'[i] = IF i = Len(listV) + 1 THEN out.v ELSE listV[i]
      BY <1>a, <2>1, <2>2, <3>1, AppendProperties DEF C!TypeOK
    <3>3. CASE i = Len(listV) + 1
      BY <1>b, <2>1, <2>3, <2>4, <3>2, <3>3
    <3>4. CASE i # Len(listV) + 1
      <4>1. i \in 1 .. Len(listV)
        BY <1>b, <3>1, <3>4
      <4> QED
        BY <1>a, <2>1, <3>2, <3>4, <4>1 DEF C!Contents
    <3> QED
      BY <3>3, <3>4
  <2> QED
    BY <1>a, <2>1, <2>3, <2>5 DEF C!Contents
<1>3. CASE C!PushA
  <2>1. /\ listA' = Append(listA, out.a) /\ outPc' = "raise"
        /\ UNCHANGED <<listV, out, accepted, airedV, airedA>>
    BY <1>3 DEF C!PushA
  <2>2. out.a \in Id
    BY <1>3, <1>a DEF C!PushA, C!TypeOK, C!Pair
  <2>3. out = accepted[Len(accepted)]
    BY <1>3, <1>a DEF C!PushA, C!Contents
  <2>4. Len(accepted) = Len(airedA) + Len(listA) + 1
    BY <1>3, <1>a DEF C!PushA, C!ListCounts, C!PendingA
  <2>5. ASSUME NEW i \in 1 .. Len(listA')
        PROVE  listA'[i] = accepted'[Len(airedA') + i].a
    <3>1. i \in 1 .. Len(listA) + 1
      BY <1>a, <2>1, <2>2, AppendProperties DEF C!TypeOK
    <3>2. listA'[i] = IF i = Len(listA) + 1 THEN out.a ELSE listA[i]
      BY <1>a, <2>1, <2>2, <3>1, AppendProperties DEF C!TypeOK
    <3>3. CASE i = Len(listA) + 1
      BY <1>b, <2>1, <2>3, <2>4, <3>2, <3>3
    <3>4. CASE i # Len(listA) + 1
      <4>1. i \in 1 .. Len(listA)
        BY <1>b, <3>1, <3>4
      <4> QED
        BY <1>a, <2>1, <3>2, <3>4, <4>1 DEF C!Contents
    <3> QED
      BY <3>3, <3>4
  <2> QED
    BY <1>a, <2>1, <2>5 DEF C!Contents
<1>4. CASE C!SendAudio
  <2>1. CASE listA = <<>>
    BY <1>4, <1>a, <2>1 DEF C!SendAudio, C!Contents
  <2>2. CASE listA # <<>>
    <3>1. /\ airedA' = Append(airedA, Head(listA)) /\ listA' = Tail(listA)
          /\ UNCHANGED <<listV, out, outPc, accepted, airedV>>
      BY <1>4, <2>2 DEF C!SendAudio
    <3>2. /\ Head(listA) \in Id /\ Head(listA) = listA[1]
          /\ Len(listA') = Len(listA) - 1 /\ Len(listA) > 0
      BY <1>a, <2>2, <3>1, HeadTailProperties DEF C!TypeOK
    <3>3. Len(airedA') = Len(airedA) + 1
      BY <1>a, <3>1, <3>2, AppendProperties DEF C!TypeOK
    <3>4. Head(listA) = accepted[Len(airedA) + 1].a
      BY <1>a, <1>b, <3>2 DEF C!Contents
    <3>5. ASSUME NEW i \in 1 .. Len(airedA') PROVE airedA'[i] = accepted'[i].a
      <4>1. airedA'[i] = IF i = Len(airedA) + 1 THEN Head(listA) ELSE airedA[i]
        BY <1>a, <3>1, <3>2, <3>3, AppendProperties DEF C!TypeOK
      <4>2. i # Len(airedA) + 1 => i \in 1 .. Len(airedA)
        BY <1>b, <3>3
      <4> QED
        BY <1>a, <3>1, <3>4, <4>1, <4>2 DEF C!Contents
    <3>6. ASSUME NEW i \in 1 .. Len(listA')
          PROVE  listA'[i] = accepted'[Len(airedA') + i].a
      <4>1. i + 1 \in 1 .. Len(listA) /\ i \in 1 .. Len(listA) - 1
        BY <1>b, <3>2
      <4>2. listA'[i] = listA[i + 1]
        BY <1>a, <2>2, <3>1, <4>1, HeadTailProperties DEF C!TypeOK
      <4>3. listA[i + 1] = accepted[Len(airedA) + (i + 1)].a
        BY <1>a, <4>1 DEF C!Contents
      <4>4. Len(airedA) + (i + 1) = Len(airedA') + i
        BY <1>b, <3>3
      <4> QED
        BY <3>1, <4>2, <4>3, <4>4
    <3> QED
      BY <1>a, <3>1, <3>5, <3>6 DEF C!Contents
  <2> QED
    BY <2>1, <2>2
<1>5. CASE C!SendVideo
  <2>1. listV # <<>>
    BY <1>5, VideoWaits DEF C!SendVideo
  <2>2. /\ airedV' = Append(airedV, Head(listV)) /\ listV' = Tail(listV)
        /\ UNCHANGED <<listA, out, outPc, accepted, airedA>>
    BY <1>5, <2>1 DEF C!SendVideo
  <2>3. /\ Head(listV) \in Id /\ Head(listV) = listV[1]
        /\ Len(listV') = Len(listV) - 1 /\ Len(listV) > 0
    BY <1>a, <2>1, <2>2, HeadTailProperties DEF C!TypeOK
  <2>4. Len(airedV') = Len(airedV) + 1
    BY <1>a, <2>2, <2>3, AppendProperties DEF C!TypeOK
  <2>5. Head(listV) = accepted[Len(airedV) + 1].v
    BY <1>a, <1>b, <2>3 DEF C!Contents
  <2>6. ASSUME NEW i \in 1 .. Len(airedV') PROVE airedV'[i] = accepted'[i].v
    <3>1. airedV'[i] = IF i = Len(airedV) + 1 THEN Head(listV) ELSE airedV[i]
      BY <1>a, <2>2, <2>3, <2>4, AppendProperties DEF C!TypeOK
    <3>2. i # Len(airedV) + 1 => i \in 1 .. Len(airedV)
      BY <1>b, <2>4
    <3> QED
      BY <1>a, <2>2, <2>5, <3>1, <3>2 DEF C!Contents
  <2>7. ASSUME NEW i \in 1 .. Len(listV')
        PROVE  listV'[i] = accepted'[Len(airedV') + i].v
    <3>1. i + 1 \in 1 .. Len(listV) /\ i \in 1 .. Len(listV) - 1
      BY <1>b, <2>3
    <3>2. listV'[i] = listV[i + 1]
      BY <1>a, <2>1, <2>2, <3>1, HeadTailProperties DEF C!TypeOK
    <3>3. listV[i + 1] = accepted[Len(airedV) + (i + 1)].v
      BY <1>a, <3>1 DEF C!Contents
    <3>4. Len(airedV) + (i + 1) = Len(airedV') + i
      BY <1>b, <2>4
    <3> QED
      BY <2>2, <3>2, <3>3, <3>4
  <2> QED
    BY <1>a, <2>2, <2>6, <2>7 DEF C!Contents
<1>6. CASE C!RaiseEvent \/ C!OutputFramesReturn
  <2>1. /\ UNCHANGED <<listV, listA, accepted, airedV, airedA>>
        /\ outPc' \in {"return", "idle"}
    BY <1>6 DEF C!RaiseEvent, C!OutputFramesReturn
  <2> QED
    BY <1>a, <2>1 DEF C!Contents
<1>7. CASE C!TestExit \/ C!WaitEvent \/ C!WaitTimeout \/ C!SentToNDIReturn
  <2>1. UNCHANGED <<listV, listA, accepted, airedV, airedA, out, outPc>>
    BY <1>7 DEF C!TestExit, C!WaitEvent, C!WaitTimeout, C!SentToNDIReturn
  <2> QED
    BY <1>a, <2>1 DEF C!Contents
<1>8. CASE C!AddChannel \/ C!StopChannelCall \/ C!StopChannelJoin \/ C!Destructor
           \/ C!DestructorEnd \/ UNCHANGED cVars
  <2>1. UNCHANGED <<listV, listA, accepted, airedV, airedA, out, outPc>>
    BY <1>8 DEF C!AddChannel, C!StopChannelCall, C!StopChannelJoin, C!Destructor,
                C!DestructorEnd, C!StopChannel, cVars
  <2> QED
    BY <1>a, <2>1 DEF C!Contents
<1> QED
  BY <1>1, <1>2, <1>3, <1>4, <1>5, <1>6, <1>7, <1>8
     DEF ConsumerStep, C!CallerStep, C!SendThread

(* No step leaves a thread that may still send without a valid handle.     *)
LEMMA ConsumerLifetime == C!PairsInv /\ ConsumerStep => C!Lifetime'
<1> SUFFICES ASSUME C!PairsInv, ConsumerStep PROVE C!Lifetime'
  OBVIOUS
<1>a. C!TypeOK /\ C!Lifetime
  BY DEF C!PairsInv
<1> USE DEF C!callVars, C!threadVars, C!lifeVars, C!lists, C!TypeOK, C!Lifetime
<1>1. ASSUME NEW x \in Id, NEW y \in Id, C!OutputFrames(x, y) PROVE C!Lifetime'
  BY <1>1, <1>a DEF C!OutputFrames
<1>2. CASE C!CallerStep
  BY <1>2, <1>a DEF C!CallerStep, C!PushV, C!PushA, C!RaiseEvent, C!OutputFramesReturn
<1>3. CASE C!TestExit \/ C!WaitEvent \/ C!WaitTimeout \/ C!SentToNDIReturn
  BY <1>3, <1>a DEF C!TestExit, C!WaitEvent, C!WaitTimeout, C!SentToNDIReturn
<1>4. CASE C!SendAudio \/ C!SendVideo
  <2>1. sendPc \in {"audio", "video"} /\ UNCHANGED C!lifeVars
    BY <1>4 DEF C!SendAudio, C!SendVideo
  <2>2. sendPc' \notin {"none", "done"}
    BY <1>4 DEF C!SendAudio, C!SendVideo
  <2> QED
    BY <1>a, <2>1, <2>2
<1>5. CASE C!AddChannel
  BY <1>5, <1>a DEF C!AddChannel
<1>6. CASE C!StopChannelCall \/ C!Destructor
  BY <1>6, <1>a DEF C!StopChannelCall, C!Destructor, C!StopChannel
<1>7. CASE C!StopChannelJoin
  BY <1>7, <1>a DEF C!StopChannelJoin
<1>8. CASE C!DestructorEnd
  BY <1>8, <1>a DEF C!DestructorEnd
<1>9. CASE UNCHANGED cVars
  BY <1>9, <1>a DEF cVars
<1> QED
  BY <1>1, <1>2, <1>3, <1>4, <1>5, <1>6, <1>7, <1>8, <1>9
     DEF ConsumerStep, C!CallerStep, C!SendThread

(* What NDI has received, put together in pairs, are the first pairs that  *)
(* OutputFrames took.                                                      *)
AiredFacts ==
    /\ C!AiredPairs \in Seq(C!Pair)
    /\ Len(C!AiredPairs) = Len(airedV)
    /\ \A i \in 1 .. Len(airedV) : C!AiredPairs[i] = accepted[i]
    /\ Len(airedV) \in Nat /\ Len(accepted) \in Nat
    /\ Len(airedV) <= Len(accepted)

(* What NDI has received is a sequence of accepted pairs, none missing.    *)
LEMMA AiredArePairs == C!PairsInv => AiredFacts
<1> SUFFICES ASSUME C!PairsInv PROVE AiredFacts
  OBVIOUS
<1>1. /\ Len(airedV) \in Nat /\ Len(airedA) \in Nat /\ Len(accepted) \in Nat
      /\ Len(listV) \in Nat /\ Len(listA) \in Nat
  BY LenProperties DEF C!PairsInv, C!TypeOK
<1>2. C!HalfSent \in Nat /\ C!PendingA \in Nat
  BY DEF C!HalfSent, C!PendingA
<1>3. Len(airedV) <= Len(airedA) /\ Len(airedA) + Len(listA) <= Len(accepted)
  BY <1>1, <1>2 DEF C!PairsInv, C!ListCounts
<1>4. ASSUME NEW i \in 1 .. Len(airedV) PROVE C!AiredPairs[i] = accepted[i]
  <2>1. i \in 1 .. Len(airedA) /\ i \in 1 .. Len(accepted)
    BY <1>1, <1>3
  <2>2. C!AiredPairs[i] = [v |-> airedV[i], a |-> airedA[i]]
    BY <2>1 DEF C!AiredPairs
  <2>3. airedV[i] = accepted[i].v /\ airedA[i] = accepted[i].a
    BY <2>1 DEF C!PairsInv, C!Contents
  <2>4. accepted[i] \in C!Pair
    BY <2>1, ElementOfSeq DEF C!PairsInv, C!TypeOK
  <2>5. accepted[i] = [v |-> accepted[i].v, a |-> accepted[i].a]
    BY <2>4 DEF C!Pair
  <2> QED
    BY <2>2, <2>3, <2>5
<1>5. C!AiredPairs \in Seq(C!Pair) /\ Len(C!AiredPairs) = Len(airedV)
  <2>1. \A i \in 1 .. Len(airedV) : C!AiredPairs[i] \in C!Pair
    BY <1>1, <1>3, <1>4, ElementOfSeq DEF C!PairsInv, C!TypeOK
  <2>2. C!AiredPairs = [i \in 1 .. Len(airedV) |-> C!AiredPairs[i]]
    BY DEF C!AiredPairs
  <2>3. C!AiredPairs \in [1 .. Len(airedV) -> C!Pair]
    BY <2>1, <2>2
  <2> QED
    BY <1>1, <2>3
<1> QED
  BY <1>1, <1>3, <1>4, <1>5 DEF AiredFacts
(* Each part of what holds of the consumer is kept.                        *)
LEMMA ConsumerPairs == C!PairsInv /\ ConsumerStep => C!PairsInv'
<1>1. C!PairsInv => C!TypeOK
  BY DEF C!PairsInv
<1> QED
  BY <1>1, ConsumerTypes, ConsumerCounts, ConsumerContents, ConsumerLifetime DEF C!PairsInv

(* A new consumer has nothing inside.                                      *)
LEMMA ConsumerInit == C!Init => C!PairsInv
<1> SUFFICES ASSUME C!Init PROVE C!PairsInv
  OBVIOUS
<1>1. C!TypeOK
  BY ChannelAssumption, EmptySeq DEF C!ConsumerAssumption, C!Init, C!TypeOK
<1>2. C!ListCounts
  BY ChannelAssumption, EmptySeq
     DEF C!ConsumerAssumption, C!Init, C!ListCounts, C!PendingV, C!PendingA, C!HalfSent
<1>3. C!Contents
  BY EmptySeq DEF C!Init, C!Contents
<1>4. C!Lifetime
  BY DEF C!Init, C!Lifetime
<1> QED
  BY <1>1, <1>2, <1>3, <1>4 DEF C!PairsInv

-----------------------------------------------------------------------------
(* The channel.                                                            *)

(* What the channel does is, for its provider, a step of a provider on its *)
(* own: main() calls removeChannel at most once.                           *)
LEMMA ChannelDrivesProvider == MainInv /\ [ChannelNext]_channelVars => [Next]_vars
<1> SUFFICES ASSUME MainInv, [ChannelNext]_channelVars PROVE [Next]_vars
  OBVIOUS
<1>1. CASE ChannelReadThread
  BY <1>1 DEF ChannelReadThread, ReaderOther, ReaderBuild, ChannelReaderLock, Next, ReadThread,
              BuildAttempt
<1>2. CASE SendFrames
  BY <1>2 DEF SendFrames, CbOutputFrames, CbRetry, CbInside, CbReturn, Next, SendThread
<1>3. CASE SendNDIThread
  BY <1>3 DEF SendNDIThread
<1>4. CASE StopProvider
  BY <1>4 DEF StopProvider, MainInv, Deleting, Next, Owner
<1>5. CASE MainThread /\ ~StopProvider
  BY <1>5 DEF MainThread, InitProvider, InitProviderEnd, InitSkipped, InitConsumer, Start,
              StopConsumer, DeleteConsumer, DeleteConsumerEnd, DeleteProvider,
              DeleteProviderEnd, Joins, Next, Owner
<1>6. CASE Getchar \/ Exited \/ UNCHANGED channelVars
  BY <1>6 DEF Getchar, Exited, channelVars
<1> QED
  BY <1>1, <1>2, <1>3, <1>4, <1>5, <1>6 DEF ChannelNext, Keep

(* And for its consumer: the callback gives it pairs of the provider.      *)
LEMMA ChannelDrivesConsumer == IInv /\ [ChannelNext]_channelVars => ConsumerStep
<1> SUFFICES ASSUME IInv, [ChannelNext]_channelVars PROVE ConsumerStep
  OBVIOUS
<1>1. CASE ChannelReadThread
  BY <1>1 DEF ChannelReadThread, ChannelReaderLock, ConsumerStep
<1>2. CASE CbOutputFrames
  <2>1. sV \in Id /\ sA \in Id
    BY <1>2 DEF CbOutputFrames, IInv, TypeOK, HandInv
  <2> QED
    BY <1>2, <2>1 DEF CbOutputFrames, ConsumerStep
<1>3. CASE SendFrames /\ ~CbOutputFrames
  BY <1>3 DEF SendFrames, CbRetry, CbInside, CbReturn, C!OutputFramesFull, C!CallerStep,
              C!vars, C!lists, C!callVars, C!threadVars, C!lifeVars, cVars, ConsumerStep
<1>4. CASE SendNDIThread
  BY <1>4 DEF SendNDIThread, ConsumerStep
<1>5. CASE MainThread
  BY <1>5 DEF MainThread, InitProvider, InitProviderEnd, InitSkipped, InitConsumer, Start,
              StopConsumer, StopProvider, DeleteConsumer, DeleteConsumerEnd, DeleteProvider,
              DeleteProviderEnd, Joins, C!AddChannelFails, ConsumerStep,
              C!vars, C!lists, C!callVars, C!threadVars, C!lifeVars, cVars
<1>6. CASE Getchar \/ Exited \/ UNCHANGED channelVars
  BY <1>6 DEF Getchar, Exited, channelVars, ConsumerStep
<1> QED
  BY <1>1, <1>2, <1>3, <1>4, <1>5, <1>6 DEF ChannelNext, Keep

(* readThread gets its two frames in buildFrame and drops them at the end  *)
(* of the block.                                                           *)
LEMMA StepLocals == IInv /\ LocalsInv /\ [Next]_vars => LocalsInv'
<1> SUFFICES ASSUME IInv, LocalsInv, [Next]_vars PROVE LocalsInv'
  OBVIOUS
<1>a. OwnerInv
  BY DEF IInv
<1> USE DEF LocalsInv, queues, readerVars, senderVars, ownerVars
<1>1. CASE ReadThread
  BY <1>1 DEF ReadThread, BuildAttempt, ReaderTest, BuildNotReady, BuildNoFrame,
        BuildReadFails, BuildFrame, ReaderLock, ReaderPushV, ReaderPushA, ReaderUnlock,
        ReaderRelease
<1>2. CASE SendThread
  BY <1>2 DEF SendThread, SendLoop, SenderTest, SenderLock, SenderPopV, SenderPopA,
        SenderUnlock, SenderDeliver, SenderNothing, FrameConsumed, SenderRelease
<1>3. CASE AddChannel
  BY <1>3, <1>a DEF AddChannel, OwnerInv
<1>4. CASE Owner /\ ~AddChannel
  BY <1>4 DEF Owner, AddChannelFails, AddChannelDone, StartCapture, RemoveChannel,
        Destructor, CloseChannel, CloseSteps, JoinReader, JoinSender, CloseChannelEnd,
        DestructorEnd, CloseVideoFile
<1>5. CASE UNCHANGED vars
  BY <1>5 DEF vars
<1> QED
  BY <1>1, <1>2, <1>3, <1>4, <1>5 DEF Next, Finished

(* Only main() opens, stops and deletes, in its order.                     *)
LEMMA StepMain == ChannelInv /\ [ChannelNext]_channelVars => MainInv'
<1> SUFFICES ASSUME ChannelInv, [ChannelNext]_channelVars PROVE MainInv'
  OBVIOUS
<1> DEFINE mainVars == <<mainPc, bStop, rHandle, sHandle, object,
                         stopPc, handle, cObject>>
<1>a. MainInv /\ ThreadInv /\ stopPc \in {"idle", "join"}
  BY DEF ChannelInv, IInv, C!PairsInv, C!TypeOK
<1>b. ASSUME UNCHANGED mainVars PROVE MainInv'
  BY <1>a, <1>b DEF MainInv
<1> USE DEF queues, readerVars, senderVars, ownerVars, vars,
            C!lists, C!callVars, C!threadVars, C!lifeVars, C!vars, cVars
<1>1. CASE ChannelReadThread
  <2>1. UNCHANGED mainVars
    BY <1>1 DEF ChannelReadThread, ReaderOther, ReaderBuild, ChannelReaderLock,
          ReaderTest, BuildNotReady, BuildNoFrame, BuildReadFails, BuildFrame, ReaderLock,
          ReaderPushV, ReaderPushA, ReaderUnlock, ReaderRelease
  <2> QED BY <1>b, <2>1
<1>2. CASE SendFrames
  <2>1. UNCHANGED mainVars
    BY <1>2 DEF SendFrames, SendLoop, SenderTest, SenderLock, SenderPopV, SenderPopA,
          SenderUnlock, SenderDeliver, SenderNothing, FrameConsumed, SenderRelease,
          CbOutputFrames, CbRetry, CbInside, CbReturn, C!OutputFrames, C!OutputFramesFull,
          C!PushV, C!PushA, C!RaiseEvent, C!OutputFramesReturn
  <2> QED BY <1>b, <2>1
<1>3. CASE SendNDIThread
  <2>1. UNCHANGED mainVars
    BY <1>3 DEF SendNDIThread, C!SendThread, C!TestExit, C!WaitEvent, C!WaitTimeout,
          C!SendAudio, C!SendVideo, C!SentToNDIReturn
  <2> QED BY <1>b, <2>1
<1>4. CASE InitProvider \/ InitProviderEnd \/ InitSkipped \/ Start
  <2>1. CASE InitProvider
    <3>a. mainPc = "provider" /\ mainPc' = "consumer" /\ (AddChannel \/ AddChannelFails)
      BY <2>1, Zenon DEF InitProvider
    <3>b. ~bStop
      BY <1>a, <3>a DEF MainInv, Deleting
    <3>1. ~bStop'
      BY <3>a, <3>b, Zenon DEF AddChannel, AddChannelFails
    <3>2. UNCHANGED <<object, stopPc, handle, cObject>>
      BY <2>1 DEF InitProvider, AddChannel, AddChannelFails
    <3> QED
      BY <1>a, <3>a, <3>1, <3>2 DEF MainInv, Deleting
  <2>2. CASE InitProviderEnd
    BY <1>a, <2>2 DEF InitProviderEnd, AddChannelDone, MainInv, Deleting
  <2>3. CASE InitSkipped \/ Start
    BY <1>a, <2>3 DEF InitSkipped, Start, StartCapture, MainInv, Deleting
  <2> QED
    BY <1>4, <2>1, <2>2, <2>3
<1>5. CASE InitConsumer
  BY <1>5, <1>a DEF InitConsumer, C!AddChannel, C!AddChannelFails, MainInv, Deleting
<1>6. CASE StopConsumer
  BY <1>6, <1>a DEF StopConsumer, C!StopChannelCall, C!StopChannel, MainInv, Deleting
<1>7. CASE StopProvider
  BY <1>7, <1>a DEF StopProvider, RemoveChannel, CloseChannel, MainInv, Deleting
<1>8. CASE DeleteConsumer \/ DeleteConsumerEnd
  BY <1>8, <1>a DEF DeleteConsumer, DeleteConsumerEnd, C!Destructor, C!DestructorEnd,
        C!StopChannel, MainInv, Deleting, ThreadInv, Joined
<1>9. CASE DeleteProvider \/ DeleteProviderEnd
  BY <1>9, <1>a DEF DeleteProvider, DeleteProviderEnd, Destructor, DestructorEnd,
        CloseChannel, CloseVideoFile, MainInv, Deleting
<1>10. CASE Joins
  BY <1>10, <1>a DEF Joins, C!StopChannelJoin, CloseSteps, JoinReader, JoinSender,
        CloseChannelEnd, MainInv, Deleting
<1>11. CASE Getchar \/ Exited \/ UNCHANGED channelVars
  BY <1>11, <1>a DEF Getchar, Exited, channelVars, MainInv, Deleting
<1> QED
  BY <1>1, <1>2, <1>3, <1>4, <1>5, <1>6, <1>7, <1>8, <1>9, <1>10, <1>11
     DEF ChannelNext, Keep, MainThread

(* The callback hands on what it was given, once.                          *)
LEMMA StepCall == ChannelInv /\ [ChannelNext]_channelVars => CallInv'
<1> SUFFICES ASSUME ChannelInv, [ChannelNext]_channelVars PROVE CallInv'
  OBVIOUS
<1> DEFINE betweenVars == <<sPc, sV, sA, sent, outPc, accepted>>
<1>a. /\ CallInv /\ TypeOK /\ ThreadInv /\ HandInv
      /\ sent \in Seq(Pair) /\ accepted \in Seq(Pair)
      /\ Len(sent) \in Nat /\ Len(accepted) \in Nat
  BY LenProperties DEF ChannelInv, IInv, TypeOK, C!PairsInv, C!TypeOK, C!Pair, Pair
<1>b. ASSUME UNCHANGED betweenVars PROVE CallInv'
  BY <1>a, <1>b DEF CallInv, Offered
<1> USE DEF queues, readerVars, senderVars, ownerVars, vars,
            C!lists, C!callVars, C!threadVars, C!lifeVars, C!vars, cVars
<1>1. CASE ChannelReadThread
  <2>1. UNCHANGED betweenVars
    BY <1>1 DEF ChannelReadThread, ReaderOther, ReaderBuild, ChannelReaderLock,
          ReaderTest, BuildNotReady, BuildNoFrame, BuildReadFails, BuildFrame, ReaderLock,
          ReaderPushV, ReaderPushA, ReaderUnlock, ReaderRelease
  <2> QED BY <1>b, <2>1
<1>2. CASE SenderDeliver /\ UNCHANGED cVars
  <2>1. outPc = "idle" /\ Offered = 0 /\ Offered' = 1
    BY <1>2, <1>a DEF SenderDeliver, CallInv, Offered
  <2>2. /\ Len(sent') = Len(sent) + 1 /\ sent'[Len(sent) + 1] = [v |-> sV, a |-> sA]
        /\ \A n \in 1 .. Len(sent) : sent'[n] = sent[n]
    BY <1>2, <1>a, AppendProperties DEF SenderDeliver, TypeOK, Pair
  <2>3. UNCHANGED <<sV, sA, outPc, accepted>> /\ sPc' = "cb"
    BY <1>2 DEF SenderDeliver
  <2> QED
    BY <1>a, <2>1, <2>2, <2>3 DEF CallInv
<1>3. CASE SendLoop /\ ~SenderDeliver /\ UNCHANGED cVars
  <2>1. sPc # "cb" /\ sPc' # "cb" /\ UNCHANGED <<sent, outPc, accepted>>
    BY <1>3 DEF SendLoop, SenderTest, SenderLock, SenderPopV, SenderPopA, SenderUnlock,
          SenderNothing, SenderRelease
  <2> QED
    BY <1>a, <2>1 DEF CallInv, Offered
<1>4. CASE CbOutputFrames
  <2>1. Offered = 1 /\ Offered' = 0 /\ sPc' = "cb" /\ outPc' # "idle"
    BY <1>4 DEF CbOutputFrames, C!OutputFrames, Offered
  <2>2. UNCHANGED sent /\ accepted' = Append(accepted, [v |-> sV, a |-> sA])
    BY <1>4 DEF CbOutputFrames, C!OutputFrames
  <2>3. [v |-> sV, a |-> sA] \in Pair
    BY <1>4, <1>a DEF CbOutputFrames, TypeOK, HandInv, Pair
  <2>4. /\ Len(accepted') = Len(accepted) + 1
        /\ accepted'[Len(accepted) + 1] = [v |-> sV, a |-> sA]
        /\ \A n \in 1 .. Len(accepted) : accepted'[n] = accepted[n]
    BY <1>a, <2>2, <2>3, AppendProperties
  <2>5. sent[Len(accepted) + 1] = [v |-> sV, a |-> sA] /\ Len(sent) = Len(accepted) + 1
    BY <1>a, <2>1 DEF CallInv
  <2> QED
    BY <1>a, <2>1, <2>2, <2>4, <2>5 DEF CallInv
<1>5. CASE CbInside \/ CbReturn
  <2>1. outPc # "idle" /\ Offered = 0 /\ Offered' = 0 /\ UNCHANGED <<sent, accepted>>
    BY <1>5 DEF CbInside, CbReturn, FrameConsumed, C!PushV, C!PushA, C!RaiseEvent,
          C!OutputFramesReturn, Offered
  <2>2. outPc' # "idle" => sPc' = "cb"
    BY <1>5, <1>a, <2>1 DEF CbInside, CbReturn, FrameConsumed, C!PushV, C!PushA,
          C!RaiseEvent, C!OutputFramesReturn, CallInv
  <2> QED
    BY <1>a, <2>1, <2>2 DEF CallInv
<1>6. CASE CbRetry
  BY <1>6, <1>b DEF CbRetry, C!OutputFramesFull
<1>7. CASE SendNDIThread
  <2>1. UNCHANGED betweenVars
    BY <1>7 DEF SendNDIThread, C!SendThread, C!TestExit, C!WaitEvent, C!WaitTimeout,
          C!SendAudio, C!SendVideo, C!SentToNDIReturn
  <2> QED BY <1>b, <2>1
<1>8. CASE Start
  <2>1. sPc # "cb" /\ sPc' # "cb" /\ UNCHANGED <<sent, outPc, accepted>>
    BY <1>8, <1>a DEF Start, StartCapture, ThreadInv
  <2> QED
    BY <1>a, <2>1 DEF CallInv, Offered
<1>9. CASE MainThread /\ ~Start
  <2>1. UNCHANGED betweenVars
    BY <1>9 DEF MainThread, InitProvider, InitProviderEnd, InitSkipped, InitConsumer,
          StopConsumer, StopProvider, DeleteConsumer, DeleteConsumerEnd, DeleteProvider,
          DeleteProviderEnd, Joins, AddChannel, AddChannelFails, AddChannelDone,
          RemoveChannel, Destructor, CloseChannel, CloseSteps, JoinReader, JoinSender,
          CloseChannelEnd, DestructorEnd, CloseVideoFile,
          C!AddChannel, C!AddChannelFails, C!StopChannelCall, C!StopChannel, C!Destructor,
          C!DestructorEnd, C!StopChannelJoin
  <2> QED BY <1>b, <2>1
<1>10. CASE Getchar \/ Exited \/ UNCHANGED channelVars
  BY <1>10, <1>b DEF Getchar, Exited, channelVars
<1> QED
  BY <1>1, <1>2, <1>3, <1>4, <1>5, <1>6, <1>7, <1>8, <1>9, <1>10
     DEF ChannelNext, Keep, SendFrames

(* The types: those of the two parts, and where main() is.                 *)
LEMMA StepChannelTypes ==
    ChannelTypeOK /\ TypeOK' /\ C!TypeOK' /\ [ChannelNext]_channelVars => ChannelTypeOK'
<1> SUFFICES ASSUME ChannelTypeOK, TypeOK', C!TypeOK', [ChannelNext]_channelVars
             PROVE  ChannelTypeOK'
  OBVIOUS
<1>1. UNCHANGED around
  BY DEF ChannelNext, Keep, channelVars
<1> DEFINE Mains == {"provider", "consumer", "start", "getchar", "stop", "remove",
                     "delConsumer", "inDelConsumer", "delProvider", "inDelProvider",
                     "exited"}
<1>2. mainPc \in Mains
  BY DEF ChannelTypeOK
<1>3. ASSUME ChannelReadThread \/ SendFrames \/ SendNDIThread PROVE mainPc' \in Mains
  BY <1>2, <1>3 DEF ChannelReadThread, ChannelReaderLock, SendFrames, CbOutputFrames, CbRetry,
                    CbInside, CbReturn, SendNDIThread
<1>4. ASSUME MainThread PROVE mainPc' \in Mains
  BY <1>2, <1>4 DEF MainThread, InitProvider, InitProviderEnd, InitSkipped, InitConsumer,
              Start, StopConsumer, StopProvider, DeleteConsumer, DeleteConsumerEnd,
              DeleteProvider, DeleteProviderEnd, Joins
<1>5. ASSUME Getchar \/ Exited \/ UNCHANGED channelVars PROVE mainPc' \in Mains
  BY <1>2, <1>5 DEF Getchar, Exited, channelVars
<1>6. mainPc' \in Mains
  BY <1>3, <1>4, <1>5 DEF ChannelNext, Keep
<1> QED
  BY <1>1, <1>6 DEF ChannelTypeOK

(* Nothing is on its way at first.                                         *)
LEMMA InitChannel == ChannelInit => ChannelInv
<1> SUFFICES ASSUME ChannelInit PROVE ChannelInv
  OBVIOUS
<1>1. IInv /\ C!PairsInv
  BY InitInvariant, ConsumerInit DEF ChannelInit
<1>2. MainInv /\ LocalsInv
  BY DEF ChannelInit, Init, C!Init, MainInv, Deleting, LocalsInv
<1>3. CallInv
  BY EmptySeq DEF ChannelInit, Init, C!Init, CallInv, Offered
<1>4. ChannelTypeOK
  BY <1>1 DEF ChannelInit, ChannelTypeOK, IInv, C!PairsInv
<1> QED
  BY <1>1, <1>2, <1>3, <1>4 DEF ChannelInv

(* Every step of the channel keeps the invariant.                          *)
LEMMA StepChannel == ChannelInv /\ [ChannelNext]_channelVars => ChannelInv'
<1> SUFFICES ASSUME ChannelInv, [ChannelNext]_channelVars PROVE ChannelInv'
  OBVIOUS
<1>1. [Next]_vars /\ ConsumerStep
  BY ChannelDrivesProvider, ChannelDrivesConsumer DEF ChannelInv
<1>2. IInv' /\ C!PairsInv'
  BY <1>1, StepInvariant, ConsumerPairs DEF ChannelInv
<1>3. ChannelTypeOK'
  BY <1>2, StepChannelTypes DEF ChannelInv, IInv, C!PairsInv
<1> QED
  BY <1>1, <1>2, <1>3, StepMain, StepCall, StepLocals DEF ChannelInv

(* In every reachable state of the channel each pair is in one place, in   *)
(* order, from buildFrame to NDI; the callback is the only way from one    *)
(* queue to the other; and main() deletes an object only when the threads  *)
(* that use it have ended.  This holds of both builds.                     *)
THEOREM ChannelInvariance == ChannelSafety => []ChannelInv
<1> QED
  BY InitChannel, StepChannel, PTL DEF ChannelSafety

(* Whatever holds of a provider on its own holds inside a channel.         *)
THEOREM ProviderInChannel == ChannelSafety => Safety
<1>1. ChannelInit => Init
  BY DEF ChannelInit
<1>2. ChannelInv /\ [ChannelNext]_channelVars => [Next]_vars
  BY ChannelDrivesProvider DEF ChannelInv
<1> QED
  BY <1>1, <1>2, ChannelInvariance, PTL DEF ChannelSafety, Safety

(* A semaphore that starts at 0 agrees with empty lists.                   *)
LEMMA ConsumerInitEvents == SemInitial = {0} /\ C!Init => C!EventCounts
  BY EmptySeq DEF C!Init, C!EventCounts, C!TakenEvent, C!PendingEvent

(* Each count of the semaphore is raised for a pair and taken with it.     *)
LEMMA ConsumerEvents == C!IInv /\ ConsumerStep => C!EventCounts'
<1> SUFFICES ASSUME C!IInv, ConsumerStep PROVE C!EventCounts'
  OBVIOUS
<1>a. C!TypeOK /\ C!EventCounts /\ C!PairsInv
  BY DEF C!IInv, C!PairsInv
<1>b. Len(listA) \in Nat /\ sem \in Nat /\ C!TakenEvent \in Nat /\ C!PendingEvent \in Nat
  BY <1>a, LenProperties DEF C!TypeOK, C!TakenEvent, C!PendingEvent
<1>c. ASSUME UNCHANGED outPc PROVE UNCHANGED C!PendingEvent
  BY <1>c DEF C!PendingEvent
<1>d. ASSUME UNCHANGED sendPc PROVE UNCHANGED C!TakenEvent
  BY <1>d DEF C!TakenEvent
<1> USE DEF C!callVars, C!threadVars, C!lifeVars, C!lists
<1>1. ASSUME NEW x \in Id, NEW y \in Id, C!OutputFrames(x, y) PROVE C!EventCounts'
  <2>1. C!PendingEvent = 0 /\ C!PendingEvent' = 0 /\ UNCHANGED <<listA, sem, sendPc>>
    BY <1>1 DEF C!OutputFrames, C!PendingEvent
  <2> QED
    BY <1>a, <1>d, <2>1 DEF C!EventCounts
<1>2. CASE C!PushV \/ C!OutputFramesReturn
  <2>1. C!PendingEvent = 0 /\ C!PendingEvent' = 0 /\ UNCHANGED <<listA, sem, sendPc>>
    BY <1>2 DEF C!PushV, C!OutputFramesReturn, C!PendingEvent
  <2> QED
    BY <1>a, <1>d, <2>1 DEF C!EventCounts
<1>3. CASE C!PushA
  <2>1. Len(listA') = Len(listA) + 1
    BY <1>3, <1>a, AppendProperties DEF C!PushA, C!TypeOK, C!Pair
  <2>2. C!PendingEvent = 0 /\ C!PendingEvent' = 1 /\ UNCHANGED <<sem, sendPc>>
    BY <1>3 DEF C!PushA, C!PendingEvent
  <2> QED
    BY <1>a, <1>b, <1>d, <2>1, <2>2 DEF C!EventCounts
<1>4. CASE C!RaiseEvent
  <2>1. /\ C!PendingEvent = 1 /\ C!PendingEvent' = 0 /\ sem' = sem + 1
        /\ UNCHANGED <<listA, sendPc>>
    BY <1>4 DEF C!RaiseEvent, C!PendingEvent
  <2> QED
    BY <1>a, <1>b, <1>d, <2>1 DEF C!EventCounts
<1>5. CASE C!WaitEvent
  <2>1. /\ C!TakenEvent = 0 /\ C!TakenEvent' = 1 /\ sem' = sem - 1
        /\ sendPc' = "audio" /\ UNCHANGED <<listA, outPc>>
    BY <1>5 DEF C!WaitEvent, C!TakenEvent
  <2> QED
    BY <1>a, <1>b, <1>c, <2>1 DEF C!EventCounts
<1>6. CASE C!SendAudio
  <2>1. C!TakenEvent = 1 /\ UNCHANGED <<sem, outPc>>
    BY <1>6 DEF C!SendAudio, C!TakenEvent
  <2>2. listA # <<>>
    BY <1>a, <1>b, <2>1, EmptySeq DEF C!EventCounts
  <2>3. Len(listA') = Len(listA) - 1
    BY <1>6, <1>a, <2>2, HeadTailProperties DEF C!SendAudio, C!TypeOK
  <2>4. C!TakenEvent' = 0 /\ sendPc' = "video"
    BY <1>6, <2>2 DEF C!SendAudio, C!TakenEvent
  <2> QED
    BY <1>a, <1>b, <1>c, <2>1, <2>3, <2>4 DEF C!EventCounts
<1>7. CASE C!SendVideo
  <2>1. listV # <<>>
    BY <1>7, <1>a, VideoWaits DEF C!SendVideo
  <2>2. /\ C!TakenEvent = 0 /\ C!TakenEvent' = 0 /\ sendPc' = "release"
        /\ UNCHANGED <<listA, sem, outPc>>
    BY <1>7, <2>1 DEF C!SendVideo, C!TakenEvent
  <2> QED
    BY <1>a, <1>c, <2>2 DEF C!EventCounts
<1>8. CASE C!TestExit \/ C!WaitTimeout \/ C!SentToNDIReturn \/ C!AddChannel
  <2>1. C!AddChannel => sendPc = "none"
    BY <1>a DEF C!PairsInv, C!Lifetime, C!AddChannel
  <2>2. /\ sendPc' # "crashed" /\ UNCHANGED C!TakenEvent
        /\ UNCHANGED <<listA, sem, outPc>>
    BY <1>8, <2>1 DEF C!TestExit, C!WaitTimeout, C!SentToNDIReturn, C!AddChannel, C!TakenEvent
  <2> QED
    BY <1>a, <1>c, <2>2 DEF C!EventCounts
<1>9. CASE C!StopChannelCall \/ C!StopChannelJoin \/ C!Destructor \/ C!DestructorEnd
           \/ UNCHANGED cVars
  <2>1. UNCHANGED <<listA, sem, outPc, sendPc>>
    BY <1>9 DEF C!StopChannelCall, C!StopChannelJoin, C!Destructor, C!DestructorEnd,
                C!StopChannel, cVars
  <2> QED
    BY <1>a, <1>c, <1>d, <2>1 DEF C!EventCounts
<1> QED
  BY <1>1, <1>2, <1>3, <1>4, <1>5, <1>6, <1>7, <1>8, <1>9
     DEF ConsumerStep, C!CallerStep, C!SendThread

(* sentToNDI finds a frame in both lists whenever waitEvent has succeeded, *)
(* whatever main() and the provider do meanwhile.                          *)
THEOREM ChannelNeverNull ==
    ASSUME SemInitial = {0} PROVE ChannelSafety => []C!NoNullFrame
<1>1. ChannelInit => C!EventCounts
  BY ConsumerInitEvents DEF ChannelInit
<1>2. ChannelInv /\ C!EventCounts /\ [ChannelNext]_channelVars => C!EventCounts'
  BY ChannelDrivesConsumer, ConsumerEvents DEF ChannelInv, C!IInv
<1>3. C!EventCounts => C!NoNullFrame
  BY DEF C!EventCounts, C!NoNullFrame
<1> QED
  BY <1>1, <1>2, <1>3, ChannelInvariance, PTL DEF ChannelSafety

(* Once the consumer of a channel has been stopped nothing is handed to    *)
(* NDI any more, although the provider goes on calling it.                 *)
THEOREM ChannelStopIsQuiet == ChannelSafety => C!QuietAfterStop
<1>1. ChannelInv /\ [ChannelNext]_channelVars => [C!Stopped => UNCHANGED <<airedV, airedA>>]_(C!vars)
  <2> SUFFICES ASSUME ChannelInv, [ChannelNext]_channelVars, C!Stopped
               PROVE  UNCHANGED <<airedV, airedA>>
    OBVIOUS
  <2>1. ConsumerStep /\ C!PairsInv
    BY ChannelDrivesConsumer DEF ChannelInv
  <2>2. ~C!SendAudio /\ ~C!SendVideo
    BY <2>1 DEF C!PairsInv, C!Lifetime, C!Stopped, C!SendAudio, C!SendVideo
  <2> USE DEF C!callVars, C!threadVars, C!lifeVars, C!lists
  <2>3. ASSUME NEW x \in Id, NEW y \in Id, C!OutputFrames(x, y)
        PROVE  UNCHANGED <<airedV, airedA>>
    BY <2>3 DEF C!OutputFrames
  <2>4. CASE C!CallerStep
    BY <2>4 DEF C!CallerStep, C!PushV, C!PushA, C!RaiseEvent, C!OutputFramesReturn
  <2>5. CASE C!SendThread
    BY <2>2, <2>5 DEF C!SendThread, C!TestExit, C!WaitEvent, C!WaitTimeout, C!SentToNDIReturn
  <2>6. CASE C!AddChannel \/ C!StopChannelCall \/ C!StopChannelJoin
             \/ C!Destructor \/ C!DestructorEnd \/ UNCHANGED cVars
    BY <2>6 DEF C!AddChannel, C!StopChannelCall, C!StopChannelJoin, C!Destructor,
                C!DestructorEnd, C!StopChannel, cVars
  <2> QED
    BY <2>1, <2>3, <2>4, <2>5, <2>6 DEF ConsumerStep
<1> QED
  BY <1>1, ChannelInvariance, PTL DEF ChannelSafety, C!QuietAfterStop

(* No thread uses an object that ~Cnl has deleted.                         *)
THEOREM DeletedUnused == ChannelSafety => []NoUseAfterDelete
<1>1. ChannelInv => NoUseAfterDelete
  <2> SUFFICES ASSUME ChannelInv, cObject = "gone" \/ object = "gone" PROVE NoUseAfterDelete
    BY DEF NoUseAfterDelete
  <2>1. mainPc \in Deleting /\ ~rHandle /\ ~sHandle
    BY DEF ChannelInv, MainInv
  <2>2. rPc \in {"none", "done"} /\ sPc \in {"none", "done"}
    BY <2>1 DEF ChannelInv, IInv, ThreadInv
  <2>3. outPc = "idle"
    BY <2>2 DEF ChannelInv, CallInv
  <2>4. sendPc \in {"none", "done"}
    BY <2>1 DEF ChannelInv, MainInv, Deleting, C!PairsInv, C!TypeOK, C!Lifetime
  <2> QED
    BY <2>2, <2>3, <2>4 DEF NoUseAfterDelete
<1> QED
  BY <1>1, ChannelInvariance, PTL

-----------------------------------------------------------------------------
(* The pools.                                                              *)

(* A list refers to at most as many frames as it has entries.              *)
LEMMA ElementsBounded ==
    ASSUME NEW S, NEW s \in Seq(S)
    PROVE  /\ IsFiniteSet(Elements(s))
           /\ Cardinality(Elements(s)) \in Nat
           /\ Cardinality(Elements(s)) <= Len(s)
<1> DEFINE f == [i \in 1 .. Len(s) |-> s[i]]
<1>1. Len(s) \in Nat /\ DOMAIN s = 1 .. Len(s)
  BY LenProperties
<1>2. f \in Surjection(1 .. Len(s), Elements(s))
  BY <1>1 DEF Elements, Surjection
<1>3. IsFiniteSet(1 .. Len(s)) /\ Cardinality(1 .. Len(s)) = Len(s)
  BY <1>1, FS_Interval
<1>4. IsFiniteSet(Elements(s)) /\ Cardinality(Elements(s)) <= Len(s)
  BY <1>2, <1>3, FS_Surjection
<1> QED
  BY <1>4, FS_CardinalityType

(* What two lists and one more reference can keep out of a pool ...        *)
LEMMA InUseOne ==
    ASSUME NEW S, NEW q \in Seq(S), NEW l \in Seq(S), NEW x,
           NEW T, T \subseteq Elements(q) \cup Elements(l) \cup {x}
    PROVE  /\ IsFiniteSet(T)
           /\ Cardinality(T) \in Nat
           /\ Cardinality(T) <= Len(q) + Len(l) + 1
<1> DEFINE E == Elements(q) \cup Elements(l)
<1>1. Len(q) \in Nat /\ Len(l) \in Nat
  BY LenProperties
<1>2. IsFiniteSet(E) /\ Cardinality(E) <= Len(q) + Len(l) /\ Cardinality(E) \in Nat
  <2>1. /\ IsFiniteSet(Elements(q)) /\ IsFiniteSet(Elements(l))
        /\ Cardinality(Elements(q)) \in Nat /\ Cardinality(Elements(q)) <= Len(q)
        /\ Cardinality(Elements(l)) \in Nat /\ Cardinality(Elements(l)) <= Len(l)
    BY ElementsBounded
  <2>2. /\ IsFiniteSet(Elements(q) \cap Elements(l))
        /\ Cardinality(Elements(q) \cap Elements(l)) \in Nat
    BY <2>1, FS_Intersection, FS_CardinalityType
  <2>3. /\ IsFiniteSet(E)
        /\ Cardinality(E) = Cardinality(Elements(q)) + Cardinality(Elements(l))
                            - Cardinality(Elements(q) \cap Elements(l))
    BY <2>1, FS_Union
  <2>4. Cardinality(E) \in Nat
    BY <2>3, FS_CardinalityType
  <2> QED
    BY <1>1, <2>1, <2>2, <2>3, <2>4
<1>a. T \subseteq E \cup {x}
  OBVIOUS
<1> HIDE DEF E
<1>3. IsFiniteSet(E \cup {x}) /\ Cardinality(E \cup {x}) <= Cardinality(E) + 1
  <2>1. /\ IsFiniteSet(E \cup {x})
        /\ Cardinality(E \cup {x}) = IF x \in E THEN Cardinality(E) ELSE Cardinality(E) + 1
    BY <1>2, FS_AddElement, Zenon
  <2> QED
    BY <1>2, <2>1
<1>4. IsFiniteSet(T) /\ Cardinality(T) <= Cardinality(E \cup {x})
  BY <1>3, <1>a, FS_Subset
<1>5. Cardinality(T) \in Nat /\ Cardinality(E \cup {x}) \in Nat
  BY <1>3, <1>4, FS_CardinalityType
<1> QED
  BY <1>1, <1>2, <1>3, <1>4, <1>5

(* ... and with two more references.                                       *)
LEMMA InUseTwo ==
    ASSUME NEW S, NEW q \in Seq(S), NEW l \in Seq(S), NEW x, NEW y,
           NEW T, T \subseteq Elements(q) \cup Elements(l) \cup {x, y}
    PROVE  /\ IsFiniteSet(T)
           /\ Cardinality(T) \in Nat
           /\ Cardinality(T) <= Len(q) + Len(l) + 2
<1> DEFINE E == Elements(q) \cup Elements(l) \cup {x}
<1>1. Len(q) \in Nat /\ Len(l) \in Nat
  BY LenProperties
<1>2. IsFiniteSet(E) /\ Cardinality(E) \in Nat /\ Cardinality(E) <= Len(q) + Len(l) + 1
  BY InUseOne
<1>3. T \subseteq E \cup {y}
  OBVIOUS
<1> HIDE DEF E
<1>4. IsFiniteSet(E \cup {y}) /\ Cardinality(E \cup {y}) <= Cardinality(E) + 1
  <2>1. /\ IsFiniteSet(E \cup {y})
        /\ Cardinality(E \cup {y}) = IF y \in E THEN Cardinality(E) ELSE Cardinality(E) + 1
    BY <1>2, FS_AddElement, Zenon
  <2> QED
    BY <1>2, <2>1
<1>5. IsFiniteSet(T) /\ Cardinality(T) <= Cardinality(E \cup {y})
  BY <1>3, <1>4, FS_Subset
<1>6. Cardinality(T) \in Nat /\ Cardinality(E \cup {y}) \in Nat
  BY <1>4, <1>5, FS_CardinalityType
<1> QED
  BY <1>1, <1>2, <1>4, <1>5, <1>6

(* While readThread builds, the frames in the queues and in the hands of   *)
(* SendOneVideoFrm are few: the two queues differ by the audio frame that  *)
(* a pop has not taken yet, and that one is in its hands as well.          *)
LEMMA QueuesWhileBuilding ==
    ASSUME IInv, rPc = "build"
    PROVE  /\ Len(qV) + InHand <= QueueLimit
           /\ Len(qV) < QueueLimit \/ sPc = "popV"
           /\ Len(qA) = Len(qV) + InHand - TakenA
           /\ sPc = "popV" => sV = Null /\ sA = Null
           /\ sPc = "popA" => sA \in Elements(qA) /\ InHand = 1 /\ TakenA = 0
           /\ sPc # "popA" => TakenA = InHand
<1>1. /\ Len(built) \in Nat /\ Len(sent) \in Nat /\ Len(qV) \in Nat /\ Len(qA) \in Nat
      /\ InHand \in 0 .. 1 /\ TakenA \in 0 .. 1 /\ QueueLimit \in Nat
  BY Lengths, ProviderAssumption DEF IInv
<1>2. ToPushV = 0 /\ ToPushA = 0 /\ (sPc = "popV" => InHand = 0)
  BY DEF ToPushV, ToPushA, InHand
<1>3. Len(qV) <= QueueLimit /\ (Len(qV) < QueueLimit \/ sPc = "popV")
  BY DEF IInv, RoomInv
<1>4. Len(qA) = Len(qV) + InHand - TakenA
  BY <1>1, <1>2 DEF IInv, VideoInv, AudioInv
<1>5. sPc = "popV" => sV = Null /\ sA = Null
  BY DEF IInv, HandInv
<1>6. ASSUME sPc = "popA" PROVE sA \in Elements(qA) /\ InHand = 1 /\ TakenA = 0
  <2>1. InHand = 1 /\ TakenA = 0
    BY <1>6 DEF IInv, HandInv, InHand, TakenA
  <2>2. 1 \in 1 .. Len(qA) /\ DOMAIN qA = 1 .. Len(qA)
    BY <1>1, <1>4, <2>1, LenProperties DEF IInv, TypeOK
  <2>3. qA[1] = built[Len(sent) + TakenA + 1].a
    BY <2>2 DEF IInv, AudioInv
  <2>4. built[Len(sent) + 1] = [v |-> sV, a |-> sA]
    BY <2>1 DEF IInv, SentInv
  <2>5. qA[1] = sA
    BY <1>1, <2>1, <2>3, <2>4
  <2> QED
    BY <2>1, <2>2, <2>5 DEF Elements
<1>7. sPc # "popA" => TakenA = InHand
  BY DEF TakenA
<1> QED
  BY <1>1, <1>2, <1>3, <1>4, <1>5, <1>6, <1>7

(* The two lists of the consumer.                                          *)
LEMMA ListsBounded ==
    ASSUME C!PairsInv
    PROVE  /\ listV \in Seq(Id) /\ listA \in Seq(Id)
           /\ Len(listV) \in Nat /\ Len(listA) \in Nat /\ FrameBufferSize \in Nat
           /\ Len(listV) <= FrameBufferSize + 1
           /\ Len(listA) <= FrameBufferSize + 1
<1>1. /\ Len(listV) \in Nat /\ Len(listA) \in Nat /\ Len(accepted) \in Nat
      /\ Len(airedV) \in Nat /\ Len(airedA) \in Nat /\ FrameBufferSize \in Nat
  BY LenProperties, ChannelAssumption DEF C!PairsInv, C!TypeOK, C!ConsumerAssumption
<1>2. C!PendingV \in Nat /\ C!PendingA \in Nat /\ C!HalfSent \in Nat
  BY DEF C!PendingV, C!PendingA, C!HalfSent
<1> QED
  BY <1>1, <1>2 DEF C!PairsInv, C!TypeOK, C!ListCounts

(* A share of the pools as large as what the queues, the lists and the two *)
(* threads can refer to, and one more, never runs dry.                     *)
THEOREM ShareSuffices == ChannelSafety => []PoolSuffices
<1>1. ChannelInv => PoolSuffices
  <2> SUFFICES ASSUME ChannelInv, rPc = "build",
                      around.pool >= QueueLimit + FrameBufferSize + 3
               PROVE  PoolsHaveFrames
    BY DEF PoolSuffices
  <2>a. around.pool \in Nat
    BY ChannelAssumption DEF ChannelInv, ChannelTypeOK
  <2>1. IInv /\ C!PairsInv /\ rV = Null /\ rA = Null
    BY DEF ChannelInv, LocalsInv
  <2>2. /\ qV \in Seq(Id) /\ qA \in Seq(Id) /\ Len(qV) \in Nat /\ Len(qA) \in Nat
        /\ InHand \in 0 .. 1 /\ QueueLimit \in Nat
    BY <2>1, Lengths, ProviderAssumption DEF IInv, TypeOK
  <2>3. /\ Len(qV) + InHand <= QueueLimit
        /\ Len(qV) < QueueLimit \/ sPc = "popV"
        /\ Len(qA) = Len(qV) + InHand - TakenA
        /\ sPc = "popV" => sV = Null /\ sA = Null
        /\ sPc = "popA" => sA \in Elements(qA) /\ InHand = 1 /\ TakenA = 0
        /\ sPc # "popA" => TakenA = InHand
    BY <2>1, QueuesWhileBuilding
  <2>4. /\ listV \in Seq(Id) /\ listA \in Seq(Id)
        /\ Len(listV) \in Nat /\ Len(listA) \in Nat /\ FrameBufferSize \in Nat
        /\ Len(listV) <= FrameBufferSize + 1 /\ Len(listA) <= FrameBufferSize + 1
    BY <2>1, ListsBounded
  <2>5. Cardinality(VideoInUse) < around.pool
    <3>1. CASE sPc = "popV"
      <4>1. VideoInUse \subseteq Elements(qV) \cup Elements(listV) \cup {pVideo}
        BY <2>1, <2>3, <3>1 DEF VideoInUse
      <4>2. /\ Cardinality(VideoInUse) \in Nat
            /\ Cardinality(VideoInUse) <= Len(qV) + Len(listV) + 1
        BY <2>2, <2>4, <4>1, InUseOne
      <4> QED
        BY <2>a, <2>2, <2>3, <2>4, <4>2
    <3>2. CASE sPc # "popV"
      <4>1. VideoInUse \subseteq Elements(qV) \cup Elements(listV) \cup {sV, pVideo}
        BY <2>1 DEF VideoInUse
      <4>2. /\ Cardinality(VideoInUse) \in Nat
            /\ Cardinality(VideoInUse) <= Len(qV) + Len(listV) + 2
        BY <2>2, <2>4, <4>1, InUseTwo
      <4> QED
        BY <2>a, <2>2, <2>3, <2>4, <3>2, <4>2
    <3> QED
      BY <3>1, <3>2
  <2>6. Cardinality(AudioInUse) < around.pool
    <3>1. CASE sPc \in {"popV", "popA"}
      <4>1. AudioInUse \subseteq Elements(qA) \cup Elements(listA) \cup {pAudio}
        BY <2>1, <2>3, <3>1 DEF AudioInUse
      <4>2. /\ Cardinality(AudioInUse) \in Nat
            /\ Cardinality(AudioInUse) <= Len(qA) + Len(listA) + 1
        BY <2>2, <2>4, <4>1, InUseOne
      <4>3. Len(qA) <= QueueLimit
        BY <2>2, <2>3, <3>1
      <4> QED
        BY <2>a, <2>2, <2>4, <4>2, <4>3
    <3>2. CASE sPc \notin {"popV", "popA"}
      <4>1. AudioInUse \subseteq Elements(qA) \cup Elements(listA) \cup {sA, pAudio}
        BY <2>1 DEF AudioInUse
      <4>2. /\ Cardinality(AudioInUse) \in Nat
            /\ Cardinality(AudioInUse) <= Len(qA) + Len(listA) + 2
        BY <2>2, <2>4, <4>1, InUseTwo
      <4>3. Len(qA) < QueueLimit
        BY <2>2, <2>3, <3>2
      <4> QED
        BY <2>a, <2>2, <2>4, <4>2, <4>3
    <3> QED
      BY <3>1, <3>2
  <2> QED
    BY <2>5, <2>6 DEF PoolsHaveFrames
<1> QED
  BY <1>1, ChannelInvariance, PTL

-----------------------------------------------------------------------------
(* From buildFrame to NDI the channel is a FramePipe.                      *)

(* What NDI has received are the first pairs that were built, and while    *)
(* readThread builds there is room for one more.                           *)
EndToEnd ==
    /\ AiredFacts
    /\ Len(built) \in Nat /\ Len(airedV) <= Len(built)
    /\ \A i \in 1 .. Len(airedV) : C!AiredPairs[i] = built[i]
    /\ rPc = "build" => Len(built) - Len(airedV) < QueueLimit + FrameBufferSize + 2

(* The lists, the call and the queues in a row.                            *)
LEMMA WhatIsInside == ChannelInv => EndToEnd
<1> SUFFICES ASSUME ChannelInv PROVE EndToEnd
  OBVIOUS
<1>1. /\ Len(built) \in Nat /\ Len(sent) \in Nat /\ Len(qV) \in Nat
      /\ InHand \in 0 .. 1 /\ ToPushV \in 0 .. 1
      /\ QueueLimit \in Nat
  BY Lengths, ProviderAssumption DEF ChannelInv, IInv
<1>2. AiredFacts
  BY AiredArePairs DEF ChannelInv
<1>3. Len(sent) = Len(accepted) + Offered /\ Offered \in 0 .. 1
  BY DEF ChannelInv, CallInv, Offered
<1>4. Len(built) = Len(sent) + InHand + Len(qV) + ToPushV
  BY DEF ChannelInv, IInv, VideoInv
<1>5. Len(airedV) <= Len(built)
  BY <1>1, <1>2, <1>3, <1>4 DEF AiredFacts
<1>6. ASSUME NEW i \in 1 .. Len(airedV) PROVE C!AiredPairs[i] = built[i]
  <2>1. i \in 1 .. Len(accepted) /\ i \in 1 .. Len(sent)
    BY <1>1, <1>2, <1>3 DEF AiredFacts
  <2> QED
    BY <1>2, <2>1 DEF AiredFacts, ChannelInv, CallInv, IInv, SentInv
<1>7. ASSUME rPc = "build"
      PROVE  Len(built) - Len(airedV) < QueueLimit + FrameBufferSize + 2
  <2>1. ToPushV = 0 /\ InHand + Offered <= 1 /\ (sPc = "popV" => InHand + Offered = 0)
    BY <1>7 DEF ToPushV, InHand, Offered
  <2>2. Len(qV) <= QueueLimit /\ (Len(qV) < QueueLimit \/ sPc = "popV")
    BY <1>7 DEF ChannelInv, IInv, RoomInv
  <2>3. Len(qV) + InHand + Offered <= QueueLimit
    BY <1>1, <1>3, <2>1, <2>2
  <2>4. /\ Len(accepted) = Len(airedV) + Len(listV) + C!PendingV
        /\ Len(listV) + C!PendingV <= FrameBufferSize + 1
    BY DEF ChannelInv, C!PairsInv, C!ListCounts
  <2>5. C!PendingV \in 0 .. 1 /\ Len(listV) \in Nat /\ FrameBufferSize \in Nat
    BY ListsBounded DEF ChannelInv, C!PendingV
  <2> QED
    BY <1>1, <1>2, <1>3, <1>4, <2>1, <2>3, <2>4, <2>5 DEF AiredFacts
<1> QED
  BY <1>1, <1>2, <1>5, <1>6, <1>7 DEF EndToEnd

(* Initially nothing is inside.                                            *)
LEMMA InitChannelPipe == ChannelInit => ChannelPipe!Init
<1> SUFFICES ASSUME ChannelInit PROVE ChannelPipe!Init
  OBVIOUS
<1>1. C!AiredPairs = <<>>
  BY EmptySeq DEF ChannelInit, C!Init, C!AiredPairs
<1>2. (sHandle /\ sendInst = "live" /\ ~bExit) \in BOOLEAN
  OBVIOUS
<1> QED
  BY <1>1, <1>2 DEF ChannelInit, Init, ChannelPipe!Init

(* The pair that sentToNDI completes is the next one that was built.       *)
LEMMA SendVideoDelivers ==
    ChannelInv /\ ChannelInv' /\ SendNDIThread /\ C!SendVideo => ChannelPipe!Deliver
<1> SUFFICES ASSUME ChannelInv, ChannelInv', SendNDIThread, C!SendVideo
             PROVE  ChannelPipe!Deliver
  OBVIOUS
<1>a. EndToEnd /\ EndToEnd'
  <2>1. (ChannelInv => EndToEnd)'
    BY WhatIsInside, PTL
  <2> QED
    BY <2>1, WhatIsInside
<1>1. UNCHANGED <<built, sHandle, sendInst, bExit>>
  BY DEF SendNDIThread, C!SendVideo, C!lifeVars, vars, readerVars, ownerVars
<1>2. Len(airedV') = Len(airedV) + 1
  <2>1. listV # <<>>
    BY VideoWaits DEF ChannelInv, C!SendVideo
  <2> QED
    BY <2>1, HeadTailProperties, AppendProperties
       DEF ChannelInv, C!PairsInv, C!TypeOK, C!SendVideo
<1> DEFINE n == Len(airedV) + 1
           x == built[n]
<1>3. n \in 1 .. Len(built) /\ Len(C!AiredPairs) = Len(airedV) /\ Len(airedV) \in Nat
  BY <1>a, <1>1, <1>2 DEF EndToEnd, AiredFacts
<1>4. x \in C!Pair
  BY <1>3, ElementOfSeq DEF ChannelInv, IInv, TypeOK, Pair, C!Pair
<1>5. C!AiredPairs' = Append(C!AiredPairs, x)
  <2>1. /\ Append(C!AiredPairs, x) \in Seq(C!Pair)
        /\ Len(Append(C!AiredPairs, x)) = n
        /\ C!AiredPairs' \in Seq(C!Pair) /\ Len(C!AiredPairs') = n
    BY <1>a, <1>2, <1>4, AppendProperties DEF EndToEnd, AiredFacts, C!Pair
  <2>2. ASSUME NEW i \in 1 .. n PROVE C!AiredPairs'[i] = Append(C!AiredPairs, x)[i]
    <3>1. C!AiredPairs'[i] = built[i]
      BY <1>a, <1>1, <1>2 DEF EndToEnd
    <3>2. CASE i = n
      BY <1>a, <1>3, <1>4, <3>1, <3>2, AppendProperties DEF EndToEnd, AiredFacts
    <3>3. CASE i # n
      <4>1. i \in 1 .. Len(airedV)
        BY <1>3, <3>3
      <4> QED
        BY <1>a, <1>3, <1>4, <3>1, <4>1, AppendProperties DEF EndToEnd, AiredFacts
    <3> QED
      BY <3>2, <3>3
  <2> QED
    BY <2>1, <2>2, SeqEqual
<1> QED
  BY <1>1, <1>3, <1>5 DEF ChannelPipe!Deliver, ChannelPipe!Inside

(* A step that neither builds a pair nor completes one leaves what is      *)
(* inside alone; it may start or stop a thread.                            *)
LEMMA NothingMoves ==
    ChannelInv /\ ChannelInv' /\ UNCHANGED <<built, airedV>>
        => [ChannelPipe!Next]_(ChannelPipe!vars)
<1> SUFFICES ASSUME ChannelInv, ChannelInv', UNCHANGED <<built, airedV>>
             PROVE  [ChannelPipe!Next]_(ChannelPipe!vars)
  OBVIOUS
<1> DEFINE running == sHandle /\ sendInst = "live" /\ ~bExit
<1>1. EndToEnd /\ EndToEnd'
  <2>1. (ChannelInv => EndToEnd)'
    BY WhatIsInside, PTL
  <2> QED
    BY <2>1, WhatIsInside
<1>2. UNCHANGED C!AiredPairs
  <2>1. /\ C!AiredPairs \in Seq(C!Pair) /\ C!AiredPairs' \in Seq(C!Pair)
        /\ Len(C!AiredPairs') = Len(C!AiredPairs)
        /\ \A i \in 1 .. Len(C!AiredPairs) : C!AiredPairs'[i] = C!AiredPairs[i]
    BY <1>1 DEF EndToEnd, AiredFacts, C!Pair
  <2> QED
    BY <2>1, SeqEqual
<1>3. CASE running' = running
  BY <1>2, <1>3 DEF ChannelPipe!vars
<1>4. CASE running' = ~running
  BY <1>2, <1>4 DEF ChannelPipe!Next, ChannelPipe!StartOrStop
<1> QED
  BY <1>3, <1>4

(* buildFrame accepts, sentToNDI delivers.                                 *)
LEMMA StepChannelPipe ==
    ChannelInv /\ ChannelInv' /\ [ChannelNext]_channelVars
        => [ChannelPipe!Next]_(ChannelPipe!vars)
<1> SUFFICES ASSUME ChannelInv, ChannelInv', [ChannelNext]_channelVars
             PROVE  [ChannelPipe!Next]_(ChannelPipe!vars)
  OBVIOUS
<1>a. ASSUME UNCHANGED <<built, airedV>> PROVE [ChannelPipe!Next]_(ChannelPipe!vars)
  BY <1>a, NothingMoves
<1> USE DEF queues, readerVars, senderVars, ownerVars, vars,
            C!lists, C!callVars, C!threadVars, C!lifeVars, C!vars, cVars
<1>1. CASE BuildFrame /\ UNCHANGED cVars
  <2>1. EndToEnd /\ rPc = "build"
    BY <1>1, WhatIsInside DEF BuildFrame
  <2>2. [v |-> times, a |-> times] \in Pair /\ built' = Append(built, [v |-> times, a |-> times])
    BY <1>1 DEF BuildFrame, ChannelInv, IInv, TypeOK, Pair
  <2>3. UNCHANGED <<airedV, airedA, sHandle, sendInst, bExit>>
    BY <1>1 DEF BuildFrame
  <2>4. UNCHANGED C!AiredPairs
    BY <2>3 DEF C!AiredPairs
  <2>5. Len(built) - Len(C!AiredPairs) < QueueLimit + FrameBufferSize + 2
    BY <2>1 DEF EndToEnd, AiredFacts
  <2>6. ChannelPipe!Accept
    BY <2>2, <2>3, <2>4, <2>5 DEF ChannelPipe!Accept, ChannelPipe!Inside
  <2> QED
    BY <2>6 DEF ChannelPipe!Next
<1>2. CASE ChannelReadThread /\ ~(BuildFrame /\ UNCHANGED cVars)
  BY <1>2, <1>a DEF ChannelReadThread, ReaderOther, ReaderBuild, ChannelReaderLock,
        ReaderTest, BuildNotReady, BuildNoFrame, BuildReadFails, ReaderLock,
        ReaderPushV, ReaderPushA, ReaderUnlock, ReaderRelease
<1>3. CASE SendNDIThread /\ C!SendVideo
  BY <1>3, SendVideoDelivers DEF ChannelPipe!Next
<1>4. CASE SendNDIThread /\ ~C!SendVideo
  BY <1>4, <1>a DEF SendNDIThread, C!SendThread, C!TestExit, C!WaitEvent, C!WaitTimeout,
        C!SendAudio, C!SentToNDIReturn
<1>5. CASE SendFrames
  <2>1. UNCHANGED <<built, airedV>>
    BY <1>5 DEF SendFrames, SendLoop, SenderTest, SenderLock, SenderPopV, SenderPopA,
          SenderUnlock, SenderDeliver, SenderNothing, FrameConsumed, SenderRelease,
          CbOutputFrames, CbRetry, CbInside, CbReturn, C!OutputFrames, C!OutputFramesFull,
          C!PushV, C!PushA, C!RaiseEvent, C!OutputFramesReturn
  <2> QED
    BY <1>a, <2>1
<1>6. CASE MainThread
  <2>1. UNCHANGED <<built, airedV>>
    BY <1>6 DEF MainThread, InitProvider, InitProviderEnd, InitSkipped, InitConsumer, Start,
          StopConsumer, StopProvider, DeleteConsumer, DeleteConsumerEnd, DeleteProvider,
          DeleteProviderEnd, Joins, AddChannel, AddChannelFails, AddChannelDone,
          StartCapture, RemoveChannel, Destructor, CloseChannel, CloseSteps, JoinReader,
          JoinSender, CloseChannelEnd, DestructorEnd, CloseVideoFile,
          C!AddChannel, C!AddChannelFails, C!StopChannelCall, C!StopChannel, C!Destructor,
          C!DestructorEnd, C!StopChannelJoin
  <2> QED
    BY <1>a, <2>1
<1>7. CASE Getchar \/ Exited \/ UNCHANGED channelVars
  BY <1>7, <1>a DEF Getchar, Exited, channelVars
<1> QED
  BY <1>1, <1>2, <1>3, <1>4, <1>5, <1>6, <1>7 DEF ChannelNext, Keep

(* The safety part of ChannelImplementsPipe: NDI receives the pairs that   *)
(* buildFrame made, each with its own partner, in that order and without a *)
(* gap, and at most the queue's limit, the lists and the pair in           *)
(* SendOneVideoFrm's hands wait between the two ends.                      *)
THEOREM ChannelPipeSafety == ChannelSafety => ChannelPipe!Safety
<1> QED
  BY InitChannelPipe, StepChannelPipe, ChannelInvariance, PTL
     DEF ChannelSafety, ChannelPipe!Safety
=============================================================================
