------------------------ MODULE FrameProviderYuvFile ------------------------
(***************************************************************************)
(* One CFrameProviderYuvFile object: readThread builds numbered pairs of   *)
(* frames from the video and audio files into two queues under m_locker,   *)
(* SendOneVideoFrm takes a pair out and gives it to the callback, and the  *)
(* owner opens, starts and closes the channel.                             *)
(*                                                                         *)
(* The queues' size() is read by readThread without the lock; only the     *)
(* accesses between lock and unlock exclude each other.                    *)
(***************************************************************************)
EXTENDS Integers, Sequences

CONSTANTS
    QueueLimit,     \* the 15 of readThread
    Null,           \* a null pVFrame / pAframe
    MaxBuilds       \* bound: pairs built in a behaviour

ASSUME ProviderAssumption ==
    /\ QueueLimit \in Nat
    /\ MaxBuilds \in Nat
    /\ Null \notin Nat

VARIABLES
    qV,         \* m_queueFrame
    qA,         \* m_queueAudio
    lock,       \* who holds m_locker
    times,      \* m_dwTimes
    consumed,   \* m_frameConsumed
    bStop,      \* m_bStop
    initDone,   \* m_initDone
    cbSet,      \* m_pGetFrameCB # nullptr
    fpVideo,    \* m_fpVideo: null, or it points to the file ("set")
    closes,     \* fclose calls on the file that was opened
    rHandle,    \* m_threadReadCallBack.valid()
    sHandle,    \* m_threadSendFrames.valid()
    rPc, rV, rA,    \* readThread and its locals pFrame, aFrame
    sPc, sV, sA,    \* SendOneVideoFrm and its locals _uncompFrame, _aFrame
    mPc,        \* where the owner is inside addChannel or closeChannel
    object,     \* the C++ object: "alive", "dtor" in the destructor, "gone"
    built,      \* history: pairs buildFrame returned, oldest first
    sent        \* history: pairs given to the callback, oldest first

queues     == <<qV, qA>>
readerVars == <<rPc, rV, rA, times, built>>
senderVars == <<sPc, sV, sA, consumed, sent>>
ownerVars  == <<bStop, initDone, cbSet, fpVideo, closes, rHandle, sHandle, mPc,
                object>>
vars == <<queues, lock, readerVars, senderVars, ownerVars>>

Id == 0 .. MaxBuilds
Pair == [v : Id, a : Id]

TypeOK ==
    /\ qV \in Seq(Id) /\ qA \in Seq(Id)
    /\ lock \in {"free", "reader", "sender"}
    /\ times \in Id
    /\ consumed \in Int
    /\ bStop \in BOOLEAN /\ initDone \in BOOLEAN /\ cbSet \in BOOLEAN
    /\ fpVideo \in {"null", "set"} /\ closes \in Nat
    /\ rHandle \in BOOLEAN /\ sHandle \in BOOLEAN
    /\ rPc \in {"none", "test", "build", "lock", "pushV", "pushA", "unlock",
                "release", "done"}
    /\ rV \in Id \cup {Null} /\ rA \in Id \cup {Null}
    /\ sPc \in {"none", "test", "lock", "popV", "popA", "unlock", "deliver",
                "cb", "sleep", "done"}
    /\ sV \in Id \cup {Null} /\ sA \in Id \cup {Null}
    /\ mPc \in {"idle", "started", "joinReader", "joinSender", "fclose"}
    /\ object \in {"alive", "dtor", "gone"}
    /\ built \in Seq(Pair) /\ sent \in Seq(Pair)

Init ==
    /\ qV = <<>> /\ qA = <<>>
    /\ lock = "free"
    /\ times = 0
    /\ consumed = 1
    /\ bStop = FALSE /\ initDone = FALSE /\ cbSet = FALSE
    /\ fpVideo = "null" /\ closes = 0
    /\ rHandle = FALSE /\ sHandle = FALSE
    /\ rPc = "none" /\ rV = Null /\ rA = Null
    /\ sPc = "none" /\ sV = Null /\ sA = Null
    /\ mPc = "idle" /\ object = "alive"
    /\ built = <<>> /\ sent = <<>>

-----------------------------------------------------------------------------
(* readThread.                                                             *)

\* The unlocked read of m_queueFrame.size(): while SendOneVideoFrm is inside
\* pop() it may return anything.
SizeSeen == IF sPc = "popV" THEN 0 .. QueueLimit ELSE {Len(qV)}

\* Mutant: <= instead of <.
ReaderTestOneMore ==
    /\ rPc = "test"
    /\ \E size \in SizeSeen :
          rPc' = CASE bStop -> "done"
                   [] ~bStop /\ size <= QueueLimit -> "build"
                   [] OTHER -> "test"
    /\ UNCHANGED <<queues, lock, rV, rA, times, built, senderVars, ownerVars>>

\* Mutant: m_bStop is tested only when the queue has room.
ReaderTestRoomFirst ==
    /\ rPc = "test"
    /\ \E size \in SizeSeen :
          rPc' = CASE size >= QueueLimit -> "test"
                   [] size < QueueLimit /\ bStop -> "done"
                   [] size < QueueLimit /\ ~bStop -> "build"
                   [] OTHER -> "test"
    /\ UNCHANGED <<queues, lock, rV, rA, times, built, senderVars, ownerVars>>

ReaderTest ==
    /\ rPc = "test"
    /\ \E size \in SizeSeen :
          rPc' = CASE bStop -> "done"
                   [] ~bStop /\ size < QueueLimit -> "build"
                   [] OTHER -> "test"
    /\ UNCHANGED <<queues, lock, rV, rA, times, built, senderVars, ownerVars>>

\* buildFrame before addChannel has set m_initDone: -1, try again.
BuildNotReady ==
    /\ rPc = "build" /\ ~initDone
    /\ rPc' = "release"
    /\ UNCHANGED <<queues, lock, rV, rA, times, built, senderVars, ownerVars>>

\* One of the two pools is empty: -2, and the frame that was got goes back.
BuildNoFrame ==
    /\ rPc = "build" /\ initDone
    /\ rPc' = "release"
    /\ UNCHANGED <<queues, lock, rV, rA, times, built, senderVars, ownerVars>>

\* MaxBuilds: after that many attempts the pools have no more frames.
MayBuild == times < MaxBuilds

\* Neither read of the video file returned a whole frame: both frames are
\* dropped, yet m_dwTimes counts them.
BuildReadFails ==
    /\ rPc = "build" /\ initDone /\ MayBuild
    /\ times' = times + 1
    /\ rPc' = "release"
    /\ UNCHANGED <<queues, lock, rV, rA, built, senderVars, ownerVars>>

\* Mutant: m_dwTimes is not counted.
BuildFrameNoCount ==
    /\ rPc = "build" /\ initDone /\ MayBuild
    /\ rV' = times /\ rA' = times
    /\ built' = Append(built, [v |-> rV', a |-> rA'])
    /\ rPc' = "lock"
    /\ UNCHANGED <<queues, lock, times, senderVars, ownerVars>>

BuildFrame ==
    /\ rPc = "build" /\ initDone /\ MayBuild
    /\ rV' = times /\ rA' = times
    /\ built' = Append(built, [v |-> rV', a |-> rA'])
    /\ times' = times + 1
    /\ rPc' = "lock"
    /\ UNCHANGED <<queues, lock, senderVars, ownerVars>>

ReaderLock ==
    /\ rPc = "lock" /\ lock = "free"
    /\ lock' = "reader"
    /\ rPc' = "pushV"
    /\ UNCHANGED <<queues, rV, rA, times, built, senderVars, ownerVars>>

ReaderPushV ==
    /\ rPc = "pushV"
    /\ qV' = Append(qV, rV)
    /\ rPc' = "pushA"
    /\ UNCHANGED <<qA, lock, rV, rA, times, built, senderVars, ownerVars>>

ReaderPushA ==
    /\ rPc = "pushA"
    /\ qA' = Append(qA, rA)
    /\ rPc' = "unlock"
    /\ UNCHANGED <<qV, lock, rV, rA, times, built, senderVars, ownerVars>>

ReaderUnlock ==
    /\ rPc = "unlock"
    /\ lock' = "free"
    /\ rPc' = "release"
    /\ UNCHANGED <<queues, rV, rA, times, built, senderVars, ownerVars>>

\* After the sleep the block ends and its two references are dropped.
ReaderRelease ==
    /\ rPc = "release"
    /\ rV' = Null /\ rA' = Null
    /\ rPc' = "test"
    /\ UNCHANGED <<queues, lock, times, built, senderVars, ownerVars>>

BuildAttempt == BuildNotReady \/ BuildNoFrame \/ BuildReadFails \/ BuildFrame

ReadThread ==
    \/ ReaderTest \/ BuildAttempt
    \/ ReaderLock \/ ReaderPushV \/ ReaderPushA \/ ReaderUnlock
    \/ ReaderRelease

-----------------------------------------------------------------------------
(* SendOneVideoFrm.                                                        *)

SenderTest ==
    /\ sPc = "test"
    /\ sPc' = CASE bStop -> "done"
                [] ~bStop /\ consumed # 0 -> "lock"
                [] OTHER -> "test"
    /\ UNCHANGED <<queues, lock, readerVars, sV, sA, consumed, sent, ownerVars>>

\* Mutant: m_locker is not taken.
SenderNoLock ==
    /\ sPc = "lock"
    /\ lock' = "sender"
    /\ sPc' = IF qV # <<>> /\ qA # <<>> THEN "popV" ELSE "unlock"
    /\ UNCHANGED <<queues, readerVars, sV, sA, consumed, sent, ownerVars>>

SenderLock ==
    /\ sPc = "lock" /\ lock = "free"
    /\ lock' = "sender"
    /\ sPc' = IF qV # <<>> /\ qA # <<>> THEN "popV" ELSE "unlock"
    /\ UNCHANGED <<queues, readerVars, sV, sA, consumed, sent, ownerVars>>

SenderPopV ==
    /\ sPc = "popV"
    /\ sV' = Head(qV) /\ sA' = Head(qA)
    /\ qV' = Tail(qV)
    /\ sPc' = "popA"
    /\ UNCHANGED <<qA, lock, readerVars, consumed, sent, ownerVars>>

SenderPopA ==
    /\ sPc = "popA"
    /\ qA' = Tail(qA)
    /\ sPc' = "unlock"
    /\ UNCHANGED <<qV, lock, readerVars, sV, sA, consumed, sent, ownerVars>>

SenderUnlock ==
    /\ sPc = "unlock"
    /\ lock' = "free"
    /\ sPc' = "deliver"
    /\ UNCHANGED <<queues, readerVars, sV, sA, consumed, sent, ownerVars>>

SenderDeliver ==
    /\ sPc = "deliver"
    /\ cbSet /\ sV # Null /\ sA # Null
    /\ consumed' = consumed - 1
    /\ sent' = Append(sent, [v |-> sV, a |-> sA])
    /\ sPc' = "cb"
    /\ UNCHANGED <<queues, lock, readerVars, sV, sA, ownerVars>>

SenderNothing ==
    /\ sPc = "deliver"
    /\ ~(cbSet /\ sV # Null /\ sA # Null)
    /\ sPc' = "sleep"
    /\ UNCHANGED <<queues, lock, readerVars, sV, sA, consumed, sent, ownerVars>>

\* cb calls frameConsumed() and returns.
FrameConsumed ==
    /\ sPc = "cb"
    /\ consumed' = consumed + 1
    /\ sPc' = "sleep"
    /\ UNCHANGED <<queues, lock, readerVars, sV, sA, sent, ownerVars>>

\* After the sleep the block ends and its two references are dropped.
SenderRelease ==
    /\ sPc = "sleep"
    /\ sV' = Null /\ sA' = Null
    /\ sPc' = "test"
    /\ UNCHANGED <<queues, lock, readerVars, consumed, sent, ownerVars>>

SendLoop ==
    \/ SenderTest \/ SenderLock \/ SenderPopV \/ SenderPopA \/ SenderUnlock
    \/ SenderDeliver \/ SenderNothing \/ SenderRelease

SendThread == SendLoop \/ FrameConsumed

-----------------------------------------------------------------------------
(* The owner: addChannel, startCapture, closeChannel, CloseVideoFile.      *)

\* initVideo cannot open the file, or it is an old ID4 one, closed again:
\* addChannel returns -1.
AddChannelFails ==
    /\ object = "alive" /\ mPc = "idle" /\ fpVideo = "null" /\ ~cbSet
    /\ cbSet' = TRUE
    /\ UNCHANGED <<queues, lock, readerVars, senderVars, bStop, initDone,
                   fpVideo, closes, rHandle, sHandle, mPc, object>>

\* addChannel up to the start of readThread ...
AddChannel ==
    /\ object = "alive" /\ mPc = "idle" /\ fpVideo = "null" /\ ~cbSet
    /\ cbSet' = TRUE
    /\ fpVideo' = "set"
    /\ bStop' = FALSE
    /\ times' = 0
    /\ rHandle' = TRUE /\ rPc' = "test"
    /\ mPc' = "started"
    /\ UNCHANGED <<queues, lock, rV, rA, built, senderVars, initDone, closes,
                   sHandle, object>>

\* ... and its last assignment, made while readThread may already run.
AddChannelDone ==
    /\ mPc = "started"
    /\ initDone' = TRUE
    /\ mPc' = "idle"
    /\ UNCHANGED <<queues, lock, readerVars, senderVars, bStop, cbSet,
                   fpVideo, closes, rHandle, sHandle, object>>

StartCapture ==
    /\ object = "alive" /\ mPc = "idle" /\ ~sHandle
    /\ IF initDone
       THEN sHandle' = TRUE /\ sPc' = "test"
       ELSE UNCHANGED <<sHandle, sPc>>
    /\ UNCHANGED <<queues, lock, readerVars, sV, sA, consumed, sent, bStop,
                   initDone, cbSet, fpVideo, closes, rHandle, mPc,
                   object>>

CloseChannel ==
    /\ mPc = "idle"
    /\ bStop' = TRUE
    /\ mPc' = "joinReader"
    /\ UNCHANGED <<queues, lock, readerVars, senderVars, initDone, cbSet,
                   fpVideo, closes, rHandle, sHandle>>

\* Mutant: the reading thread is not joined.
JoinReaderNoWait ==
    /\ mPc = "joinReader"
    /\ rHandle' = FALSE
    /\ mPc' = "joinSender"
    /\ UNCHANGED <<queues, lock, readerVars, senderVars, bStop, initDone,
                   cbSet, fpVideo, closes, sHandle, object>>

JoinReader ==
    /\ mPc = "joinReader"
    /\ rHandle => rPc = "done"
    /\ rHandle' = FALSE
    /\ mPc' = "joinSender"
    /\ UNCHANGED <<queues, lock, readerVars, senderVars, bStop, initDone,
                   cbSet, fpVideo, closes, sHandle, object>>

\* Mutant: the sending thread is not joined.
JoinSenderNoWait ==
    /\ mPc = "joinSender"
    /\ sHandle' = FALSE
    /\ mPc' = "fclose"
    /\ UNCHANGED <<queues, lock, readerVars, senderVars, bStop, initDone,
                   cbSet, fpVideo, closes, rHandle, object>>

JoinSender ==
    /\ mPc = "joinSender"
    /\ sHandle => sPc = "done"
    /\ sHandle' = FALSE
    /\ mPc' = "fclose"
    /\ UNCHANGED <<queues, lock, readerVars, senderVars, bStop, initDone,
                   cbSet, fpVideo, closes, rHandle, object>>

\* Mutant: m_initDone is not reset.
CloseChannelKeepsInit ==
    /\ mPc = "fclose"
    /\ closes' = IF fpVideo = "set" THEN closes + 1 ELSE closes
    /\ cbSet' = FALSE
    /\ mPc' = "idle"
    /\ UNCHANGED <<queues, lock, readerVars, senderVars, bStop, fpVideo,
                   initDone, rHandle, sHandle, object>>

\* closeChannel closes the file but keeps the pointer.
CloseChannelEnd ==
    /\ mPc = "fclose"
    /\ closes' = IF fpVideo = "set" THEN closes + 1 ELSE closes
    /\ initDone' = FALSE
    /\ cbSet' = FALSE
    /\ mPc' = "idle"
    /\ UNCHANGED <<queues, lock, readerVars, senderVars, bStop, fpVideo,
                   rHandle, sHandle, object>>

CloseVideoFile ==
    /\ mPc = "idle"
    /\ closes' = IF fpVideo = "set" THEN closes + 1 ELSE closes
    /\ fpVideo' = "null"
    /\ UNCHANGED <<queues, lock, readerVars, senderVars, bStop, initDone,
                   cbSet, rHandle, sHandle, mPc>>

CloseSteps == JoinReader \/ JoinSender \/ CloseChannelEnd

RemoveChannel ==
    /\ object = "alive"
    /\ CloseChannel
    /\ UNCHANGED object

Destructor ==
    /\ object = "alive"
    /\ CloseChannel
    /\ object' = "dtor"

DestructorEnd ==
    /\ object = "dtor"
    /\ CloseVideoFile
    /\ object' = "gone"

-----------------------------------------------------------------------------
(* The channel on its own: the pools may be empty at any time, since other *)
(* channels share them, and removeChannel is called at most once.          *)

Owner ==
    \/ AddChannel \/ AddChannelFails \/ AddChannelDone
    \/ StartCapture
    \/ ~bStop /\ RemoveChannel
    \/ CloseSteps
    \/ Destructor \/ DestructorEnd

Finished == object = "gone" /\ UNCHANGED vars

Next == ReadThread \/ SendThread \/ Owner \/ Finished

\* Each thread sleeps milliseconds between two uses of m_locker, so the other
\* one gets it in the end (strong fairness of the two lock operations).  The
\* callback returns: WF on SendThread covers FrameConsumed.
Fairness ==
    /\ SF_vars(ReaderLock)
    /\ SF_vars(SenderLock)
    /\ WF_vars(ReadThread)
    /\ WF_vars(SendThread)
    /\ WF_vars(AddChannelDone)
    /\ WF_vars(CloseSteps)
    /\ WF_vars(DestructorEnd)

Safety == Init /\ [][Next]_vars
Spec == Safety /\ Fairness

-----------------------------------------------------------------------------
(* Properties.                                                             *)

\* m_locker keeps readThread's push and SendOneVideoFrm's pop of the two
\* std::queue objects apart.
MutualExclusion ==
    ~ /\ rPc \in {"pushV", "pushA", "unlock"}
      /\ sPc \in {"popV", "popA", "unlock"}

LockInv ==
    /\ lock = "reader" <=> rPc \in {"pushV", "pushA", "unlock"}
    /\ lock = "sender" <=> sPc \in {"popV", "popA", "unlock"}

\* readThread has a pair whenever it takes the lock; SendOneVideoFrm has one
\* only from the pop to the end of its block, and then both frames of it.
HandInv ==
    /\ rPc \in {"lock", "pushV", "pushA"} => rV # Null /\ rA # Null
    /\ sV = Null <=> sA = Null
    /\ sPc \in {"none", "test", "lock", "popV", "done"} => sV = Null
    /\ sPc \in {"popA", "cb"} => sV # Null
    /\ sPc = "popV" => qV # <<>>
    /\ sPc \in {"popV", "popA"} => qA # <<>>

\* Whether a thread has a pair, or one frame of it, that is in no queue: the
\* sender one it has not delivered yet, the reader one it has not pushed.
InHand == IF sPc \in {"popA", "unlock", "deliver"} /\ sV # Null THEN 1 ELSE 0
TakenA == IF sPc = "popA" THEN 0 ELSE InHand
ToPushV == IF rPc \in {"lock", "pushV"} THEN 1 ELSE 0
ToPushA == IF rPc \in {"lock", "pushV", "pushA"} THEN 1 ELSE 0

\* Every pair that was built is delivered, in the sender's hands, in the
\* queues or in the reader's hands, in this order.
SentInv ==
    /\ Len(sent) + InHand <= Len(built)
    /\ \A n \in 1 .. Len(sent) : sent[n] = built[n]
    /\ InHand = 1 => built[Len(sent) + 1] = [v |-> sV, a |-> sA]

VideoInv ==
    /\ Len(built) = Len(sent) + InHand + Len(qV) + ToPushV
    /\ \A n \in 1 .. Len(qV) : qV[n] = built[Len(sent) + InHand + n].v
    /\ ToPushV = 1 => rV = built[Len(built)].v

AudioInv ==
    /\ Len(built) = Len(sent) + TakenA + Len(qA) + ToPushA
    /\ \A n \in 1 .. Len(qA) : qA[n] = built[Len(sent) + TakenA + n].a
    /\ ToPushA = 1 => rA = built[Len(built)].a

\* The size readThread has tested may be stale, or read in the middle of a
\* pop, but the queue never grows beyond its limit.
RoomInv ==
    /\ Len(qV) <= QueueLimit
    /\ rPc \in {"build", "lock"} => Len(qV) < QueueLimit \/ sPc = "popV"
    /\ rPc = "pushV" => Len(qV) < QueueLimit

NumberInv ==
    /\ \A n \in 1 .. Len(built) : built[n].v < times
    /\ \A n \in 2 .. Len(built) : built[n - 1].v < built[n].v

\* Which threads there may be, and what they rely on.
Joined == mPc \in {"joinReader", "joinSender", "fclose"}
ThreadInv ==
    /\ rPc \notin {"none", "done"} => rHandle
    /\ sPc \notin {"none", "done"} => sHandle
    /\ rHandle \/ sHandle \/ initDone => cbSet /\ fpVideo = "set" /\ closes = 0
    /\ mPc \in {"joinSender", "fclose"} => ~rHandle
    /\ mPc = "fclose" => ~sHandle
    /\ bStop /\ ~Joined => ~rHandle /\ ~sHandle /\ ~initDone
    /\ Joined => bStop

OwnerInv ==
    /\ mPc = "started" => object = "alive" /\ rHandle /\ ~sHandle /\ ~bStop
    /\ object # "alive" => bStop
    /\ fpVideo = "null" /\ object # "gone" =>
           rPc = "none" /\ sPc = "none" /\ built = <<>> /\ closes = 0

\* The inductive invariant: where every pair is, who may hold m_locker, and
\* which thread still runs in each phase of opening and closing.
IInv ==
    /\ TypeOK /\ LockInv /\ HandInv
    /\ SentInv /\ VideoInv /\ AudioInv
    /\ RoomInv /\ NumberInv
    /\ ThreadInv /\ OwnerInv

\* The provider is a FramePipe: pairs reach the callback in the order they
\* were built, each once and with its own partner; at most the queue's limit
\* and the pair in SendOneVideoFrm's hands are inside; and while the sending
\* thread runs each pair gets there (if the callback returns).
Pipe == INSTANCE FramePipe WITH
    Item <- Pair,
    Capacity <- QueueLimit + 1,
    accepted <- built,
    delivered <- sent,
    running <- sHandle /\ ~bStop

ImplementsPipe == Pipe!Spec

\* buildFrame never reads from a FILE that closeChannel has closed.
NoReadAfterClose == rPc = "build" => closes = 0

\* Once closeChannel has returned neither thread runs any more, and a late
\* startCapture does not start one: the callback object may be destroyed.
Closed == bStop /\ mPc = "idle"
QuietWhenClosed ==
    Closed => rPc \in {"none", "done"} /\ sPc \in {"none", "done"}

\* The frame numbers given to the callback only grow, although a failed read
\* of the video file leaves a gap.
NumbersGrow ==
    [][\A n \in 2 .. Len(sent') : sent'[n].v > sent'[n - 1].v]_vars

\* closeChannel returns, if the callback does.
CloseReturns == (mPc = "joinReader") ~> (mPc = "idle")
=============================================================================
