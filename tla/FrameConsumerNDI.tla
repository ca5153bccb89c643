-------------------------- MODULE FrameConsumerNDI --------------------------
(***************************************************************************)
(* One CFrameConsumerNDI object: two lists filled by the thread that calls *)
(* OutputFrames, one semaphore, and the thread (sendNDIThread) that takes  *)
(* one audio and one video frame per semaphore count and hands them to the *)
(* NDI library.                                                            *)
(*                                                                         *)
(* Every operation on a SyncList is atomic: it holds the list's lock, or,  *)
(* in size(), reads one word.  Everything between two of them can be       *)
(* interleaved with other threads.                                         *)
(*                                                                         *)
(* SemaphoreClock differs between the builds.  The Windows build creates   *)
(* the semaphore with count 0 and waits with a timeout: SemInitial = {0},  *)
(* TimedWait = TRUE.  The Linux build passes LONG_MAX as the count, which  *)
(* sem_init refuses, so the count is whatever the memory held, and         *)
(* waitEvent ignores its timeout: TimedWait = FALSE, SemInitial any set.   *)
(***************************************************************************)
EXTENDS Naturals, Sequences

CONSTANTS
    FrameBufferSize,    \* FRAME_BUFFER_SIZE
    SemInitial,         \* the counts SemaphoreClock's constructor can leave
    TimedWait,          \* waitEvent gives up after nTimeOut
    Frame,              \* the frame ids in circulation
    Null,               \* a null pVFrame / pAframe
    MaxFrames           \* bound: pairs accepted in a behaviour

ASSUME ConsumerAssumption ==
    /\ FrameBufferSize \in Nat
    /\ SemInitial \subseteq Nat
    /\ TimedWait \in BOOLEAN
    /\ Null \notin Frame
    /\ MaxFrames \in Nat

VARIABLES
    listV,      \* m_listV
    listA,      \* m_listA
    sem,        \* the count of m_SemaphoreClock
    bExit,      \* m_bExit
    sendInst,   \* m_pNDI_send: "null", "live", "destroyed"
    handle,     \* m_sendNDIThreadHandle.valid()
    outPc,      \* where the caller is inside OutputFrames
    out,        \* the arguments pVideo, pAudio of that call
    sendPc,     \* where sendNDIThread is
    pVideo,     \* sentToNDI's local pVideo
    pAudio,     \* sentToNDI's local pAudio
    stopPc,     \* "join" while stopChannel waits for the thread
    object,     \* the C++ object: "alive", "dtor" in the destructor, "gone"
    accepted,   \* history: pairs OutputFrames took, oldest first
    airedV,     \* history: video frames handed to NDI
    airedA      \* history: audio frames handed to NDI

lists      == <<listV, listA>>
callVars   == <<outPc, out, accepted>>
threadVars == <<sendPc, pVideo, pAudio, airedV, airedA>>
lifeVars   == <<bExit, sendInst, handle, stopPc, object>>
vars == <<lists, sem, callVars, threadVars, lifeVars>>

Pair == [v : Frame, a : Frame]

TypeOK ==
    /\ listV \in Seq(Frame) /\ listA \in Seq(Frame)
    /\ sem \in Nat
    /\ bExit \in BOOLEAN /\ handle \in BOOLEAN
    /\ sendInst \in {"null", "live", "destroyed"}
    /\ outPc \in {"idle", "pushV", "pushA", "raise", "return"}
    /\ out \in Pair \cup {Null}
    /\ outPc \in {"pushV", "pushA"} => out \in Pair
    /\ sendPc \in {"none", "test", "wait", "audio", "video", "release",
                   "done", "crashed"}
    /\ pVideo \in Frame \cup {Null} /\ pAudio \in Frame \cup {Null}
    /\ stopPc \in {"idle", "join"}
    /\ object \in {"alive", "dtor", "gone"}
    /\ accepted \in Seq(Pair)
    /\ airedV \in Seq(Frame) /\ airedA \in Seq(Frame)

Init ==
    /\ listV = <<>> /\ listA = <<>>
    /\ sem \in SemInitial
    /\ bExit = FALSE /\ sendInst = "null" /\ handle = FALSE
    /\ outPc = "idle" /\ out = Null
    /\ sendPc = "none" /\ pVideo = Null /\ pAudio = Null
    /\ stopPc = "idle" /\ object = "alive"
    /\ accepted = <<>> /\ airedV = <<>> /\ airedA = <<>>

-----------------------------------------------------------------------------
(* addChannel: the thread starts only when the NDI library could be        *)
(* initialised and the sender created; otherwise it returns -1.            *)

AddChannel ==
    /\ object = "alive" /\ sendInst = "null"
    /\ sendInst' = "live" /\ handle' = TRUE /\ sendPc' = "test"
    /\ UNCHANGED <<lists, sem, callVars, pVideo, pAudio, airedV, airedA,
                   bExit, stopPc, object>>

AddChannelFails ==
    /\ object = "alive" /\ sendInst = "null"
    /\ UNCHANGED vars

-----------------------------------------------------------------------------
(* OutputFrames, called by one thread at a time.                           *)

Full == Len(listV) > FrameBufferSize

\* The size check refuses: return 1, nothing changed.
OutputFramesFull ==
    /\ outPc = "idle" /\ Full
    /\ UNCHANGED vars

\* The size check passes: from here on the call returns 0.
OutputFrames(v, a) ==
    /\ outPc = "idle" /\ ~Full
    /\ Len(accepted) < MaxFrames
    /\ out' = [v |-> v, a |-> a]
    /\ accepted' = Append(accepted, out')
    /\ outPc' = "pushV"
    /\ UNCHANGED <<lists, sem, threadVars, lifeVars>>

PushV ==
    /\ outPc = "pushV"
    /\ listV' = Append(listV, out.v)
    /\ outPc' = "pushA"
    /\ UNCHANGED <<listA, sem, out, accepted, threadVars, lifeVars>>

\* Mutant: the audio frame goes to the front of its list.
PushAFront ==
    /\ outPc = "pushA"
    /\ listA' = <<out.a>> \o listA
    /\ outPc' = "raise"
    /\ UNCHANGED <<listV, sem, out, accepted, threadVars, lifeVars>>

PushA ==
    /\ outPc = "pushA"
    /\ listA' = Append(listA, out.a)
    /\ outPc' = "raise"
    /\ UNCHANGED <<listV, sem, out, accepted, threadVars, lifeVars>>

\* Mutant: one raise for each of the two lists.
RaiseEventTwice ==
    /\ outPc = "raise"
    /\ sem' = sem + 2
    /\ outPc' = "return"
    /\ UNCHANGED <<lists, out, accepted, threadVars, lifeVars>>

RaiseEvent ==
    /\ outPc = "raise"
    /\ sem' = sem + 1
    /\ outPc' = "return"
    /\ UNCHANGED <<lists, out, accepted, threadVars, lifeVars>>

\* The caller sees the return value 0 and drops its references.
OutputFramesReturn ==
    /\ outPc = "return"
    /\ outPc' = "idle" /\ out' = Null
    /\ UNCHANGED <<lists, sem, accepted, threadVars, lifeVars>>

-----------------------------------------------------------------------------
(* sendNDIThread and sentToNDI.                                            *)

TestExit ==
    /\ sendPc = "test"
    /\ sendPc' = IF bExit THEN "done" ELSE "wait"
    /\ UNCHANGED <<lists, sem, callVars, pVideo, pAudio, airedV, airedA,
                   lifeVars>>

WaitEvent ==
    /\ sendPc = "wait" /\ sem > 0
    /\ sem' = sem - 1
    /\ sendPc' = "audio"
    /\ UNCHANGED <<lists, callVars, pVideo, pAudio, airedV, airedA, lifeVars>>

\* Mutant: after a timeout the thread waits again without testing m_bExit.
WaitTimeoutStays ==
    /\ TimedWait
    /\ sendPc = "wait" /\ sem = 0
    /\ UNCHANGED vars

WaitTimeout ==
    /\ TimedWait
    /\ sendPc = "wait" /\ sem = 0
    /\ sendPc' = "test"
    /\ UNCHANGED <<lists, sem, callVars, pVideo, pAudio, airedV, airedA,
                   lifeVars>>

\* Mutant: m_bExit is tested between the audio and the video frame.
SendAudioThenTest ==
    /\ sendPc = "audio"
    /\ IF listA = <<>>
       THEN sendPc' = "crashed" /\ UNCHANGED <<listA, pAudio, airedA>>
       ELSE /\ pAudio' = Head(listA)
            /\ listA' = Tail(listA)
            /\ airedA' = Append(airedA, Head(listA))
            /\ sendPc' = IF bExit THEN "done" ELSE "video"
    /\ UNCHANGED <<listV, sem, callVars, pVideo, airedV, lifeVars>>

\* pop_begin leaves pAudio null when the list is empty, and the next line
\* dereferences it.
SendAudio ==
    /\ sendPc = "audio"
    /\ IF listA = <<>>
       THEN sendPc' = "crashed" /\ UNCHANGED <<listA, pAudio, airedA>>
       ELSE /\ pAudio' = Head(listA)
            /\ listA' = Tail(listA)
            /\ airedA' = Append(airedA, Head(listA))
            /\ sendPc' = "video"
    /\ UNCHANGED <<listV, sem, callVars, pVideo, airedV, lifeVars>>

\* Mutant: the newest video frame is sent and the older ones are kept.
SendVideoNewest ==
    /\ sendPc = "video"
    /\ IF listV = <<>>
       THEN sendPc' = "crashed" /\ UNCHANGED <<listV, pVideo, airedV>>
       ELSE /\ pVideo' = listV[Len(listV)]
            /\ listV' = SubSeq(listV, 1, Len(listV) - 1)
            /\ airedV' = Append(airedV, listV[Len(listV)])
            /\ sendPc' = "release"
    /\ UNCHANGED <<listA, sem, callVars, pAudio, airedA, lifeVars>>

SendVideo ==
    /\ sendPc = "video"
    /\ IF listV = <<>>
       THEN sendPc' = "crashed" /\ UNCHANGED <<listV, pVideo, airedV>>
       ELSE /\ pVideo' = Head(listV)
            /\ listV' = Tail(listV)
            /\ airedV' = Append(airedV, Head(listV))
            /\ sendPc' = "release"
    /\ UNCHANGED <<listA, sem, callVars, pAudio, airedA, lifeVars>>

\* sentToNDI returns: its two references are dropped.
SentToNDIReturn ==
    /\ sendPc = "release"
    /\ pVideo' = Null /\ pAudio' = Null
    /\ sendPc' = "test"
    /\ UNCHANGED <<lists, sem, callVars, airedV, airedA, lifeVars>>

-----------------------------------------------------------------------------
(* stopChannel (also called first by the destructor) and the destructor.   *)

StopChannel ==
    /\ stopPc = "idle"
    /\ bExit' = TRUE
    /\ stopPc' = IF handle THEN "join" ELSE "idle"
    /\ UNCHANGED <<lists, sem, callVars, threadVars, sendInst, handle>>

StopChannelCall ==
    /\ object = "alive"
    /\ StopChannel
    /\ UNCHANGED object

\* Mutant: stopChannel does not wait for the thread.
StopChannelNoJoin ==
    /\ stopPc = "join"
    /\ handle' = FALSE
    /\ stopPc' = "idle"
    /\ UNCHANGED <<lists, sem, callVars, threadVars, bExit, sendInst, object>>

StopChannelJoin ==
    /\ stopPc = "join" /\ sendPc = "done"
    /\ handle' = FALSE
    /\ stopPc' = "idle"
    /\ UNCHANGED <<lists, sem, callVars, threadVars, bExit, sendInst, object>>

Destructor ==
    /\ object = "alive"
    /\ StopChannel
    /\ object' = "dtor"

DestructorEnd ==
    /\ object = "dtor" /\ stopPc = "idle"
    /\ sendInst' = IF sendInst = "live" THEN "destroyed" ELSE sendInst
    /\ object' = "gone"
    /\ UNCHANGED <<lists, sem, callVars, threadVars, bExit, handle, stopPc>>
-----------------------------------------------------------------------------
(* The three threads.  A caller hands over pairs made of one frame id, the *)
(* way buildFrame numbers them, and never calls a destroyed object.        *)

Call ==
    /\ object = "alive"
    /\ \/ \E f \in Frame : f = Len(accepted) + 1 /\ OutputFrames(f, f)
       \/ OutputFramesFull

CallerStep == PushV \/ PushA \/ RaiseEvent \/ OutputFramesReturn

SendThread ==
    TestExit \/ WaitEvent \/ WaitTimeout \/ SendAudio \/ SendVideo
    \/ SentToNDIReturn

Owner ==
    \/ AddChannel
    \/ AddChannelFails
    \/ StopChannelCall
    \/ StopChannelJoin
    \/ outPc = "idle" /\ Destructor
    \/ DestructorEnd

\* The object is gone and nothing is left to do.
Finished == object = "gone" /\ UNCHANGED vars

Next == Call \/ CallerStep \/ SendThread \/ Owner \/ Finished

Fairness ==
    /\ WF_vars(CallerStep)
    /\ WF_vars(SendThread)
    /\ WF_vars(StopChannelJoin)
    /\ WF_vars(DestructorEnd)

Safety == Init /\ [][Next]_vars
Spec == Safety /\ Fairness

-----------------------------------------------------------------------------
(* Properties.                                                             *)

\* The inductive invariant behind them.  What is on its way between the
\* steps of OutputFrames and of sentToNDI:
PendingV == IF outPc = "pushV" THEN 1 ELSE 0            \* accepted, not in listV
PendingA == IF outPc \in {"pushV", "pushA"} THEN 1 ELSE 0
PendingEvent == IF outPc = "raise" THEN 1 ELSE 0        \* in the lists, not raised
TakenEvent == IF sendPc = "audio" THEN 1 ELSE 0         \* waited for, not popped
HalfSent == IF sendPc = "video" THEN 1 ELSE 0           \* audio sent, video not

\* ListCounts: where the accepted pairs are, counted for each list.
ListCounts ==
    /\ Len(accepted) = Len(airedV) + Len(listV) + PendingV
    /\ Len(accepted) = Len(airedA) + Len(listA) + PendingA
    /\ Len(airedA) = Len(airedV) + HalfSent
    /\ Len(listV) + PendingV <= FrameBufferSize + 1

\* EventCounts: the semaphore counts the pairs that are complete in the lists.
EventCounts ==
    /\ Len(listA) = sem + TakenEvent + PendingEvent
    /\ sendPc # "crashed"

\* Contents: what is in the lists and what has been sent are the accepted
\* pairs, in order.
Contents ==
    /\ \A i \in 1 .. Len(airedV) : airedV[i] = accepted[i].v
    /\ \A i \in 1 .. Len(airedA) : airedA[i] = accepted[i].a
    /\ \A i \in 1 .. Len(listV) : listV[i] = accepted[Len(airedV) + i].v
    /\ \A i \in 1 .. Len(listA) : listA[i] = accepted[Len(airedA) + i].a
    /\ outPc \in {"pushV", "pushA"} => out = accepted[Len(accepted)]

\* Lifetime: a thread that may still send has a valid handle, and stopChannel
\* gives the handle up only when the thread is done.
Lifetime ==
    /\ ~handle => sendPc \in {"none", "done"}
    /\ bExit /\ stopPc = "idle" => sendPc \in {"none", "test", "done"}
    /\ stopPc = "join" => bExit /\ handle
    /\ sendPc = "done" => bExit
    /\ sendPc # "none" => sendInst # "null"
    /\ object # "alive" => bExit

\* What holds whatever count the semaphore starts with ...
PairsInv == TypeOK /\ ListCounts /\ Contents /\ Lifetime

\* ... and the whole invariant, for a semaphore that starts at 0.
IInv == PairsInv /\ EventCounts

\* sentToNDI never dereferences a null frame: each count of the semaphore
\* stands for a complete pair in the lists.
NoNullFrame == sendPc # "crashed"

\* The thread leaves its loop only between two pairs: stopping never sends
\* an audio frame whose video frame stays behind.
StopsBetweenPairs ==
    sendPc = "done" => Len(airedA) = Len(airedV)

\* What the receiver sees: the n-th video frame handed to NDI with the n-th
\* audio frame handed to NDI.
AiredPairs ==
    [i \in 1 .. Len(airedV) |->
        [v |-> airedV[i],
         a |-> IF i \in 1 .. Len(airedA) THEN airedA[i] ELSE Null]]

\* The consumer is a FramePipe: every pair OutputFrames took leaves in order,
\* with its own partner, at most FRAME_BUFFER_SIZE + 1 pairs wait inside (the
\* size check uses >), and while the thread runs each of them is sent.
Pipe == INSTANCE FramePipe WITH
    Item <- Pair,
    Capacity <- FrameBufferSize + 1,
    delivered <- AiredPairs,
    running <- sendInst = "live" /\ ~bExit

ImplementsPipe == Pipe!Spec

\* Once stopChannel has returned nothing is handed to NDI any more, so the
\* destructor may destroy the NDI sender.
Stopped == bExit /\ stopPc = "idle"
QuietAfterStop == [][Stopped => UNCHANGED <<airedV, airedA>>]_vars

\* stopChannel returns, whatever the callers of OutputFrames do.
StopReturns == (stopPc = "join") ~> (stopPc = "idle")
=============================================================================
