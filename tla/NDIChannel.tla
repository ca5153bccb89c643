----------------------------- MODULE NDIChannel -----------------------------
(***************************************************************************)
(* One channel of test_NDI: the Cnl object, which owns a provider and      *)
(* a consumer and is the callback between them, and the part of main()     *)
(* that initialises, starts, stops and deletes it.                         *)
(* The provider's actions are those of FrameProviderYuvFile, the           *)
(* consumer's those of FrameConsumerNDI (C!).                              *)
(*                                                                         *)
(* Four threads: main, the provider's readThread and SendOneVideoFrm, and  *)
(* the consumer's sendNDIThread.  The frames come from the video and the   *)
(* audio pool of CapturePoolMgr; around.pool is this channel's share of each. *)
(***************************************************************************)
EXTENDS FrameProviderYuvFile, FiniteSets

CONSTANTS
    FrameBufferSize,    \* FRAME_BUFFER_SIZE
    Surroundings,       \* [pool, reads]: what the channel may meet (below)
    SemInitial,         \* see FrameConsumerNDI
    TimedWait,          \* see FrameConsumerNDI
    FileOpens,          \* the outcomes of initVideo
    NDIStarts           \* the outcomes of creating the NDI sender

VARIABLES
    mainPc,     \* where main() is with this channel
    around,     \* the frames of each pool that the other channels leave to this
                \* one, and the outcomes of reading a video frame
    \* the consumer
    listV, listA, sem, bExit, sendInst, handle, outPc, out, sendPc,
    pVideo, pAudio, stopPc, cObject, accepted, airedV, airedA

C == INSTANCE FrameConsumerNDI WITH
        object <- cObject, Frame <- Id, MaxFrames <- MaxBuilds

ASSUME ChannelAssumption ==
    /\ C!ConsumerAssumption
    /\ Surroundings \subseteq [pool : Nat, reads : SUBSET BOOLEAN]
    /\ {FileOpens, NDIStarts} \subseteq SUBSET BOOLEAN

cVars == <<listV, listA, sem, bExit, sendInst, handle, outPc, out, sendPc,
           pVideo, pAudio, stopPc, cObject, accepted, airedV, airedA>>
channelVars == <<mainPc, around, vars, cVars>>

ChannelTypeOK ==
    /\ mainPc \in {"provider", "consumer", "start", "getchar", "stop",
                   "remove", "delConsumer", "inDelConsumer", "delProvider",
                   "inDelProvider", "exited"}
    /\ around \in Surroundings
    /\ TypeOK
    /\ C!TypeOK

ChannelInit ==
    /\ mainPc = "provider"
    /\ around \in Surroundings
    /\ Init
    /\ C!Init

-----------------------------------------------------------------------------
(* The pools: a frame is out of its pool while something refers to it.     *)

Elements(s) == {s[i] : i \in DOMAIN s}
VideoInUse == (Elements(qV) \cup Elements(listV) \cup {rV, sV, pVideo}) \ {Null}
AudioInUse == (Elements(qA) \cup Elements(listA) \cup {rA, sA, pAudio}) \ {Null}

PoolsHaveFrames ==
    Cardinality(VideoInUse) < around.pool /\ Cardinality(AudioInUse) < around.pool

-----------------------------------------------------------------------------
(* The threads.                                                            *)

ReaderOther ==
    \/ ReaderTest \/ BuildNotReady
    \/ ReaderPushV \/ ReaderPushA \/ ReaderUnlock \/ ReaderRelease

ReaderBuild ==
    \/ PoolsHaveFrames /\ TRUE \in around.reads /\ BuildFrame
    \/ PoolsHaveFrames /\ FALSE \in around.reads /\ BuildReadFails
    \/ ~(PoolsHaveFrames /\ MayBuild) /\ BuildNoFrame

ChannelReaderLock == ReaderLock /\ UNCHANGED <<mainPc, cVars>>

ChannelReadThread ==
    \/ (ReaderOther \/ ReaderBuild) /\ UNCHANGED <<mainPc, cVars>>
    \/ ChannelReaderLock

ChannelSenderLock == SenderLock /\ UNCHANGED <<mainPc, cVars>>

\* Cnl::cb: OutputFrames until it returns 0 ...
CbOutputFrames ==
    /\ sPc = "cb"
    /\ C!OutputFrames(sV, sA)
    /\ UNCHANGED <<mainPc, vars>>

\* Mutant: a pair that OutputFrames refuses is dropped.
CbDrop ==
    /\ sPc = "cb"
    /\ C!OutputFramesFull
    /\ FrameConsumed
    /\ UNCHANGED <<mainPc, cVars>>

CbRetry ==
    /\ sPc = "cb"
    /\ C!OutputFramesFull
    /\ UNCHANGED <<mainPc, vars>>

CbInside ==
    /\ C!PushV \/ C!PushA \/ C!RaiseEvent
    /\ UNCHANGED <<mainPc, vars>>

\* ... and then frameConsumed.
CbReturn ==
    /\ C!OutputFramesReturn
    /\ FrameConsumed
    /\ UNCHANGED mainPc

SendFrames ==
    \/ SendLoop /\ UNCHANGED <<mainPc, cVars>>
    \/ CbOutputFrames \/ CbRetry \/ CbInside \/ CbReturn

SendNDIThread == C!SendThread /\ UNCHANGED <<mainPc, vars>>

-----------------------------------------------------------------------------
(* main() and Cnl::init, start, stop, ~Cnl.                                *)

\* init: the provider's addChannel, then the consumer's; neither result is
\* looked at.
InitProvider ==
    /\ mainPc = "provider"
    /\ \/ TRUE \in FileOpens /\ AddChannel
       \/ FALSE \in FileOpens /\ AddChannelFails
    /\ mainPc' = "consumer"
    /\ UNCHANGED cVars

\* The channel has no YUV file configured: init is skipped, start and stop are not.
InitSkipped ==
    /\ mainPc = "provider"
    /\ mainPc' = "start"
    /\ UNCHANGED <<vars, cVars>>

InitProviderEnd ==
    /\ AddChannelDone
    /\ UNCHANGED <<mainPc, cVars>>

InitConsumer ==
    /\ mainPc = "consumer" /\ mPc = "idle"
    /\ \/ TRUE \in NDIStarts /\ C!AddChannel
       \/ FALSE \in NDIStarts /\ C!AddChannelFails
    /\ mainPc' = "start"
    /\ UNCHANGED vars

Start ==
    /\ mainPc = "start"
    /\ StartCapture
    /\ mainPc' = "getchar"
    /\ UNCHANGED cVars

\* The user presses Enter.
Getchar ==
    /\ mainPc = "getchar"
    /\ mainPc' = "stop"
    /\ UNCHANGED <<vars, cVars>>

\* stop: first the consumer's stopChannel ...
StopConsumer ==
    /\ mainPc = "stop"
    /\ C!StopChannelCall
    /\ mainPc' = "remove"
    /\ UNCHANGED vars

\* ... then the provider's removeChannel.
StopProvider ==
    /\ mainPc = "remove" /\ stopPc = "idle"
    /\ RemoveChannel
    /\ mainPc' = "delConsumer"
    /\ UNCHANGED cVars

\* ~Cnl deletes the consumer ...
DeleteConsumer ==
    /\ mainPc = "delConsumer" /\ mPc = "idle"
    /\ C!Destructor
    /\ mainPc' = "inDelConsumer"
    /\ UNCHANGED vars

DeleteConsumerEnd ==
    /\ mainPc = "inDelConsumer"
    /\ C!DestructorEnd
    /\ mainPc' = "delProvider"
    /\ UNCHANGED vars

\* ... and then the provider.
DeleteProvider ==
    /\ mainPc = "delProvider"
    /\ Destructor
    /\ mainPc' = "inDelProvider"
    /\ UNCHANGED cVars

DeleteProviderEnd ==
    /\ mainPc = "inDelProvider"
    /\ DestructorEnd
    /\ mainPc' = "exited"
    /\ UNCHANGED cVars

Joins ==
    \/ C!StopChannelJoin /\ UNCHANGED <<mainPc, vars>>
    \/ CloseSteps /\ UNCHANGED <<mainPc, cVars>>

MainThread ==
    \/ InitProvider \/ InitProviderEnd \/ InitSkipped \/ InitConsumer \/ Start
    \/ StopConsumer \/ StopProvider
    \/ DeleteConsumer \/ DeleteConsumerEnd
    \/ DeleteProvider \/ DeleteProviderEnd
    \/ Joins

Exited == mainPc = "exited" /\ UNCHANGED channelVars

\* What surrounds the channel stays as it is.
Keep(A) == A /\ UNCHANGED around

ChannelNext ==
    Keep(\/ ChannelReadThread \/ SendFrames \/ SendNDIThread
         \/ MainThread \/ Getchar \/ Exited)

\* Every thread runs on; the user need not press a key.  The two locks: see
\* FrameProviderYuvFile.
ChannelFairness ==
    /\ SF_channelVars(Keep(ChannelReaderLock))
    /\ SF_channelVars(Keep(ChannelSenderLock))
    /\ WF_channelVars(Keep(ChannelReadThread))
    /\ WF_channelVars(Keep(SendFrames))
    /\ WF_channelVars(Keep(SendNDIThread))
    /\ WF_channelVars(Keep(MainThread))

ChannelSafety == ChannelInit /\ [][ChannelNext]_channelVars
ChannelSpec == ChannelSafety /\ ChannelFairness

-----------------------------------------------------------------------------
(* Properties.                                                             *)

\* The inductive invariant behind them.  MainInv: how far main() is says what
\* has been stopped, and it deletes an object only when the threads that use
\* it have been joined.
Deleting == {"inDelConsumer", "delProvider", "inDelProvider", "exited"}
MainInv ==
    /\ bStop <=> mainPc \in Deleting \cup {"delConsumer"}
    /\ stopPc = "join" => mainPc = "remove"
    /\ mainPc \in Deleting \cup {"remove", "delConsumer"} /\ stopPc = "idle" => ~handle
    /\ mainPc \in Deleting => ~rHandle /\ ~sHandle
    /\ cObject # "alive" \/ object # "alive" => mainPc \in Deleting

\* CallInv: what the provider gives to the callback is what OutputFrames takes,
\* except for the pair that it still refuses.
Offered == IF sPc = "cb" /\ outPc = "idle" THEN 1 ELSE 0
CallInv ==
    /\ outPc # "idle" => sPc = "cb"
    /\ Len(sent) = Len(accepted) + Offered
    /\ \A n \in 1 .. Len(accepted) : accepted[n] = sent[n]
    /\ Offered = 1 => sent[Len(sent)] = [v |-> sV, a |-> sA]

\* LocalsInv: readThread has no frame while it waits for room or builds.
LocalsInv == rPc \in {"none", "test", "build", "done"} => rV = Null /\ rA = Null

ChannelInv ==
    ChannelTypeOK /\ IInv /\ C!PairsInv /\ MainInv /\ CallInv /\ LocalsInv

\* From buildFrame to NDI: the channel as a whole is a FramePipe.  What the
\* reader builds is sent in that order, once, with its own partner, never
\* more than the queue's limit, the sender's pair and the lists are inside,
\* and while both threads run each pair is sent in the end.
ChannelPipe == INSTANCE FramePipe WITH
    Item <- Pair,
    Capacity <- QueueLimit + FrameBufferSize + 2,
    accepted <- built,
    delivered <- C!AiredPairs,
    running <- sHandle /\ sendInst = "live" /\ ~bExit

ChannelImplementsPipe == ChannelPipe!Spec

\* A share of the queue's limit, the lists, the pair in the sender's hands
\* and the pair being sent never runs dry: buildFrame always gets its frames.
PoolSuffices ==
    rPc = "build" /\ around.pool >= QueueLimit + FrameBufferSize + 3 => PoolsHaveFrames

\* No thread uses an object that ~Cnl has deleted.
NoUseAfterDelete ==
    /\ cObject = "gone" =>
          sendPc \in {"none", "done"} /\ outPc = "idle" /\ sPc # "cb"
    /\ object = "gone" =>
          rPc \in {"none", "done"} /\ sPc \in {"none", "done"}

\* Frames sent after the stop of the consumer stay in the lists; once these
\* are full the callback retries for ever.  This is the only way in which the
\* channel can fail to shut down.
StuckInCallback ==
    /\ sPc = "cb" /\ outPc = "idle" /\ C!Full
    /\ bExit /\ sendPc \in {"none", "done"}
ExitUnlessListFull ==
    (mainPc = "stop") ~> (mainPc = "exited" \/ StuckInCallback)

\* test_NDI stops its channels after Enter, deletes them and returns 0.
ExitReached == (mainPc = "stop") ~> (mainPc = "exited")
=============================================================================
