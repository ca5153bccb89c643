----------------------- MODULE FrameConsumerNDIProof ------------------------
(***************************************************************************)
(* Proofs about FrameConsumerNDI, for every size of the lists, every frame *)
(* and every number of calls.                                              *)
(*                                                                         *)
(* PairsInv (TypeOK, ListCounts, Contents and Lifetime) is inductive and   *)
(* needs nothing of the semaphore, so that what follows from it holds of   *)
(* the Linux build too, whose semaphore starts at any count.  Only that    *)
(* no null frame is met needs the semaphore to start at 0: with            *)
(* EventCounts the invariant is IInv.                                      *)
(***************************************************************************)
EXTENDS FrameConsumerNDI, SequenceTheorems, TLAPS

-----------------------------------------------------------------------------
(* The types.                                                              *)

(* Initially every variable has its type.                                  *)
LEMMA InitTypes == Init => TypeOK
  BY ConsumerAssumption, EmptySeq DEF ConsumerAssumption, Init, TypeOK

(* Every step of the caller, of the thread and of the owner keeps them.    *)
LEMMA StepTypes == TypeOK /\ [Next]_vars => TypeOK'
<1> SUFFICES ASSUME TypeOK, [Next]_vars PROVE TypeOK'
  OBVIOUS
<1> USE DEF TypeOK, callVars, threadVars, lifeVars, lists
<1>1. ASSUME NEW f \in Frame, OutputFrames(f, f) PROVE TypeOK'
  <2>1. [v |-> f, a |-> f] \in Pair
    BY DEF Pair
  <2> QED
    BY <1>1, <2>1, AppendProperties DEF OutputFrames
<1>2. CASE PushV
  BY <1>2, AppendProperties DEF PushV, Pair
<1>3. CASE PushA
  BY <1>3, AppendProperties DEF PushA, Pair
<1>4. CASE RaiseEvent
  BY <1>4 DEF RaiseEvent
<1>5. CASE OutputFramesReturn
  BY <1>5 DEF OutputFramesReturn
<1>6. CASE TestExit
  BY <1>6 DEF TestExit
<1>7. CASE WaitEvent
  BY <1>7 DEF WaitEvent
<1>8. CASE WaitTimeout
  BY <1>8 DEF WaitTimeout
<1>9. CASE SendAudio
  <2>1. CASE listA = <<>>
    BY <1>9, <2>1 DEF SendAudio
  <2>2. CASE listA # <<>>
    <3>1. Head(listA) \in Frame /\ Tail(listA) \in Seq(Frame)
      BY <2>2, HeadTailProperties
    <3>2. Append(airedA, Head(listA)) \in Seq(Frame)
      BY <3>1, AppendProperties
    <3> QED
      BY <1>9, <2>2, <3>1, <3>2 DEF SendAudio
  <2> QED
    BY <2>1, <2>2
<1>10. CASE SendVideo
  <2>1. CASE listV = <<>>
    BY <1>10, <2>1 DEF SendVideo
  <2>2. CASE listV # <<>>
    <3>1. Head(listV) \in Frame /\ Tail(listV) \in Seq(Frame)
      BY <2>2, HeadTailProperties
    <3>2. Append(airedV, Head(listV)) \in Seq(Frame)
      BY <3>1, AppendProperties
    <3> QED
      BY <1>10, <2>2, <3>1, <3>2 DEF SendVideo
  <2> QED
    BY <2>1, <2>2
<1>11. CASE SentToNDIReturn
  BY <1>11 DEF SentToNDIReturn
<1>12. CASE AddChannel
  BY <1>12 DEF AddChannel
<1>13. CASE StopChannelCall \/ Destructor
  BY <1>13 DEF StopChannelCall, Destructor, StopChannel
<1>14. CASE StopChannelJoin
  BY <1>14 DEF StopChannelJoin
<1>15. CASE DestructorEnd
  BY <1>15 DEF DestructorEnd
<1>16. CASE UNCHANGED vars
  BY <1>16 DEF vars
<1> QED
  BY <1>1, <1>2, <1>3, <1>4, <1>5, <1>6, <1>7, <1>8, <1>9, <1>10, <1>11,
     <1>12, <1>13, <1>14, <1>15, <1>16
     DEF Next, Call, CallerStep, SendThread, Owner, Finished,
         OutputFramesFull, AddChannelFails

(* TypeOK holds of every build, whatever count the semaphore starts with.  *)
THEOREM TypeCorrect == Safety => []TypeOK
<1> QED
  BY InitTypes, StepTypes, PTL DEF Safety

-----------------------------------------------------------------------------
(* The inductive invariant.                                                *)

(* Nothing is on its way at first.                                         *)
LEMMA InitPairs == Init => PairsInv
<1> SUFFICES ASSUME Init PROVE PairsInv
  OBVIOUS
<1>1. TypeOK
  BY InitTypes
<1>2. ListCounts
  BY ConsumerAssumption, EmptySeq
     DEF ConsumerAssumption, Init, ListCounts, PendingV, PendingA, HalfSent
<1>3. Contents
  BY EmptySeq DEF Init, Contents
<1>4. Lifetime
  BY DEF Init, Lifetime
<1> QED
  BY <1>1, <1>2, <1>3, <1>4 DEF PairsInv

(* The video frame of a pair is in its list when the audio frame has been  *)
(* sent: only the audio frame can be missing, and only if the semaphore    *)
(* counts too many.                                                        *)
LEMMA VideoWaits == PairsInv /\ sendPc = "video" => listV # <<>>
<1> SUFFICES ASSUME PairsInv, sendPc = "video", listV = <<>> PROVE FALSE
  OBVIOUS
<1>1. HalfSent = 1 /\ PendingV <= PendingA /\ PendingV \in Nat /\ PendingA \in Nat
  BY DEF HalfSent, PendingV, PendingA
<1>2. /\ Len(listA) \in Nat /\ Len(airedV) \in Nat /\ Len(listV) \in Nat
      /\ Len(airedA) \in Nat /\ Len(accepted) \in Nat
  BY LenProperties DEF PairsInv, TypeOK
<1> QED
  BY <1>1, <1>2, EmptySeq DEF PairsInv, ListCounts

(* No step lets the counts of accepted, queued and sent frames disagree.   *)
LEMMA StepListCounts == PairsInv /\ [Next]_vars => ListCounts'
<1> SUFFICES ASSUME PairsInv, [Next]_vars PROVE ListCounts'
  OBVIOUS
<1>a. TypeOK /\ ListCounts
  BY DEF PairsInv
<1>b. /\ Len(listV) \in Nat /\ Len(listA) \in Nat
      /\ Len(airedV) \in Nat /\ Len(airedA) \in Nat
      /\ Len(accepted) \in Nat /\ FrameBufferSize \in Nat
  BY <1>a, LenProperties, ConsumerAssumption
     DEF TypeOK, ConsumerAssumption
<1>c. PendingV \in Nat /\ PendingA \in Nat /\ HalfSent \in Nat
  BY DEF PendingV, PendingA, HalfSent
<1>d. ASSUME UNCHANGED outPc PROVE UNCHANGED <<PendingV, PendingA>>
  BY <1>d DEF PendingV, PendingA
<1>e. ASSUME UNCHANGED sendPc PROVE UNCHANGED HalfSent
  BY <1>e DEF HalfSent
<1> USE DEF callVars, threadVars, lifeVars, lists
<1>1. ASSUME NEW f \in Frame, OutputFrames(f, f) PROVE ListCounts'
  <2>1. [v |-> f, a |-> f] \in Pair
    BY DEF Pair
  <2>2. Len(accepted') = Len(accepted) + 1
    BY <1>1, <1>a, <2>1, AppendProperties DEF OutputFrames, TypeOK
  <2>3. PendingV = 0 /\ PendingA = 0 /\ PendingV' = 1 /\ PendingA' = 1
    BY <1>1 DEF OutputFrames, PendingV, PendingA
  <2>4. /\ ~(Len(listV) > FrameBufferSize)
        /\ UNCHANGED <<lists, airedV, airedA, sendPc>>
    BY <1>1 DEF OutputFrames, Full
  <2> QED
    BY <1>a, <1>b, <1>c, <1>e, <2>2, <2>3, <2>4 DEF ListCounts
<1>2. CASE PushV
  <2>1. Len(listV') = Len(listV) + 1
    BY <1>2, <1>a, AppendProperties DEF PushV, TypeOK, Pair
  <2>2. PendingV = 1 /\ PendingA = 1 /\ PendingV' = 0 /\ PendingA' = 1
    BY <1>2 DEF PushV, PendingV, PendingA
  <2>3. UNCHANGED <<listA, accepted, airedV, airedA, sendPc>>
    BY <1>2 DEF PushV
  <2> QED
    BY <1>a, <1>b, <1>c, <1>e, <2>1, <2>2, <2>3 DEF ListCounts
<1>3. CASE PushA
  <2>1. Len(listA') = Len(listA) + 1
    BY <1>3, <1>a, AppendProperties DEF PushA, TypeOK, Pair
  <2>2. PendingV = 0 /\ PendingA = 1 /\ PendingV' = 0 /\ PendingA' = 0
    BY <1>3 DEF PushA, PendingV, PendingA
  <2>3. UNCHANGED <<listV, accepted, airedV, airedA, sendPc>>
    BY <1>3 DEF PushA
  <2> QED
    BY <1>a, <1>b, <1>c, <1>e, <2>1, <2>2, <2>3 DEF ListCounts
<1>4. CASE RaiseEvent \/ OutputFramesReturn
  <2>1. UNCHANGED <<PendingV, PendingA>>
    BY <1>4 DEF RaiseEvent, OutputFramesReturn, PendingV, PendingA
  <2>2. UNCHANGED <<lists, accepted, airedV, airedA, sendPc>>
    BY <1>4 DEF RaiseEvent, OutputFramesReturn
  <2> QED
    BY <1>a, <1>e, <2>1, <2>2 DEF ListCounts
<1>5. CASE TestExit \/ WaitTimeout \/ WaitEvent \/ SentToNDIReturn \/ AddChannel
  <2>1. AddChannel => sendPc = "none"
    BY DEF PairsInv, Lifetime, AddChannel
  <2>2. UNCHANGED HalfSent
    BY <1>5, <2>1 DEF TestExit, WaitTimeout, WaitEvent, SentToNDIReturn,
                      AddChannel, HalfSent
  <2>3. UNCHANGED <<lists, accepted, airedV, airedA, outPc>>
    BY <1>5 DEF TestExit, WaitTimeout, WaitEvent, SentToNDIReturn, AddChannel
  <2> QED
    BY <1>a, <1>d, <2>2, <2>3 DEF ListCounts
<1>6. CASE SendAudio
  <2>1. HalfSent = 0 /\ UNCHANGED <<listV, accepted, airedV, outPc>>
    BY <1>6 DEF SendAudio, HalfSent
  <2>2. CASE listA = <<>>
    <3>1. HalfSent' = 0 /\ UNCHANGED <<listA, airedA>>
      BY <1>6, <2>2 DEF SendAudio, HalfSent
    <3> QED
      BY <1>a, <1>d, <2>1, <3>1 DEF ListCounts
  <2>3. CASE listA # <<>>
    <3>1. Len(listA') = Len(listA) - 1 /\ Len(airedA') = Len(airedA) + 1
      BY <1>6, <1>a, <2>3, HeadTailProperties, AppendProperties DEF SendAudio, TypeOK
    <3>2. HalfSent' = 1
      BY <1>6, <2>3 DEF SendAudio, HalfSent
    <3> QED
      BY <1>a, <1>b, <1>c, <1>d, <2>1, <3>1, <3>2 DEF ListCounts
  <2> QED
    BY <2>2, <2>3
<1>7. CASE SendVideo
  <2>1. HalfSent = 1 /\ listV # <<>>
    BY <1>7, VideoWaits DEF SendVideo, HalfSent
  <2>2. Len(listV') = Len(listV) - 1 /\ Len(airedV') = Len(airedV) + 1
    BY <1>7, <1>a, <2>1, HeadTailProperties, AppendProperties DEF SendVideo, TypeOK
  <2>3. HalfSent' = 0
    BY <1>7, <2>1 DEF SendVideo, HalfSent
  <2>4. UNCHANGED <<listA, accepted, airedA, outPc>>
    BY <1>7, <2>1 DEF SendVideo
  <2> QED
    BY <1>a, <1>b, <1>c, <1>d, <2>1, <2>2, <2>3, <2>4 DEF ListCounts
<1>8. CASE StopChannelCall \/ StopChannelJoin \/ Destructor \/ DestructorEnd
           \/ UNCHANGED vars
  <2>1. UNCHANGED <<lists, accepted, airedV, airedA, outPc, sendPc>>
    BY <1>8 DEF StopChannelCall, StopChannelJoin, Destructor, DestructorEnd,
                StopChannel, vars
  <2> QED
    BY <1>a, <1>d, <1>e, <2>1 DEF ListCounts
<1> QED
  BY <1>1, <1>2, <1>3, <1>4, <1>5, <1>6, <1>7, <1>8
     DEF Next, Call, CallerStep, SendThread, Owner, Finished,
         OutputFramesFull, AddChannelFails

(* No step changes, drops or swaps a frame of an accepted pair.            *)
LEMMA StepContents == PairsInv /\ [Next]_vars => Contents'
<1> SUFFICES ASSUME PairsInv, [Next]_vars PROVE Contents'
  OBVIOUS
<1>a. TypeOK /\ ListCounts /\ Contents
  BY DEF PairsInv
<1>b. /\ Len(listV) \in Nat /\ Len(listA) \in Nat
      /\ Len(airedV) \in Nat /\ Len(airedA) \in Nat
      /\ Len(accepted) \in Nat
  BY <1>a, LenProperties DEF TypeOK
<1>c. /\ Len(airedV) + Len(listV) <= Len(accepted)
      /\ Len(airedA) + Len(listA) <= Len(accepted)
  <2>1. PendingV \in Nat /\ PendingA \in Nat
    BY DEF PendingV, PendingA
  <2> QED
    BY <1>a, <1>b, <2>1 DEF ListCounts
<1> USE DEF callVars, threadVars, lifeVars, lists
<1>1. ASSUME NEW f \in Frame, OutputFrames(f, f) PROVE Contents'
  <2> DEFINE p == [v |-> f, a |-> f]
  <2>1. p \in Pair
    BY DEF Pair
  <2>2. /\ accepted' = Append(accepted, p) /\ out' = p
        /\ UNCHANGED <<listV, listA, airedV, airedA>>
    BY <1>1 DEF OutputFrames
  <2>3. \A n \in 1 .. Len(accepted) : accepted'[n] = accepted[n]
    BY <1>a, <1>b, <2>1, <2>2, AppendProperties DEF TypeOK
  <2>4. /\ \A i \in 1 .. Len(airedV') : airedV'[i] = accepted'[i].v
        /\ \A i \in 1 .. Len(airedA') : airedA'[i] = accepted'[i].a
    BY <1>a, <1>b, <1>c, <2>2, <2>3 DEF Contents
  <2>5. \A i \in 1 .. Len(listV') : listV'[i] = accepted'[Len(airedV') + i].v
    BY <1>a, <1>b, <1>c, <2>2, <2>3 DEF Contents
  <2>6. \A i \in 1 .. Len(listA') : listA'[i] = accepted'[Len(airedA') + i].a
    BY <1>a, <1>b, <1>c, <2>2, <2>3 DEF Contents
  <2>7. out' = accepted'[Len(accepted')]
    BY <1>a, <1>b, <2>1, <2>2, AppendProperties DEF TypeOK
  <2> QED
    BY <2>4, <2>5, <2>6, <2>7 DEF Contents
<1>2. CASE PushV
  <2>1. /\ listV' = Append(listV, out.v) /\ outPc' = "pushA"
        /\ UNCHANGED <<listA, out, accepted, airedV, airedA>>
    BY <1>2 DEF PushV
  <2>2. out.v \in Frame
    BY <1>2, <1>a DEF PushV, TypeOK, Pair
  <2>3. out = accepted[Len(accepted)]
    BY <1>2, <1>a DEF PushV, Contents
  <2>4. Len(accepted) = Len(airedV) + Len(listV) + 1
    BY <1>2, <1>a DEF PushV, ListCounts, PendingV
  <2>5. ASSUME NEW i \in 1 .. Len(listV')
        PROVE  listV'[i] = accepted'[Len(airedV') + i].v
    <3>1. i \in 1 .. Len(listV) + 1
      BY <1>a, <2>1, <2>2, AppendProperties DEF TypeOK
    <3>2. listV'[i] = IF i = Len(listV) + 1 THEN out.v ELSE listV[i]
      BY <1>a, <2>1, <2>2, <3>1, AppendProperties DEF TypeOK
    <3>3. CASE i = Len(listV) + 1
      BY <1>b, <2>1, <2>3, <2>4, <3>2, <3>3
    <3>4. CASE i # Len(listV) + 1
      <4>1. i \in 1 .. Len(listV)
        BY <1>b, <3>1, <3>4
      <4> QED
        BY <1>a, <2>1, <3>2, <3>4, <4>1 DEF Contents
    <3> QED
      BY <3>3, <3>4
  <2> QED
    BY <1>a, <2>1, <2>3, <2>5 DEF Contents
<1>3. CASE PushA
  <2>1. /\ listA' = Append(listA, out.a) /\ outPc' = "raise"
        /\ UNCHANGED <<listV, out, accepted, airedV, airedA>>
    BY <1>3 DEF PushA
  <2>2. out.a \in Frame
    BY <1>3, <1>a DEF PushA, TypeOK, Pair
  <2>3. out = accepted[Len(accepted)]
    BY <1>3, <1>a DEF PushA, Contents
  <2>4. Len(accepted) = Len(airedA) + Len(listA) + 1
    BY <1>3, <1>a DEF PushA, ListCounts, PendingA
  <2>5. ASSUME NEW i \in 1 .. Len(listA')
        PROVE  listA'[i] = accepted'[Len(airedA') + i].a
    <3>1. i \in 1 .. Len(listA) + 1
      BY <1>a, <2>1, <2>2, AppendProperties DEF TypeOK
    <3>2. listA'[i] = IF i = Len(listA) + 1 THEN out.a ELSE listA[i]
      BY <1>a, <2>1, <2>2, <3>1, AppendProperties DEF TypeOK
    <3>3. CASE i = Len(listA) + 1
      BY <1>b, <2>1, <2>3, <2>4, <3>2, <3>3
    <3>4. CASE i # Len(listA) + 1
      <4>1. i \in 1 .. Len(listA)
        BY <1>b, <3>1, <3>4
      <4> QED
        BY <1>a, <2>1, <3>2, <3>4, <4>1 DEF Contents
    <3> QED
      BY <3>3, <3>4
  <2> QED
    BY <1>a, <2>1, <2>5 DEF Contents
<1>4. CASE SendAudio
  <2>1. CASE listA = <<>>
    BY <1>4, <1>a, <2>1 DEF SendAudio, Contents
  <2>2. CASE listA # <<>>
    <3>1. /\ airedA' = Append(airedA, Head(listA)) /\ listA' = Tail(listA)
          /\ UNCHANGED <<listV, out, outPc, accepted, airedV>>
      BY <1>4, <2>2 DEF SendAudio
    <3>2. /\ Head(listA) \in Frame /\ Head(listA) = listA[1]
          /\ Len(listA') = Len(listA) - 1 /\ Len(listA) > 0
      BY <1>a, <2>2, <3>1, HeadTailProperties DEF TypeOK
    <3>3. Len(airedA') = Len(airedA) + 1
      BY <1>a, <3>1, <3>2, AppendProperties DEF TypeOK
    <3>4. Head(listA) = accepted[Len(airedA) + 1].a
      BY <1>a, <1>b, <3>2 DEF Contents
    <3>5. ASSUME NEW i \in 1 .. Len(airedA') PROVE airedA'[i] = accepted'[i].a
      <4>1. airedA'[i] = IF i = Len(airedA) + 1 THEN Head(listA) ELSE airedA[i]
        BY <1>a, <3>1, <3>2, <3>3, AppendProperties DEF TypeOK
      <4>2. i # Len(airedA) + 1 => i \in 1 .. Len(airedA)
        BY <1>b, <3>3
      <4> QED
        BY <1>a, <3>1, <3>4, <4>1, <4>2 DEF Contents
    <3>6. ASSUME NEW i \in 1 .. Len(listA')
          PROVE  listA'[i] = accepted'[Len(airedA') + i].a
      <4>1. i + 1 \in 1 .. Len(listA) /\ i \in 1 .. Len(listA) - 1
        BY <1>b, <3>2
      <4>2. listA'[i] = listA[i + 1]
        BY <1>a, <2>2, <3>1, <4>1, HeadTailProperties DEF TypeOK
      <4>3. listA[i + 1] = accepted[Len(airedA) + (i + 1)].a
        BY <1>a, <4>1 DEF Contents
      <4>4. Len(airedA) + (i + 1) = Len(airedA') + i
        BY <1>b, <3>3
      <4> QED
        BY <3>1, <4>2, <4>3, <4>4
    <3> QED
      BY <1>a, <3>1, <3>5, <3>6 DEF Contents
  <2> QED
    BY <2>1, <2>2
<1>5. CASE SendVideo
  <2>1. listV # <<>>
    BY <1>5, VideoWaits DEF SendVideo
  <2>2. /\ airedV' = Append(airedV, Head(listV)) /\ listV' = Tail(listV)
        /\ UNCHANGED <<listA, out, outPc, accepted, airedA>>
    BY <1>5, <2>1 DEF SendVideo
  <2>3. /\ Head(listV) \in Frame /\ Head(listV) = listV[1]
        /\ Len(listV') = Len(listV) - 1 /\ Len(listV) > 0
    BY <1>a, <2>1, <2>2, HeadTailProperties DEF TypeOK
  <2>4. Len(airedV') = Len(airedV) + 1
    BY <1>a, <2>2, <2>3, AppendProperties DEF TypeOK
  <2>5. Head(listV) = accepted[Len(airedV) + 1].v
    BY <1>a, <1>b, <2>3 DEF Contents
  <2>6. ASSUME NEW i \in 1 .. Len(airedV') PROVE airedV'[i] = accepted'[i].v
    <3>1. airedV'[i] = IF i = Len(airedV) + 1 THEN Head(listV) ELSE airedV[i]
      BY <1>a, <2>2, <2>3, <2>4, AppendProperties DEF TypeOK
    <3>2. i # Len(airedV) + 1 => i \in 1 .. Len(airedV)
      BY <1>b, <2>4
    <3> QED
      BY <1>a, <2>2, <2>5, <3>1, <3>2 DEF Contents
  <2>7. ASSUME NEW i \in 1 .. Len(listV')
        PROVE  listV'[i] = accepted'[Len(airedV') + i].v
    <3>1. i + 1 \in 1 .. Len(listV) /\ i \in 1 .. Len(listV) - 1
      BY <1>b, <2>3
    <3>2. listV'[i] = listV[i + 1]
      BY <1>a, <2>1, <2>2, <3>1, HeadTailProperties DEF TypeOK
    <3>3. listV[i + 1] = accepted[Len(airedV) + (i + 1)].v
      BY <1>a, <3>1 DEF Contents
    <3>4. Len(airedV) + (i + 1) = Len(airedV') + i
      BY <1>b, <2>4
    <3> QED
      BY <2>2, <3>2, <3>3, <3>4
  <2> QED
    BY <1>a, <2>2, <2>6, <2>7 DEF Contents
<1>6. CASE RaiseEvent \/ OutputFramesReturn
  <2>1. /\ UNCHANGED <<listV, listA, accepted, airedV, airedA>>
        /\ outPc' \in {"return", "idle"}
    BY <1>6 DEF RaiseEvent, OutputFramesReturn
  <2> QED
    BY <1>a, <2>1 DEF Contents
<1>7. CASE TestExit \/ WaitEvent \/ WaitTimeout \/ SentToNDIReturn
  <2>1. UNCHANGED <<listV, listA, accepted, airedV, airedA, out, outPc>>
    BY <1>7 DEF TestExit, WaitEvent, WaitTimeout, SentToNDIReturn
  <2> QED
    BY <1>a, <2>1 DEF Contents
<1>8. CASE AddChannel \/ StopChannelCall \/ StopChannelJoin \/ Destructor
           \/ DestructorEnd \/ UNCHANGED vars
  <2>1. UNCHANGED <<listV, listA, accepted, airedV, airedA, out, outPc>>
    BY <1>8 DEF AddChannel, StopChannelCall, StopChannelJoin, Destructor,
                DestructorEnd, StopChannel, vars
  <2> QED
    BY <1>a, <2>1 DEF Contents
<1> QED
  BY <1>1, <1>2, <1>3, <1>4, <1>5, <1>6, <1>7, <1>8
     DEF Next, Call, CallerStep, SendThread, Owner, Finished,
         OutputFramesFull, AddChannelFails

(* No step leaves a thread that may still send without a valid handle.     *)
LEMMA StepLifetime == PairsInv /\ [Next]_vars => Lifetime'
<1> SUFFICES ASSUME PairsInv, [Next]_vars PROVE Lifetime'
  OBVIOUS
<1>a. TypeOK /\ Lifetime
  BY DEF PairsInv
<1> USE DEF callVars, threadVars, lifeVars, lists, TypeOK, Lifetime
<1>1. ASSUME NEW f \in Frame, OutputFrames(f, f) PROVE Lifetime'
  BY <1>1, <1>a DEF OutputFrames
<1>2. CASE CallerStep
  BY <1>2, <1>a DEF CallerStep, PushV, PushA, RaiseEvent, OutputFramesReturn
<1>3. CASE TestExit \/ WaitEvent \/ WaitTimeout \/ SentToNDIReturn
  BY <1>3, <1>a DEF TestExit, WaitEvent, WaitTimeout, SentToNDIReturn
<1>4. CASE SendAudio \/ SendVideo
  <2>1. sendPc \in {"audio", "video"} /\ UNCHANGED lifeVars
    BY <1>4 DEF SendAudio, SendVideo
  <2>2. sendPc' \notin {"none", "done"}
    BY <1>4 DEF SendAudio, SendVideo
  <2> QED
    BY <1>a, <2>1, <2>2
<1>5. CASE AddChannel
  BY <1>5, <1>a DEF AddChannel
<1>6. CASE StopChannelCall \/ Destructor
  BY <1>6, <1>a DEF StopChannelCall, Destructor, StopChannel
<1>7. CASE StopChannelJoin
  BY <1>7, <1>a DEF StopChannelJoin
<1>8. CASE DestructorEnd
  BY <1>8, <1>a DEF DestructorEnd
<1>9. CASE UNCHANGED vars
  BY <1>9, <1>a DEF vars
<1> QED
  BY <1>1, <1>2, <1>3, <1>4, <1>5, <1>6, <1>7, <1>8, <1>9
     DEF Next, Call, SendThread, Owner, Finished,
         OutputFramesFull, AddChannelFails

(* One step.                                                               *)
LEMMA StepPairs == PairsInv /\ [Next]_vars => PairsInv'
<1>1. PairsInv => TypeOK
  BY DEF PairsInv
<1> QED
  BY <1>1, StepTypes, StepListCounts, StepContents, StepLifetime DEF PairsInv

(* Where the accepted pairs are and which thread may still send: in every  *)
(* build, whatever count the semaphore starts with.                        *)
THEOREM PairsInvariance == Safety => []PairsInv
<1> QED
  BY InitPairs, StepPairs, PTL DEF Safety

(* A semaphore that starts at 0 agrees with empty lists.                   *)
LEMMA InitEvents == SemInitial = {0} /\ Init => EventCounts
  BY EmptySeq DEF Init, EventCounts, TakenEvent, PendingEvent

(* Each count of the semaphore is raised for a pair and taken with it.     *)
LEMMA StepEvents == IInv /\ [Next]_vars => EventCounts'
<1> SUFFICES ASSUME IInv, [Next]_vars PROVE EventCounts'
  OBVIOUS
<1>a. TypeOK /\ EventCounts /\ PairsInv
  BY DEF IInv, PairsInv
<1>b. Len(listA) \in Nat /\ sem \in Nat /\ TakenEvent \in Nat /\ PendingEvent \in Nat
  BY <1>a, LenProperties DEF TypeOK, TakenEvent, PendingEvent
<1>c. ASSUME UNCHANGED outPc PROVE UNCHANGED PendingEvent
  BY <1>c DEF PendingEvent
<1>d. ASSUME UNCHANGED sendPc PROVE UNCHANGED TakenEvent
  BY <1>d DEF TakenEvent
<1> USE DEF callVars, threadVars, lifeVars, lists
<1>1. ASSUME NEW f \in Frame, OutputFrames(f, f) PROVE EventCounts'
  <2>1. PendingEvent = 0 /\ PendingEvent' = 0 /\ UNCHANGED <<listA, sem, sendPc>>
    BY <1>1 DEF OutputFrames, PendingEvent
  <2> QED
    BY <1>a, <1>d, <2>1 DEF EventCounts
<1>2. CASE PushV \/ OutputFramesReturn
  <2>1. PendingEvent = 0 /\ PendingEvent' = 0 /\ UNCHANGED <<listA, sem, sendPc>>
    BY <1>2 DEF PushV, OutputFramesReturn, PendingEvent
  <2> QED
    BY <1>a, <1>d, <2>1 DEF EventCounts
<1>3. CASE PushA
  <2>1. Len(listA') = Len(listA) + 1
    BY <1>3, <1>a, AppendProperties DEF PushA, TypeOK, Pair
  <2>2. PendingEvent = 0 /\ PendingEvent' = 1 /\ UNCHANGED <<sem, sendPc>>
    BY <1>3 DEF PushA, PendingEvent
  <2> QED
    BY <1>a, <1>b, <1>d, <2>1, <2>2 DEF EventCounts
<1>4. CASE RaiseEvent
  <2>1. /\ PendingEvent = 1 /\ PendingEvent' = 0 /\ sem' = sem + 1
        /\ UNCHANGED <<listA, sendPc>>
    BY <1>4 DEF RaiseEvent, PendingEvent
  <2> QED
    BY <1>a, <1>b, <1>d, <2>1 DEF EventCounts
<1>5. CASE WaitEvent
  <2>1. /\ TakenEvent = 0 /\ TakenEvent' = 1 /\ sem' = sem - 1
        /\ sendPc' = "audio" /\ UNCHANGED <<listA, outPc>>
    BY <1>5 DEF WaitEvent, TakenEvent
  <2> QED
    BY <1>a, <1>b, <1>c, <2>1 DEF EventCounts
<1>6. CASE SendAudio
  <2>1. TakenEvent = 1 /\ UNCHANGED <<sem, outPc>>
    BY <1>6 DEF SendAudio, TakenEvent
  <2>2. listA # <<>>
    BY <1>a, <1>b, <2>1, EmptySeq DEF EventCounts
  <2>3. Len(listA') = Len(listA) - 1
    BY <1>6, <1>a, <2>2, HeadTailProperties DEF SendAudio, TypeOK
  <2>4. TakenEvent' = 0 /\ sendPc' = "video"
    BY <1>6, <2>2 DEF SendAudio, TakenEvent
  <2> QED
    BY <1>a, <1>b, <1>c, <2>1, <2>3, <2>4 DEF EventCounts
<1>7. CASE SendVideo
  <2>1. listV # <<>>
    BY <1>7, <1>a, VideoWaits DEF SendVideo
  <2>2. /\ TakenEvent = 0 /\ TakenEvent' = 0 /\ sendPc' = "release"
        /\ UNCHANGED <<listA, sem, outPc>>
    BY <1>7, <2>1 DEF SendVideo, TakenEvent
  <2> QED
    BY <1>a, <1>c, <2>2 DEF EventCounts
<1>8. CASE TestExit \/ WaitTimeout \/ SentToNDIReturn \/ AddChannel
  <2>1. AddChannel => sendPc = "none"
    BY <1>a DEF PairsInv, Lifetime, AddChannel
  <2>2. /\ sendPc' # "crashed" /\ UNCHANGED TakenEvent
        /\ UNCHANGED <<listA, sem, outPc>>
    BY <1>8, <2>1 DEF TestExit, WaitTimeout, SentToNDIReturn, AddChannel, TakenEvent
  <2> QED
    BY <1>a, <1>c, <2>2 DEF EventCounts
<1>9. CASE StopChannelCall \/ StopChannelJoin \/ Destructor \/ DestructorEnd
           \/ UNCHANGED vars
  <2>1. UNCHANGED <<listA, sem, outPc, sendPc>>
    BY <1>9 DEF StopChannelCall, StopChannelJoin, Destructor, DestructorEnd,
                StopChannel, vars
  <2> QED
    BY <1>a, <1>c, <1>d, <2>1 DEF EventCounts
<1> QED
  BY <1>1, <1>2, <1>3, <1>4, <1>5, <1>6, <1>7, <1>8, <1>9
     DEF Next, Call, CallerStep, SendThread, Owner, Finished,
         OutputFramesFull, AddChannelFails

(* The whole invariant holds of every build whose semaphore starts at 0.   *)
THEOREM Invariance == ASSUME SemInitial = {0} PROVE Safety => []IInv
<1>1. Init => IInv
  BY InitPairs, InitEvents DEF IInv
<1>2. IInv /\ [Next]_vars => IInv'
  BY StepPairs, StepEvents DEF IInv
<1> QED
  BY <1>1, <1>2, PTL DEF Safety

(* NoNullFrame: sentToNDI finds a frame in both lists whenever waitEvent   *)
(* has succeeded.                                                          *)
THEOREM NeverNull == ASSUME SemInitial = {0} PROVE Safety => []NoNullFrame
<1>1. IInv => NoNullFrame
  BY DEF IInv, EventCounts, NoNullFrame
<1> QED
  BY <1>1, Invariance, PTL

(* StopsBetweenPairs: when the thread has ended, as many audio as video    *)
(* frames have been sent.                                                  *)
THEOREM EndsOnPair == Safety => []StopsBetweenPairs
<1>1. PairsInv => StopsBetweenPairs
  <2> SUFFICES ASSUME PairsInv, sendPc = "done" PROVE Len(airedA) = Len(airedV)
    BY DEF StopsBetweenPairs
  <2>1. HalfSent = 0
    BY DEF HalfSent
  <2>2. Len(airedV) \in Nat
    BY LenProperties DEF PairsInv, TypeOK
  <2> QED
    BY <2>1, <2>2 DEF PairsInv, ListCounts
<1> QED
  BY <1>1, PairsInvariance, PTL

(* QuietAfterStop: no step after the return of stopChannel hands a frame   *)
(* to NDI.                                                                 *)
THEOREM StoppedIsQuiet == Safety => QuietAfterStop
<1>1. PairsInv /\ [Next]_vars => [Stopped => UNCHANGED <<airedV, airedA>>]_vars
  <2> SUFFICES ASSUME PairsInv, Next, Stopped PROVE UNCHANGED <<airedV, airedA>>
    OBVIOUS
  <2>1. ~SendAudio /\ ~SendVideo
    BY DEF PairsInv, Lifetime, Stopped, SendAudio, SendVideo
  <2> USE DEF callVars, threadVars, lifeVars, lists
  <2>2. CASE Call
    BY <2>2 DEF Call, OutputFrames, OutputFramesFull, vars
  <2>3. CASE CallerStep
    BY <2>3 DEF CallerStep, PushV, PushA, RaiseEvent, OutputFramesReturn
  <2>4. CASE SendThread
    BY <2>1, <2>4 DEF SendThread, TestExit, WaitEvent, WaitTimeout,
                      SentToNDIReturn
  <2>5. CASE Owner \/ Finished
    BY <2>5 DEF Owner, Finished, AddChannel, AddChannelFails,
                StopChannelCall, StopChannelJoin, Destructor, DestructorEnd,
                StopChannel, vars
  <2> QED
    BY <2>2, <2>3, <2>4, <2>5 DEF Next
<1> QED
  BY <1>1, PairsInvariance, PTL DEF Safety, QuietAfterStop

-----------------------------------------------------------------------------
(* The consumer implements FramePipe.                                      *)

(* Under the invariant the pairs sent are the first accepted ones.         *)
AiredFacts ==
    /\ AiredPairs \in Seq(Pair)
    /\ Len(AiredPairs) = Len(airedV)
    /\ \A i \in 1 .. Len(airedV) : AiredPairs[i] = accepted[i]
    /\ Len(airedV) \in Nat /\ Len(accepted) \in Nat
    /\ Len(airedV) <= Len(accepted)

(* What NDI has received is a sequence of accepted pairs, none missing.    *)
LEMMA AiredArePairs == PairsInv => AiredFacts
<1> SUFFICES ASSUME PairsInv PROVE AiredFacts
  OBVIOUS
<1>1. /\ Len(airedV) \in Nat /\ Len(airedA) \in Nat /\ Len(accepted) \in Nat
      /\ Len(listV) \in Nat /\ Len(listA) \in Nat
  BY LenProperties DEF PairsInv, TypeOK
<1>2. HalfSent \in Nat /\ PendingA \in Nat
  BY DEF HalfSent, PendingA
<1>3. Len(airedV) <= Len(airedA) /\ Len(airedA) + Len(listA) <= Len(accepted)
  BY <1>1, <1>2 DEF PairsInv, ListCounts
<1>4. ASSUME NEW i \in 1 .. Len(airedV) PROVE AiredPairs[i] = accepted[i]
  <2>1. i \in 1 .. Len(airedA) /\ i \in 1 .. Len(accepted)
    BY <1>1, <1>3
  <2>2. AiredPairs[i] = [v |-> airedV[i], a |-> airedA[i]]
    BY <2>1 DEF AiredPairs
  <2>3. airedV[i] = accepted[i].v /\ airedA[i] = accepted[i].a
    BY <2>1 DEF PairsInv, Contents
  <2>4. accepted[i] \in Pair
    BY <2>1, ElementOfSeq DEF PairsInv, TypeOK
  <2>5. accepted[i] = [v |-> accepted[i].v, a |-> accepted[i].a]
    BY <2>4 DEF Pair
  <2> QED
    BY <2>2, <2>3, <2>5
<1>5. AiredPairs \in Seq(Pair) /\ Len(AiredPairs) = Len(airedV)
  <2>1. \A i \in 1 .. Len(airedV) : AiredPairs[i] \in Pair
    BY <1>1, <1>3, <1>4, ElementOfSeq DEF PairsInv, TypeOK
  <2>2. AiredPairs = [i \in 1 .. Len(airedV) |-> AiredPairs[i]]
    BY DEF AiredPairs
  <2>3. AiredPairs \in [1 .. Len(airedV) -> Pair]
    BY <2>1, <2>2
  <2> QED
    BY <1>1, <2>3
<1> QED
  BY <1>1, <1>3, <1>4, <1>5 DEF AiredFacts

(* The initial states map to initial states of FramePipe.                  *)
LEMMA InitPipe == Init => Pipe!Init
<1> SUFFICES ASSUME Init PROVE Pipe!Init
  OBVIOUS
<1>1. AiredPairs = <<>>
  BY EmptySeq DEF Init, AiredPairs
<1>2. (sendInst = "live" /\ ~bExit) \in BOOLEAN
  OBVIOUS
<1> QED
  BY <1>1, <1>2 DEF Init, Pipe!Init

(* Every step accepts a pair, delivers the next one, starts or stops the   *)
(* pipe, or leaves it alone.                                               *)
LEMMA StepPipe == PairsInv /\ PairsInv' /\ [Next]_vars => [Pipe!Next]_(Pipe!vars)
<1> SUFFICES ASSUME PairsInv, PairsInv', [Next]_vars
             PROVE  [Pipe!Next]_(Pipe!vars)
  OBVIOUS
<1> DEFINE running == sendInst = "live" /\ ~bExit
<1>a. AiredFacts /\ AiredFacts'
  <2>1. (PairsInv => AiredFacts)'
    BY AiredArePairs, PTL
  <2> QED
    BY <2>1, AiredArePairs
<1> USE DEF callVars, threadVars, lifeVars, lists
<1>1. ASSUME NEW f \in Frame, OutputFrames(f, f) PROVE Pipe!Accept
  <2> DEFINE p == [v |-> f, a |-> f]
  <2>1. /\ p \in Pair /\ accepted' = Append(accepted, p)
        /\ outPc = "idle" /\ ~(Len(listV) > FrameBufferSize)
        /\ UNCHANGED <<airedV, airedA, sendInst, bExit>>
    BY <1>1 DEF OutputFrames, Pair, Full
  <2>2. Len(accepted) - Len(AiredPairs) < FrameBufferSize + 1
    <3>1. PendingV = 0
      BY <2>1 DEF PendingV
    <3>2. Len(listV) \in Nat /\ FrameBufferSize \in Nat
      BY LenProperties, ConsumerAssumption
         DEF PairsInv, TypeOK, ConsumerAssumption
    <3> QED
      BY <1>a, <2>1, <3>1, <3>2 DEF PairsInv, ListCounts, AiredFacts
  <2>3. UNCHANGED <<AiredPairs, running>>
    BY <2>1 DEF AiredPairs
  <2> QED
    BY <2>1, <2>2, <2>3 DEF Pipe!Accept, Pipe!Inside
<1>2. CASE SendVideo
  <2>1. listV # <<>>
    BY <1>2, VideoWaits DEF SendVideo
  <2>2. /\ airedV' = Append(airedV, Head(listV))
        /\ UNCHANGED <<accepted, sendInst, bExit>>
    BY <1>2, <2>1 DEF SendVideo
  <2>3. Len(airedV') = Len(airedV) + 1
    BY <2>1, <2>2, HeadTailProperties, AppendProperties DEF PairsInv, TypeOK
  <2> DEFINE n == Len(airedV) + 1
             x == accepted[n]
  <2>4. n \in 1 .. Len(accepted)
    BY <1>a, <2>2, <2>3 DEF AiredFacts
  <2>5. x \in Pair
    BY <2>4, ElementOfSeq DEF PairsInv, TypeOK
  <2>6. AiredPairs' = Append(AiredPairs, x)
    <3>1. /\ Append(AiredPairs, x) \in Seq(Pair)
          /\ Len(Append(AiredPairs, x)) = Len(AiredPairs')
      BY <1>a, <2>3, <2>5, AppendProperties DEF AiredFacts
    <3>2. ASSUME NEW i \in 1 .. Len(AiredPairs')
          PROVE  AiredPairs'[i] = Append(AiredPairs, x)[i]
      <4>1. i \in 1 .. n /\ AiredPairs'[i] = accepted[i]
        BY <1>a, <2>2, <2>3 DEF AiredFacts
      <4>2. CASE i = n
        BY <1>a, <2>5, <4>1, <4>2, AppendProperties DEF AiredFacts
      <4>3. CASE i # n
        <5>1. i \in 1 .. Len(airedV)
          BY <1>a, <4>1, <4>3 DEF AiredFacts
        <5> QED
          BY <1>a, <2>5, <4>1, <5>1, AppendProperties DEF AiredFacts
      <4> QED
        BY <4>2, <4>3
    <3> QED
      BY <1>a, <3>1, <3>2, SeqEqual DEF AiredFacts
  <2>7. Len(accepted) - Len(AiredPairs) > 0
    BY <1>a, <2>4 DEF AiredFacts
  <2>8. Pipe!Deliver
    BY <1>a, <2>2, <2>6, <2>7 DEF Pipe!Deliver, Pipe!Inside, AiredFacts
  <2> QED
    BY <2>8 DEF Pipe!Next
<1>3. CASE SendAudio
  <2>1. /\ UNCHANGED <<accepted, airedV, sendInst, bExit>>
    BY <1>3 DEF SendAudio
  <2>2. UNCHANGED AiredPairs
    BY <1>a, <2>1, SeqEqual DEF AiredFacts
  <2> QED
    BY <2>1, <2>2 DEF Pipe!vars
<1>4. CASE CallerStep \/ TestExit \/ WaitEvent \/ WaitTimeout
           \/ SentToNDIReturn \/ StopChannelJoin \/ UNCHANGED vars
  <2>1. UNCHANGED <<accepted, airedV, airedA, sendInst, bExit>>
    BY <1>4 DEF CallerStep, PushV, PushA, RaiseEvent, OutputFramesReturn,
                TestExit, WaitEvent, WaitTimeout, SentToNDIReturn,
                StopChannelJoin, vars
  <2>2. UNCHANGED AiredPairs
    BY <2>1 DEF AiredPairs
  <2> QED
    BY <2>1, <2>2 DEF Pipe!vars
<1>5. CASE AddChannel \/ StopChannelCall \/ Destructor \/ DestructorEnd
  <2>1. UNCHANGED <<accepted, airedV, airedA>>
    BY <1>5 DEF AddChannel, StopChannelCall, Destructor, DestructorEnd,
                StopChannel
  <2>2. UNCHANGED AiredPairs
    BY <2>1 DEF AiredPairs
  <2>3. CASE running' = running
    BY <2>1, <2>2, <2>3 DEF Pipe!vars
  <2>4. CASE running' = ~running
    BY <2>1, <2>2, <2>4 DEF Pipe!Next, Pipe!StartOrStop
  <2> QED
    BY <2>3, <2>4
<1> QED
  BY <1>1, <1>2, <1>3, <1>4, <1>5
     DEF Next, Call, SendThread, Owner, Finished, OutputFramesFull,
         AddChannelFails, Pipe!Next

(* The safety part of ImplementsPipe: what NDI receives is the sequence of *)
(* accepted pairs, each with its own partner, in order, and never more     *)
(* than FRAME_BUFFER_SIZE + 1 of them wait.                                *)
THEOREM PipeSafety == Safety => Pipe!Safety
<1>1. Init => Pipe!Init
  BY InitPipe
<1>2. PairsInv /\ PairsInv' /\ [Next]_vars => [Pipe!Next]_(Pipe!vars)
  BY StepPipe
<1> QED
  BY <1>1, <1>2, PairsInvariance, PTL DEF Safety, Pipe!Safety
=============================================================================
