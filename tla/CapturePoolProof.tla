-------------------------- MODULE CapturePoolProof --------------------------
(***************************************************************************)
(* Proofs about CapturePool, for every set of frames and threads: the      *)
(* inductive invariant IInv, and from it that every frame in use has been  *)
(* initialised and that the pool implements FrameLoan.                     *)
(***************************************************************************)
EXTENDS CapturePool, FiniteSetTheorems, SequenceTheorems, TLAPS

-----------------------------------------------------------------------------
(* The list of free frames.                                                *)

(* What emplace_back and pop_begin do to the places of the list.           *)
LEMMA PushPlaces ==
  ASSUME NEW s \in Seq(Frame), NEW f \in Frame
  PROVE  /\ Append(s, f) \in Seq(Frame)
         /\ Len(Append(s, f)) = Len(s) + 1
         /\ DOMAIN Append(s, f) = 1 .. Len(s) + 1
         /\ DOMAIN s = 1 .. Len(s)
         /\ Len(s) \in Nat
         /\ \A i \in 1 .. Len(s) : Append(s, f)[i] = s[i]
         /\ Append(s, f)[Len(s) + 1] = f
  BY AppendProperties, LenProperties

(* What pop_begin does to the places of the list.                          *)
LEMMA PopPlaces ==
  ASSUME NEW s \in Seq(Frame), s # <<>>
  PROVE  /\ Head(s) = s[1]
         /\ s[1] \in Frame
         /\ Tail(s) \in Seq(Frame)
         /\ Len(s) \in Nat /\ Len(s) > 0
         /\ Len(Tail(s)) = Len(s) - 1
         /\ DOMAIN Tail(s) = 1 .. Len(s) - 1
         /\ DOMAIN s = 1 .. Len(s)
         /\ \A i \in 1 .. Len(s) - 1 : Tail(s)[i] = s[i + 1]
  BY HeadTailProperties, LenProperties, EmptySeq, ElementOfSeq

-----------------------------------------------------------------------------
(* The inductive invariant.                                                *)

(* Nothing is created, lent or in anybody's hands at first.                *)
LEMMA InitInvariant == Init => IInv
  BY PoolAssumption, FS_EmptySet, EmptySeq
  DEF PoolAssumption, Init, IInv, TypeOK, OnePlace, Phases, Filling, InList, InHands

(* addOneFree: the new frame was nowhere.                                  *)
LEMMA AddOneFreeInvariant ==
  ASSUME IInv, NEW f \in Frame, AddOneFree(f)
  PROVE  IInv'
<1> USE PoolAssumption DEF PoolAssumption
<1>1. dataList \in Seq(Frame) /\ dataList' = Append(dataList, f)
  BY DEF AddOneFree, IInv, TypeOK
<1>2. /\ dataList' \in Seq(Frame)
      /\ Len(dataList') = Len(dataList) + 1
      /\ DOMAIN dataList' = 1 .. Len(dataList) + 1
      /\ DOMAIN dataList = 1 .. Len(dataList)
      /\ Len(dataList) \in Nat
      /\ \A i \in 1 .. Len(dataList) : dataList'[i] = dataList[i]
      /\ dataList'[Len(dataList) + 1] = f
  BY <1>1, PushPlaces
<1>3. ~InList(f)
  BY DEF AddOneFree, IInv, Phases, InList
<1>4. Cardinality(created') = Cardinality(created) + 1
  <2>1. IsFiniteSet(created)
    BY FS_Subset DEF IInv, TypeOK
  <2> QED
    BY <2>1, FS_AddElement DEF AddOneFree
<1>5. TypeOK'
  BY <1>2 DEF AddOneFree, IInv, TypeOK, userVars
<1>6. \A g \in Frame : InList(g)' <=> InList(g) \/ g = f
  BY <1>2 DEF InList
<1>7. OnePlace'
  BY <1>2, <1>3, <1>6 DEF AddOneFree, IInv, TypeOK, OnePlace, Phases, InHands, InList, userVars
<1>8. Phases'
  BY <1>2 DEF AddOneFree, IInv, Phases, userVars
<1>9. Filling'
  BY <1>2, <1>4, <1>6 DEF AddOneFree, IInv, Filling, TypeOK
<1> QED
  BY <1>5, <1>7, <1>8, <1>9 DEF IInv

(* The loop of initialize starts with all frames in the list.              *)
LEMMA InitializeFilledInvariant == IInv /\ InitializeFilled => IInv'
<1> SUFFICES ASSUME IInv, InitializeFilled PROVE IInv'
  OBVIOUS
<1>1. Len(dataList) \in Nat /\ DOMAIN dataList = 1 .. Len(dataList)
  BY LenProperties DEF IInv, TypeOK
<1> QED
  BY <1>1 DEF IInv, InitializeFilled, TypeOK, OnePlace, Phases, Filling, InList,
              InHands, userVars

(* getNew inside initialize: the frame is with main.                       *)
LEMMA InitializePopInvariant == IInv /\ InitializePop => IInv'
<1> SUFFICES ASSUME IInv, InitializePop PROVE IInv'
  OBVIOUS
<1> USE PoolAssumption DEF PoolAssumption
<1>1. /\ cur' = dataList[1]
      /\ dataList[1] \in Frame
      /\ dataList' \in Seq(Frame)
      /\ Len(dataList) \in Nat /\ Len(dataList) > 0
      /\ Len(dataList') = Len(dataList) - 1
      /\ DOMAIN dataList' = 1 .. Len(dataList) - 1
      /\ DOMAIN dataList = 1 .. Len(dataList)
      /\ \A i \in 1 .. Len(dataList) - 1 : dataList'[i] = dataList[i + 1]
  BY PopPlaces DEF InitializePop, IInv, TypeOK
<1>2. \A g \in Frame : InList(g)' <=> InList(g) /\ g # cur'
  <2> SUFFICES ASSUME NEW g \in Frame PROVE InList(g)' <=> InList(g) /\ g # cur'
    OBVIOUS
  <2>1. ASSUME InList(g)' PROVE InList(g) /\ g # cur'
    <3>1. PICK i \in 1 .. Len(dataList) - 1 : dataList[i + 1] = g
      BY <1>1, <2>1 DEF InList
    <3>2. i + 1 \in DOMAIN dataList /\ i + 1 # 1 /\ 1 \in DOMAIN dataList
      BY <1>1
    <3> QED
      BY <1>1, <3>1, <3>2 DEF InList, IInv, OnePlace
  <2>2. ASSUME InList(g), g # cur' PROVE InList(g)'
    <3>1. PICK i \in 1 .. Len(dataList) : dataList[i] = g
      BY <1>1, <2>2 DEF InList
    <3>2. i - 1 \in 1 .. Len(dataList) - 1 /\ (i - 1) + 1 = i
      BY <1>1, <2>2, <3>1
    <3>3. dataList'[i - 1] = g
      BY <1>1, <3>1, <3>2
    <3> QED
      BY <1>1, <3>2, <3>3 DEF InList
  <2> QED
    BY <2>1, <2>2
<1>3. cur = Null /\ \A t \in Thread : pc[t] = "idle"
  BY DEF IInv, Phases, InitializePop
<1>4. TypeOK'
  BY <1>1 DEF InitializePop, IInv, TypeOK, userVars
<1>5. OnePlace'
  <2>1. \A i, j \in DOMAIN dataList' : dataList'[i] = dataList'[j] => i = j
    <3> SUFFICES ASSUME NEW i \in 1 .. Len(dataList) - 1, NEW j \in 1 .. Len(dataList) - 1,
                        dataList[i + 1] = dataList[j + 1]
                 PROVE  i = j
      BY <1>1
    <3>1. i + 1 \in DOMAIN dataList /\ j + 1 \in DOMAIN dataList
      BY <1>1
    <3>2. i + 1 = j + 1
      BY <3>1 DEF IInv, OnePlace
    <3> QED
      BY <3>2
  <2> QED
    BY <1>2, <1>3, <2>1 DEF InitializePop, IInv, OnePlace, InHands, userVars
<1>6. Phases'
  BY <1>1 DEF InitializePop, IInv, Phases, userVars
<1>7. Filling'
  <2>1. /\ inits < Len(dataList)
        /\ Len(dataList) = Cardinality(Frame)
        /\ \A g \in Frame : InList(g)
        /\ inits \in Nat
        /\ inits' = inits /\ buffered' = buffered /\ initPc' = "init"
    BY DEF InitializePop, IInv, Filling, TypeOK
  <2>2. ASSUME NEW i \in DOMAIN dataList', i > Len(dataList') - inits'
        PROVE  dataList'[i] \in buffered'
    <3>1. i + 1 \in DOMAIN dataList /\ i + 1 > Len(dataList) - inits
      BY <1>1, <2>1, <2>2
    <3> QED
      BY <1>1, <2>1, <3>1 DEF InitializePop, IInv, Filling
  <2>3. inits' <= Len(dataList') /\ Len(dataList') + 1 = Cardinality(Frame)
    BY <1>1, <2>1
  <2> QED
    BY <1>2, <2>1, <2>2, <2>3 DEF Filling
<1> QED
  BY <1>4, <1>5, <1>6, <1>7 DEF IInv

(* release inside initialize: the frame, now with a buffer, is the last.   *)
LEMMA InitializePushInvariant == IInv /\ InitializePush => IInv'
<1> SUFFICES ASSUME IInv, InitializePush PROVE IInv'
  OBVIOUS
<1> USE PoolAssumption DEF PoolAssumption
<1>0. cur \in Frame
  BY DEF InitializePush, IInv, TypeOK, Phases
<1>1. /\ dataList' \in Seq(Frame)
      /\ Len(dataList') = Len(dataList) + 1
      /\ DOMAIN dataList' = 1 .. Len(dataList) + 1
      /\ DOMAIN dataList = 1 .. Len(dataList)
      /\ Len(dataList) \in Nat
      /\ \A i \in 1 .. Len(dataList) : dataList'[i] = dataList[i]
      /\ dataList'[Len(dataList) + 1] = cur
  BY <1>0, PushPlaces DEF InitializePush, IInv, TypeOK
<1>2. \A g \in Frame : InList(g)' <=> InList(g) \/ g = cur
  BY <1>1 DEF InList
<1>3. ~InList(cur)
  BY <1>0 DEF IInv, OnePlace
<1>4. TypeOK'
  BY <1>0, <1>1 DEF InitializePush, IInv, TypeOK, userVars
<1>5. OnePlace'
  BY <1>0, <1>1, <1>2, <1>3
  DEF InitializePush, IInv, TypeOK, OnePlace, Phases, InHands, InList, userVars
<1>6. Phases'
  BY <1>0, <1>1 DEF InitializePush, IInv, Phases, userVars
<1>7. Filling'
  <2>1. /\ inits \in Nat /\ inits' = inits + 1
        /\ buffered' = buffered \cup {cur}
        /\ initPc = "init" /\ initPc' = "pop"
        /\ inits <= Len(dataList)
        /\ Len(dataList) + 1 = Cardinality(Frame)
    BY DEF InitializePush, IInv, Filling, TypeOK
  <2>2. ASSUME NEW i \in DOMAIN dataList', i > Len(dataList') - inits'
        PROVE  dataList'[i] \in buffered'
    <3>1. CASE i = Len(dataList) + 1
      BY <1>1, <2>1, <3>1
    <3>2. CASE i # Len(dataList) + 1
      <4>1. i \in DOMAIN dataList /\ i > Len(dataList) - inits
        BY <1>1, <2>1, <2>2, <3>2
      <4> QED
        BY <1>1, <2>1, <4>1 DEF IInv, Filling
    <3> QED
      BY <3>1, <3>2
  <2>3. \A g \in Frame : InList(g)'
    BY <1>2, <2>1 DEF IInv, Filling
  <2> QED
    BY <1>1, <2>1, <2>2, <2>3 DEF Filling
<1> QED
  BY <1>4, <1>5, <1>6, <1>7 DEF IInv

(* The loop ends when it has turned once for each frame: all have buffers. *)
LEMMA InitializeDoneInvariant == IInv /\ InitializeDone => IInv'
<1> SUFFICES ASSUME IInv, InitializeDone PROVE IInv'
  OBVIOUS
<1>1. /\ Len(dataList) \in Nat /\ DOMAIN dataList = 1 .. Len(dataList)
      /\ inits = Len(dataList)
      /\ \A f \in Frame : InList(f)
  BY LenProperties DEF InitializeDone, IInv, TypeOK, Filling
<1>2. \A i \in DOMAIN dataList : i > Len(dataList) - inits
  BY <1>1
<1>3. \A i \in DOMAIN dataList : dataList[i] \in buffered
  BY <1>2 DEF InitializeDone, IInv, Filling
<1>4. buffered = Frame
  <2>1. buffered \subseteq Frame
    BY DEF IInv, TypeOK
  <2>2. ASSUME NEW f \in Frame PROVE f \in buffered
    <3>1. PICK i \in DOMAIN dataList : dataList[i] = f
      BY <1>1 DEF InList
    <3> QED
      BY <1>3, <3>1
  <2> QED
    BY <2>1, <2>2
<1>5. TypeOK' /\ OnePlace' /\ Phases'
  BY DEF InitializeDone, IInv, TypeOK, OnePlace, Phases, InList, InHands, userVars
<1>6. Filling'
  BY <1>4 DEF InitializeDone, Filling
<1> QED
  BY <1>5, <1>6 DEF IInv

(* getNew: the frame leaves the list for the hands of the caller.          *)
LEMMA GetNewInvariant ==
  ASSUME IInv, NEW t \in Thread, GetNew(t)
  PROVE  IInv'
<1> USE PoolAssumption DEF PoolAssumption
<1>1. /\ item'[t] = dataList[1]
      /\ dataList[1] \in Frame
      /\ dataList' \in Seq(Frame)
      /\ Len(dataList) \in Nat /\ Len(dataList) > 0
      /\ DOMAIN dataList' = 1 .. Len(dataList) - 1
      /\ DOMAIN dataList = 1 .. Len(dataList)
      /\ \A i \in 1 .. Len(dataList) - 1 : dataList'[i] = dataList[i + 1]
  BY PopPlaces DEF GetNew, IInv, TypeOK
<1>2. \A i, j \in DOMAIN dataList' : dataList'[i] = dataList'[j] => i = j
  <2> SUFFICES ASSUME NEW i \in 1 .. Len(dataList) - 1, NEW j \in 1 .. Len(dataList) - 1,
                      dataList[i + 1] = dataList[j + 1]
               PROVE  i = j
    BY <1>1
  <2>1. i + 1 \in DOMAIN dataList /\ j + 1 \in DOMAIN dataList
    BY <1>1
  <2>2. i + 1 = j + 1
    BY <2>1 DEF IInv, OnePlace
  <2> QED
    BY <2>2
<1>3. \A g \in Frame : InList(g)' => InList(g) /\ g # item'[t]
  <2> SUFFICES ASSUME NEW g \in Frame, InList(g)' PROVE InList(g) /\ g # item'[t]
    OBVIOUS
  <2>1. PICK i \in 1 .. Len(dataList) - 1 : dataList[i + 1] = g
    BY <1>1 DEF InList
  <2>2. i + 1 \in DOMAIN dataList /\ i + 1 # 1 /\ 1 \in DOMAIN dataList
    BY <1>1
  <2> QED
    BY <1>1, <2>1, <2>2 DEF InList, IInv, OnePlace
<1>4. InList(item'[t])
  BY <1>1 DEF InList
<1>5. TypeOK'
  BY <1>1 DEF GetNew, IInv, TypeOK, initVars
<1>6. \A u \in Thread \ {t} : item'[u] = item[u] /\ pc'[u] = pc[u]
  BY DEF GetNew, IInv, TypeOK
<1>7. OnePlace'
  <2>1. /\ item'[t] # cur /\ holders[item'[t]] = {}
        /\ \A u \in Thread : ~InHands(u, item'[t])
    BY <1>1, <1>4 DEF IInv, OnePlace
  <2> QED
    BY <1>1, <1>2, <1>3, <1>6, <2>1 DEF GetNew, IInv, OnePlace, InHands, initVars
<1>8. Phases'
  BY <1>1, <1>6 DEF GetNew, Idle, IInv, Phases, initVars
<1>9. Filling'
  BY DEF GetNew, Idle, IInv, Filling, initVars
<1> QED
  BY <1>5, <1>7, <1>8, <1>9 DEF IInv

(* The shared_ptr takes the frame over.                                    *)
LEMMA GetNewReturnInvariant ==
  ASSUME IInv, NEW t \in Thread, GetNewReturn(t)
  PROVE  IInv'
<1> USE PoolAssumption DEF PoolAssumption
<1>1. item[t] \in Frame /\ InHands(t, item[t])
  BY DEF GetNewReturn, IInv, TypeOK, Phases, InHands
<1>2. /\ ~InList(item[t]) /\ item[t] # cur
      /\ \A u \in Thread : InHands(u, item[t]) => u = t
  BY <1>1 DEF IInv, OnePlace
<1>3. /\ pc'[t] = "idle"
      /\ \A u \in Thread \ {t} : item'[u] = item[u] /\ pc'[u] = pc[u]
      /\ \A g \in Frame \ {item[t]} : holders'[g] = holders[g]
  BY DEF GetNewReturn, IInv, TypeOK
<1>4. TypeOK'
  BY <1>1 DEF GetNewReturn, IInv, TypeOK, initVars
<1>5. OnePlace'
  BY <1>1, <1>2, <1>3 DEF GetNewReturn, IInv, OnePlace, InList, InHands, initVars
<1>6. initPc = "done"
  BY DEF GetNewReturn, IInv, Phases
<1>7. Phases' /\ Filling'
  BY <1>3, <1>6 DEF GetNewReturn, IInv, Phases, Filling, initVars
<1> QED
  BY <1>4, <1>5, <1>7 DEF IInv

(* Copying and dropping change who holds a frame that is held.             *)
LEMMA HoldersInvariant ==
  ASSUME IInv, NEW f \in Frame, NEW t \in Thread,
         Drop(f, t) \/ \E u \in Thread : Copy(f, t, u)
  PROVE  IInv'
<1>1. /\ initPc = "done" /\ holders[f] # {}
      /\ \A g \in Frame \ {f} : holders'[g] = holders[g]
      /\ holders' \in [Frame -> SUBSET Thread]
      /\ UNCHANGED <<dataList, initVars, pc, item>>
  BY DEF Drop, Copy, Idle, IInv, TypeOK
<1>2. TypeOK'
  BY <1>1 DEF IInv, TypeOK, initVars
<1>3. /\ ~InList(f)
      /\ \A u \in Thread : ~InHands(u, f)
  BY <1>1 DEF IInv, OnePlace
<1>4. OnePlace'
  BY <1>1, <1>3 DEF IInv, OnePlace, InList, InHands, initVars
<1>5. Phases' /\ Filling'
  BY <1>1 DEF IInv, Phases, Filling, InList, initVars
<1> QED
  BY <1>2, <1>4, <1>5 DEF IInv

(* The last reference is dropped: the frame is with its deleter.           *)
LEMMA DropLastInvariant ==
  ASSUME IInv, NEW f \in Frame, NEW t \in Thread, DropLast(f, t)
  PROVE  IInv'
<1> USE PoolAssumption DEF PoolAssumption
<1>1. /\ initPc = "done" /\ holders[f] # {} /\ holders'[f] = {}
      /\ item'[t] = f /\ pc'[t] = "release"
      /\ \A u \in Thread \ {t} : item'[u] = item[u] /\ pc'[u] = pc[u]
      /\ \A g \in Frame \ {f} : holders'[g] = holders[g]
      /\ UNCHANGED <<dataList, initVars>>
  BY DEF DropLast, Idle, IInv, TypeOK
<1>2. TypeOK'
  BY DEF DropLast, IInv, TypeOK, initVars
<1>3. /\ ~InList(f)
      /\ \A u \in Thread : ~InHands(u, f)
      /\ cur = Null
  BY <1>1 DEF IInv, OnePlace, Phases
<1>4. OnePlace'
  BY <1>1, <1>3 DEF IInv, OnePlace, InList, InHands, initVars
<1>5. Phases' /\ Filling'
  BY <1>1 DEF IInv, Phases, Filling, InList, initVars
<1> QED
  BY <1>2, <1>4, <1>5 DEF IInv

(* The deleter puts the frame back.                                        *)
LEMMA ReleaseInvariant ==
  ASSUME IInv, NEW t \in Thread, Release(t)
  PROVE  IInv'
<1> USE PoolAssumption DEF PoolAssumption
<1>1. item[t] \in Frame /\ InHands(t, item[t])
  BY DEF Release, IInv, TypeOK, Phases, InHands
<1>2. /\ ~InList(item[t]) /\ item[t] # cur /\ holders[item[t]] = {}
      /\ \A u \in Thread : InHands(u, item[t]) => u = t
  BY <1>1 DEF IInv, OnePlace
<1>3. /\ dataList' \in Seq(Frame)
      /\ DOMAIN dataList' = 1 .. Len(dataList) + 1
      /\ DOMAIN dataList = 1 .. Len(dataList)
      /\ Len(dataList) \in Nat
      /\ \A i \in 1 .. Len(dataList) : dataList'[i] = dataList[i]
      /\ dataList'[Len(dataList) + 1] = item[t]
  BY <1>1, PushPlaces DEF Release, IInv, TypeOK
<1>4. \A g \in Frame : InList(g)' <=> InList(g) \/ g = item[t]
  BY <1>3 DEF InList
<1>5. \A i, j \in DOMAIN dataList' : dataList'[i] = dataList'[j] => i = j
  BY <1>2, <1>3 DEF InList, IInv, OnePlace
<1>6. /\ pc'[t] = "idle"
      /\ \A u \in Thread \ {t} : item'[u] = item[u] /\ pc'[u] = pc[u]
  BY DEF Release, IInv, TypeOK
<1>7. TypeOK'
  BY <1>3 DEF Release, IInv, TypeOK, initVars
<1>8. OnePlace'
  BY <1>2, <1>4, <1>5, <1>6 DEF Release, IInv, OnePlace, InHands, initVars
<1>9. initPc = "done"
  BY DEF Release, IInv, Phases
<1>10. Phases' /\ Filling'
  BY <1>1, <1>3, <1>6, <1>9 DEF Release, IInv, TypeOK, Phases, Filling, initVars
<1> QED
  BY <1>7, <1>8, <1>10 DEF IInv

(* Every step of initialize and of the users keeps the invariant.          *)
LEMMA StepInvariant == IInv /\ [Next]_vars => IInv'
<1> SUFFICES ASSUME IInv, [Next]_vars PROVE IInv'
  OBVIOUS
<1>1. CASE Initialize
  BY <1>1, AddOneFreeInvariant, InitializeFilledInvariant, InitializePopInvariant,
     InitializePushInvariant, InitializeDoneInvariant DEF Initialize
<1>2. ASSUME UNCHANGED vars PROVE IInv'
  BY <1>2 DEF vars, initVars, userVars, IInv, TypeOK, OnePlace, Phases, Filling,
              InList, InHands
<1>3. ASSUME NEW t \in Thread, User(t) PROVE IInv'
  <2>1. CASE GetNewFails(t)
    BY <1>2, <2>1 DEF GetNewFails
  <2> QED
    BY <1>3, <2>1, GetNewInvariant, GetNewReturnInvariant, HoldersInvariant,
       DropLastInvariant, ReleaseInvariant DEF User
<1> QED
  BY <1>1, <1>2, <1>3 DEF Next

(* A frame of the pool is in one place at a time: in the free list, with   *)
(* initialize, in the hands of a thread inside getNew or the deleter, or   *)
(* held by shared_ptrs; and initialize loses none.                         *)
THEOREM Invariance == Safety => []IInv
<1>1. Init => IInv
  BY InitInvariant
<1>2. IInv /\ [Next]_vars => IInv'
  BY StepInvariant
<1> QED
  BY <1>1, <1>2, PTL DEF Safety

-----------------------------------------------------------------------------
(* What follows for the users of the pool.                                 *)

(* No thread ever holds a frame whose buffer has not been allocated, for   *)
(* every size of the pool: the loop of CapturePoolMgr::initialize meets    *)
(* every frame because SyncList is first in, first out.                    *)
THEOREM AllBuffersAllocated == Safety => []BuffersAllocated
<1>1. IInv => BuffersAllocated
  BY DEF IInv, Phases, Filling, BuffersAllocated
<1> QED
  BY <1>1, Invariance, PTL

(* Each step of the pool lends, shares or takes back one frame, or changes *)
(* nothing that FrameLoan sees.                                            *)
LEMMA StepLoan == IInv /\ [Next]_vars => [Loan!Next]_holders
<1> SUFFICES ASSUME IInv, [Next]_vars PROVE [Loan!Next]_holders
  OBVIOUS
<1>1. CASE Initialize
  BY <1>1 DEF Initialize, AddOneFree, InitializeFilled, InitializePop, InitializePush,
              InitializeDone, userVars
<1>2. CASE UNCHANGED vars
  BY <1>2 DEF vars, userVars
<1>3. ASSUME NEW t \in Thread, User(t) PROVE [Loan!Next]_holders
  <2>1. CASE GetNew(t) \/ GetNewFails(t) \/ Release(t)
    BY <2>1 DEF GetNew, GetNewFails, Release, vars, userVars
  <2>2. CASE GetNewReturn(t)
    <3>1. item[t] \in Frame /\ holders[item[t]] = {}
      BY <2>2 DEF GetNewReturn, IInv, TypeOK, Phases, OnePlace, InHands
    <3>2. Loan!Lend(item[t], t)
      BY <2>2, <3>1 DEF GetNewReturn, Loan!Lend
    <3> QED
      BY <3>1, <3>2 DEF Loan!Next
  <2>3. ASSUME NEW f \in Frame, Drop(f, t) \/ DropLast(f, t) PROVE Loan!Next
    <3>1. Loan!GiveUp(f, t)
      BY <2>3 DEF Drop, DropLast, Loan!GiveUp, IInv, TypeOK
    <3> QED
      BY <3>1 DEF Loan!Next
  <2>4. ASSUME NEW f \in Frame, NEW u \in Thread, Copy(f, t, u) PROVE Loan!Next
    <3>1. Loan!Share(f, u)
      BY <2>4 DEF Copy, Loan!Share
    <3> QED
      BY <3>1 DEF Loan!Next
  <2> QED
    BY <1>3, <2>1, <2>2, <2>3, <2>4 DEF User
<1> QED
  BY <1>1, <1>2, <1>3 DEF Next

(* The pool implements FrameLoan: getNew never gives out a frame that some *)
(* thread still holds, however getNew, copies, drops and deleters of       *)
(* different threads interleave.                                           *)
THEOREM Implementation == Safety => ImplementsLoan
<1>1. Init => Loan!Init
  BY DEF Init, Loan!Init
<1>2. IInv /\ [Next]_vars => [Loan!Next]_holders
  BY StepLoan
<1> QED
  BY <1>1, <1>2, Invariance, PTL DEF Safety, ImplementsLoan, Loan!Spec
=============================================================================
