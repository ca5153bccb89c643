--------------------------- MODULE LogWriterProof ---------------------------
(***************************************************************************)
(* Proofs about LogWriter: for any threads, logs, calls, length of the     *)
(* queues and settings.                                                    *)
(***************************************************************************)
EXTENDS LogWriter, SequenceTheorems, TLAPS

LEMMA InitInvariant == Init => IInv
<1> SUFFICES ASSUME Init PROVE IInv
  OBVIOUS
<1> USE LogAssumption
<1>1. TypeOK
  <2>1. appenders \in Seq(Appender) /\ Len(appenders) = 0
    BY DEF Init
  <2>2. file \in [Paths -> Seq(Line)]
    BY DEF Init
  <2>3. pc \in [Threads -> {"idle"}] /\ line \in [Threads -> {None}]
    BY DEF Init
  <2>4. /\ appendList \in [Paths -> 0 .. Len(appenders)]
        /\ mine \in [Threads -> 0 .. Len(appenders)] /\ count \in 0 .. MaxLines
    BY <2>1 DEF Init
  <2> QED
    BY <2>1, <2>2, <2>3, <2>4 DEF Init, TypeOK
<1>2. /\ \A t \in Threads : pc[t] = "idle"
      /\ \A p \in Paths : appendList[p] = 0 /\ file[p] = <<>>
      /\ DOMAIN appenders = {} /\ appenders = <<>>
      /\ ~once /\ ~enableDebug /\ readers = {} /\ writer = None
  BY DEF Init
<1>3. LockInv /\ CallInv
  BY <1>2 DEF LockInv, CallInv, Exclusive, Making
<1>4. RegistryInv /\ ConfigInv
  BY <1>2 DEF RegistryInv, ConfigInv, Making
<1> QED
  BY <1>1, <1>3, <1>4 DEF IInv

(* What a step must leave alone for the registry to stay in order.         *)
LEMMA RegistryStable ==
    ASSUME IInv, UNCHANGED <<settings, registry, file>>,
           \A u \in Threads : pc'[u] \in Making => pc[u] \in Making,
           \A u \in Threads : pc[u] = "emplace" => pc'[u] = "emplace" /\ mine'[u] = mine[u]
    PROVE  RegistryInv' /\ ConfigInv'
<1>1. UNCHANGED <<ini, enableDebug, asyncLog, once, appendList, appenders, file>>
  BY DEF settings, registry
<1>2. RegistryInv'
  BY <1>1 DEF IInv, RegistryInv
<1>3. ConfigInv'
  BY <1>1 DEF IInv, ConfigInv
<1> QED
  BY <1>2, <1>3

(* The steps before the registry change nothing but the locals of their    *)
(* thread.                                                                 *)
LEMMA WriteLogInvariant ==
    ASSUME IInv, NEW t \in Threads, WriteLog(t)
    PROVE  IInv'
<1> USE LogAssumption DEF WriteLog, Goto
<1>1. PICK c \in Calls : line' = [line EXCEPT ![t] = [thread |-> t, n |-> count', call |-> c]]
  OBVIOUS
<1>2. [thread |-> t, n |-> count', call |-> c] \in Line
  BY DEF IInv, TypeOK, Line
<1>3. TypeOK'
  BY <1>1, <1>2 DEF IInv, TypeOK, settings, lockVars, registry
<1>4. LockInv'
  BY DEF IInv, TypeOK, LockInv, Exclusive, settings, lockVars, registry
<1>5. CallInv'
  BY <1>1, <1>2 DEF IInv, TypeOK, CallInv, Path, Exclusive, Making, settings, lockVars, registry
<1>6. RegistryInv' /\ ConfigInv'
  BY RegistryStable DEF IInv, TypeOK, Making, settings, lockVars, registry
<1> QED
  BY <1>3, <1>4, <1>5, <1>6 DEF IInv

LEMMA ReturnInvariant ==
    ASSUME IInv, NEW t \in Threads, DropDebug(t) \/ CutOff(t) \/ NullPath(t)
    PROVE  IInv'
<1> USE DEF Return, DropDebug, CutOff, NullPath
<1>1. TypeOK'
  <2>1. mine' \in [Threads -> 0 .. Len(appenders)]
    BY DEF IInv, TypeOK
  <2>2. /\ line' \in [Threads -> Line \cup {None}]
        /\ pc' = [pc EXCEPT ![t] = "idle"]
    BY DEF IInv, TypeOK
  <2> QED
    BY <2>1, <2>2 DEF IInv, TypeOK, settings, lockVars, registry
<1>2. LockInv'
  BY DEF IInv, TypeOK, LockInv, Exclusive, settings, lockVars, registry
<1>3. CallInv'
  BY DEF IInv, TypeOK, CallInv, Path, Exclusive, Making, settings, lockVars, registry
<1>4. RegistryInv' /\ ConfigInv'
  BY RegistryStable DEF IInv, TypeOK, Making, settings, lockVars, registry
<1> QED
  BY <1>1, <1>2, <1>3, <1>4 DEF IInv

LEMMA FormatInvariant ==
    ASSUME IInv, NEW t \in Threads, PassLevel(t) \/ Format(t)
    PROVE  IInv'
<1> USE DEF Goto, PassLevel, Format
<1>1. TypeOK'
  BY DEF IInv, TypeOK, settings, lockVars, registry
<1>2. LockInv'
  BY DEF IInv, TypeOK, LockInv, Exclusive, settings, lockVars, registry
<1>3. CallInv'
  BY DEF IInv, TypeOK, CallInv, Path, Exclusive, Making, settings, lockVars, registry
<1>4. RegistryInv' /\ ConfigInv'
  BY RegistryStable DEF IInv, TypeOK, Making, settings, lockVars, registry
<1> QED
  BY <1>1, <1>2, <1>3, <1>4 DEF IInv

(* The two sides of m_lock and the two looks at append_list.               *)
LEMMA LockInvariant ==
    ASSUME IInv, NEW t \in Threads, LockShared(t) \/ LockExclusive(t)
    PROVE  IInv'
<1> USE LogAssumption DEF Goto, LockShared, LockExclusive
<1>1. TypeOK'
  BY DEF IInv, TypeOK, settings, registry
<1>2. LockInv'
  <2>1. CASE LockShared(t)
    BY <2>1 DEF IInv, TypeOK, LockInv, Exclusive
  <2>2. CASE LockExclusive(t)
    BY <2>2 DEF IInv, TypeOK, LockInv, Exclusive
  <2> QED
    BY <2>1, <2>2
<1>3. CallInv'
  <2>1. Path(t) \in Paths
    BY DEF IInv, CallInv, Line, Path, Call
  <2> QED
    BY <2>1 DEF IInv, TypeOK, CallInv, Path, Exclusive, Making, settings, registry
<1>4. RegistryInv' /\ ConfigInv'
  BY RegistryStable DEF IInv, TypeOK, Making, settings, registry
<1> QED
  BY <1>1, <1>2, <1>3, <1>4 DEF IInv

LEMMA FindInvariant ==
    ASSUME IInv, NEW t \in Threads, Find(t) \/ FindAgain(t)
    PROVE  IInv'
<1> USE LogAssumption DEF Goto, Find, FindAgain
<1>0. Path(t) \in Paths /\ appendList[Path(t)] \in 0 .. Len(appenders)
  BY DEF IInv, TypeOK, CallInv, Exclusive
<1>1. TypeOK'
  BY <1>0 DEF IInv, TypeOK, settings, registry
<1>2. LockInv'
  BY DEF IInv, TypeOK, LockInv, Exclusive, settings, registry
<1>3. CallInv'
  BY <1>0 DEF IInv, TypeOK, CallInv, Path, Exclusive, Making, settings, registry
<1>4. RegistryInv' /\ ConfigInv'
  BY RegistryStable DEF IInv, TypeOK, Making, settings, registry
<1> QED
  BY <1>1, <1>2, <1>3, <1>4 DEF IInv

(* Only one thread is between the second look and the entry in the list.   *)
LEMMA OneExclusive ==
    ASSUME IInv, NEW t \in Threads, NEW u \in Threads,
           pc[t] \in Exclusive, pc[u] \in Exclusive
    PROVE  t = u
BY DEF IInv, LockInv

LEMMA LoadInvariant ==
    ASSUME IInv, NEW t \in Threads, LoadLogConfig(t)
    PROVE  IInv'
<1> USE DEF Goto, LoadLogConfig
<1>1. TypeOK'
  BY DEF IInv, TypeOK, lockVars, registry
<1>2. LockInv'
  BY DEF IInv, TypeOK, LockInv, Exclusive, lockVars, registry
<1>3. CallInv'
  <2>1. enableDebug => enableDebug'
    BY DEF IInv, TypeOK, ConfigInv
  <2> QED
    BY <2>1 DEF IInv, TypeOK, CallInv, Path, Exclusive, Making, lockVars, registry
<1>4. RegistryInv' /\ ConfigInv'
  BY DEF IInv, TypeOK, RegistryInv, ConfigInv, Making, lockVars, registry
<1> QED
  BY <1>1, <1>2, <1>3, <1>4 DEF IInv

LEMMA MakeInvariant ==
    ASSUME IInv, NEW t \in Threads, MakeAppender(t)
    PROVE  IInv'
<1> DEFINE new == [path |-> Path(t), async |-> asyncLog, queue |-> <<>>]
<1> USE DEF Goto, MakeAppender
<1>1. Path(t) \in Paths /\ appendList[Path(t)] = 0 /\ pc[t] \in Exclusive /\ once
  BY DEF IInv, CallInv, ConfigInv, Exclusive, Making
<1>2. new \in Appender
  BY <1>1 DEF IInv, TypeOK, Appender
<1>3. /\ appenders' = Append(appenders, new) /\ appenders' \in Seq(Appender)
      /\ Len(appenders') = Len(appenders) + 1 /\ Len(appenders) \in Nat
      /\ \A a \in 1 .. Len(appenders) : appenders'[a] = appenders[a]
      /\ appenders'[Len(appenders) + 1] = new
      /\ DOMAIN appenders = 1 .. Len(appenders)
      /\ DOMAIN appenders' = 1 .. Len(appenders) + 1
  BY <1>2 DEF IInv, TypeOK
<1> HIDE DEF new
<1>4. TypeOK'
  BY <1>3 DEF IInv, TypeOK, settings, lockVars
<1>5. LockInv'
  BY DEF IInv, TypeOK, LockInv, Exclusive, settings, lockVars
<1>6. ASSUME NEW u \in Threads, u # t
      PROVE  pc[u] \notin Exclusive
  BY <1>1, <1>6, OneExclusive
<1>7. CallInv'
  <2>1. \A u \in Threads : u # t =>
           pc'[u] = pc[u] /\ mine'[u] = mine[u] /\ line'[u] = line[u] /\ pc[u] \notin Exclusive
    BY <1>6 DEF IInv, TypeOK
  <2>2. /\ pc'[t] = "emplace" /\ pc[t] = "make" /\ line'[t] = line[t]
        /\ mine'[t] = Len(appenders) + 1
    BY <1>3 DEF IInv, TypeOK
  <2>3. new.path = Path(t) /\ new.queue = <<>>
    BY DEF new
  <2> QED
    BY <1>1, <1>3, <2>1, <2>2, <2>3
       DEF IInv, TypeOK, CallInv, Path, Exclusive, Making, settings, lockVars
<1>8. RegistryInv'
  <2>1. \A a \in 1 .. Len(appenders) : appendList[appenders[a].path] = a
    BY <1>1, <1>3, OneExclusive DEF IInv, RegistryInv, Exclusive
  <2>2. mine'[t] = Len(appenders) + 1 /\ pc'[t] = "emplace"
    BY <1>3 DEF IInv, TypeOK
  <2>3. \A p \in Paths : appendList[p] # 0 => appendList[p] \in 1 .. Len(appenders)
    BY DEF IInv, TypeOK
  <2>4. new.queue = <<>>
    BY DEF new
  <2> QED
    BY <1>3, <2>1, <2>2, <2>3, <2>4 DEF IInv, RegistryInv
<1>9. ConfigInv'
  BY <1>1 DEF IInv, TypeOK, ConfigInv, settings
<1> QED
  BY <1>4, <1>5, <1>7, <1>8, <1>9 DEF IInv

LEMMA EmplaceInvariant ==
    ASSUME IInv, NEW t \in Threads, Emplace(t)
    PROVE  IInv'
<1> USE DEF Goto, Emplace
<1>1. /\ Path(t) \in Paths /\ appendList[Path(t)] = 0 /\ pc[t] \in Exclusive
      /\ mine[t] = Len(appenders) /\ mine[t] # 0
      /\ appenders[mine[t]].path = Path(t)
  BY DEF IInv, CallInv, Exclusive, Making
<1>2. appendList' = [appendList EXCEPT ![Path(t)] = mine[t]]
  BY <1>1
<1>3. TypeOK'
  BY <1>1, <1>2 DEF IInv, TypeOK, settings
<1>5. \A u \in Threads : u # t => pc'[u] = pc[u] /\ pc[u] \notin Exclusive
  BY <1>1, OneExclusive DEF IInv, TypeOK
<1>4. LockInv'
  <2>1. pc'[t] = "append" /\ writer' = None /\ None \notin Threads
    BY LogAssumption DEF IInv, TypeOK
  <2>2. readers' = readers /\ t \notin readers
    BY <1>1 DEF IInv, LockInv, Exclusive
  <2> QED
    BY <1>5, <2>1, <2>2 DEF IInv, LockInv, Exclusive
<1>6. CallInv'
  <2>1. pc'[t] = "append" /\ pc[t] = "emplace" /\ appendList'[Path(t)] = mine[t]
    BY <1>1, <1>2 DEF IInv, TypeOK
  <2>2. ASSUME NEW u \in Threads, pc[u] = "append"
        PROVE  appendList'[Path(u)] = appendList[Path(u)]
    BY <1>1, <1>2, <2>2 DEF IInv, TypeOK, CallInv
  <2> QED
    BY <1>1, <1>5, <2>1, <2>2 DEF IInv, TypeOK, CallInv, Path, Exclusive, Making, settings
<1>7. RegistryInv'
  <2>1. ASSUME NEW a \in DOMAIN appenders
        PROVE  appenders[a].path \in Paths
    <3>1. appenders[a] \in Appender
      BY DEF IInv, TypeOK
    <3> QED
      BY <3>1 DEF Appender
  <2>2. ASSUME NEW a \in DOMAIN appenders
        PROVE  appendList'[appenders[a].path] = a
    <3>1. CASE appendList[appenders[a].path] = a
      <4>1. a # 0
        BY DEF IInv, TypeOK
      <4> QED
        BY <1>1, <1>2, <2>1, <3>1, <4>1 DEF IInv, TypeOK
    <3>2. CASE appendList[appenders[a].path] # a
      <4>1. PICK u \in Threads : pc[u] = "emplace" /\ mine[u] = a
        BY <3>2 DEF IInv, RegistryInv
      <4>2. u = t
        BY <4>1, <1>5 DEF Exclusive
      <4> QED
        BY <1>1, <1>2, <4>1, <4>2 DEF IInv, TypeOK
    <3> QED
      BY <3>1, <3>2
  <2> QED
    BY <1>1, <1>2, <2>2 DEF IInv, TypeOK, RegistryInv
<1>8. ConfigInv'
  BY <1>1, <1>2 DEF IInv, TypeOK, ConfigInv, Making, settings
<1> QED
  BY <1>3, <1>4, <1>6, <1>7, <1>8 DEF IInv

(* doAppend and the queue's thread change one appender's queue, and files.  *)
LEMMA AppenderOf ==
    ASSUME IInv, NEW a \in DOMAIN appenders
    PROVE  /\ DOMAIN appenders = 1 .. Len(appenders) /\ Len(appenders) \in Nat
           /\ appenders[a] \in Appender
           /\ appenders[a].path \in Paths
           /\ appenders[a].queue \in Seq(Line)
           /\ file[appenders[a].path] \in Seq(Line)
<1>1. appenders[a] \in Appender /\ DOMAIN appenders = 1 .. Len(appenders) /\ Len(appenders) \in Nat
  BY DEF IInv, TypeOK
<1>2. appenders[a].path \in Paths /\ appenders[a].queue \in Seq(Line)
  BY <1>1 DEF Appender
<1> QED
  BY <1>1, <1>2 DEF IInv, TypeOK

(* Changing one queue leaves the list and the paths of the appenders alone. *)
LEMMA NewQueue ==
    ASSUME IInv, NEW a \in DOMAIN appenders, NEW q \in Seq(Line),
           appenders' = [appenders EXCEPT ![a].queue = q]
    PROVE  /\ appenders' \in Seq(Appender) /\ Len(appenders') = Len(appenders)
           /\ DOMAIN appenders' = DOMAIN appenders
           /\ \A b \in DOMAIN appenders :
                 /\ appenders'[b].path = appenders[b].path
                 /\ appenders'[b].async = appenders[b].async
                 /\ appenders'[b].queue = IF b = a THEN q ELSE appenders[b].queue
<1>1. appenders \in Seq(Appender) /\ appenders[a] \in Appender
  BY AppenderOf DEF IInv, TypeOK
<1>2. [appenders[a] EXCEPT !.queue = q] \in Appender
  BY <1>1 DEF Appender
<1>3. appenders' = [appenders EXCEPT ![a] = [appenders[a] EXCEPT !.queue = q]]
  OBVIOUS
<1>4. appenders' \in Seq(Appender) /\ Len(appenders') = Len(appenders) /\ DOMAIN appenders' = DOMAIN appenders
  BY <1>1, <1>2, <1>3, ExceptSeq
<1>5. \A b \in DOMAIN appenders : appenders[b] \in Appender
  BY AppenderOf
<1> QED
  BY <1>1, <1>3, <1>4, <1>5 DEF Appender

LEMMA DoAppendInvariant ==
    ASSUME IInv, NEW t \in Threads, DoAppend(t)
    PROVE  IInv'
<1> DEFINE a == mine[t]
<1>1. /\ pc[t] = "append" /\ a = appendList[Path(t)] /\ a # 0 /\ Path(t) \in Paths
      /\ line[t] \in Line
  BY DEF DoAppend, IInv, CallInv
<1>2. a \in DOMAIN appenders /\ appenders[a].path = Path(t)
  BY <1>1 DEF IInv, TypeOK, RegistryInv
<1>3. /\ appenders' \in Seq(Appender) /\ Len(appenders') = Len(appenders)
      /\ DOMAIN appenders' = DOMAIN appenders
      /\ \A b \in DOMAIN appenders :
            /\ appenders'[b].path = appenders[b].path
            /\ appenders'[b].async = appenders[b].async
            /\ appenders[b].async \/ appenders'[b].queue = appenders[b].queue
            /\ b # a => appenders'[b].queue = appenders[b].queue
  <2>1. CASE appenders[a].async
    <3>1. Append(appenders[a].queue, line[t]) \in Seq(Line)
      BY <1>1, <1>2, AppenderOf
    <3>2. appenders' = [appenders EXCEPT ![a].queue = Append(appenders[a].queue, line[t])]
      BY <2>1 DEF DoAppend
    <3> HIDE DEF a
    <3> QED
      BY <1>2, <2>1, <3>1, <3>2, NewQueue
  <2>2. CASE ~appenders[a].async
    BY <2>2 DEF DoAppend, IInv, TypeOK
  <2> QED
    BY <2>1, <2>2
<1>4. /\ file' \in [Paths -> Seq(Line)]
      /\ \A p \in Paths : p # Path(t) => file'[p] = file[p]
  <2>1. CASE appenders[a].async
    BY <2>1 DEF DoAppend, IInv, TypeOK
  <2>2. CASE ~appenders[a].async
    <3>1. file' = [file EXCEPT ![Path(t)] = Append(file[Path(t)], line[t])]
      BY <1>2, <2>2 DEF DoAppend
    <3>2. file[Path(t)] \in Seq(Line)
      BY <1>1 DEF IInv, TypeOK
    <3>3. Append(file[Path(t)], line[t]) \in Seq(Line)
      BY <1>1, <3>2
    <3> QED
      BY <1>1, <3>1, <3>3 DEF IInv, TypeOK
  <2> QED
    BY <2>1, <2>2
<1>5. /\ pc' = [pc EXCEPT ![t] = "idle"] /\ line' = [line EXCEPT ![t] = None]
      /\ mine' = [mine EXCEPT ![t] = 0]
      /\ UNCHANGED <<ini, enableDebug, asyncLog, once, readers, writer, appendList, count>>
  BY DEF DoAppend, Return, settings, lockVars
<1> HIDE DEF a
<1>6. TypeOK'
  <2>1. mine' \in [Threads -> 0 .. Len(appenders)]
    BY <1>5 DEF IInv, TypeOK
  <2>2. /\ line' \in [Threads -> Line \cup {None}]
        /\ pc' = [pc EXCEPT ![t] = "idle"]
    BY <1>5 DEF IInv, TypeOK
  <2> QED
    BY <1>3, <1>4, <1>5, <2>1, <2>2 DEF IInv, TypeOK
<1>7. LockInv'
  BY <1>1, <1>5 DEF IInv, TypeOK, LockInv, Exclusive
<1>8. \A u \in Threads : u # t => pc'[u] = pc[u] /\ line'[u] = line[u] /\ mine'[u] = mine[u]
  BY <1>5 DEF IInv, TypeOK
<1>9. pc'[t] = "idle"
  BY <1>5 DEF IInv, TypeOK
<1>10. CallInv'
  <2>1. ASSUME NEW u \in Threads, pc[u] = "emplace"
        PROVE  u # t /\ mine[u] \in DOMAIN appenders /\ mine[u] # a
    <3>1. appendList[Path(u)] = 0 /\ mine[u] # 0 /\ appenders[mine[u]].path = Path(u)
      BY <2>1 DEF IInv, CallInv, Making
    <3> QED
      BY <1>1, <1>2, <2>1, <3>1 DEF IInv, TypeOK
  <2> QED
    BY <1>3, <1>5, <1>8, <1>9, <2>1 DEF IInv, CallInv, Path, Exclusive, Making
<1>11. RegistryInv'
  <2>1. \A p \in Paths : appendList[p] # 0 => appendList[p] \in DOMAIN appenders
    BY DEF IInv, TypeOK
  <2>2. \A u \in Threads : pc[u] = "emplace" => pc'[u] = "emplace" /\ mine'[u] = mine[u]
    BY <1>1, <1>8
  <2> QED
    BY <1>3, <1>5, <2>1, <2>2 DEF IInv, RegistryInv
<1>12. ConfigInv'
  <2>1. appenders # <<>>
    BY <1>2
  <2>2. \A p \in Paths : file'[p] # <<>> => appendList'[p] # 0
    BY <1>1, <1>4, <1>5 DEF IInv, ConfigInv
  <2> QED
    BY <1>5, <1>8, <1>9, <2>1, <2>2 DEF IInv, ConfigInv, Making
<1> QED
  BY <1>6, <1>7, <1>10, <1>11, <1>12 DEF IInv

LEMMA QueueThreadInvariant ==
    ASSUME IInv, NEW a \in DOMAIN appenders, QueueThread(a)
    PROVE  IInv'
<1>1. /\ appenders[a].path \in Paths /\ appenders[a].queue \in Seq(Line)
      /\ appenders[a].queue # <<>> /\ file[appenders[a].path] \in Seq(Line)
  BY AppenderOf DEF QueueThread
<1>2. Tail(appenders[a].queue) \in Seq(Line) /\ Head(appenders[a].queue) \in Line
  BY <1>1
<1>3. appenders' = [appenders EXCEPT ![a].queue = Tail(appenders[a].queue)]
  BY DEF QueueThread
<1>4. /\ appenders' \in Seq(Appender) /\ Len(appenders') = Len(appenders)
      /\ DOMAIN appenders' = DOMAIN appenders
      /\ \A b \in DOMAIN appenders :
            /\ appenders'[b].path = appenders[b].path
            /\ appenders'[b].async = appenders[b].async
            /\ b # a => appenders'[b].queue = appenders[b].queue
  BY <1>2, <1>3, NewQueue
<1>5. appenders[a].async /\ appendList[appenders[a].path] = a /\ a # 0
  <2>1. \A t \in Threads : pc[t] = "emplace" => mine[t] # a
    BY <1>1 DEF IInv, CallInv
  <2>2. a # 0
    BY AppenderOf
  <2> QED
    BY <1>1, <2>1, <2>2 DEF IInv, RegistryInv
<1>6. /\ UNCHANGED <<ini, enableDebug, asyncLog, once, readers, writer, appendList,
                     pc, line, mine, count>>
      /\ file' = [file EXCEPT ![appenders[a].path] = Append(@, Head(appenders[a].queue))]
  BY DEF QueueThread, settings, lockVars, threadVars
<1>7. TypeOK'
  <2>1. Append(file[appenders[a].path], Head(appenders[a].queue)) \in Seq(Line)
    BY <1>1, <1>2
  <2>2. file' \in [Paths -> Seq(Line)]
    BY <1>1, <1>6, <2>1 DEF IInv, TypeOK
  <2> QED
    BY <1>4, <1>6, <2>2 DEF IInv, TypeOK
<1>8. LockInv'
  BY <1>6 DEF IInv, LockInv
<1>9. CallInv'
  <2>1. \A t \in Threads : pc[t] = "emplace" => mine[t] \in DOMAIN appenders /\ mine[t] # a
    BY <1>1 DEF IInv, TypeOK, CallInv
  <2> QED
    BY <1>4, <1>6, <2>1 DEF IInv, CallInv, Path
<1>10. RegistryInv'
  <2>1. \A p \in Paths : appendList[p] # 0 => appendList[p] \in DOMAIN appenders
    BY DEF IInv, TypeOK
  <2> QED
    BY <1>4, <1>5, <1>6, <2>1 DEF IInv, RegistryInv
<1>11. ConfigInv'
  <2>1. appenders # <<>>
    BY AppenderOf
  <2>2. \A p \in Paths : file'[p] # <<>> => appendList'[p] # 0
    BY <1>5, <1>6 DEF IInv, TypeOK, ConfigInv
  <2> QED
    BY <1>6, <2>1, <2>2 DEF IInv, ConfigInv
<1> QED
  BY <1>7, <1>8, <1>9, <1>10, <1>11 DEF IInv

LEMMA StepInvariant == IInv /\ [Next]_vars => IInv'
<1> SUFFICES ASSUME IInv, [Next]_vars PROVE IInv'
  OBVIOUS
<1>1. ASSUME NEW t \in Threads, WriteLog(t) \/ InCall(t) \/ Lock(t) \/ MakeAppender(t) \/ DoAppend(t)
      PROVE  IInv'
  BY <1>1, WriteLogInvariant, ReturnInvariant, FormatInvariant, LockInvariant, FindInvariant,
     LoadInvariant, MakeInvariant, EmplaceInvariant, DoAppendInvariant
     DEF InCall, GetAppender, Lock
<1>2. ASSUME UNCHANGED vars PROVE IInv'
  <2>1. UNCHANGED <<ini, enableDebug, asyncLog, once, readers, writer, appendList, appenders,
                    file, pc, line, mine, count>>
    BY <1>2 DEF vars, settings, lockVars, registry, threadVars
  <2>2. TypeOK' /\ LockInv' /\ CallInv'
    BY <2>1 DEF IInv, TypeOK, LockInv, CallInv, Path
  <2>3. RegistryInv' /\ ConfigInv'
    BY <2>1 DEF IInv, RegistryInv, ConfigInv
  <2> QED
    BY <2>2, <2>3 DEF IInv
<1> QED
  BY <1>1, <1>2, QueueThreadInvariant DEF Next

(* In every reachable state m_lock is held as the code means it, each path *)
(* of append_list has an appender that writes to it, every appender is in  *)
(* the list or just being put there, and the settings were loaded before.  *)
THEOREM Invariance == Safety => []IInv
<1> QED
  BY InitInvariant, StepInvariant, PTL DEF Safety

(* However many threads miss a log at once, it gets one appender.          *)
THEOREM OneAppenderEach == Safety => []OneAppender
<1>1. ASSUME IInv, NEW i \in DOMAIN appenders, NEW j \in DOMAIN appenders,
             appenders[i].path = appenders[j].path
      PROVE  i = j
  <2>1. ASSUME NEW a \in DOMAIN appenders
        PROVE  \/ appendList[appenders[a].path] = a
               \/ /\ appendList[appenders[a].path] = 0 /\ a # 0
                  /\ \E t \in Threads : pc[t] \in Exclusive /\ mine[t] = a
    BY <1>1 DEF IInv, RegistryInv, CallInv, Making, Exclusive
  <2>2. i # 0 /\ j # 0
    BY <1>1, AppenderOf
  <2> QED
    BY <1>1, <2>1, <2>2, OneExclusive
<1>2. IInv => OneAppender
  BY <1>1 DEF OneAppender
<1> QED
  BY <1>2, Invariance, PTL

-----------------------------------------------------------------------------
(* The callers see a LogBook.                                              *)

TheCalls == {line[t] : t \in {u \in Threads : pc[u] # "idle"}}
TheLogs == [p \in Paths |-> Contents(p)]

\* The contents of a log, and when a step leaves it alone.
LEMMA ContentsType ==
    ASSUME IInv, NEW p \in Paths
    PROVE  /\ file[p] \in Seq(Line)
           /\ appendList[p] # 0 =>
                 /\ appendList[p] \in DOMAIN appenders
                 /\ appenders[appendList[p]].queue \in Seq(Line)
                 /\ appenders[appendList[p]].path = p
<1>1. file[p] \in Seq(Line) /\ (appendList[p] # 0 => appendList[p] \in DOMAIN appenders)
  BY DEF IInv, TypeOK
<1> QED
  BY <1>1, AppenderOf DEF IInv, RegistryInv

LEMMA SameCalls ==
    ASSUME IInv, NEW t \in Threads, NEW label, label # "idle", pc[t] # "idle",
           pc' = [pc EXCEPT ![t] = label], line' = line
    PROVE  TheCalls' = TheCalls
<1>1. \A u \in Threads : pc'[u] # "idle" <=> pc[u] # "idle"
  BY DEF IInv, TypeOK
<1> QED
  BY <1>1 DEF TheCalls

LEMMA CallGone ==
    ASSUME IInv, NEW t \in Threads, pc[t] # "idle", Return(t)
    PROVE  TheCalls' = TheCalls \ {line[t]}
<1>1. \A u \in Threads : u # t => pc'[u] = pc[u] /\ line'[u] = line[u]
  BY DEF Return, IInv, TypeOK
<1>2. pc'[t] = "idle"
  BY DEF Return, IInv, TypeOK
<1>3. \A u \in Threads : u # t /\ pc[u] # "idle" => line[u] # line[t]
  BY DEF IInv, CallInv
<1> QED
  BY <1>1, <1>2, <1>3 DEF TheCalls

(* The steps that no caller sees.                                          *)
LEMMA HiddenStep ==
    ASSUME IInv, NEW t \in Threads,
           PassLevel(t) \/ Format(t) \/ Lock(t) \/ GetAppender(t) \/ MakeAppender(t)
    PROVE  TheLogs' = TheLogs /\ TheCalls' = TheCalls /\ ini' = ini
<1>1. TheCalls' = TheCalls
  <2>1. pc[t] # "idle" /\ line' = line
    BY DEF PassLevel, Format, Lock, GetAppender, LockShared, LockExclusive, Find, FindAgain,
           LoadLogConfig, MakeAppender, Emplace
  <2>2. \E label : label # "idle" /\ pc' = [pc EXCEPT ![t] = label]
    BY DEF PassLevel, Format, Lock, GetAppender, LockShared, LockExclusive, Find, FindAgain,
           LoadLogConfig, MakeAppender, Emplace, Goto
  <2> QED
    BY <2>1, <2>2, SameCalls
<1>2. ini' = ini
  BY DEF PassLevel, Format, Lock, GetAppender, LockShared, LockExclusive, Find, FindAgain,
         LoadLogConfig, MakeAppender, Emplace, settings
<1>3. TheLogs' = TheLogs
  <2>1. CASE MakeAppender(t)
    <3>1. /\ appendList' = appendList /\ file' = file
          /\ \A a \in DOMAIN appenders : appenders'[a] = appenders[a]
      BY <2>1 DEF MakeAppender, IInv, TypeOK
    <3>2. \A p \in Paths : Contents(p)' = Contents(p)
      BY <3>1, ContentsType DEF Contents
    <3> QED
      BY <3>2 DEF TheLogs
  <2>2. CASE Emplace(t)
    <3>1. /\ Path(t) \in Paths /\ appendList[Path(t)] = 0
          /\ mine[t] # 0 /\ appenders[mine[t]].queue = <<>>
      BY <2>2 DEF Emplace, IInv, CallInv, Exclusive, Making
    <3>2. /\ appendList' = [appendList EXCEPT ![Path(t)] = mine[t]]
          /\ file' = file /\ appenders' = appenders
      BY <2>2, <3>1 DEF Emplace
    <3>3. ASSUME NEW p \in Paths PROVE Contents(p)' = Contents(p)
      BY <3>1, <3>2 DEF Contents, IInv, TypeOK
    <3> QED
      BY <3>3 DEF TheLogs
  <2>3. CASE ~MakeAppender(t) /\ ~Emplace(t)
    <3>1. appendList' = appendList /\ file' = file /\ appenders' = appenders
      BY <2>3 DEF PassLevel, Format, Lock, GetAppender, LockShared, LockExclusive, Find,
             FindAgain, LoadLogConfig, registry
    <3> QED
      BY <3>1 DEF TheLogs, Contents
  <2> QED
    BY <2>1, <2>2, <2>3
<1> QED
  BY <1>1, <1>2, <1>3

(* A line that waits in a queue is in its log already.                     *)
LEMMA QueueThreadHidden ==
    ASSUME IInv, NEW a \in DOMAIN appenders, QueueThread(a)
    PROVE  TheLogs' = TheLogs /\ TheCalls' = TheCalls /\ ini' = ini
<1> DEFINE p == appenders[a].path
           q == appenders[a].queue
<1>1. /\ p \in Paths /\ q \in Seq(Line) /\ q # <<>> /\ file[p] \in Seq(Line)
  BY AppenderOf DEF QueueThread
<1>2. appendList[p] = a /\ a # 0
  <2>1. \A t \in Threads : pc[t] = "emplace" => mine[t] # a
    BY <1>1 DEF IInv, CallInv
  <2>2. a # 0
    BY AppenderOf
  <2> QED
    BY <2>1, <2>2 DEF IInv, RegistryInv
<1>3. /\ file' = [file EXCEPT ![p] = Append(file[p], Head(q))]
      /\ appenders' = [appenders EXCEPT ![a].queue = Tail(q)]
      /\ appendList' = appendList
  BY DEF QueueThread
<1>4. Tail(q) \in Seq(Line) /\ Head(q) \in Line
  BY <1>1
<1>5. \A b \in DOMAIN appenders :
         appenders'[b].queue = IF b = a THEN Tail(q) ELSE appenders[b].queue
  BY <1>3, <1>4, NewQueue
<1> HIDE DEF q, p
<1>6. Append(file[p], Head(q)) \o Tail(q) = file[p] \o q
  <2> DEFINE s == Append(file[p], Head(q)) \o Tail(q)
             r == file[p] \o q
  <2>1. /\ s \in Seq(Line) /\ r \in Seq(Line)
        /\ Len(s) = Len(r)
    BY <1>1, <1>4
  <2>2. \A i \in 1 .. Len(s) : s[i] = r[i]
    BY <1>1, <1>4
  <2> HIDE DEF s, r
  <2> QED
    BY <2>1, <2>2, SeqEqual DEF s, r
<1>7. ASSUME NEW x \in Paths PROVE Contents(x)' = Contents(x)
  <2>1. CASE x = p
    <3>1. Contents(x) = file[p] \o q
      BY <1>2, <2>1 DEF Contents, p, q
    <3>2. Contents(x)' = Append(file[p], Head(q)) \o Tail(q)
      BY <1>1, <1>2, <1>3, <1>5, <2>1 DEF Contents, IInv, TypeOK
    <3> QED
      BY <1>6, <3>1, <3>2
  <2>2. CASE x # p
    <3>1. appendList[x] # 0 => appendList[x] \in DOMAIN appenders /\ appendList[x] # a
      BY <2>2, ContentsType DEF p
    <3>2. file'[x] = file[x]
      BY <1>1, <1>3, <2>2 DEF IInv, TypeOK
    <3> QED
      BY <1>3, <1>5, <3>1, <3>2 DEF Contents
  <2> QED
    BY <2>1, <2>2
<1> QED
  BY <1>7 DEF QueueThread, threadVars, settings, TheLogs, TheCalls

\* Appending to a queue appends to the log.
LEMMA ConcatAppend ==
    ASSUME NEW f \in Seq(Line), NEW q \in Seq(Line), NEW e \in Line
    PROVE  f \o Append(q, e) = Append(f \o q, e)
<1> DEFINE s == f \o Append(q, e)
           r == Append(f \o q, e)
<1>1. s \in Seq(Line) /\ r \in Seq(Line) /\ Len(s) = Len(r)
  OBVIOUS
<1>2. \A i \in 1 .. Len(s) : s[i] = r[i]
  OBVIOUS
<1> HIDE DEF s, r
<1> QED
  BY <1>1, <1>2, SeqEqual DEF s, r

(* doAppend puts the line at the end of its log.                           *)
LEMMA DoAppendWrites ==
    ASSUME IInv, NEW t \in Threads, DoAppend(t)
    PROVE  TheLogs' = [TheLogs EXCEPT ![Path(t)] = Append(@, line[t])]
<1> DEFINE a == mine[t]
           q == appenders[a].queue
<1>1. /\ pc[t] = "append" /\ a = appendList[Path(t)] /\ a # 0 /\ Path(t) \in Paths
      /\ line[t] \in Line
  BY DEF DoAppend, IInv, CallInv
<1>2. /\ a \in DOMAIN appenders /\ appenders[a].path = Path(t)
      /\ q \in Seq(Line) /\ file[Path(t)] \in Seq(Line)
  BY <1>1, ContentsType
<1>3. appendList' = appendList
  BY DEF DoAppend
<1>4. \/ /\ file' = file
         /\ \A b \in DOMAIN appenders :
               appenders'[b].queue = IF b = a THEN Append(q, line[t]) ELSE appenders[b].queue
      \/ /\ appenders' = appenders /\ q = <<>>
         /\ file' = [file EXCEPT ![Path(t)] = Append(file[Path(t)], line[t])]
  <2>1. CASE appenders[a].async
    <3>1. Append(q, line[t]) \in Seq(Line)
      BY <1>1, <1>2
    <3>2. appenders' = [appenders EXCEPT ![a].queue = Append(q, line[t])] /\ file' = file
      BY <2>1 DEF DoAppend
    <3> HIDE DEF a, q
    <3> QED
      BY <1>2, <3>1, <3>2, NewQueue
  <2>2. CASE ~appenders[a].async
    BY <1>2, <2>2 DEF DoAppend, IInv, RegistryInv
  <2> QED
    BY <2>1, <2>2
<1> HIDE DEF a, q
<1>5. ASSUME NEW p \in Paths, p # Path(t) PROVE Contents(p)' = Contents(p)
  <2>1. appendList[p] # 0 => appendList[p] \in DOMAIN appenders /\ appendList[p] # a
    BY <1>2, <1>5, ContentsType
  <2> QED
    BY <1>1, <1>3, <1>4, <1>5, <2>1 DEF Contents, IInv, TypeOK
<1>6. ASSUME NEW p \in Paths, p = Path(t) PROVE Contents(p)' = Append(Contents(p), line[t])
  <2>1. Contents(p) = file[p] \o q
    BY <1>1, <1>6 DEF Contents, q
  <2>2. Contents(p)' = file'[p] \o appenders'[a].queue
    BY <1>1, <1>3, <1>6 DEF Contents
  <2>3. CASE file'[p] = file[p] /\ appenders'[a].queue = Append(q, line[t])
    <3>1. file[p] \in Seq(Line) /\ q \in Seq(Line) /\ line[t] \in Line
      BY <1>1, <1>2, <1>6 DEF q
    <3>2. file[p] \o Append(q, line[t]) = Append(file[p] \o q, line[t])
      BY <3>1, ConcatAppend
    <3> QED
      BY <2>1, <2>2, <2>3, <3>2
  <2>4. CASE q = <<>> /\ appenders'[a].queue = <<>> /\ file'[p] = Append(file[p], line[t])
    BY <1>1, <1>2, <1>6, <2>1, <2>2, <2>4, ConcatEmptySeq
  <2> QED
    BY <1>1, <1>2, <1>4, <1>6, <2>3, <2>4 DEF IInv, TypeOK, q
<1> QED
  BY <1>1, <1>5, <1>6 DEF TheLogs

(* A debug line that is wanted is dropped only while every log is empty.   *)
LEMMA DropsAreAllowed ==
    ASSUME IInv, NEW t \in Threads, DropDebug(t) \/ CutOff(t) \/ NullPath(t),
           NEW l \in Line, l = line[t]
    PROVE  Book!Drop(l)
<1>1. pc[t] # "idle" /\ Return(t)
  BY DEF DropDebug, CutOff, NullPath
<1>2. TheCalls' = TheCalls \ {l} /\ l \in TheCalls
  BY <1>1, CallGone DEF TheCalls
<1>3. TheLogs' = TheLogs /\ ini' = ini
  BY DEF DropDebug, CutOff, NullPath, TheLogs, Contents, settings, registry
<1>4. CASE DropDebug(t)
  <2>1. l.call.debug /\ ~enableDebug
    BY <1>4 DEF DropDebug
  <2>2. ASSUME ini.debug, NEW p \in Paths PROVE TheLogs[p] = <<>>
    <3>1. ~once
      BY <2>1, <2>2 DEF IInv, ConfigInv
    <3>2. appenders = <<>>
      BY <3>1 DEF IInv, ConfigInv
    <3>3. appendList[p] = 0
      BY <3>2 DEF IInv, TypeOK
    <3>4. file[p] = <<>>
      BY <3>3 DEF IInv, ConfigInv
    <3> QED
      BY <3>3, <3>4 DEF TheLogs, Contents
  <2> QED
    BY <1>1, <1>2, <1>3, <2>1, <2>2 DEF Book!Drop, Book!NothingWritten, TheLogs, TheCalls
<1>5. CASE CutOff(t) \/ NullPath(t)
  <2>1. ~l.call.fits \/ l.call.path = NoPath
    BY <1>5 DEF CutOff, NullPath, Path
  <2> QED
    BY <1>1, <1>2, <1>3, <2>1 DEF Book!Drop, TheLogs, TheCalls
<1> QED
  BY <1>4, <1>5

LEMMA StepBook == IInv /\ [Next]_vars => [Book!Next]_(Book!vars)
<1> SUFFICES ASSUME IInv, [Next]_vars PROVE [Book!Next]_(Book!vars)
  OBVIOUS
<1>1. ASSUME TheLogs' = TheLogs, TheCalls' = TheCalls, ini' = ini
      PROVE  UNCHANGED Book!vars
  BY <1>1 DEF Book!vars, TheLogs, TheCalls
<1>2. CASE UNCHANGED vars
  <2>1. TheLogs' = TheLogs /\ TheCalls' = TheCalls /\ ini' = ini
    BY <1>2 DEF vars, settings, registry, threadVars, TheLogs, TheCalls, Contents
  <2> QED
    BY <1>1, <2>1
<1>3. ASSUME NEW t \in Threads, WriteLog(t) PROVE Book!Next
  <2>1. PICK c \in Calls : line' = [line EXCEPT ![t] = [thread |-> t, n |-> count', call |-> c]]
    BY <1>3 DEF WriteLog
  <2> DEFINE made == [thread |-> t, n |-> count', call |-> c]
  <2>a. made \in Line
    BY <1>3, LogAssumption DEF WriteLog, IInv, TypeOK, Line
  <2>b. made.thread = t
    OBVIOUS
  <2>2. PICK new \in Line : new = [thread |-> t, n |-> count', call |-> c] /\ new.thread = t
    BY <2>a, <2>b
  <2>3. /\ pc[t] = "idle" /\ pc' = [pc EXCEPT ![t] = "level"]
        /\ line' = [line EXCEPT ![t] = new]
    BY <1>3, <2>1, <2>2 DEF WriteLog, Goto
  <2>4. TheCalls' = TheCalls \cup {new}
    <3>1. \A u \in Threads : u # t => pc'[u] = pc[u] /\ line'[u] = line[u]
      BY <2>3 DEF IInv, TypeOK
    <3>2. pc'[t] # "idle" /\ line'[t] = new
      BY <2>3 DEF IInv, TypeOK
    <3> QED
      BY <2>3, <3>1, <3>2 DEF TheCalls
  <2>5. \A other \in TheCalls : other \in Line /\ other.thread # t
    BY <2>3 DEF TheCalls, IInv, CallInv
  <2>6. TheLogs' = TheLogs /\ ini' = ini
    BY <1>3 DEF WriteLog, TheLogs, Contents, settings, registry
  <2>7. Book!Call(new)
    BY <2>2, <2>4, <2>5, <2>6 DEF Book!Call, TheLogs, TheCalls
  <2> QED
    BY <2>7 DEF Book!Next
<1>4. ASSUME NEW t \in Threads, DropDebug(t) \/ CutOff(t) \/ NullPath(t) PROVE Book!Next
  <2>1. PICK l \in Line : l = line[t]
    BY <1>4 DEF DropDebug, CutOff, NullPath, IInv, CallInv
  <2>2. Book!Drop(l)
    BY <1>4, <2>1, DropsAreAllowed
  <2> QED
    BY <2>2 DEF Book!Next
<1>5. ASSUME NEW t \in Threads, DoAppend(t) PROVE Book!Next
  <2>1. /\ pc[t] = "append" /\ Return(t) /\ line[t] \in Line /\ Path(t) \in Paths
        /\ ini' = ini /\ (line[t].call.debug => ini.debug)
    BY <1>5 DEF DoAppend, settings, IInv, CallInv, ConfigInv
  <2>2. TheCalls' = TheCalls \ {line[t]} /\ line[t] \in TheCalls
    BY <2>1, CallGone DEF TheCalls
  <2>3. TheLogs' = [TheLogs EXCEPT ![Path(t)] = Append(@, line[t])]
    BY <1>5, DoAppendWrites
  <2>4. PICK l \in Line : l = line[t]
    BY <2>1
  <2>5. Book!Write(l)
    BY <2>1, <2>2, <2>3, <2>4 DEF Book!Write, TheLogs, TheCalls, Path
  <2> QED
    BY <2>5 DEF Book!Next
<1>6. ASSUME NEW t \in Threads, WriteLog(t) \/ InCall(t) \/ Lock(t) \/ MakeAppender(t) \/ DoAppend(t)
      PROVE  [Book!Next]_(Book!vars)
  BY <1>1, <1>3, <1>4, <1>5, <1>6, HiddenStep DEF InCall
<1>7. ASSUME NEW a \in DOMAIN appenders, QueueThread(a)
      PROVE  [Book!Next]_(Book!vars)
  BY <1>1, <1>7, QueueThreadHidden
<1> QED
  BY <1>2, <1>1, <1>6, <1>7 DEF Next

(* The callers see a LogBook, for any threads, logs and lengths of queues:  *)
(* each line that is not dropped is in its log once, when its call returns, *)
(* and a debug line that is wanted is lost only while every log is empty.  *)
THEOREM Implementation == Safety => ImplementsLogBook
<1>1. Init => Book!Init
  <2> SUFFICES ASSUME Init PROVE Book!Init
    OBVIOUS
  <2>1. \A p \in Paths : Contents(p) = <<>>
    BY DEF Init, Contents
  <2>2. TheCalls = {} /\ ini.debug \in BOOLEAN
    BY DEF Init, TheCalls
  <2> QED
    BY <2>1, <2>2 DEF Book!Init, TheCalls
<1> QED
  BY <1>1, StepBook, Invariance, PTL DEF Safety, ImplementsLogBook, Book!Spec
=============================================================================
