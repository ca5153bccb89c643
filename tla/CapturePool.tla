----------------------------- MODULE CapturePool -----------------------------
(***************************************************************************)
(* The video pool of CapturePoolMgr: an ObjectPoolEx, which is a SyncList  *)
(* of free frames, filled and initialised by main and used by all threads. *)
(* A frame leaves the pool inside a shared_ptr; the thread that drops the  *)
(* last reference runs the deleter, which puts the frame back.             *)
(*                                                                         *)
(* The operations of the list hold its lock and are atomic; the count of a *)
(* shared_ptr is atomic; the deleter's release comes after the drop.       *)
(***************************************************************************)
EXTENDS Naturals, Sequences, FiniteSets

CONSTANTS
    Frame,      \* the VideoFrame objects that initialize creates
    Thread,     \* the threads that use the pool
    Null        \* a null pointer

ASSUME PoolAssumption ==
    /\ IsFiniteSet(Frame)
    /\ Null \notin Frame

VARIABLES
    dataList,   \* m_data_list
    created,    \* the frames made by addOneFree so far
    buffered,   \* the frames whose init has allocated their buffer
    initPc,     \* where main is inside initialize
    inits,      \* the loop counter i of initialize
    cur,        \* the local frame of that loop
    pc,         \* where each thread is inside getNew or the deleter
    item,       \* the frame it has in its hands there
    holders     \* holders[f]: the threads with a shared_ptr to f

initVars == <<created, buffered, initPc, inits, cur>>
userVars == <<pc, item, holders>>
vars == <<dataList, initVars, userVars>>

TypeOK ==
    /\ dataList \in Seq(Frame)
    /\ created \subseteq Frame /\ buffered \subseteq Frame
    /\ initPc \in {"add", "pop", "init", "done"}
    /\ inits \in Nat
    /\ cur \in Frame \cup {Null}
    /\ pc \in [Thread -> {"idle", "got", "release"}]
    /\ item \in [Thread -> Frame \cup {Null}]
    /\ holders \in [Frame -> SUBSET Thread]

Init ==
    /\ dataList = <<>>
    /\ created = {} /\ buffered = {}
    /\ initPc = "add" /\ inits = 0 /\ cur = Null
    /\ pc = [t \in Thread |-> "idle"]
    /\ item = [t \in Thread |-> Null]
    /\ holders = [f \in Frame |-> {}]

-----------------------------------------------------------------------------
(* CapturePoolMgr::initialize, run by main before the channels exist.      *)

AddOneFree(f) ==
    /\ initPc = "add" /\ f \notin created
    /\ created' = created \cup {f}
    /\ dataList' = Append(dataList, f)
    /\ UNCHANGED <<buffered, initPc, inits, cur, userVars>>

InitializeFilled ==
    /\ initPc = "add" /\ created = Frame
    /\ initPc' = "pop"
    /\ UNCHANGED <<dataList, created, buffered, inits, cur, userVars>>

InitializePop ==
    /\ initPc = "pop" /\ inits < Cardinality(Frame)
    /\ dataList # <<>>
    /\ cur' = Head(dataList)
    /\ dataList' = Tail(dataList)
    /\ initPc' = "init"
    /\ UNCHANGED <<created, buffered, inits, userVars>>

\* Mutant: the frame goes back to the front of the list.
InitializePushFront ==
    /\ initPc = "init"
    /\ buffered' = buffered \cup {cur}
    /\ dataList' = <<cur>> \o dataList
    /\ cur' = Null /\ inits' = inits + 1 /\ initPc' = "pop"
    /\ UNCHANGED <<created, userVars>>

\* init and release: the frame goes to the end of the list.
InitializePush ==
    /\ initPc = "init"
    /\ buffered' = buffered \cup {cur}
    /\ dataList' = Append(dataList, cur)
    /\ cur' = Null /\ inits' = inits + 1 /\ initPc' = "pop"
    /\ UNCHANGED <<created, userVars>>

InitializeDone ==
    /\ initPc = "pop" /\ inits = Cardinality(Frame)
    /\ initPc' = "done"
    /\ UNCHANGED <<dataList, created, buffered, inits, cur, userVars>>

Initialize ==
    \/ \E f \in Frame : AddOneFree(f)
    \/ InitializeFilled \/ InitializePop \/ InitializePush \/ InitializeDone

-----------------------------------------------------------------------------
(* The managed getNew.                                                     *)

Idle(t) == initPc = "done" /\ pc[t] = "idle"

\* Mutant: the frame is read, but stays in the list.
GetNewKeeps(t) ==
    /\ Idle(t) /\ dataList # <<>>
    /\ item' = [item EXCEPT ![t] = Head(dataList)]
    /\ pc' = [pc EXCEPT ![t] = "got"]
    /\ UNCHANGED <<dataList, initVars, holders>>

GetNew(t) ==
    /\ Idle(t) /\ dataList # <<>>
    /\ item' = [item EXCEPT ![t] = Head(dataList)]
    /\ dataList' = Tail(dataList)
    /\ pc' = [pc EXCEPT ![t] = "got"]
    /\ UNCHANGED <<initVars, holders>>

\* The list is empty: the caller gets null.
GetNewFails(t) ==
    /\ Idle(t) /\ dataList = <<>>
    /\ UNCHANGED vars

\* The flags are reset and the frame is put into a shared_ptr.
GetNewReturn(t) ==
    /\ pc[t] = "got"
    /\ holders' = [holders EXCEPT ![item[t]] = {t}]
    /\ item' = [item EXCEPT ![t] = Null]
    /\ pc' = [pc EXCEPT ![t] = "idle"]
    /\ UNCHANGED <<dataList, initVars>>

-----------------------------------------------------------------------------
(* The shared_ptr: copied into a queue another thread reads, and dropped.  *)

Copy(f, t, u) ==
    /\ Idle(t) /\ t \in holders[f]
    /\ holders' = [holders EXCEPT ![f] = @ \cup {u}]
    /\ UNCHANGED <<dataList, initVars, pc, item>>

Drop(f, t) ==
    /\ Idle(t) /\ t \in holders[f] /\ holders[f] # {t}
    /\ holders' = [holders EXCEPT ![f] = @ \ {t}]
    /\ UNCHANGED <<dataList, initVars, pc, item>>

\* Mutant: the thread that drops last does not run the deleter.
DropLastLeaks(f, t) ==
    /\ Idle(t) /\ holders[f] = {t}
    /\ holders' = [holders EXCEPT ![f] = {}]
    /\ UNCHANGED <<dataList, initVars, pc, item>>

\* The last reference: the deleter runs in this thread.
DropLast(f, t) ==
    /\ Idle(t) /\ holders[f] = {t}
    /\ holders' = [holders EXCEPT ![f] = {}]
    /\ item' = [item EXCEPT ![t] = f]
    /\ pc' = [pc EXCEPT ![t] = "release"]
    /\ UNCHANGED <<dataList, initVars>>

Release(t) ==
    /\ pc[t] = "release"
    /\ dataList' = Append(dataList, item[t])
    /\ item' = [item EXCEPT ![t] = Null]
    /\ pc' = [pc EXCEPT ![t] = "idle"]
    /\ UNCHANGED <<initVars, holders>>

-----------------------------------------------------------------------------
User(t) ==
    \/ GetNew(t) \/ GetNewFails(t) \/ GetNewReturn(t)
    \/ \E f \in Frame :
          \/ Drop(f, t) \/ DropLast(f, t)
          \/ \E u \in Thread : Copy(f, t, u)
    \/ Release(t)

Next == Initialize \/ \E t \in Thread : User(t)

\* A thread finishes the getNew or the deleter it is in.  A holder may keep
\* his reference for ever.
Fairness ==
    /\ WF_vars(Initialize)
    /\ \A t \in Thread :
          /\ WF_vars(GetNewReturn(t))
          /\ WF_vars(Release(t))

Safety == Init /\ [][Next]_vars
Spec == Safety /\ Fairness

-----------------------------------------------------------------------------
(* Properties.                                                             *)

\* Where a frame can be, apart from the hands of its holders.
InHands(t, f) == pc[t] # "idle" /\ item[t] = f
InList(f) == \E i \in DOMAIN dataList : dataList[i] = f

\* A frame is in one place at a time: once in the list, or with initialize,
\* or in the hands of one thread, or held.
OnePlace ==
    /\ \A i, j \in DOMAIN dataList : dataList[i] = dataList[j] => i = j
    /\ \A f \in Frame :
          /\ InList(f) => f # cur /\ holders[f] = {}
          /\ \A t \in Thread :
                InHands(t, f) =>
                    /\ ~InList(f) /\ f # cur /\ holders[f] = {}
                    /\ \A u \in Thread : InHands(u, f) => u = t

\* What else the steps rely on: initialize runs alone, and a thread inside
\* getNew or the deleter has a frame in its hands.
Phases ==
    /\ cur = Null <=> initPc # "init"
    /\ initPc # "done" =>
          /\ \A t \in Thread : pc[t] = "idle"
          /\ \A f \in Frame : holders[f] = {}
    /\ \A i \in DOMAIN dataList : dataList[i] \in created
    /\ initPc # "add" => created = Frame
    /\ \A t \in Thread : pc[t] # "idle" => item[t] # Null

\* What initialize has done: no frame gets lost on the way, and the frames at
\* the end of the list, one for each turn of its loop, are the ones with a
\* buffer.
Filling ==
    /\ initPc = "add" =>
          /\ inits = 0
          /\ Len(dataList) = Cardinality(created)
          /\ \A f \in created : InList(f)
    /\ initPc = "pop" =>
          /\ inits <= Len(dataList)
          /\ Len(dataList) = Cardinality(Frame)
          /\ \A f \in Frame : InList(f)
    /\ initPc = "init" =>
          /\ inits <= Len(dataList)
          /\ Len(dataList) + 1 = Cardinality(Frame)
          /\ \A f \in Frame : InList(f) \/ f = cur
    /\ initPc \in {"pop", "init"} =>
          \A i \in DOMAIN dataList :
             i > Len(dataList) - inits => dataList[i] \in buffered
    /\ initPc = "done" => buffered = Frame

\* The invariant of the proofs.
IInv == TypeOK /\ OnePlace /\ Phases /\ Filling

\* Every frame given to a user has been initialised: initialize, which pops
\* one frame after the other, has met each of them although it puts them back.
BuffersAllocated ==
    \A f \in Frame : holders[f] # {} => f \in buffered

\* The pool implements FrameLoan: no frame is given out while somebody holds it.
Loan == INSTANCE FrameLoan
ImplementsLoan == Loan!Spec

\* A frame that its last holder drops gets back into the pool.
NoLeak ==
    \A f \in Frame : (initPc = "done" /\ holders[f] = {}) ~> (InList(f) \/ holders[f] # {})
=============================================================================
