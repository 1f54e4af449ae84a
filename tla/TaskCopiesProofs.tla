-------------------------- MODULE TaskCopiesProofs --------------------------
(***************************************************************************)
(* An order has one task at most, and until the shutdown dump exactly one: *)
(* OneCopy, NoZombie and NothingMislaid of the worker pool, proved for     *)
(* every number of orders and workers and every capacity.                  *)
(*                                                                         *)
(* The argument: almost every step moves one set of tasks from one place   *)
(* to another.  The lemmas Enter, Move and Leave say what such steps do to *)
(* a function from places to task sequences; the proof of CopiesNext names *)
(* the two places of each action.                                          *)
(***************************************************************************)
EXTENDS WorkerPoolProofs

USE DEF process, link, stack, reader, dispatcher, workers, store, history,
        memory, outsideReader, outsideDispatcher, outsideWorkers

-----------------------------------------------------------------------------
(* Order numbers in a sequence of tasks.                                   *)

LEMMA NoIds == Ids(<<>>) = {} /\ Distinct(<<>>)
  BY DEF Ids, Distinct

LEMMA OneId ==
  ASSUME NEW t \in Task PROVE Ids(<<t>>) = {t.id} /\ Distinct(<<t>>)
  BY DEF Ids, Distinct

LEMMA AppendIds ==
  ASSUME NEW s \in Seq(Task), NEW t \in Task
  PROVE  /\ Ids(Append(s, t)) = Ids(s) \cup {t.id}
         /\ Distinct(s) /\ t.id \notin Ids(s) => Distinct(Append(s, t))
<1> DEFINE r == Append(s, t)
<1>1. /\ Len(s) \in Nat /\ DOMAIN s = 1..Len(s)
      /\ DOMAIN r = 1..(Len(s) + 1)
      /\ r[Len(s) + 1] = t /\ \A i \in 1..Len(s) : r[i] = s[i]
  OBVIOUS
<1> HIDE DEF r
<1>2. DOMAIN r = DOMAIN s \cup {Len(s) + 1} /\ Len(s) + 1 \notin DOMAIN s
  BY <1>1
<1>3. Ids(r) = Ids(s) \cup {t.id}
  BY <1>1, <1>2 DEF Ids
<1>4. Distinct(s) /\ t.id \notin Ids(s) => Distinct(r)
  BY <1>1, <1>2 DEF Ids, Distinct
<1> QED BY <1>3, <1>4 DEF r

LEMMA ConcatIds ==
  ASSUME NEW s \in Seq(Task), NEW h \in Hand
  PROVE  /\ Ids(s \o h) = Ids(s) \cup Ids(h)
         /\ Distinct(s) /\ Ids(s) \cap Ids(h) = {} => Distinct(s \o h)
<1>1. CASE h = <<>>
  BY <1>1, NoIds
<1>2. ASSUME NEW t \in Task, h = <<t>>
      PROVE  s \o h = Append(s, t) /\ Ids(h) = {t.id}
  BY <1>2, OneId
<1> QED BY <1>1, <1>2, AppendIds DEF Hand

LEMMA TailIds ==
  ASSUME NEW s \in Seq(Task), s # <<>>, Distinct(s)
  PROVE  /\ Head(s) \in Task /\ Head(s).id \in Ids(s)
         /\ Tail(s) \in Seq(Task) /\ Ids(Tail(s)) = Ids(s) \ {Head(s).id}
         /\ Distinct(Tail(s))
<1> DEFINE r == Tail(s)
<1>1. /\ Len(s) \in Nat /\ Len(s) > 0 /\ DOMAIN s = 1..Len(s)
      /\ Head(s) = s[1] /\ Head(s) \in Task
      /\ r \in Seq(Task) /\ DOMAIN r = 1..(Len(s) - 1)
      /\ \A i \in 1..(Len(s) - 1) : r[i] = s[i + 1]
  OBVIOUS
<1> HIDE DEF r
<1>2. Distinct(r)
  <2>1. ASSUME NEW i \in DOMAIN r, NEW j \in DOMAIN r, i # j
        PROVE  r[i].id # r[j].id
    <3>1. /\ r[i] = s[i + 1] /\ r[j] = s[j + 1] /\ i + 1 # j + 1
          /\ i + 1 \in DOMAIN s /\ j + 1 \in DOMAIN s
      BY <1>1, <2>1
    <3> QED BY <3>1 DEF Distinct
  <2> QED BY <2>1 DEF Distinct
<1>3. Head(s).id \in Ids(s)
  BY <1>1 DEF Ids
<1>4. ASSUME NEW x \in Ids(r) PROVE x \in Ids(s) /\ x # Head(s).id
  <2>1. PICK i \in DOMAIN r : x = r[i].id
    BY DEF Ids
  <2>2. /\ r[i] = s[i + 1] /\ i + 1 \in DOMAIN s
        /\ 1 \in DOMAIN s /\ i + 1 # 1
    BY <1>1
  <2>3. s[i + 1].id # s[1].id
    BY <2>2 DEF Distinct
  <2> QED BY <1>1, <2>1, <2>2, <2>3 DEF Ids
<1>5. ASSUME NEW x \in Ids(s), x # Head(s).id PROVE x \in Ids(r)
  <2>1. PICK i \in DOMAIN s : x = s[i].id
    BY DEF Ids
  <2>2. i - 1 \in DOMAIN r /\ r[i - 1] = s[i]
    BY <1>1, <1>5, <2>1
  <2> QED BY <2>1, <2>2 DEF Ids
<1>6. Ids(r) = Ids(s) \ {Head(s).id}
  BY <1>4, <1>5
<1> QED BY <1>1, <1>2, <1>3, <1>6 DEF r

LEMMA FrontIds ==
  ASSUME NEW s \in Seq(Task), s # <<>>, Distinct(s)
  PROVE  /\ Last(s) \in Task /\ Last(s).id \in Ids(s)
         /\ Front(s) \in Seq(Task) /\ Ids(Front(s)) = Ids(s) \ {Last(s).id}
         /\ Distinct(Front(s))
<1> DEFINE r == Front(s)
<1>1. /\ Len(s) \in Nat /\ Len(s) > 0 /\ DOMAIN s = 1..Len(s)
      /\ Last(s) = s[Len(s)] /\ Last(s) \in Task
  BY FrontLast DEF Last
<1>2. /\ r \in Seq(Task) /\ DOMAIN r = 1..(Len(s) - 1)
      /\ \A i \in 1..(Len(s) - 1) : r[i] = s[i]
  BY FrontLast
<1> HIDE DEF r
<1>3. Distinct(r)
  BY <1>1, <1>2 DEF Distinct
<1>4. Last(s).id \in Ids(s)
  BY <1>1 DEF Ids
<1>5. ASSUME NEW x \in Ids(r) PROVE x \in Ids(s) /\ x # Last(s).id
  BY <1>1, <1>2, <1>5 DEF Ids, Distinct
<1>6. ASSUME NEW x \in Ids(s), x # Last(s).id PROVE x \in Ids(r)
  <2>1. PICK i \in DOMAIN s : x = s[i].id
    BY DEF Ids
  <2>2. i \in DOMAIN r /\ r[i] = s[i]
    BY <1>1, <1>2, <1>6, <2>1
  <2> QED BY <2>1, <2>2 DEF Ids
<1>7. Ids(r) = Ids(s) \ {Last(s).id}
  BY <1>5, <1>6
<1> QED BY <1>1, <1>2, <1>3, <1>4, <1>7 DEF r

-----------------------------------------------------------------------------
(* Functions from places to sequences of tasks.                            *)

Copies(f, live) ==
  /\ \A p \in Place : Distinct(f[p]) /\ Ids(f[p]) \subseteq live
  /\ \A p, q \in Place : p # q => Ids(f[p]) \cap Ids(f[q]) = {}

Covers(f, live) == \A o \in live : \E p \in Place : o \in Ids(f[p])

(* The orders X move from src to dst.                                      *)
Moves(f, g, src, dst, X) ==
  /\ src \in Place /\ dst \in Place /\ src # dst /\ X \subseteq Ids(f[src])
  /\ Ids(g[src]) = Ids(f[src]) \ X /\ Ids(g[dst]) = Ids(f[dst]) \cup X
  /\ Distinct(g[src]) /\ Distinct(g[dst])
  /\ \A p \in Place : p # src /\ p # dst => g[p] = f[p]

LEMMA Move ==
  ASSUME NEW f, NEW g, NEW live, NEW X, NEW src, NEW dst,
         Copies(f, live), Moves(f, g, src, dst, X)
  PROVE  Copies(g, live) /\ (Covers(f, live) => Covers(g, live))
<1> USE DEF Moves
<1>1. \A p \in Place : Distinct(g[p]) /\ Ids(g[p]) \subseteq live
  BY DEF Copies
<1>2. ASSUME NEW p \in Place, NEW q \in Place, p # q
      PROVE  Ids(g[p]) \cap Ids(g[q]) = {}
  BY <1>2 DEF Copies
<1>3. ASSUME Covers(f, live), NEW o \in live
      PROVE  \E p \in Place : o \in Ids(g[p])
  <2>1. PICK p \in Place : o \in Ids(f[p])
    BY <1>3 DEF Covers
  <2>2. CASE p = src
    BY <2>1, <2>2
  <2>3. CASE p # src
    BY <2>1, <2>3
  <2> QED BY <2>2, <2>3
<1> QED BY <1>1, <1>2, <1>3 DEF Copies, Covers

(* A new order x enters at dst.                                            *)
Enters(f, g, dst, x) ==
  /\ dst \in Place /\ Ids(g[dst]) = Ids(f[dst]) \cup {x} /\ Distinct(g[dst])
  /\ \A p \in Place : p # dst => g[p] = f[p]

LEMMA Enter ==
  ASSUME NEW f, NEW g, NEW live, NEW x, NEW dst,
         Copies(f, live), x \notin live, Enters(f, g, dst, x)
  PROVE  Copies(g, live \cup {x}) /\ (Covers(f, live) => Covers(g, live \cup {x}))
<1> USE DEF Enters
<1>1. \A p \in Place : Distinct(g[p]) /\ Ids(g[p]) \subseteq live \cup {x}
  BY DEF Copies
<1>2. ASSUME NEW p \in Place, NEW q \in Place, p # q
      PROVE  Ids(g[p]) \cap Ids(g[q]) = {}
  BY <1>2 DEF Copies
<1>3. ASSUME Covers(f, live), NEW o \in live \cup {x}
      PROVE  \E p \in Place : o \in Ids(g[p])
  <2>1. CASE o = x
    BY <2>1
  <2>2. CASE o # x
    <3>1. PICK p \in Place : o \in Ids(f[p])
      BY <1>3, <2>2 DEF Covers
    <3>2. o \in Ids(g[p])
      BY <3>1
    <3> QED BY <3>2
  <2> QED BY <2>1, <2>2
<1> QED BY <1>1, <1>2, <1>3 DEF Copies, Covers

(* All tasks of src leave; their orders are not live any more.             *)
Leaves(f, g, src) ==
  src \in Place /\ g[src] = <<>> /\ \A p \in Place : p # src => g[p] = f[p]

LEMMA Leave ==
  ASSUME NEW f, NEW g, NEW live, NEW src, Copies(f, live), Leaves(f, g, src)
  PROVE  /\ Copies(g, live \ Ids(f[src]))
         /\ Covers(f, live) => Covers(g, live \ Ids(f[src]))
<1> USE DEF Leaves
<1>1. \A p \in Place : Distinct(g[p]) /\ Ids(g[p]) \subseteq live \ Ids(f[src])
  BY NoIds DEF Copies
<1>2. \A p, q \in Place : p # q => Ids(g[p]) \cap Ids(g[q]) = {}
  BY NoIds DEF Copies
<1>3. ASSUME Covers(f, live), NEW o \in live \ Ids(f[src])
      PROVE  \E p \in Place : o \in Ids(g[p])
  BY <1>3 DEF Covers
<1> QED BY <1>1, <1>2, <1>3 DEF Copies, Covers

(* The tasks of src leave and their orders stay live, without a task.      *)
LEMMA Shrink ==
  ASSUME NEW f, NEW g, NEW live, NEW src, Copies(f, live), Leaves(f, g, src)
  PROVE  Copies(g, live)
  BY NoIds DEF Copies, Leaves

-----------------------------------------------------------------------------
(* The inductive invariant.                                                *)

H == [p \in Place |-> Held(p)]
Live == accepted \ Gone

CopyInv ==
  /\ WakeInv
  /\ Gone \subseteq accepted
  /\ dpc = "write" => dumpFile = <<>>
  /\ Copies(H, Live)
  /\ ~Dumping => Covers(H, Live)

Stack == IF Dumping THEN <<>> ELSE pendingTasks

LEMMA InPlace == Shared \subseteq Place /\ Worker \subseteq Place
  BY DEF Place

(* The places have different names.                                        *)
LEMMA Values ==
  /\ H["taskCh"] = taskCh /\ H["reader"] = rhand /\ H["pendingTasks"] = Stack
  /\ H["dispatcher"] = dhand /\ H["workerCh"] = workerCh
  /\ H["dump"] = dumped /\ H["file"] = dumpFile
  /\ \A w \in Worker : H[w] = whand[w]
  BY WorkerAssumption DEF H, Held, Place, Shared, Stack

LEMMA ValuesNext ==
  /\ H'["taskCh"] = taskCh' /\ H'["reader"] = rhand' /\ H'["pendingTasks"] = Stack'
  /\ H'["dispatcher"] = dhand' /\ H'["workerCh"] = workerCh'
  /\ H'["dump"] = dumped' /\ H'["file"] = dumpFile'
  /\ \A w \in Worker : H'[w] = whand'[w]
  BY WorkerAssumption DEF H, Held, Place, Shared, Stack

(* The invariant says what OneCopy, NoZombie and NothingMislaid say.       *)
LEMMA CopyInvImplies == CopyInv => OneCopy /\ NoZombie /\ NothingMislaid
<1>1. \A p \in Place : H[p] = Held(p)
  BY DEF H
<1> QED BY <1>1 DEF CopyInv, Copies, Covers, OneCopy, NoZombie, NothingMislaid,
   Live

LEMMA CopyInit == Init => CopyInv
<1> SUFFICES ASSUME Init PROVE CopyInv
  OBVIOUS
<1>1. \A p \in Place : H[p] = <<>>
  BY Values DEF Init, Stack, Place, Shared
<1>2. Live = {} /\ Gone = {}
  BY DEF Init, Live, Gone
<1>3. Copies(H, Live) /\ Covers(H, Live)
  BY <1>1, <1>2, NoIds DEF Copies, Covers
<1> QED BY <1>2, <1>3, WakeInit DEF CopyInv, Init

(* A process that ends keeps the file and loses every other task.          *)
LEMMA CopyEnd ==
  ASSUME CopyInv, NEW how, EndProcess(how)
  PROVE  (/\ Gone \subseteq accepted
          /\ dpc = "write" => dumpFile = <<>>
          /\ Copies(H, Live)
          /\ ~Dumping => Covers(H, Live))'
<1>1. \A p \in Place : H'[p] = IF p = "file" THEN H["file"] ELSE <<>>
  BY Values, ValuesNext DEF EndProcess, Stack, Place, Shared
<1>2. "file" \in Place
  BY DEF Place, Shared
<1>3. Ids(H["file"]) \subseteq Live /\ Distinct(H["file"])
  BY <1>2 DEF CopyInv, Copies
<1>4. Live' = Ids(H["file"]) /\ (Gone \subseteq accepted)'
  BY <1>3, Values DEF EndProcess, Live, Gone, CopyInv
<1>5. Copies(H', Live')
  BY <1>1, <1>3, <1>4, NoIds DEF Copies
<1>6. Covers(H', Live')
  BY <1>1, <1>2, <1>4 DEF Covers
<1> QED BY <1>4, <1>5, <1>6 DEF EndProcess

(* The state functions of CopyInv depend on these variables only.          *)
LEMMA SameHistory ==
  ASSUME UNCHANGED history, Gone \subseteq accepted
  PROVE  Live' = Live /\ (Gone \subseteq accepted)'
  BY DEF Live, Gone

LEMMA SamePlaces ==
  ASSUME UNCHANGED <<taskCh, pendingTasks, workerCh, rhand, dhand, whand, dumped,
                     dumpFile>>,
         Dumping' = Dumping
  PROVE  H' = H
  BY DEF H, Held

(* What is left to show of a step, WakeNext aside.                         *)
CopyGoal ==
  /\ (Gone \subseteq accepted)' /\ (dpc = "write" => dumpFile = <<>>)'
  /\ Copies(H', Live') /\ (~Dumping' => Covers(H', Live'))

(* The parts of the invariant that the steps below use.                    *)
CopyFacts ==
  /\ TypeOK /\ HandsPassOn /\ Idle
  /\ Copies(H, Live) /\ (~Dumping => Covers(H, Live))
  /\ \A p \in Place : Distinct(H[p]) /\ Ids(H[p]) \subseteq Live
  /\ \A p, q \in Place : p # q => Ids(H[p]) \cap Ids(H[q]) = {}
  /\ Gone \subseteq accepted /\ (dpc = "write" => dumpFile = <<>>)

LEMMA CopyFactsHold == CopyInv => CopyFacts
  BY DEF CopyInv, WakeInv, TypeInv, Copies, CopyFacts

(* A step that moves the orders X from src to dst reaches the goal.        *)
LEMMA MoveGoal ==
  ASSUME CopyFacts, NEW src, NEW dst, NEW X, Moves(H, H', src, dst, X),
         UNCHANGED history, ~Dumping' => ~Dumping,
         (dpc = "write" => dumpFile = <<>>)'
  PROVE  CopyGoal
<1>1. Live' = Live /\ (Gone \subseteq accepted)'
  BY SameHistory DEF CopyFacts
<1>2. Copies(H', Live) /\ (Covers(H, Live) => Covers(H', Live))
  BY Move DEF CopyFacts
<1> QED BY <1>1, <1>2 DEF CopyGoal, CopyFacts

(* A step that leaves the places and the history alone reaches the goal.   *)
LEMMA SameGoal ==
  ASSUME CopyFacts, UNCHANGED history, Dumping' = Dumping,
         UNCHANGED <<taskCh, pendingTasks, workerCh, rhand, dhand, whand, dumped,
                     dumpFile>>,
         (dpc = "write" => dumpFile = <<>>)'
  PROVE  CopyGoal
<1>1. H' = H /\ Live' = Live /\ (Gone \subseteq accepted)'
  BY SamePlaces, SameHistory DEF CopyFacts
<1> QED BY <1>1 DEF CopyGoal, CopyFacts

(* When a place is emptied during the dump, its orders need no task.       *)
LEMMA ShrinkGoal ==
  ASSUME CopyFacts, NEW src, Leaves(H, H', src), UNCHANGED history, Dumping',
         (dpc = "write" => dumpFile = <<>>)'
  PROVE  CopyGoal
<1>1. Live' = Live /\ (Gone \subseteq accepted)'
  BY SameHistory DEF CopyFacts
<1>2. Copies(H', Live)
  BY Shrink DEF CopyFacts
<1> QED BY <1>1, <1>2 DEF CopyGoal

LEMMA CopyRestore ==
  ASSUME CopyFacts, RestoreFail \/ RestoreErase \/ RestoreAppend PROVE CopyGoal
<1> USE Values, ValuesNext, InPlace
<1>1. CASE RestoreFail
  BY <1>1, SameGoal DEF RestoreFail, Dumping, CopyFacts
<1>2. CASE RestoreErase
  <2>1. H["dump"] = <<>> /\ dpc # "write"
    BY <1>2 DEF RestoreErase, Idle, Running, CopyFacts
  <2>2. /\ \A p \in Place : p # "file" /\ p # "dump" => H'[p] = H[p]
        /\ H'["file"] = <<>> /\ H'["dump"] = H["file"]
    BY <1>2 DEF RestoreErase, Place, Shared, Stack, Dumping
  <2>3. Moves(H, H', "file", "dump", Ids(H["file"]))
    BY <2>1, <2>2, NoIds DEF Moves, Shared, CopyFacts
  <2> QED BY <1>2, <2>1, <2>3, MoveGoal DEF RestoreErase, Dumping
<1>3. CASE RestoreAppend
  <2>1. dpc = "select" /\ pendingTasks = <<>> /\ dumped \in Seq(Task)
    BY <1>3 DEF RestoreAppend, Idle, Running, CopyFacts, TypeOK
  <2>2. pendingTasks' = dumped
    BY <1>3, <2>1 DEF RestoreAppend
  <2>3. /\ \A p \in Place : p # "dump" /\ p # "pendingTasks" => H'[p] = H[p]
        /\ H["pendingTasks"] = <<>>
        /\ H'["dump"] = <<>> /\ H'["pendingTasks"] = H["dump"]
    BY <1>3, <2>1, <2>2 DEF RestoreAppend, Place, Shared, Stack, Dumping
  <2>4. Moves(H, H', "dump", "pendingTasks", Ids(H["dump"]))
    BY <2>3, NoIds DEF Moves, Shared, CopyFacts
  <2> QED BY <1>3, <2>1, <2>4, MoveGoal DEF RestoreAppend, Dumping
<1> QED BY <1>1, <1>2, <1>3

(* A task sent to the link channel enters it, or its order is dropped.     *)
LEMMA CopySubmit ==
  ASSUME CopyFacts, NEW t \in Task, Submit(t) PROVE CopyGoal
<1> USE Values, ValuesNext, InPlace
<1>1. t.id \notin Live /\ t.id \notin accepted /\ t.id \notin Gone
  BY DEF Submit, Enqueue, Live, CopyFacts
<1>2. (dpc = "write" => dumpFile = <<>>)' /\ Dumping' = Dumping
  BY DEF Submit, Enqueue, CopyFacts, Dumping
<1>3. CASE dropped' = dropped
  <2>1. taskCh' = Append(taskCh, t)
    BY <1>1, <1>3 DEF Submit, Enqueue, SendOrder, Gone
  <2>2. Live' = Live \cup {t.id} /\ (Gone \subseteq accepted)'
    BY <1>1, <1>3 DEF Submit, Enqueue, Live, Gone, CopyFacts
  <2>3. \A p \in Place : p # "taskCh" => H'[p] = H[p]
    BY DEF Submit, Enqueue, Place, Shared, Stack, Dumping
  <2>4. t.id \notin Ids(H["taskCh"]) /\ Distinct(H["taskCh"]) /\ "taskCh" \in Place
    BY <1>1 DEF CopyFacts, Shared
  <2>5. Enters(H, H', "taskCh", t.id)
    BY <2>1, <2>3, <2>4, AppendIds DEF Enters, CopyFacts, TypeOK
  <2>6. Copies(H', Live') /\ (Covers(H, Live) => Covers(H', Live'))
    BY <1>1, <2>2, <2>5, Enter DEF CopyFacts
  <2> QED BY <1>2, <2>2, <2>6 DEF CopyGoal, CopyFacts
<1>4. CASE dropped' # dropped
  <2>1. dropped' = dropped \cup {t.id} /\ taskCh' = taskCh
    BY <1>4 DEF Submit, Enqueue, SendOrder
  <2>2. Live' = Live /\ (Gone \subseteq accepted)'
    BY <1>1, <2>1 DEF Submit, Enqueue, Live, Gone, CopyFacts
  <2>3. H' = H
    BY <1>2, <2>1, SamePlaces DEF Submit, Enqueue
  <2> QED BY <1>2, <2>2, <2>3 DEF CopyGoal, CopyFacts
<1> QED BY <1>3, <1>4

LEMMA CopyReader == ASSUME CopyFacts, Reader PROVE CopyGoal
<1> USE Values, ValuesNext, InPlace
<1>0. (dpc = "write" => dumpFile = <<>>)' /\ Dumping' = Dumping
  BY DEF Reader, ReaderReceive, ReaderStop, ReaderAppend, ReaderNotify, Dumping,
     CopyFacts
<1>1. CASE ReaderReceive
  <2> DEFINE t == Head(taskCh)
  <2>1. /\ H["reader"] = <<>> /\ t \in Task /\ t.id \in Ids(H["taskCh"])
        /\ Ids(Tail(taskCh)) = Ids(H["taskCh"]) \ {t.id} /\ Distinct(Tail(taskCh))
    BY <1>1, TailIds DEF ReaderReceive, CopyFacts, TypeOK, HandsPassOn, Shared
  <2>2. /\ \A p \in Place : p # "taskCh" /\ p # "reader" => H'[p] = H[p]
        /\ H'["taskCh"] = Tail(taskCh) /\ H'["reader"] = <<t>>
    BY <1>1 DEF ReaderReceive, Place, Shared, Stack, Dumping
  <2> HIDE DEF t
  <2>3. Moves(H, H', "taskCh", "reader", {t.id})
    BY <2>1, <2>2, NoIds, OneId DEF Moves, Shared
  <2> QED BY <1>0, <1>1, <2>3, MoveGoal DEF ReaderReceive
<1>2. CASE ReaderStop \/ ReaderNotify
  BY <1>0, <1>2, SameGoal DEF ReaderStop, ReaderNotify
<1>3. CASE ReaderAppend /\ ~Dumping
  <2>0. /\ H["pendingTasks"] = pendingTasks /\ H["reader"] = rhand
        /\ Distinct(pendingTasks) /\ Ids(pendingTasks) \cap Ids(rhand) = {}
    BY <1>3 DEF CopyFacts, Shared, Stack
  <2>1. /\ Ids(pendingTasks \o rhand) = Ids(H["pendingTasks"]) \cup Ids(H["reader"])
        /\ Distinct(pendingTasks \o rhand)
    BY <2>0, ConcatIds DEF CopyFacts, TypeOK
  <2>2. /\ \A p \in Place : p # "reader" /\ p # "pendingTasks" => H'[p] = H[p]
        /\ H'["reader"] = <<>> /\ H'["pendingTasks"] = pendingTasks \o rhand
    BY <1>0, <1>3 DEF ReaderAppend, Place, Shared, Stack
  <2>3. Moves(H, H', "reader", "pendingTasks", Ids(H["reader"]))
    BY <2>1, <2>2, NoIds DEF Moves, Shared
  <2> QED BY <1>0, <1>3, <2>3, MoveGoal DEF ReaderAppend
<1>4. CASE ReaderAppend /\ Dumping
  <2>1. Leaves(H, H', "reader")
    BY <1>0, <1>4 DEF ReaderAppend, Place, Shared, Stack, Leaves
  <2> QED BY <1>0, <1>4, <2>1, ShrinkGoal DEF ReaderAppend
<1> QED BY <1>1, <1>2, <1>3, <1>4 DEF Reader

LEMMA CopyDispatcher == ASSUME CopyFacts, Dispatcher, ~DispatchPanic PROVE CopyGoal
<1> USE Values, ValuesNext, InPlace
<1>1. CASE DispatchStop \/ DispatchPause \/ DispatchWake \/ DispatchYield
           \/ DispatchCancel \/ DispatchSleepEnd
  BY <1>1, SameGoal DEF DispatchStop, DispatchPause, DispatchWake, DispatchYield,
     DispatchCancel, DispatchSleepEnd, Dumping
<1>2. CASE DispatchPop /\ pendingTasks = <<>>
  BY <1>2, SameGoal DEF DispatchPop, Dumping
<1>3. CASE DispatchPop /\ pendingTasks # <<>>
  <2> DEFINE t == Last(pendingTasks)
  <2>1. H["pendingTasks"] = pendingTasks /\ ~Dumping /\ ~Dumping' /\ dpc' = "send"
    BY <1>3 DEF DispatchPop, Stack, Dumping
  <2>2. /\ H["dispatcher"] = <<>> /\ t \in Task /\ t.id \in Ids(H["pendingTasks"])
        /\ Ids(Front(pendingTasks)) = Ids(H["pendingTasks"]) \ {t.id}
        /\ Distinct(Front(pendingTasks))
    BY <1>3, <2>1, FrontIds DEF DispatchPop, CopyFacts, TypeOK, HandsPassOn,
       Shared
  <2>3. /\ \A p \in Place : p # "pendingTasks" /\ p # "dispatcher" => H'[p] = H[p]
        /\ H'["pendingTasks"] = Front(pendingTasks) /\ H'["dispatcher"] = <<t>>
    BY <1>3, <2>1 DEF DispatchPop, Place, Shared, Stack
  <2> HIDE DEF t
  <2>4. Moves(H, H', "pendingTasks", "dispatcher", {t.id})
    BY <2>2, <2>3, NoIds, OneId DEF Moves, Shared
  <2> QED BY <1>3, <2>1, <2>4, MoveGoal DEF DispatchPop
<1>4. CASE DispatchSend
  <2>1. /\ Ids(workerCh \o dhand) = Ids(H["workerCh"]) \cup Ids(H["dispatcher"])
        /\ Distinct(workerCh \o dhand)
    BY <1>4, ConcatIds DEF CopyFacts, TypeOK, Shared
  <2>2. /\ \A p \in Place : p # "dispatcher" /\ p # "workerCh" => H'[p] = H[p]
        /\ H'["dispatcher"] = <<>> /\ H'["workerCh"] = workerCh \o dhand
    BY <1>4 DEF DispatchSend, Place, Shared, Stack, Dumping
  <2>3. Moves(H, H', "dispatcher", "workerCh", Ids(H["dispatcher"]))
    BY <2>1, <2>2, NoIds DEF Moves, Shared
  <2> QED BY <1>4, <2>3, MoveGoal DEF DispatchSend, Dumping
<1>5. CASE DispatchPutBack
  <2>1. H["pendingTasks"] = pendingTasks /\ ~Dumping /\ ~Dumping' /\ dpc' # "write"
    BY <1>5 DEF DispatchPutBack, Stack, Dumping
  <2>2. /\ Ids(pendingTasks \o dhand) = Ids(H["pendingTasks"]) \cup Ids(H["dispatcher"])
        /\ Distinct(pendingTasks \o dhand)
    BY <2>1, ConcatIds DEF CopyFacts, TypeOK, Shared
  <2>3. /\ \A p \in Place : p # "dispatcher" /\ p # "pendingTasks" => H'[p] = H[p]
        /\ H'["dispatcher"] = <<>> /\ H'["pendingTasks"] = pendingTasks \o dhand
    BY <1>5, <2>1 DEF DispatchPutBack, Place, Shared, Stack
  <2>4. Moves(H, H', "dispatcher", "pendingTasks", Ids(H["dispatcher"]))
    BY <2>2, <2>3, NoIds DEF Moves, Shared
  <2> QED BY <1>5, <2>1, <2>4, MoveGoal DEF DispatchPutBack
<1>6. CASE DumpSnapshot
  <2>1. H["pendingTasks"] = pendingTasks /\ ~Dumping /\ Dumping' /\ dpc' = "drain"
        /\ H["dump"] = <<>>
    BY <1>6 DEF DumpSnapshot, Stack, Dumping, CopyFacts, Idle, Running
  <2>2. /\ \A p \in Place : p # "pendingTasks" /\ p # "dump" => H'[p] = H[p]
        /\ H'["pendingTasks"] = <<>> /\ H'["dump"] = H["pendingTasks"]
    BY <1>6, <2>1 DEF DumpSnapshot, Place, Shared, Stack
  <2>3. Moves(H, H', "pendingTasks", "dump", Ids(H["pendingTasks"]))
    BY <2>1, <2>2, NoIds DEF Moves, Shared, CopyFacts
  <2> QED BY <1>6, <2>1, <2>3, MoveGoal DEF DumpSnapshot
<1>7. CASE DumpDrain /\ workerCh = <<>>
  BY <1>7, SameGoal DEF DumpDrain, Dumping
<1>8. CASE DumpDrain /\ workerCh # <<>>
  <2> DEFINE t == Head(workerCh)
  <2>1. /\ t \in Task /\ t.id \in Ids(H["workerCh"])
        /\ Ids(Tail(workerCh)) = Ids(H["workerCh"]) \ {t.id} /\ Distinct(Tail(workerCh))
    BY <1>8, TailIds DEF CopyFacts, TypeOK, Shared
  <2>2. t.id \notin Ids(H["dump"]) /\ Distinct(H["dump"])
    BY <2>1 DEF CopyFacts, Shared
  <2>3. Ids(Append(dumped, t)) = Ids(H["dump"]) \cup {t.id} /\ Distinct(Append(dumped, t))
    BY <2>1, <2>2, AppendIds DEF CopyFacts, TypeOK
  <2>4. /\ \A p \in Place : p # "workerCh" /\ p # "dump" => H'[p] = H[p]
        /\ H'["workerCh"] = Tail(workerCh) /\ H'["dump"] = Append(dumped, t)
    BY <1>8 DEF DumpDrain, Place, Shared, Stack, Dumping
  <2> HIDE DEF t
  <2>5. Moves(H, H', "workerCh", "dump", {t.id})
    BY <2>1, <2>3, <2>4 DEF Moves, Shared
  <2> QED BY <1>8, <2>5, MoveGoal DEF DumpDrain, Dumping
<1>9. CASE SaveCreate
  <2>1. Dumping /\ Dumping'
    BY <1>9 DEF SaveCreate, Dumping
  <2>2. Leaves(H, H', "file") \/ Leaves(H, H', "dump")
    BY <1>9, <2>1 DEF SaveCreate, Place, Shared, Stack, Leaves
  <2> QED BY <1>9, <2>1, <2>2, ShrinkGoal DEF SaveCreate
<1>10. CASE SaveWrite
  <2>1. Dumping /\ Dumping' /\ H["file"] = <<>> /\ dpc' = "done"
    BY <1>10 DEF SaveWrite, Dumping, CopyFacts
  <2>2. CASE dumpFile' = dumped
    <3>1. /\ \A p \in Place : p # "dump" /\ p # "file" => H'[p] = H[p]
          /\ H'["dump"] = <<>> /\ H'["file"] = H["dump"]
      BY <1>10, <2>1, <2>2 DEF SaveWrite, Place, Shared, Stack
    <3>2. Moves(H, H', "dump", "file", Ids(H["dump"]))
      BY <2>1, <3>1, NoIds DEF Moves, Shared, CopyFacts
    <3> QED BY <1>10, <2>1, <3>2, MoveGoal DEF SaveWrite
  <2>3. CASE dumpFile' = dumpFile
    <3>1. Leaves(H, H', "dump")
      BY <1>10, <2>1, <2>3 DEF SaveWrite, Place, Shared, Stack, Leaves
    <3> QED BY <1>10, <2>1, <3>1, ShrinkGoal DEF SaveWrite
  <2> QED BY <1>10, <2>2, <2>3 DEF SaveWrite
<1> QED BY <1>1, <1>2, <1>3, <1>4, <1>5, <1>6, <1>7, <1>8, <1>9, <1>10 DEF
   Dispatcher

LEMMA CopyWorker ==
  ASSUME CopyFacts, NEW w \in Worker, WorkerStep(w), ~WorkerPanic(w) PROVE CopyGoal
<1> USE Values, ValuesNext, InPlace
<1>0. /\ (dpc = "write" => dumpFile = <<>>)' /\ Dumping' = Dumping
      /\ w \in Place /\ w \notin Shared /\ whand[w] \in Hand
      /\ \A v \in Worker : v \notin Shared
  BY WorkerAssumption DEF WorkerStep, WorkerStop, WorkerReceive, WorkerRelease,
     WorkerRetry, WorkerBusy, WorkerPause, WorkerRequeue, Dumping, CopyFacts,
     TypeOK
<1>1. CASE WorkerStop(w) \/ WorkerBusy(w) \/ WorkerPause(w)
  BY <1>0, <1>1, SameGoal DEF WorkerStop, WorkerBusy, WorkerPause
<1>2. CASE WorkerReceive(w)
  <2> DEFINE t == Head(workerCh)
  <2>1. /\ H[w] = <<>> /\ t \in Task /\ t.id \in Ids(H["workerCh"])
        /\ Ids(Tail(workerCh)) = Ids(H["workerCh"]) \ {t.id} /\ Distinct(Tail(workerCh))
    BY <1>2, TailIds DEF WorkerReceive, CopyFacts, TypeOK, HandsPassOn, Shared
  <2>2. /\ \A p \in Place : p # "workerCh" /\ p # w => H'[p] = H[p]
        /\ H'["workerCh"] = Tail(workerCh) /\ H'[w] = <<t>>
    BY <1>0, <1>2 DEF WorkerReceive, Place, Shared, Stack, CopyFacts, TypeOK
  <2> HIDE DEF t
  <2>3. Moves(H, H', "workerCh", w, {t.id})
    BY <1>0, <2>1, <2>2, NoIds, OneId DEF Moves, Shared
  <2> QED BY <1>0, <1>2, <2>3, MoveGoal DEF WorkerReceive
<1>3. CASE WorkerRetry(w)
  <2>1. PICK t \in Task, u \in Task : /\ whand[w] = <<t>> /\ u.id = t.id
                                      /\ whand' = [whand EXCEPT ![w] = <<u>>]
    <3>1. whand[w] # <<>>
      BY <1>3 DEF WorkerRetry, CopyFacts, HandsPassOn
    <3>2. Head(whand[w]) \in Task /\ whand[w] = <<Head(whand[w])>>
      BY <1>0, <3>1, FullHand
    <3>3. /\ [Head(whand[w]) EXCEPT !.status = "PROCESSING"] \in Task
          /\ [Head(whand[w]) EXCEPT !.status = "PROCESSING"].id = Head(whand[w]).id
      BY <3>2 DEF Task
    <3> QED BY <1>3, <3>2, <3>3 DEF WorkerRetry
  <2>2. /\ \A p \in Place : p # w => H'[p] = H[p]
        /\ H[w] = <<t>> /\ H'[w] = <<u>>
    BY <1>0, <1>3, <2>1 DEF WorkerRetry, Place, Shared, Stack, CopyFacts, TypeOK
  <2>3. Moves(H, H', w, "taskCh", {})
    BY <1>0, <2>1, <2>2, OneId DEF Moves, Shared, CopyFacts
  <2> QED BY <1>0, <1>3, <2>3, MoveGoal DEF WorkerRetry
<1>4. CASE WorkerRelease(w)
  <2>1. Live' = Live \ Ids(H[w]) /\ (Gone \subseteq accepted)'
    BY <1>0, <1>4 DEF WorkerRelease, Live, Gone, CopyFacts
  <2>2. Leaves(H, H', w)
    BY <1>0, <1>4 DEF WorkerRelease, Place, Shared, Stack, CopyFacts, TypeOK,
       Leaves
  <2>3. Copies(H', Live') /\ (Covers(H, Live) => Covers(H', Live'))
    BY <2>1, <2>2, Leave DEF CopyFacts
  <2> QED BY <1>0, <2>1, <2>3 DEF CopyGoal, CopyFacts
<1>5. CASE WorkerRequeue(w)
  <2>1. PICK t \in Task : whand[w] = <<t>> /\ Head(whand[w]) = t /\ Ids(H[w]) = {t.id}
    <3>1. whand[w] # <<>>
      BY <1>5 DEF WorkerRequeue, CopyFacts, HandsPassOn
    <3> QED BY <1>0, <3>1, FullHand, OneId
  <2>2. /\ \A p \in Place : p # w /\ p # "taskCh" => H'[p] = H[p]
        /\ H'[w] = <<>>
    BY <1>0, <1>5 DEF WorkerRequeue, Place, Shared, Stack, CopyFacts, TypeOK
  <2>3. CASE Len(taskCh) < LinkCap
    <3>1. taskCh' = Append(taskCh, t) /\ UNCHANGED history
      BY <1>5, <2>1, <2>3 DEF WorkerRequeue, SendOrder
    <3>2. t.id \notin Ids(H["taskCh"]) /\ Distinct(H["taskCh"])
      BY <1>0, <2>1 DEF CopyFacts, Shared
    <3>3. /\ Ids(Append(taskCh, t)) = Ids(H["taskCh"]) \cup {t.id}
          /\ Distinct(Append(taskCh, t))
      BY <3>2, AppendIds DEF CopyFacts, TypeOK
    <3>4. Moves(H, H', w, "taskCh", {t.id})
      BY <1>0, <2>1, <2>2, <3>1, <3>3, NoIds DEF Moves, Shared
    <3> QED BY <1>0, <3>1, <3>4, MoveGoal
  <2>4. CASE ~(Len(taskCh) < LinkCap)
    <3>1. taskCh' = taskCh /\ dropped' = dropped \cup Ids(H[w])
      BY <1>5, <2>1, <2>4 DEF WorkerRequeue, SendOrder
    <3>2. Live' = Live \ Ids(H[w]) /\ (Gone \subseteq accepted)'
      BY <1>0, <1>5, <3>1 DEF WorkerRequeue, Live, Gone, CopyFacts
    <3>3. Leaves(H, H', w)
      BY <1>0, <2>2, <3>1 DEF Leaves
    <3>4. Copies(H', Live') /\ (Covers(H, Live) => Covers(H', Live'))
      BY <3>2, <3>3, Leave DEF CopyFacts
    <3> QED BY <1>0, <3>2, <3>4 DEF CopyGoal, CopyFacts
  <2> QED BY <2>3, <2>4
<1> QED BY <1>1, <1>2, <1>3, <1>4, <1>5 DEF WorkerStep

LEMMA CopyNext == CopyInv /\ [Next]_vars => CopyInv'
<1> SUFFICES ASSUME CopyInv, [Next]_vars PROVE CopyGoal
  BY WakeNext DEF CopyInv, CopyGoal
<1>0. CopyFacts
  BY CopyFactsHold
<1>1. CASE RestoreFail \/ RestoreErase \/ RestoreAppend
  BY <1>0, <1>1, CopyRestore
<1>2. ASSUME NEW t \in Task, Submit(t) PROVE CopyGoal
  BY <1>0, <1>2, CopySubmit
<1>3. CASE Reader
  BY <1>0, <1>3, CopyReader
<1>4. CASE Dispatcher /\ ~DispatchPanic
  BY <1>0, <1>4, CopyDispatcher
<1>5. ASSUME NEW w \in Worker, WorkerStep(w), ~WorkerPanic(w) PROVE CopyGoal
  BY <1>0, <1>5, CopyWorker
<1>6. CASE Signal \/ CloseLink
  BY <1>0, <1>6, SameGoal DEF Signal, CloseLink, Dumping, CopyFacts
<1>7. CASE Exit \/ Kill \/ DispatchPanic
  BY <1>7, CopyEnd DEF Exit, Kill, DispatchPanic, CopyGoal
<1>8. ASSUME NEW w \in Worker, WorkerPanic(w) PROVE CopyGoal
  BY <1>8, CopyEnd DEF WorkerPanic, CopyGoal
<1>9. CASE Restart
  BY <1>0, <1>9, SameGoal DEF Restart, Dumping, CopyFacts
<1>10. CASE UNCHANGED vars
  BY <1>0, <1>10, SameGoal DEF vars, Dumping, CopyFacts
<1> QED BY <1>1, <1>2, <1>3, <1>4, <1>5, <1>6, <1>7, <1>8, <1>9, <1>10 DEF Next

LEMMA CopyInvariant == Spec => []CopyInv
  BY CopyInit, CopyNext, PTL DEF Spec

-----------------------------------------------------------------------------
(* The theorems.                                                           *)

(* An order never has two tasks, in memory and in the dump file together:  *)
(* whatever the pauses, requeues, shutdowns, failing dumps and restarts,   *)
(* no order is processed, and credited, by two workers or twice over.      *)
THEOREM OneTaskPerOrder == Spec => []OneCopy
  BY CopyInvariant, CopyInvImplies, PTL

(* No finished, dropped or lost order comes back from a channel, from the  *)
(* stack or from an old dump.                                              *)
THEOREM NoTaskReturns == Spec => []NoZombie
  BY CopyInvariant, CopyInvImplies, PTL

(* Until the dispatcher dumps the queue at a shutdown, every accepted      *)
(* order that is not finished or dropped at the full channel has a task.   *)
THEOREM NoTaskMislaid == Spec => []NothingMislaid
  BY CopyInvariant, CopyInvImplies, PTL
-----------------------------------------------------------------------------
(* The pool as the rest of the program sees it.                            *)

(* Nothing is in memory before Start, the dispatcher dumps only after a    *)
(* cancellation, and what RestoreQueue holds is not in the file any more.  *)
LifeInv ==
  /\ ~Running => /\ taskCh = <<>> /\ workerCh = <<>>
                 /\ \A w \in Worker : wpc[w] = "select"
  /\ dpc = "rescue" \/ dpc = "dump" \/ Dumping => ctxDone
  /\ life = "erased" => dumpFile = <<>>

LEMMA LifeEnd ==
  ASSUME NEW how \in {"exited", "panicked", "killed"}, EndProcess(how)
  PROVE  LifeInv'
  BY DEF EndProcess, LifeInv, Running, Dumping

LEMMA LifeInvNext == WakeInv /\ LifeInv /\ [Next]_vars => LifeInv'
<1> SUFFICES ASSUME WakeInv, LifeInv, [Next]_vars PROVE LifeInv'
  OBVIOUS
<1> USE DEF LifeInv, Running, Dumping
<1>1. CASE RestoreFail \/ RestoreErase \/ RestoreAppend
  BY <1>1 DEF RestoreFail, RestoreErase, RestoreAppend, WakeInv, Idle
<1>2. ASSUME NEW t \in Task, Submit(t) PROVE LifeInv'
  BY <1>2 DEF Submit, Enqueue
<1>3. CASE Reader
  BY <1>3 DEF Reader, ReaderReceive, ReaderStop, ReaderAppend, ReaderNotify
<1>4. CASE Dispatcher
  <2>1. CASE DispatchStop \/ DispatchPause \/ DispatchWake
    BY <2>1 DEF DispatchStop, DispatchPause, DispatchWake
  <2>2. CASE DispatchPop
    BY <2>2 DEF DispatchPop
  <2>3. CASE DispatchSend \/ DispatchYield \/ DispatchCancel
    BY <2>3 DEF DispatchSend, DispatchYield, DispatchCancel
  <2>4. CASE DispatchPutBack \/ DispatchSleepEnd
    BY <2>4 DEF DispatchPutBack, DispatchSleepEnd
  <2>5. CASE DumpSnapshot \/ DumpDrain
    BY <2>5 DEF DumpSnapshot, DumpDrain
  <2>6. CASE SaveCreate \/ SaveWrite
    BY <2>6 DEF SaveCreate, SaveWrite
  <2>7. CASE DispatchPanic
    BY <2>7, LifeEnd DEF DispatchPanic
  <2> QED BY <1>4, <2>1, <2>2, <2>3, <2>4, <2>5, <2>6, <2>7 DEF Dispatcher
<1>5. ASSUME NEW w \in Worker, WorkerStep(w) PROVE LifeInv'
  <2>1. CASE WorkerPanic(w)
    BY <2>1, LifeEnd DEF WorkerPanic
  <2>2. CASE ~WorkerPanic(w)
    BY <1>5, <2>2 DEF WorkerStep, WorkerStop, WorkerReceive, WorkerRelease,
       WorkerRetry, WorkerBusy, WorkerPause, WorkerRequeue
  <2> QED BY <2>1, <2>2
<1>6. CASE Signal \/ CloseLink
  BY <1>6 DEF Signal, CloseLink
<1>7. CASE Exit \/ Kill
  BY <1>7, LifeEnd DEF Exit, Kill
<1>8. CASE Restart
  BY <1>8 DEF Restart, Ended
<1>9. CASE UNCHANGED vars
  BY <1>9 DEF vars
<1> QED BY <1>1, <1>2, <1>3, <1>4, <1>5, <1>6, <1>7, <1>8, <1>9 DEF Next

LEMMA LifeInvariant == Spec => [](WakeInv /\ LifeInv)
<1>1. Init => WakeInv /\ LifeInv
  BY WakeInit DEF Init, LifeInv, Running, Dumping
<1> QED BY <1>1, WakeNext, LifeInvNext, PTL DEF Spec

(* A process that has not started its goroutines has nothing in memory.    *)
LEMMA NothingInMemory ==
  ASSUME WakeInv, LifeInv, ~Running
  PROVE  \A p \in Place \ {"file", "dump"} : H[p] = <<>>
  BY Values DEF WakeInv, TypeInv, TypeOK, HandsPassOn, Idle, LifeInv, Stack,
     Dumping, Place, Shared

LEMMA MemoryHeld ==
  /\ InMemory <=> \E p \in Place \ {"file"} : H[p] # <<>>
  /\ InMemory' <=> \E p \in Place \ {"file"} : H'[p] # <<>>
  BY DEF InMemory, H

(* A step of the goroutines that leaves the file alone.                    *)
LEMMA GoroutineSeen ==
  ASSUME Running, Running', dpc = "done" <=> dpc' = "done",
         UNCHANGED <<ctxDone, dumpFile>>
  PROVE  [Life!LifeNext]_(Life!life)
<1>1. UNCHANGED <<Phase, ctxDone, Filed>>
  BY DEF Phase, Filed, Running
<1>2. \/ Queue' = Queue
      \/ Queue = "empty" /\ Queue' = "tasks"
      \/ Queue = "tasks" /\ Queue' = "empty"
  BY DEF Queue
<1> QED BY <1>1, <1>2 DEF Life!LifeNext, Life!life, Life!Fill, Life!Empty

(* The end of a process.                                                   *)
LEMMA EndSeen ==
  ASSUME WakeInv, ~Ended, NEW how \in {"exited", "panicked", "killed"},
         EndProcess(how)
  PROVE  Life!LifeNext
<1>1. Phase # "down" /\ Phase' = "down" /\ ctxDone' = FALSE /\ Queue' = "off"
  BY DEF EndProcess, Phase, Queue, Running, Ended
<1>2. dumpFile' = dumpFile /\ Filed' = (dumpFile # <<>>)
  BY DEF EndProcess, Filed
<1>3. Filed = (dumpFile # <<>>) \/ Phase = "restoring"
  BY DEF Filed, Phase, Running, Ended
<1>4. Filed' => Filed
  BY <1>2 DEF Filed
<1>5. Filed' \in {Filed, Filed /\ Phase # "restoring"}
  BY <1>1, <1>2, <1>3, <1>4 DEF Filed
<1> QED BY <1>1, <1>5 DEF Life!LifeNext, Life!End

LEMMA RestoreSeen ==
  ASSUME WakeInv, LifeInv, RestoreFail \/ RestoreErase \/ RestoreAppend
  PROVE  [Life!LifeNext]_(Life!life)
<1>1. \A p \in Place \ {"file", "dump"} : H[p] = <<>>
  BY NothingInMemory DEF RestoreFail, RestoreErase, RestoreAppend, Running
<1>2. CASE RestoreFail
  <2>1. /\ Phase = "restoring" /\ Phase' = "up" /\ dpc' # "done"
        /\ ctxDone' = ctxDone /\ dumped = <<>>
    BY <1>2 DEF RestoreFail, Phase, Running, Ended, WakeInv, Idle
  <2>2. ~InMemory'
    BY <1>1, <1>2, <2>1, MemoryHeld, Values, ValuesNext
       DEF RestoreFail, Place, Shared, Stack, Dumping
  <2>3. Queue' = "empty" /\ Filed' = Filed
    BY <1>2, <2>1, <2>2 DEF RestoreFail, Queue, Running, Filed
  <2> QED BY <2>1, <2>3 DEF Life!LifeNext, Life!Restore
<1>3. CASE RestoreErase
  <2>1. UNCHANGED <<Phase, ctxDone, Queue>>
    BY <1>3 DEF RestoreErase, Phase, Queue, Running, Ended
  <2>2. Filed' = Filed
    BY <1>3 DEF RestoreErase, Filed
  <2> QED BY <2>1, <2>2 DEF Life!life
<1>4. CASE RestoreAppend
  <2>1. /\ Phase = "restoring" /\ Phase' = "up" /\ dpc' # "done"
        /\ ctxDone' = ctxDone /\ dumpFile = <<>> /\ Filed' = FALSE
        /\ Filed = (dumped # <<>>)
    BY <1>4 DEF RestoreAppend, Phase, Running, Ended, WakeInv, Idle, LifeInv,
       Filed
  <2>2. H'["pendingTasks"] = dumped
    <3>1. pendingTasks = <<>> /\ dpc = "select" /\ dumped \in Seq(Task)
      BY <1>4 DEF RestoreAppend, WakeInv, TypeInv, TypeOK, Idle, Running
    <3>2. pendingTasks' = dumped
      BY <1>4, <3>1 DEF RestoreAppend
    <3> QED BY <1>4, <3>1, <3>2, ValuesNext DEF RestoreAppend, Stack, Dumping
  <2>3. InMemory' <=> dumped # <<>>
    <3>1. ASSUME NEW p \in Place \ {"file", "pendingTasks"} PROVE H'[p] = <<>>
      BY <1>1, <1>4, Values, ValuesNext DEF RestoreAppend, Place, Shared
    <3>2. "pendingTasks" \in Place
      BY DEF Place, Shared
    <3> QED BY <2>2, <3>1, <3>2, MemoryHeld
  <2>4. Queue' = IF Filed THEN "tasks" ELSE "empty"
    BY <1>4, <2>1, <2>3 DEF RestoreAppend, Queue, Running
  <2> QED BY <2>1, <2>4 DEF Life!LifeNext, Life!Restore
<1> QED BY <1>2, <1>3, <1>4

(* Save: what it writes was in the local list, so in memory.               *)
LEMMA SaveSeen ==
  ASSUME WakeInv, LifeInv, SaveCreate \/ SaveWrite
  PROVE  [Life!LifeNext]_(Life!life)
<1>1. /\ Running /\ Running' /\ dpc # "done" /\ ctxDone /\ ctxDone'
      /\ UNCHANGED <<Phase, ctxDone>>
  BY DEF SaveCreate, SaveWrite, Running, Phase, LifeInv, Dumping
<1>2. Queue \in {"empty", "tasks"}
  BY <1>1 DEF Queue
<1>3. Filed = (dumpFile # <<>>) /\ Filed' = (dumpFile' # <<>>)
  BY <1>1 DEF Filed, Running
<1>4. CASE dpc' = "done"
  <2>1. Queue' = "dumped"
    BY <1>1, <1>4 DEF Queue
  <2>2. dumpFile' = dumpFile \/ dumpFile' = dumped
    BY <1>4 DEF SaveCreate, SaveWrite
  <2>3. dumped # <<>> => Queue = "tasks"
    <3>1. "dump" \in Place \ {"file"} /\ H["dump"] = dumped
      BY Values DEF Place, Shared
    <3> QED BY <1>1, <3>1, MemoryHeld DEF Queue
  <2>4. Filed' \in {FALSE, Filed, Queue = "tasks"}
    BY <1>3, <2>2, <2>3
  <2> QED BY <1>1, <1>2, <2>1, <2>4 DEF Life!LifeNext, Life!Dump
<1>5. CASE dpc' # "done"
  <2>1. SaveCreate /\ dpc' = "write" /\ dumpFile' = <<>>
    BY <1>5 DEF SaveCreate, SaveWrite
  <2>2. Queue' = Queue
    <3>1. \A p \in Place \ {"file"} : H'[p] = H[p]
      BY <2>1, Values, ValuesNext
         DEF SaveCreate, Place, Shared, Stack, Dumping
    <3> QED BY <1>1, <1>5, <3>1, MemoryHeld DEF Queue
  <2> QED BY <1>1, <1>2, <1>3, <2>1, <2>2 DEF Life!LifeNext, Life!Truncate
<1> QED BY <1>4, <1>5

LEMMA StepSeen ==
  WakeInv /\ LifeInv /\ [Next]_vars => [Life!LifeNext]_(Life!life)
<1> SUFFICES ASSUME WakeInv, LifeInv, [Next]_vars
             PROVE  [Life!LifeNext]_(Life!life)
  OBVIOUS
<1>1. CASE RestoreFail \/ RestoreErase \/ RestoreAppend
  BY <1>1, RestoreSeen
<1>2. ASSUME NEW t \in Task, Submit(t) PROVE [Life!LifeNext]_(Life!life)
  BY <1>2, GoroutineSeen DEF Submit, Enqueue, Running
<1>3. CASE Reader
  BY <1>3, GoroutineSeen DEF Reader, ReaderReceive, ReaderStop, ReaderAppend,
     ReaderNotify, Running
<1>4. CASE SaveCreate \/ SaveWrite
  BY <1>4, SaveSeen
<1>5. CASE Dispatcher /\ ~DispatchPanic /\ ~SaveCreate /\ ~SaveWrite
  <2>1. CASE DispatchStop \/ DispatchPause \/ DispatchWake \/ DispatchPop
    BY <2>1, GoroutineSeen DEF DispatchStop, DispatchPause, DispatchWake,
       DispatchPop, Running
  <2>2. CASE DispatchSend \/ DispatchYield \/ DispatchCancel
    BY <2>2, GoroutineSeen DEF DispatchSend, DispatchYield, DispatchCancel,
       Running
  <2>3. CASE DispatchPutBack \/ DispatchSleepEnd
    BY <2>3, GoroutineSeen DEF DispatchPutBack, DispatchSleepEnd, Running
  <2>4. CASE DumpSnapshot \/ DumpDrain
    BY <2>4, GoroutineSeen DEF DumpSnapshot, DumpDrain, Running
  <2> QED BY <1>5, <2>1, <2>2, <2>3, <2>4 DEF Dispatcher
<1>6. ASSUME NEW w \in Worker, WorkerStep(w), ~WorkerPanic(w)
      PROVE  [Life!LifeNext]_(Life!life)
  BY <1>6, GoroutineSeen DEF WorkerStep, WorkerStop, WorkerReceive,
     WorkerRelease, WorkerRetry, WorkerBusy, WorkerPause, WorkerRequeue, Running
<1>7. CASE Signal
  <2>1. \A p \in Place : H'[p] = H[p]
    BY <1>7, Values, ValuesNext DEF Signal, Place, Shared, Stack, Dumping
  <2>2. InMemory' = InMemory
    BY <2>1 DEF InMemory, H
  <2>3. Phase = "up" /\ ctxDone' = TRUE /\ UNCHANGED <<Phase, Queue, Filed>>
    BY <1>7, <2>2 DEF Signal, Phase, Queue, Filed, Running
  <2> QED BY <2>3 DEF Life!LifeNext, Life!Stop
<1>8. CASE CloseLink
  BY <1>8, GoroutineSeen DEF CloseLink, Running
<1>9. CASE Exit \/ Kill \/ DispatchPanic
  BY <1>9, EndSeen DEF Exit, Kill, DispatchPanic, Running, Ended
<1>10. ASSUME NEW w \in Worker, WorkerPanic(w)
       PROVE  [Life!LifeNext]_(Life!life)
  BY <1>10, EndSeen DEF WorkerPanic, Running, Ended
<1>11. CASE Restart
  <2>1. Phase = "down" /\ Phase' = "restoring" /\ UNCHANGED Queue
    BY <1>11 DEF Restart, Phase, Queue, Running, Ended
  <2>2. ctxDone' \in BOOLEAN /\ UNCHANGED Filed
    BY <1>11 DEF Restart, Filed, Ended, WakeInv, TypeInv, TypeOK
  <2> QED BY <2>1, <2>2 DEF Life!LifeNext, Life!Begin
<1>12. CASE UNCHANGED vars
  <2>1. UNCHANGED <<Phase, ctxDone, Queue, Filed>>
    BY <1>12 DEF vars, Phase, Queue, Filed, Running, Ended, InMemory, Held,
       Dumping
  <2> QED BY <2>1 DEF Life!life
<1> QED BY <1>1, <1>2, <1>3, <1>4, <1>5, <1>6, <1>7, <1>8, <1>9, <1>10,
           <1>11, <1>12 DEF Next, Dispatcher

(* The goroutines of the pool implement what the rest of the program sees: *)
(* in particular, a dump is queued only when it has left the file, and     *)
(* only a cancelled pool writes the file, with nothing that was not queued.*)
THEOREM PoolImplementsLife == Spec => PoolLifeSpec
<1>1. Init => Life!LifeInit
  <2> SUFFICES ASSUME Init PROVE Life!LifeInit
    OBVIOUS
  <2> QED BY DEF Init, Life!LifeInit, Phase, Queue, Filed, Running, Ended
<1> QED BY <1>1, StepSeen, LifeInvariant, PTL
        DEF Spec, PoolLifeSpec, Life!LifeSpec
=============================================================================
