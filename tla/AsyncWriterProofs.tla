------------------------- MODULE AsyncWriterProofs --------------------------
(***************************************************************************)
(* Proofs about AsyncWriter, for any handlers, keys, values and number of  *)
(* calls.  The inductive invariant states the order of the tasks position  *)
(* by position (Aligned), which every step disturbs at one place only, and *)
(* adds where the worker may be in each of main's phases.                  *)
(***************************************************************************)
EXTENDS AsyncWriter, SequenceTheorems, TLAPS

(* 1 while the worker has a task in hand. *)
h == IF task = NoTask THEN 0 ELSE 1

(* The history splits into the executed tasks, the one in hand, the queue. *)
Aligned ==
    main # "gone" =>
       /\ Len(accepted) = executed + h + Len(queue_)
       /\ task # NoTask => accepted[executed + 1] = task
       /\ \A i \in 1 .. Len(queue_) : accepted[executed + h + i] = queue_[i]

(* Where the worker can be, and what it has. *)
WorkerInv ==
    /\ task # NoTask <=> worker \in HasTask
    /\ worker = "checked" => queue_ = <<>>
    /\ main = "new" => worker = "none"
    /\ main \in {"stopped", "gone"} => worker = "exited"

WriterInv ==
    /\ TypeOK
    /\ Aligned
    /\ WorkerInv
    /\ TaskWakesWorker

-----------------------------------------------------------------------------
(* After its first e elements, a agrees with x and then with q, position   *)
(* by position ...                                                         *)
ContinuesWith(a, e, x, q) ==
    /\ Len(a) = e + Len(x) + Len(q)
    /\ \A i \in 1 .. Len(x) : a[e + i] = x[i]
    /\ \A i \in 1 .. Len(q) : a[e + Len(x) + i] = q[i]

(* ... so that a is the concatenation of the three. *)
LEMMA Cut ==
    ASSUME NEW S, NEW a \in Seq(S), NEW x \in Seq(S), NEW q \in Seq(S),
           NEW e \in Nat, ContinuesWith(a, e, x, q)
    PROVE  a = SubSeq(a, 1, e) \o x \o q
<1> USE DEF ContinuesWith
<1> DEFINE p == SubSeq(a, 1, e)
           r == p \o x \o q
<1>1. Len(a) \in Nat /\ Len(x) \in Nat /\ Len(q) \in Nat
  BY LenProperties
<1>2. \A i \in 1 .. e : a[i] \in S
  <2> SUFFICES ASSUME NEW i \in 1 .. e PROVE a[i] \in S
    OBVIOUS
  <2>1. i \in 1 .. Len(a)
    BY <1>1
  <2> QED BY <2>1, ElementOfSeq
<1>3. p \in Seq(S) /\ Len(p) = e /\ \A i \in 1 .. e : p[i] = a[i]
  <2>1. /\ p \in Seq(S)
        /\ Len(p) = IF 1 <= e THEN e - 1 + 1 ELSE 0
        /\ \A i \in 1 .. e - 1 + 1 : p[i] = a[1 + i - 1]
    BY <1>2, SubSeqProperties
  <2> HIDE DEF p
  <2> QED BY <2>1
<1> HIDE DEF p
<1>4. /\ p \o x \in Seq(S)
      /\ Len(p \o x) = e + Len(x)
      /\ \A i \in 1 .. e + Len(x) :
            (p \o x)[i] = IF i <= e THEN p[i] ELSE x[i - e]
  <2>1. /\ p \o x \in Seq(S)
        /\ Len(p \o x) = Len(p) + Len(x)
        /\ \A i \in 1 .. Len(p) + Len(x) :
              (p \o x)[i] = IF i <= Len(p) THEN p[i] ELSE x[i - Len(p)]
    BY ONLY <1>3, x \in Seq(S), ConcatProperties
  <2> QED BY ONLY <1>3, <2>1
<1> DEFINE y == p \o x
<1>5. /\ r \in Seq(S)
      /\ Len(r) = e + Len(x) + Len(q)
      /\ \A i \in 1 .. e + Len(x) + Len(q) :
            r[i] = IF i <= e + Len(x) THEN y[i] ELSE q[i - (e + Len(x))]
  <2> HIDE DEF y
  <2>1. /\ y \in Seq(S)
        /\ Len(y) = e + Len(x)
    BY ONLY <1>4 DEF y
  <2>2. /\ y \o q \in Seq(S)
        /\ Len(y \o q) = Len(y) + Len(q)
        /\ \A i \in 1 .. Len(y) + Len(q) :
              (y \o q)[i] = IF i <= Len(y) THEN y[i] ELSE q[i - Len(y)]
    BY ONLY ZenonT(40), <2>1, q \in Seq(S), ConcatProperties
  <2>3. r = y \o q
    BY ONLY DEF r, y
  <2> QED BY ONLY <2>1, <2>2, <2>3
<1> HIDE DEF y, r
<1>6. ASSUME NEW i \in 1 .. Len(a) PROVE a[i] = r[i]
  <2>0. /\ i \in Nat /\ 1 <= i /\ i <= e + Len(x) + Len(q)
        /\ i <= e + Len(x) => y[i] = IF i <= e THEN p[i] ELSE x[i - e]
        /\ r[i] = IF i <= e + Len(x) THEN y[i] ELSE q[i - (e + Len(x))]
    BY <1>1, <1>4, <1>5 DEF y
  <2>1. CASE i <= e
    BY <1>1, <1>3, <2>0, <2>1
  <2>2. CASE ~ (i <= e) /\ i <= e + Len(x)
    <3>1. i - e \in 1 .. Len(x) /\ e + (i - e) = i
      BY <1>1, <2>0, <2>2
    <3>2. a[i] = x[i - e]
      BY <3>1
    <3> QED BY <2>0, <2>2, <3>2
  <2>3. CASE ~ (i <= e + Len(x))
    <3>1. /\ i - (e + Len(x)) \in 1 .. Len(q)
          /\ e + Len(x) + (i - (e + Len(x))) = i
      BY <1>1, <2>0, <2>3
    <3>2. a[i] = q[i - (e + Len(x))]
      BY <3>1
    <3> QED BY <2>0, <2>3, <3>2
  <2> QED BY <1>1, <2>1, <2>2, <2>3
<1>7. a = r
  BY <1>5, <1>6, SeqEqual
<1> QED BY <1>7 DEF r, p

LEMMA AlignedInOrder == TypeOK /\ Aligned => InOrder
<1> SUFFICES ASSUME TypeOK, Aligned, main # "gone"
             PROVE  accepted = SubSeq(accepted, 1, executed) \o inHand \o queue_
  BY DEF InOrder
<1>1. /\ inHand \in Seq(AsyncTask)
      /\ Len(inHand) = h
      /\ \A i \in 1 .. Len(inHand) : accepted[executed + i] = inHand[i]
  <2>1. CASE task = NoTask
    <3>1. inHand = <<>> /\ h = 0
      BY <2>1 DEF inHand, h
    <3> QED BY <3>1, EmptySeq
  <2>2. CASE task # NoTask
    <3>1. inHand = <<task>> /\ h = 1 /\ task \in AsyncTask
      BY <2>2 DEF inHand, h, TypeOK
    <3>2. accepted[executed + 1] = task
      BY <2>2 DEF Aligned
    <3>3. \A i \in 1 .. 1 : i = 1
      OBVIOUS
    <3>4. <<task>> \in Seq(AsyncTask) /\ Len(<<task>>) = 1 /\ <<task>>[1] = task
      BY <3>1
    <3> QED BY <3>1, <3>2, <3>3, <3>4
  <2> QED BY <2>1, <2>2
<1>2. ContinuesWith(accepted, executed, inHand, queue_)
  BY <1>1 DEF TypeOK, Aligned, ContinuesWith
<1>3. /\ accepted \in Seq(AsyncTask)
      /\ queue_ \in Seq(AsyncTask)
      /\ executed \in Nat
  BY DEF TypeOK
<1> QED BY ONLY <1>1, <1>2, <1>3, Cut

-----------------------------------------------------------------------------
(* The parts the actions are made of are visible from here on: the actions *)
(* themselves are expanded one at a time.                                  *)
USE DEF othersVars, workVars, WorkerMoves, WakeWorker, MainMoves, Enqueue,
        TakeTask, Statement

LEMMA WriterInit == Init => WriterInv
<1> SUFFICES ASSUME Init PROVE WriterInv
  OBVIOUS
<1>1. TypeOK
  <2>1. <<>> \in Seq(AsyncTask)
    BY EmptySeq
  <2>2. [k \in Keys |-> NoValue] \in Tables
    BY DEF Tables
  <2> QED BY <2>1, <2>2 DEF Init, TypeOK, WorkerPlaces, MainPlaces
<1>2. Aligned
  BY DEF Init, Aligned, h
<1>3. WorkerInv /\ TaskWakesWorker
  BY DEF Init, WorkerInv, TaskWakesWorker, HasTask
<1> QED BY <1>1, <1>2, <1>3 DEF WriterInv

LEMMA TypeStep == TypeOK /\ WorkerInv /\ [Next]_vars => TypeOK'
<1> SUFFICES ASSUME TypeOK, WorkerInv, [Next]_vars PROVE TypeOK'
  OBVIOUS
<1> USE DEF TypeOK, WorkerPlaces, MainPlaces
<1>1. CASE Start
  BY <1>1 DEF Start
<1>2. ASSUME NEW p \in Producers, Push(p) PROVE TypeOK'
  <2>1. PICK t \in AsyncTask : queue_' = Append(queue_, t) /\ accepted' = Append(accepted, t)
    BY <1>2 DEF Push
  <2>2. queue_' \in Seq(AsyncTask) /\ accepted' \in Seq(AsyncTask)
    BY <2>1, AppendProperties
  <2> QED BY <1>2, <2>2 DEF Push
<1>3. ASSUME NEW p \in Producers, Notify(p) PROVE TypeOK'
  BY <1>3 DEF Notify
<1>4. CASE LoopTest \/ FindEmpty \/ Sleep \/ Break \/ GetConnection
           \/ ReleaseConnection \/ SpuriousWake
  BY <1>4 DEF LoopTest, FindEmpty, Sleep, Break, GetConnection,
              ReleaseConnection, SpuriousWake
<1>5. CASE Pop
  BY <1>5, HeadTailProperties DEF Pop
<1>6. CASE Execute
  <2>1. task \in AsyncTask
    BY <1>6 DEF Execute, WorkerInv, HasTask
  <2>2. task.value \in Values \cup {NoValue}
    BY <2>1 DEF AsyncTask
  <2>3. Effect(task, table) \in Tables
    BY <2>2 DEF Effect, Tables
  <2> QED BY <1>6, <2>3 DEF Execute
<1>7. CASE StopStore \/ StopNotify \/ StopJoin \/ Delete
  BY <1>7, EmptySeq DEF StopStore, StopNotify, StopJoin, Delete
<1>8. CASE UNCHANGED vars
  BY <1>8 DEF vars
<1> QED BY <1>1, <1>2, <1>3, <1>4, <1>5, <1>6, <1>7, <1>8 DEF Next, WorkerStep

(* Only Push, Pop and Execute move tasks. *)
LEMMA AlignedStep ==
    TypeOK /\ WorkerInv /\ Aligned /\ [Next]_vars => Aligned'
<1> SUFFICES ASSUME TypeOK, WorkerInv, Aligned, [Next]_vars, main' # "gone"
             PROVE  Aligned'
  BY DEF Aligned
<1>1. /\ queue_ \in Seq(AsyncTask) /\ Len(queue_) \in Nat
      /\ accepted \in Seq(AsyncTask) /\ Len(accepted) \in Nat
      /\ executed \in Nat /\ h \in {0, 1}
  BY LenProperties DEF TypeOK, h
<1>2. main # "gone" => Aligned!2
  BY DEF Aligned
<1>3. ASSUME UNCHANGED <<queue_, task, accepted, executed>>, main # "gone"
      PROVE  Aligned'
  BY <1>3, <1>2 DEF Aligned, h
<1>4. ASSUME NEW p \in Producers, Push(p) PROVE Aligned'
  <2>1. PICK t \in AsyncTask : queue_' = Append(queue_, t) /\ accepted' = Append(accepted, t)
    BY <1>4 DEF Push
  <2>2. /\ UNCHANGED <<task, executed>> /\ h' = h
        /\ main # "gone"
    BY <1>4 DEF Push, h
  <2>3. /\ Len(queue_') = Len(queue_) + 1
        /\ \A i \in 1 .. Len(queue_) : queue_'[i] = queue_[i]
        /\ queue_'[Len(queue_) + 1] = t
    BY <1>1, <2>1, AppendProperties
  <2>4. /\ Len(accepted') = Len(accepted) + 1
        /\ \A i \in 1 .. Len(accepted) : accepted'[i] = accepted[i]
        /\ accepted'[Len(accepted) + 1] = t
    BY <1>1, <2>1, AppendProperties
  <2>5. Len(accepted) = executed + h + Len(queue_)
    BY <1>2, <2>2
  <2>6. Len(accepted') = executed + h + Len(queue_')
    BY <1>1, <2>3, <2>4, <2>5
  <2>7. ASSUME task # NoTask PROVE accepted'[executed + 1] = task
    <3>1. h = 1
      BY <2>7 DEF h
    <3>2. executed + 1 \in 1 .. Len(accepted)
      BY <1>1, <2>5, <3>1
    <3> QED BY <1>2, <2>2, <2>4, <2>7, <3>2
  <2>8. ASSUME NEW i \in 1 .. Len(queue_')
        PROVE  accepted'[executed + h + i] = queue_'[i]
    <3>1. CASE i = Len(queue_) + 1
      <4>1. executed + h + i = Len(accepted) + 1
        BY <1>1, <2>5, <3>1
      <4> QED BY <2>3, <2>4, <3>1, <4>1
    <3>2. CASE i \in 1 .. Len(queue_)
      <4>1. executed + h + i \in 1 .. Len(accepted)
        BY <1>1, <2>5, <3>2
      <4> QED BY <1>2, <2>2, <2>3, <2>4, <3>2, <4>1
    <3> QED BY <1>1, <2>3, <3>1, <3>2
  <2> QED BY <2>2, <2>6, <2>7, <2>8 DEF Aligned
<1>5. CASE Pop
  <2>1. /\ task = NoTask /\ h = 0
        /\ main # "gone"
        /\ queue_ # <<>>
        /\ UNCHANGED <<accepted, executed>>
        /\ task' = Head(queue_)
        /\ queue_' = Tail(queue_)
    BY <1>5 DEF Pop, WorkerInv, HasTask, h
  <2>2. /\ Head(queue_) \in AsyncTask
        /\ Head(queue_) = queue_[1]
        /\ Len(queue_) >= 1
        /\ Len(Tail(queue_)) = Len(queue_) - 1
        /\ \A i \in 1 .. Len(Tail(queue_)) : Tail(queue_)[i] = queue_[i + 1]
    BY <1>1, <2>1, HeadTailProperties, EmptySeq
  <2>3. task' # NoTask /\ h' = 1
    BY <2>1, <2>2, NoTaskAssumption DEF h
  <2>4. Len(accepted) = executed + Len(queue_)
    BY <1>1, <1>2, <2>1
  <2>5. accepted[executed + 1] = queue_[1]
    <3>1. 1 \in 1 .. Len(queue_) /\ executed + h + 1 = executed + 1
      BY <1>1, <2>1, <2>2
    <3> QED BY <1>2, <2>1, <3>1
  <2>6. ASSUME NEW i \in 1 .. Len(queue_')
        PROVE  accepted'[executed' + h' + i] = queue_'[i]
    <3>1. /\ i + 1 \in 1 .. Len(queue_)
          /\ executed' + h' + i = executed + h + (i + 1)
      BY <1>1, <2>1, <2>2, <2>3
    <3>2. accepted[executed + h + (i + 1)] = queue_[i + 1]
      BY <1>2, <2>1, <3>1
    <3> QED BY <2>1, <2>2, <3>1, <3>2
  <2>7. Len(accepted') = executed' + h' + Len(queue_')
    BY <1>1, <2>1, <2>2, <2>3, <2>4
  <2> QED BY <2>1, <2>2, <2>5, <2>6, <2>7 DEF Aligned
<1>6. CASE Execute
  <2>1. /\ task # NoTask /\ h = 1 /\ task' = NoTask /\ h' = 0
        /\ executed' = executed + 1
        /\ UNCHANGED <<queue_, accepted, main>>
    BY <1>6 DEF Execute, WorkerInv, HasTask, h
  <2>2. /\ executed' + h' + Len(queue_') = executed + h + Len(queue_)
        /\ \A i \in 1 .. Len(queue_) : executed' + h' + i = executed + h + i
    BY <1>1, <2>1
  <2>3. main # "gone"
    BY <2>1
  <2> QED BY <1>2, <2>1, <2>2, <2>3 DEF Aligned
<1>7. CASE Delete
  BY <1>7 DEF Delete
<1>8. ASSUME NEW p \in Producers, Notify(p) PROVE Aligned'
  BY <1>3, <1>8 DEF Notify
<1>9. CASE Start \/ LoopTest \/ FindEmpty \/ Sleep \/ Break \/ GetConnection
           \/ ReleaseConnection \/ SpuriousWake
  BY <1>3, <1>9 DEF Start, LoopTest, FindEmpty, Sleep, Break, GetConnection,
                    ReleaseConnection, SpuriousWake
<1>10. CASE StopStore \/ StopNotify \/ StopJoin
  BY <1>3, <1>10 DEF StopStore, StopNotify, StopJoin
<1>11. CASE UNCHANGED vars
  BY <1>3, <1>11 DEF vars
<1> QED BY <1>4, <1>5, <1>6, <1>7, <1>8, <1>9, <1>10, <1>11
        DEF Next, WorkerStep

LEMMA WorkerStepInv == TypeOK /\ WorkerInv /\ [Next]_vars => WorkerInv'
<1> SUFFICES ASSUME TypeOK, WorkerInv, [Next]_vars PROVE WorkerInv'
  OBVIOUS
<1> USE DEF WorkerInv, HasTask
<1>1. CASE Start
  BY <1>1 DEF Start
<1>2. ASSUME NEW p \in Producers, Push(p) \/ Notify(p) PROVE WorkerInv'
  BY <1>2 DEF Push, Notify
<1>3. CASE LoopTest \/ FindEmpty \/ Sleep \/ Break \/ GetConnection
           \/ ReleaseConnection \/ SpuriousWake \/ Execute
  BY <1>3 DEF LoopTest, FindEmpty, Sleep, Break, GetConnection,
              ReleaseConnection, SpuriousWake, Execute
<1>4. CASE Pop
  <2>1. task' # NoTask
    BY <1>4, HeadTailProperties, NoTaskAssumption DEF Pop, TypeOK
  <2> QED BY <1>4, <2>1 DEF Pop
<1>5. CASE StopStore \/ StopNotify \/ StopJoin \/ Delete
  BY <1>5 DEF StopStore, StopNotify, StopJoin, Delete
<1>6. CASE UNCHANGED vars
  BY <1>6 DEF vars
<1> QED BY <1>1, <1>2, <1>3, <1>4, <1>5, <1>6 DEF Next, WorkerStep

(* Only Push and Notify touch the producers, and only Sleep sends the      *)
(* worker to sleep, with the queue still empty.                            *)
LEMMA WakeStep ==
    TypeOK /\ WorkerInv /\ TaskWakesWorker /\ [Next]_vars => TaskWakesWorker'
<1> SUFFICES ASSUME TypeOK, WorkerInv, TaskWakesWorker, [Next]_vars,
                    worker' = "asleep", queue_' # <<>>
             PROVE  \E p \in Producers : producer'[p] = "pushed"
  BY DEF TaskWakesWorker
<1>1. ASSUME NEW p \in Producers, Push(p)
      PROVE  producer'[p] = "pushed"
  BY <1>1 DEF Push, TypeOK
<1>2. ASSUME NEW p \in Producers, Notify(p) PROVE FALSE
  BY <1>2 DEF Notify
<1>3. CASE Sleep
  BY <1>3 DEF Sleep, WorkerInv
<1>4. CASE Start \/ LoopTest \/ FindEmpty \/ Break \/ Pop \/ GetConnection
           \/ ReleaseConnection \/ SpuriousWake \/ Execute
  BY <1>4 DEF Start, LoopTest, FindEmpty, Break, Pop, GetConnection,
              ReleaseConnection, SpuriousWake, Execute
<1>5. CASE StopStore \/ StopNotify \/ StopJoin \/ Delete
  BY <1>5 DEF StopStore, StopNotify, StopJoin, Delete, TaskWakesWorker
<1>6. CASE UNCHANGED vars
  BY <1>6 DEF vars, TaskWakesWorker
<1> QED BY <1>1, <1>2, <1>3, <1>4, <1>5, <1>6 DEF Next, WorkerStep

LEMMA WriterInductive == Spec => []WriterInv
<1>1. WriterInv /\ [Next]_vars => WriterInv'
  BY TypeStep, AlignedStep, WorkerStepInv, WakeStep DEF WriterInv
<1> QED BY <1>1, WriterInit, PTL DEF Spec

-----------------------------------------------------------------------------
(* The types, for any handlers, keys, values and number of calls. *)
THEOREM WriterTypeCorrect == Spec => []TypeOK
<1>1. WriterInv => TypeOK
  BY DEF WriterInv
<1> QED BY <1>1, WriterInductive, PTL

(* Tasks reach the database in the order in which the handlers pushed      *)
(* them, none is skipped, none is executed twice.                          *)
THEOREM TasksInOrder == Spec => []InOrder
<1>1. WriterInv => InOrder
  BY AlignedInOrder DEF WriterInv
<1> QED BY <1>1, WriterInductive, PTL

(* Leaving mu_ before notify_one loses no wakeup.                          *)
THEOREM NoTaskSleptOver == Spec => []TaskWakesWorker
<1>1. WriterInv => TaskWakesWorker
  BY DEF WriterInv
<1> QED BY <1>1, WriterInductive, PTL

(* After stop() the worker uses neither the pool nor the database.         *)
THEOREM StopIsFinal == Spec => []StopQuiesces
<1>1. WriterInv => StopQuiesces
  BY DEF WriterInv, WorkerInv, StopQuiesces, HasTask, HasConnection
<1> QED BY <1>1, WriterInductive, PTL

-----------------------------------------------------------------------------
(* Every step of the writer is a step, or a stutter, of the log.           *)
LEMMA LogStep == WriterInv /\ [Next]_vars => [Log!LogNext]_(Log!logVars)
<1> SUFFICES ASSUME WriterInv, [Next]_vars
             PROVE  Log!LogNext \/ UNCHANGED Log!logVars
  OBVIOUS
<1> USE DEF WriterInv, WorkerInv, HasTask
<1>1. ASSUME NEW p \in Producers, Push(p) PROVE Log!LogNext
  <2>1. Log!AsyncTask = AsyncTask
    BY DEF AsyncTask, Log!AsyncTask
  <2>2. PICK t \in Log!AsyncTask : accepted' = Append(accepted, t)
    BY <1>1, <2>1 DEF Push
  <2>3. Log!Accept(t)
    BY <1>1, <2>2 DEF Push, Log!Accept
  <2> QED BY <2>3 DEF Log!LogNext
<1>2. CASE Execute
  <2>1. /\ task # NoTask
        /\ main \notin {"stopped", "gone"} /\ main' = main
        /\ executed' = executed + 1
        /\ accepted' = accepted
        /\ table' \in {table, Effect(task, table)}
    BY <1>2 DEF Execute
  <2>2. accepted[executed + 1] = task
    BY <2>1 DEF Aligned
  <2>3. executed < Len(accepted)
    <3>1. Len(accepted) = executed + 1 + Len(queue_)
      BY <2>1 DEF Aligned, h
    <3>2. Len(queue_) \in Nat /\ executed \in Nat
      BY LenProperties DEF TypeOK
    <3> QED BY <3>1, <3>2
  <2>4. Effect(task, table) = Log!Effect(accepted[executed + 1], table)
    BY <2>2 DEF Effect, Log!Effect
  <2>5. Log!Apply
    BY <2>1, <2>3, <2>4 DEF Log!Apply
  <2> QED BY <2>5 DEF Log!LogNext
<1>3. CASE StopJoin
  BY <1>3 DEF StopJoin, Log!Close, Log!LogNext
<1>4. ASSUME NEW p \in Producers, Notify(p) PROVE UNCHANGED Log!logVars
  BY <1>4 DEF Notify, Log!logVars
<1>5. CASE Start \/ LoopTest \/ FindEmpty \/ Sleep \/ Break \/ Pop
           \/ GetConnection \/ ReleaseConnection \/ SpuriousWake
  BY <1>5 DEF Start, LoopTest, FindEmpty, Sleep, Break, Pop, GetConnection,
              ReleaseConnection, SpuriousWake, Log!logVars
<1>6. CASE StopStore \/ StopNotify \/ Delete
  BY <1>6 DEF StopStore, StopNotify, Delete, Log!logVars
<1>7. CASE UNCHANGED vars
  BY <1>7 DEF vars, Log!logVars
<1> QED BY <1>1, <1>2, <1>3, <1>4, <1>5, <1>6, <1>7
        DEF Next, WorkerStep, Log!LogNext

(* AsyncWriter implements the log of writes the handlers rely on.          *)
THEOREM WriterImplementsLog == Spec => LogRefinement
<1>1. Init => Log!LogInit
  BY DEF Init, Log!LogInit
<1> QED BY <1>1, WriterInductive, LogStep, PTL
        DEF Spec, LogRefinement, Log!LogSpecification
=============================================================================
