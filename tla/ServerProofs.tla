---------------------------- MODULE ServerProofs ----------------------------
(***************************************************************************)
(* Why the tasks of the server never wait for each other in a circle, for  *)
(* any number of requests and threads: every operation takes its locks in  *)
(* one order, the guard of a queue, then that of a task, then the mutex of *)
(* the log, and gives the mutex back before it asks for another guard.     *)
(***************************************************************************)
EXTENDS Server, FiniteSetTheorems, TLAPS

USE ServerAssumption
-----------------------------------------------------------------------------
(***************************************************************************)
(* The discipline of an operation.                                         *)
(***************************************************************************)
Guards  == [do : {"guard"}, map : {"queues", "in_flight"}, mode : {"read", "write"},
            kept : BOOLEAN]
StepSet == Guards \cup {Lock, Write, Unlock}

\* After a guard that is kept only guards that come later in the order are
\* taken.
Ordered(s) ==
    \A i, j \in DOMAIN s :
        i < j /\ s[i].do = "guard" /\ s[i].kept = TRUE /\ s[j].do = "guard"
            => s[i].map = "queues" /\ s[j].map = "in_flight"

\* The mutex is taken for one append, and given back at once after it.
Paired(s) ==
    /\ \A i \in DOMAIN s : s[i].do \in {"lock", "append"} => i + 1 \in DOMAIN s
    /\ \A i \in DOMAIN s : i + 1 \in DOMAIN s =>
          /\ s[i].do = "lock" <=> s[i + 1].do = "append"
          /\ s[i].do = "append" <=> s[i + 1].do = "unlock"

Discipline(s) == s \in Seq(StepSet) /\ Ordered(s) /\ Paired(s)

\* What the steps of the operations are.
LEMMA StepKinds ==
    /\ Lock \in StepSet /\ Write \in StepSet /\ Unlock \in StepSet
    /\ Lock.do = "lock" /\ Write.do = "append" /\ Unlock.do = "unlock"
    /\ \A g \in Guards : g \in StepSet /\ g.do = "guard"
    /\ \A m \in {"queues", "in_flight"} :
          /\ Look(m) \in Guards /\ Look(m).map = m /\ Look(m).kept = FALSE
          /\ Change(m) \in Guards /\ Change(m).map = m /\ Change(m).kept = FALSE
          /\ Keep(m) \in Guards /\ Keep(m).map = m /\ Keep(m).kept = TRUE
          /\ Guard(m, "read", TRUE) \in Guards /\ Guard(m, "read", TRUE).map = m
BY DEF StepSet, Guards, Lock, Write, Unlock, Guard, Look, Change, Keep

\* A list that has elements is not empty.
LEMMA ListLength ==
    ASSUME NEW S, NEW s \in Seq(S), Len(s) > 0
    PROVE  s # <<>> /\ DOMAIN s = 1..Len(s)
OBVIOUS

\* The elements of a list of three, four or five.
LEMMA Lists ==
    ASSUME NEW S, NEW a \in S, NEW b \in S, NEW c \in S, NEW d \in S, NEW e \in S
    PROVE  /\ <<a, b, c>> \in Seq(S) /\ Len(<<a, b, c>>) = 3
           /\ <<a, b, c>>[1] = a /\ <<a, b, c>>[2] = b /\ <<a, b, c>>[3] = c
           /\ <<a, b, c, d>> \in Seq(S) /\ Len(<<a, b, c, d>>) = 4
           /\ <<a, b, c, d>>[1] = a /\ <<a, b, c, d>>[2] = b
           /\ <<a, b, c, d>>[3] = c /\ <<a, b, c, d>>[4] = d
           /\ <<a, b, c, d, e>> \in Seq(S) /\ Len(<<a, b, c, d, e>>) = 5
           /\ <<a, b, c, d, e>>[1] = a /\ <<a, b, c, d, e>>[2] = b /\ <<a, b, c, d, e>>[3] = c
           /\ <<a, b, c, d, e>>[4] = d /\ <<a, b, c, d, e>>[5] = e
OBVIOUS

\* A guard, an append, and no more.
LEMMA AppendLast ==
    ASSUME NEW g \in Guards
    PROVE  LET s == <<g, Lock, Write, Unlock>>
           IN  Discipline(s) /\ s # <<>> /\ s[1].do = "guard"
<1> DEFINE s == <<g, Lock, Write, Unlock>>
<1>1. /\ s \in Seq(StepSet) /\ Len(s) = 4 /\ s[1] = g
      /\ s[2] = Lock /\ s[3] = Write /\ s[4] = Unlock
  BY StepKinds, Lists
<1> HIDE DEF s
<1>2. DOMAIN s = 1..4 /\ s # <<>>
  <2>1. s \in Seq(StepSet) /\ Len(s) = 4 /\ Len(s) > 0
    BY <1>1
  <2> QED BY <2>1, ListLength
<1>3. s[1].do = "guard" /\ s[2].do = "lock" /\ s[3].do = "append" /\ s[4].do = "unlock"
  BY <1>1, StepKinds
<1>4. \A i \in 1..4 : i = 1 \/ i = 2 \/ i = 3 \/ i = 4
  OBVIOUS
<1>5. Ordered(s) /\ Paired(s)
  BY <1>2, <1>3, <1>4 DEF Ordered, Paired
<1>6. Discipline(s) /\ s # <<>> /\ s[1].do = "guard"
  BY <1>1, <1>2, <1>3, <1>5 DEF Discipline
<1> QED BY <1>6 DEF s

\* A guard, an append, and another guard, which comes later in the order if
\* the first one is kept.
LEMMA AppendBetween ==
    ASSUME NEW g \in Guards, NEW k \in Guards,
           g.kept = TRUE => g.map = "queues" /\ k.map = "in_flight"
    PROVE  LET s == <<g, Lock, Write, Unlock, k>>
           IN  Discipline(s) /\ s # <<>> /\ s[1].do = "guard"
<1> DEFINE s == <<g, Lock, Write, Unlock, k>>
<1>1. /\ s \in Seq(StepSet) /\ Len(s) = 5 /\ s[1] = g
      /\ s[2] = Lock /\ s[3] = Write /\ s[4] = Unlock /\ s[5] = k
  BY StepKinds, Lists
<1> HIDE DEF s
<1>2. DOMAIN s = 1..5 /\ s # <<>>
  <2>1. s \in Seq(StepSet) /\ Len(s) = 5 /\ Len(s) > 0
    BY <1>1
  <2> QED BY <2>1, ListLength
<1>3. /\ s[1].do = "guard" /\ s[2].do = "lock" /\ s[3].do = "append" /\ s[4].do = "unlock"
      /\ s[5].do = "guard"
  BY <1>1, StepKinds
<1>4. \A i \in 1..5 : i = 1 \/ i = 2 \/ i = 3 \/ i = 4 \/ i = 5
  OBVIOUS
<1>5. Ordered(s)
  BY <1>1, <1>2, <1>3, <1>4 DEF Ordered
<1>6. Paired(s)
  BY <1>2, <1>3, <1>4 DEF Paired
<1>7. Discipline(s) /\ s # <<>> /\ s[1].do = "guard"
  BY <1>1, <1>2, <1>3, <1>5, <1>6 DEF Discipline
<1> QED BY <1>7 DEF s

\* A look at a map before an operation.
LEMMA LookBefore ==
    ASSUME NEW g \in Guards, g.kept = FALSE,
           NEW s, Discipline(s), s # <<>>, s[1].do = "guard"
    PROVE  LET r == <<g>> \o s
           IN  Discipline(r) /\ r # <<>> /\ r[1].do = "guard"
<1> DEFINE r == <<g>> \o s
           n == Len(s)
<1>0. s \in Seq(StepSet) /\ n \in Nat /\ n > 0 /\ DOMAIN s = 1..n /\ g \in StepSet /\ g.do = "guard"
  BY StepKinds DEF Discipline
<1>1. r \in Seq(StepSet) /\ Len(r) = n + 1 /\ r[1] = g /\ \A i \in 2..n + 1 : r[i] = s[i - 1]
  BY <1>0
<1> HIDE DEF r, n
<1>2. DOMAIN r = 1..n + 1 /\ r # <<>>
  <2>1. r \in Seq(StepSet) /\ Len(r) = n + 1 /\ Len(r) > 0
    BY <1>0, <1>1
  <2> QED BY <2>1, ListLength
<1>3. \A i \in DOMAIN r : i = 1 \/ (i \in 2..n + 1 /\ i - 1 \in DOMAIN s /\ r[i] = s[i - 1])
  BY <1>0, <1>1, <1>2
<1>4. Ordered(r)
  <2> SUFFICES ASSUME NEW i \in DOMAIN r, NEW j \in DOMAIN r, i < j,
                      r[i].do = "guard", r[i].kept = TRUE, r[j].do = "guard"
               PROVE  r[i].map = "queues" /\ r[j].map = "in_flight"
    BY DEF Ordered
  <2>1. i # 1 /\ j # 1 /\ i - 1 < j - 1
    BY <1>0, <1>1, <1>2
  <2> QED BY <1>3, <2>1 DEF Discipline, Ordered
<1>5. Paired(r)
  <2>1. ASSUME NEW i \in DOMAIN r, i = 1
        PROVE  /\ r[i].do = "guard" /\ i + 1 \in DOMAIN r /\ r[i + 1] = s[1]
    BY <1>0, <1>1, <1>2, <2>1
  <2>2. ASSUME NEW i \in DOMAIN r, i # 1
        PROVE  /\ i - 1 \in DOMAIN s /\ r[i] = s[i - 1]
               /\ i + 1 \in DOMAIN r <=> (i - 1) + 1 \in DOMAIN s
               /\ i + 1 \in DOMAIN r => r[i + 1] = s[(i - 1) + 1]
    BY <1>0, <1>1, <1>2, <2>2
  <2> QED BY <2>1, <2>2 DEF Discipline, Paired
<1>6. Discipline(r) /\ r # <<>> /\ r[1].do = "guard"
  BY <1>0, <1>1, <1>2, <1>4, <1>5 DEF Discipline
<1> QED BY <1>6 DEF r

\* Every operation follows the discipline, and looks a name up first.
LEMMA StepsDiscipline ==
    ASSUME NEW o \in Ops \cup {"cleanup"}
    PROVE  Discipline(Steps(o)) /\ Steps(o) # <<>> /\ Steps(o)[1].do = "guard"
<1>1. CASE o = "queue"
  BY <1>1, StepKinds, AppendBetween DEF Steps, QueueSteps
<1>2. CASE o = "dequeue"
  BY <1>2, StepKinds, AppendBetween DEF Steps, DequeueSteps
<1>3. CASE o = "ack"
  BY <1>3, StepKinds, AppendLast DEF Steps, AckSteps
<1>4. CASE o = "nack"
  BY <1>4, StepKinds, AppendBetween DEF Steps, NackSteps
<1>5. CASE o = "extend"
  BY <1>5, StepKinds, AppendLast DEF Steps, ExtendSteps
<1>6. CASE o = "ack_batch"
  BY <1>6, StepKinds, AppendBetween DEF Steps, AckBatchSteps
<1>7. CASE o = "stats"
  <2> DEFINE s == StatsSteps
             a == Look("in_flight")
             b == Guard("queues", "read", TRUE)
  <2>1. a \in Guards /\ a.kept = FALSE /\ a.map = "in_flight" /\ b \in Guards /\ b.map = "queues"
    BY StepKinds
  <2>2. s = <<a, b, a>>
    BY DEF StatsSteps
  <2> HIDE DEF s, a, b
  <2>3. s \in Seq(StepSet) /\ Len(s) = 3 /\ s[1] = a /\ s[2] = b /\ s[3] = a
    BY <2>1, <2>2, StepKinds, Lists
  <2>4. DOMAIN s = 1..3 /\ s # <<>>
    <3>1. s \in Seq(StepSet) /\ Len(s) = 3 /\ Len(s) > 0
      BY <2>3
    <3> QED BY <3>1, ListLength
  <2>5. \A i \in 1..3 : (i = 1 \/ i = 2 \/ i = 3) /\ s[i].do = "guard"
    BY <2>1, <2>3, StepKinds
  <2>6. Ordered(s) /\ Paired(s)
    BY <2>1, <2>3, <2>4, <2>5 DEF Ordered, Paired
  <2>7. Steps(o) = s
    BY <1>7 DEF Steps, s
  <2> QED BY <2>3, <2>4, <2>5, <2>6, <2>7 DEF Discipline
<1>8. CASE o = "cleanup"
  <2> DEFINE g == Look("in_flight")
             s == NackSteps
  <2>1. Discipline(s) /\ s # <<>> /\ s[1].do = "guard"
    BY StepKinds, AppendBetween DEF NackSteps
  <2>2. Steps(o) = <<g>> \o s
    BY <1>8 DEF Steps, CleanupSteps
  <2>3. g \in Guards /\ g.kept = FALSE
    BY StepKinds
  <2> HIDE DEF g, s
  <2> QED BY <2>1, <2>2, <2>3, LookBefore
<1> QED BY <1>1, <1>2, <1>3, <1>4, <1>5, <1>6, <1>7, <1>8 DEF Ops

\* What is left of an operation follows the discipline as well.
LEMMA RestDiscipline ==
    ASSUME NEW s, Discipline(s), s # <<>>
    PROVE  /\ Discipline(Tail(s))
           /\ Tail(s) # <<>> => 1 + 1 \in DOMAIN s /\ Tail(s)[1] = s[2]
           /\ \A i \in DOMAIN Tail(s) : i + 1 \in DOMAIN s /\ 1 < i + 1 /\ Tail(s)[i] = s[i + 1]
           /\ Head(s) = s[1] /\ 1 \in DOMAIN s
<1> DEFINE r == Tail(s)
           n == Len(s)
<1>0. s \in Seq(StepSet) /\ n \in Nat /\ n > 0 /\ DOMAIN s = 1..n
  BY DEF Discipline
<1>1. r \in Seq(StepSet) /\ Len(r) = n - 1 /\ \A i \in 1..n - 1 : r[i] = s[i + 1]
  BY <1>0
<1>2. DOMAIN r = 1..n - 1
  BY <1>0, <1>1
<1>3. r # <<>> => n > 1
  BY <1>0, <1>1
<1>4. Head(s) = s[1]
  BY <1>0
<1> HIDE DEF r, n
<1>5. \A i \in DOMAIN r : i + 1 \in DOMAIN s /\ r[i] = s[i + 1] /\ 1 < i + 1
  BY <1>0, <1>1, <1>2
<1>6. Ordered(r)
  <2> SUFFICES ASSUME NEW i \in DOMAIN r, NEW j \in DOMAIN r, i < j,
                      r[i].do = "guard", r[i].kept = TRUE, r[j].do = "guard"
               PROVE  r[i].map = "queues" /\ r[j].map = "in_flight"
    BY DEF Ordered
  <2>1. i + 1 < j + 1
    BY <1>0, <1>2
  <2> QED BY <1>5, <2>1 DEF Discipline, Ordered
<1>7. Paired(r)
  <2>1. ASSUME NEW i \in DOMAIN r
        PROVE  /\ i + 1 \in DOMAIN r <=> (i + 1) + 1 \in DOMAIN s
               /\ i + 1 \in DOMAIN r => r[i + 1] = s[(i + 1) + 1]
    BY <1>0, <1>1, <1>2
  <2> QED BY <1>5, <2>1 DEF Discipline, Paired
<1>8. r # <<>> => 2 \in DOMAIN s /\ r[1] = s[2]
  BY <1>0, <1>1, <1>3
<1>9. 1 \in DOMAIN s
  BY <1>0
<1> QED BY <1>1, <1>4, <1>5, <1>6, <1>7, <1>8, <1>9 DEF Discipline, r

\* The two parts of a line.
LEMMA LineParts ==
    ASSUME NEW S, NEW s \in Seq(S), NEW i \in Nat, i <= Len(s)
    PROVE  /\ SubSeq(s, 1, i) \in Seq(S) /\ Len(SubSeq(s, 1, i)) = i
           /\ \A j \in 1..i : SubSeq(s, 1, i)[j] = s[j]
           /\ SubSeq(s, i + 1, Len(s)) \in Seq(S) /\ Len(SubSeq(s, i + 1, Len(s))) = Len(s) - i
           /\ \A j \in 1..Len(s) - i : SubSeq(s, i + 1, Len(s))[j] = s[j + i]
<1>0. Len(s) \in Nat
  OBVIOUS
<1>1. SubSeq(s, 1, i) \in Seq(S) /\ Len(SubSeq(s, 1, i)) = i
  BY <1>0
<1>2. \A j \in 1..i : SubSeq(s, 1, i)[j] = s[j]
  BY <1>0
<1>3. SubSeq(s, i + 1, Len(s)) \in Seq(S) /\ Len(SubSeq(s, i + 1, Len(s))) = Len(s) - i
  BY <1>0
<1>4. \A j \in 1..Len(s) - i : SubSeq(s, i + 1, Len(s))[j] = s[j + i]
  BY <1>0
<1> QED BY <1>1, <1>2, <1>3, <1>4

\* The place of a task behind the one that leaves.
LEMMA Behind ==
    ASSUME NEW n \in Nat, NEW i \in Nat, NEW j \in Nat, 1 <= i, i <= n, i <= j, j <= n - 1
    PROVE  j - (i - 1) \in 1..n - i /\ j - (i - 1) + i = j + 1
OBVIOUS

\* Taking one task out of the line.
Cut(s, i) == SubSeq(s, 1, i - 1) \o SubSeq(s, i + 1, Len(s))

\* The others keep their order.
LEMMA LineWithout ==
    ASSUME NEW S, NEW s \in Seq(S), NEW i \in DOMAIN s
    PROVE  /\ Cut(s, i) \in Seq(S) /\ DOMAIN Cut(s, i) = 1..Len(s) - 1
           /\ \A j \in DOMAIN Cut(s, i) : Cut(s, i)[j] = IF j < i THEN s[j] ELSE s[j + 1]
<1> DEFINE r == Cut(s, i)
           n == Len(s)
           a == SubSeq(s, 1, i - 1)
           b == SubSeq(s, i + 1, n)
<1>0. n \in Nat /\ i \in Nat /\ 1 <= i /\ i <= n /\ i - 1 \in Nat /\ i - 1 <= n
  OBVIOUS
<1>1. a \in Seq(S) /\ Len(a) = i - 1 /\ \A j \in 1..i - 1 : a[j] = s[j]
  BY <1>0, LineParts
<1>2. b \in Seq(S) /\ Len(b) = n - i /\ \A j \in 1..n - i : b[j] = s[j + i]
  BY <1>0, LineParts
<1>3. r = a \o b
  BY DEF Cut
<1> HIDE DEF a, b, n, r
<1>8. a \in Seq(S) /\ b \in Seq(S) /\ Len(a) \in Nat /\ Len(b) \in Nat
  BY <1>1, <1>2
<1>4. r \in Seq(S) /\ Len(r) = Len(a) + Len(b) /\ DOMAIN r = 1..Len(r)
  <2>1. a \o b \in Seq(S) /\ Len(a \o b) = Len(a) + Len(b)
    BY <1>8
  <2>2. r \in Seq(S) => DOMAIN r = 1..Len(r)
    OBVIOUS
  <2> QED BY <1>3, <2>1, <2>2
<1>5. Len(r) = n - 1
  BY <1>0, <1>1, <1>2, <1>4
<1>6. ASSUME NEW j \in 1..n - 1, j < i PROVE r[j] = s[j]
  <2>1. j \in 1..Len(a) /\ j \in 1..i - 1
    BY <1>0, <1>1, <1>6
  <2>2. (a \o b)[j] = a[j]
    BY <1>8, <2>1
  <2> QED BY <1>1, <1>3, <2>1, <2>2
<1>7. ASSUME NEW j \in 1..n - 1, ~(j < i) PROVE r[j] = s[j + 1]
  <2>1. j - (i - 1) \in 1..n - i /\ j - (i - 1) + i = j + 1
    <3>1. j \in Nat /\ i <= j /\ j <= n - 1
      BY <1>0, <1>7
    <3> QED BY <1>0, <3>1, Behind
  <2>2. j > Len(a) /\ j <= Len(a) + Len(b) /\ j \in Nat /\ Len(a) \in Nat
    BY <1>0, <1>1, <1>2, <1>7
  <2>3. (a \o b)[j] = b[j - Len(a)]
    BY <1>8, <2>2
  <2> QED BY <1>1, <1>2, <1>3, <2>1, <2>3
<1> QED BY <1>4, <1>5, <1>6, <1>7 DEF n, r
-----------------------------------------------------------------------------
(***************************************************************************)
(* The inductive invariant.                                                *)
(***************************************************************************)
\* What is left of a nack whose append has failed.
Undo == <<Change("in_flight"), Unlock>>

\* The task is at the mutex: it owns it, or is in line for it.
AtMutex(t) == todo[t] # <<>> /\ (todo[t][1].do \in {"append", "unlock"} \/ todo[t] = Undo)

\* What is left of the operation follows the discipline, also with regard to
\* the guards that the task has already.
Orderly(t) ==
    /\ Discipline(todo[t])
    /\ \A k \in guards[t] : \A i \in DOMAIN todo[t] :
          todo[t][i].do = "guard" => k.map = "queues" /\ todo[t][i].map = "in_flight"

TaskOK(t) ==
    /\ Orderly(t) \/ todo[t] = Undo
    /\ t \in Range(wal) <=> AtMutex(t)
    /\ at[t] = "idle" => todo[t] = <<>> /\ guards[t] = {}
    /\ at[t] # "idle" <=> op[t] \in Ops \cup {"cleanup"}
    /\ at[t] = "file" => todo[t] # <<>> /\ todo[t][1].do = "append"
    /\ at[t] = "mutex" => t \in Range(wal)

LineOK ==
    /\ wal \in Seq(Tasks)
    /\ \A i, j \in DOMAIN wal : wal[i] = wal[j] => i = j
    /\ \A i \in DOMAIN wal : at[wal[i]] = "mutex" <=> i > 1

Types ==
    /\ op \in [Tasks -> Ops \cup {"cleanup", "none", "done"}]
    /\ at \in [Tasks -> {"idle", "ready", "running", "mutex", "file"}]
    /\ todo \in [Tasks -> Seq(StepSet)] /\ DOMAIN guards = Tasks
    /\ tls \in BOOLEAN /\ phase \in {"up", "draining", "stopped"}

NacksAppend == FailingOps \cap {"nack", "cleanup"} = {}

LockInv ==
    /\ Types /\ LineOK /\ \A t \in Tasks : TaskOK(t)
    /\ IsFiniteSet(Running) /\ Cardinality(Running) <= Workers
    /\ NacksAppend => \A t \in Tasks : Orderly(t)

\* The two steps of the compensation.
LEMMA UndoSteps ==
    /\ Undo \in Seq(StepSet) /\ Undo # <<>> /\ DOMAIN Undo = 1..2 /\ Head(Undo) = Undo[1]
    /\ Undo[1].do = "guard" /\ Undo[2].do = "unlock" /\ Tail(Undo) = <<Unlock>>
<1>1. Change("in_flight") \in StepSet /\ Unlock \in StepSet
      /\ Change("in_flight").do = "guard" /\ Unlock.do = "unlock"
  BY StepKinds
<1> HIDE DEF Change, Unlock
<1> QED BY <1>1 DEF Undo

\* Giving the mutex back is an operation of its own.
LEMMA UnlockOnly ==
    /\ Discipline(<<Unlock>>) /\ <<Unlock>> # <<>> /\ DOMAIN <<Unlock>> = {1}
    /\ <<Unlock>>[1].do = "unlock"
<1>1. Unlock \in StepSet /\ Unlock.do = "unlock"
  BY StepKinds
<1> DEFINE s == <<Unlock>>
<1>2. s \in Seq(StepSet) /\ s # <<>> /\ s[1] = Unlock /\ DOMAIN s = {1}
  BY <1>1
<1> HIDE DEF s
<1>3. Discipline(s)
  BY <1>1, <1>2 DEF Discipline, Ordered, Paired
<1> QED BY <1>1, <1>2, <1>3 DEF s

\* An orderly list is not the compensation.
LEMMA NotUndo == ~Discipline(Undo)
BY UndoSteps, 1 + 1 = 2 DEF Discipline, Paired

\* The tasks that a step does not concern, but that may be woken by it.
Bystanders(t) ==
    \A s \in Tasks \ {t} :
        /\ op'[s] = op[s] /\ todo'[s] = todo[s] /\ guards'[s] = guards[s]
        /\ s \in Range(wal') <=> s \in Range(wal)
        /\ at'[s] = at[s] \/ (at[s] = "mutex" /\ at'[s] = "ready")

\* They stay in order.
LEMMA OthersOK ==
    ASSUME LockInv, NEW t \in Tasks, Bystanders(t), TaskOK(t)'
    PROVE  /\ \A s \in Tasks : TaskOK(s)'
           /\ NacksAppend /\ Orderly(t)' => \A s \in Tasks : Orderly(s)'
<1>1. ASSUME NEW s \in Tasks, s # t PROVE TaskOK(s)' /\ (NacksAppend => Orderly(s)')
  <2>1. TaskOK(s) /\ (NacksAppend => Orderly(s))
    BY DEF LockInv
  <2>2. Orderly(s)' <=> Orderly(s)
    BY <1>1 DEF Orderly, Bystanders
  <2>3. AtMutex(s)' <=> AtMutex(s)
    BY <1>1 DEF AtMutex, Bystanders
  <2> QED BY <1>1, <2>1, <2>2, <2>3 DEF TaskOK, Bystanders
<1> QED BY <1>1

\* Tasks that leave their threads.
LEMMA FewerRunning ==
    ASSUME LockInv, \A t \in Tasks : at'[t] = "running" => at[t] = "running"
    PROVE  IsFiniteSet(Running') /\ Cardinality(Running') <= Workers
<1>1. Running' \subseteq Running
  BY DEF Running
<1>2. IsFiniteSet(Running) /\ Cardinality(Running) <= Workers
  BY DEF LockInv
<1>3. IsFiniteSet(Running') /\ Cardinality(Running') <= Cardinality(Running)
  BY <1>1, <1>2, FS_Subset
<1>4. Cardinality(Running) \in Nat /\ Cardinality(Running') \in Nat
  BY <1>2, <1>3, FS_CardinalityType
<1> QED BY <1>2, <1>3, <1>4

\* A step of task t after which it waits where it did, and the line is as it was.
LEMMA SameLine ==
    ASSUME LockInv, NEW t \in Tasks, wal' = wal, Bystanders(t),
           \A s \in Tasks : at'[s] = "mutex" <=> at[s] = "mutex"
    PROVE  LineOK'
<1>1. \A i \in DOMAIN wal : wal[i] \in Tasks
  BY DEF LockInv, LineOK
<1> QED BY <1>1 DEF LockInv, LineOK

\* The task t leaves the line, and who comes first then is woken.
LEMMA LeaveLine ==
    ASSUME LockInv, NEW t \in Tasks, NEW p \in DOMAIN wal, wal[p] = t,
           wal' \in Seq(Tasks), DOMAIN wal' = 1..Len(wal) - 1,
           \A j \in DOMAIN wal' : wal'[j] = IF j < p THEN wal[j] ELSE wal[j + 1],
           \A s \in Tasks \ {t} :
              at'[s] = IF wal' # <<>> /\ s = wal'[1] /\ at[s] = "mutex" THEN "ready" ELSE at[s]
    PROVE  LineOK' /\ Range(wal') = Range(wal) \ {t}
<1> DEFINE n == Len(wal)
<1>0. /\ n \in Nat /\ DOMAIN wal = 1..n /\ p \in Nat /\ 1 <= p /\ p <= n
      /\ \A i \in 1..n : wal[i] \in Tasks
      /\ \A i, j \in 1..n : wal[i] = wal[j] => i = j
      /\ \A i \in 1..n : at[wal[i]] = "mutex" <=> i > 1
  BY DEF LockInv, LineOK
<1> HIDE DEF n
<1>1. DOMAIN wal' = 1..n - 1
  BY DEF n
<1>2. \A j \in 1..n - 1 : /\ j < p => j \in 1..n /\ wal'[j] = wal[j]
                          /\ ~(j < p) => j + 1 \in 1..n /\ j + 1 > p /\ wal'[j] = wal[j + 1]
  BY <1>0, <1>1
<1>3. \A j \in 1..n - 1 : wal'[j] \in Tasks \ {t}
  BY <1>0, <1>2
<1>4. \A i, j \in 1..n - 1 : wal'[i] = wal'[j] => i = j
  BY <1>0, <1>2
<1>5. \A j \in 1..n - 1 : at'[wal'[j]] = "mutex" <=> j > 1
  <2> SUFFICES ASSUME NEW j \in 1..n - 1 PROVE at'[wal'[j]] = "mutex" <=> j > 1
    OBVIOUS
  <2>1. at[wal'[j]] = "mutex" <=> (j > 1 \/ ~(j < p))
    BY <1>0, <1>2
  <2>2. 1 \in 1..n - 1 /\ wal' # <<>>
    <3>1. 1 \in 1..n - 1
      BY <1>0
    <3>2. DOMAIN <<>> = {}
      OBVIOUS
    <3> QED BY <1>1, <3>1, <3>2
  <2>3. CASE j = 1
    <3>1. wal'[j] \in Tasks \ {t} /\ wal' # <<>> /\ wal'[j] = wal'[1]
      BY <1>3, <2>2, <2>3
    <3>2. at'[wal'[j]] # "mutex"
      BY <3>1
    <3> QED BY <2>3, <3>2
  <2>4. CASE j # 1
    <3>1. wal'[j] # wal'[1] /\ j > 1
      BY <1>4, <2>2, <2>4
    <3> QED BY <1>3, <2>1, <3>1
  <2> QED BY <2>3, <2>4
<1>6. LineOK'
  BY <1>1, <1>4, <1>5 DEF LineOK
<1>7. Range(wal') \subseteq Range(wal) \ {t}
  BY <1>0, <1>1, <1>2, <1>3 DEF Range
<1>8. ASSUME NEW i \in 1..n, wal[i] # t PROVE wal[i] \in Range(wal')
  <2>1. CASE i < p
    <3>1. i \in 1..n - 1
      BY <1>0, <2>1
    <3>2. wal'[i] = wal[i]
      BY <1>2, <2>1, <3>1
    <3> QED BY <1>1, <3>1, <3>2 DEF Range
  <2>2. CASE i > p
    <3>1. i - 1 \in 1..n - 1 /\ ~(i - 1 < p) /\ (i - 1) + 1 = i
      BY <1>0, <2>2
    <3>2. wal'[i - 1] = wal[i]
      BY <1>2, <3>1
    <3> QED BY <1>1, <3>1, <3>2 DEF Range
  <2> QED BY <1>0, <1>8, <2>1, <2>2
<1>9. Range(wal) \ {t} \subseteq Range(wal')
  BY <1>0, <1>8 DEF Range
<1> QED BY <1>6, <1>7, <1>9

\* A task that returns, finds nothing, or is dropped.
LEMMA LeaveOK ==
    ASSUME LockInv, NEW t \in Tasks, NEW next \in {"none", "done"}, Leave(t, next),
           UNCHANGED <<tls, phase>>
    PROVE  LockInv'
<1> DEFINE p == CHOOSE i \in DOMAIN wal : wal[i] = t
<1>0. Types /\ wal \in Seq(Tasks)
  BY DEF LockInv, LineOK
<1>1. /\ op' = [op EXCEPT ![t] = next] /\ todo' = [todo EXCEPT ![t] = <<>>]
      /\ guards' = [guards EXCEPT ![t] = {}]
      /\ wal' = IF t \in Range(wal) THEN SubSeq(wal, 1, p - 1) \o SubSeq(wal, p + 1, Len(wal)) ELSE wal
      /\ at' = [s \in Tasks |->
                  IF s = t THEN "idle"
                  ELSE IF wal' # <<>> /\ s = Head(wal') /\ at[s] = "mutex" THEN "ready"
                  ELSE at[s]]
  BY DEF Leave
<1>2. t \in Range(wal) => p \in DOMAIN wal /\ wal[p] = t
  BY DEF Range
<1> HIDE DEF p
<1>3. LineOK' /\ Range(wal') = Range(wal) \ {t} /\ wal' \in Seq(Tasks)
  <2>1. CASE t \in Range(wal)
    <3>1. /\ wal' \in Seq(Tasks) /\ DOMAIN wal' = 1..Len(wal) - 1
          /\ \A j \in DOMAIN wal' : wal'[j] = IF j < p THEN wal[j] ELSE wal[j + 1]
      <4>1. wal' = Cut(wal, p) /\ p \in DOMAIN wal /\ wal \in Seq(Tasks)
        BY <1>0, <1>1, <1>2, <2>1 DEF Cut
      <4> QED BY <4>1, LineWithout
    <3>2. wal' # <<>> => Head(wal') = wal'[1]
      BY <3>1
    <3>3. \A s \in Tasks \ {t} :
             at'[s] = IF wal' # <<>> /\ s = wal'[1] /\ at[s] = "mutex" THEN "ready" ELSE at[s]
      BY <1>1, <3>2
    <3> QED BY <1>2, <2>1, <3>1, <3>3, LeaveLine
  <2>2. CASE t \notin Range(wal)
    <3>1. wal' = wal /\ \A i \in DOMAIN wal : wal[i] \in Tasks /\ wal[i] # t
      BY <1>0, <1>1, <2>2 DEF Range
    <3>2. wal # <<>> => Head(wal) = wal[1] /\ 1 \in DOMAIN wal /\ at[wal[1]] # "mutex"
      BY <1>0 DEF LockInv, LineOK
    <3>3. \A i \in DOMAIN wal : at'[wal[i]] = at[wal[i]]
      BY <1>1, <3>1, <3>2
    <3> QED BY <1>0, <2>2, <3>1, <3>3 DEF LockInv, LineOK
  <2> QED BY <2>1, <2>2
<1>4. /\ op'[t] = next /\ todo'[t] = <<>> /\ guards'[t] = {} /\ at'[t] = "idle"
      /\ t \notin Range(wal')
  BY <1>0, <1>1, <1>3 DEF Types
<1>5. Bystanders(t)
  BY <1>0, <1>1, <1>3 DEF Bystanders, Types
<1>6. Discipline(<<>>)
  BY DEF Discipline, Ordered, Paired
<1>7. TaskOK(t)' /\ Orderly(t)'
  BY <1>4, <1>6 DEF TaskOK, Orderly, AtMutex, Ops
<1>8. Types'
  BY <1>0, <1>1 DEF Types
<1>9. IsFiniteSet(Running') /\ Cardinality(Running') <= Workers
  BY <1>1, FewerRunning
<1> QED BY <1>3, <1>5, <1>7, <1>8, <1>9, OthersOK DEF LockInv
-----------------------------------------------------------------------------
(***************************************************************************)
(* The actions.                                                            *)
(***************************************************************************)
\* An operation starts with its whole list and holds nothing.
LEMMA StartOK ==
    ASSUME LockInv, NEW t \in Tasks, NEW o \in Ops \cup {"cleanup"}, Start(t, o)
    PROVE  LockInv'
<1>0. Types /\ TaskOK(t) /\ "none" \notin Ops \cup {"cleanup"}
  BY DEF LockInv, Ops
<1>1. /\ op' = [op EXCEPT ![t] = o] /\ todo' = [todo EXCEPT ![t] = Steps(o)]
      /\ at' = [at EXCEPT ![t] = "ready"] /\ UNCHANGED <<guards, wal, tls, phase>>
      /\ op[t] = "none"
  BY DEF Start
<1>2. at[t] = "idle" /\ guards[t] = {} /\ t \notin Range(wal) /\ todo[t] = <<>>
  BY <1>0, <1>1 DEF TaskOK, AtMutex
<1>3. Discipline(Steps(o)) /\ Steps(o) # <<>> /\ Steps(o)[1].do = "guard" /\ Steps(o) # Undo
  BY StepsDiscipline, NotUndo
<1>4. /\ op'[t] = o /\ todo'[t] = Steps(o) /\ guards'[t] = {} /\ at'[t] = "ready"
      /\ t \notin Range(wal')
  BY <1>0, <1>1, <1>2 DEF Types
<1>5. TaskOK(t)' /\ Orderly(t)'
  BY <1>3, <1>4 DEF TaskOK, Orderly, AtMutex
<1>6. Bystanders(t)
  BY <1>0, <1>1 DEF Bystanders, Types
<1>7. Types'
  BY <1>0, <1>1, <1>3 DEF Types, Discipline
<1>8. \A s \in Tasks : /\ at'[s] = "mutex" <=> at[s] = "mutex"
                       /\ at'[s] = "running" => at[s] = "running"
  BY <1>0, <1>1, <1>2 DEF Types
<1>9. LineOK' /\ IsFiniteSet(Running') /\ Cardinality(Running') <= Workers
  BY <1>1, <1>6, <1>8, SameLine, FewerRunning
<1> QED BY <1>5, <1>6, <1>7, <1>9, OthersOK DEF LockInv

\* A task gets a free thread.
LEMMA PollOK ==
    ASSUME LockInv, NEW t \in Tasks, Poll(t)
    PROVE  LockInv'
<1>0. Types /\ TaskOK(t)
  BY DEF LockInv
<1>1. /\ at[t] = "ready" /\ at' = [at EXCEPT ![t] = "running"]
      /\ UNCHANGED <<op, todo, guards, wal, tls, phase>> /\ Cardinality(Running) < Workers
  BY DEF Poll, FreeWorker
<1>2. at'[t] = "running"
  BY <1>0, <1>1 DEF Types
<1>3. TaskOK(t)' /\ (Orderly(t) => Orderly(t)')
  BY <1>0, <1>1, <1>2 DEF TaskOK, Orderly, AtMutex
<1>4. Bystanders(t)
  BY <1>0, <1>1 DEF Bystanders, Types
<1>5. Types'
  BY <1>0, <1>1 DEF Types
<1>6. LineOK'
  <2>1. \A s \in Tasks : at'[s] = "mutex" <=> at[s] = "mutex"
    BY <1>0, <1>1 DEF Types
  <2> QED BY <1>1, <1>4, <2>1, SameLine
<1>7. IsFiniteSet(Running') /\ Cardinality(Running') <= Workers
  <2>1. Running' = Running \cup {t} /\ t \notin Running
    BY <1>0, <1>1 DEF Running, Types
  <2>2. IsFiniteSet(Running) /\ Cardinality(Running) \in Nat
    BY FS_CardinalityType DEF LockInv
  <2>3. IsFiniteSet(Running') /\ Cardinality(Running') = Cardinality(Running) + 1
    BY <2>1, <2>2, FS_AddElement
  <2> QED BY <1>1, <2>2, <2>3
<1> QED BY <1>3, <1>4, <1>5, <1>6, <1>7, OthersOK DEF LockInv

\* What a running task does next.
LEMMA NextStep ==
    ASSUME LockInv, NEW t \in Tasks, NEW do, Next1(t, do)
    PROVE  /\ at[t] = "running" /\ todo[t] # <<>> /\ todo[t][1].do = do
           /\ Head(todo[t]) = todo[t][1] /\ 1 \in DOMAIN todo[t] /\ todo[t] \in Seq(StepSet)
           /\ TaskOK(t) /\ Types /\ Tail(todo[t]) \in Seq(StepSet)
<1>1. at[t] = "running" /\ todo[t] # <<>> /\ Head(todo[t]).do = do
  BY DEF Next1
<1>2. todo[t] \in Seq(StepSet) /\ Types /\ TaskOK(t)
  BY DEF LockInv, Types
<1>3. Head(todo[t]) = todo[t][1] /\ 1 \in DOMAIN todo[t] /\ Tail(todo[t]) \in Seq(StepSet)
  BY <1>1, <1>2
<1> QED BY <1>1, <1>2, <1>3

\* A guard that is kept goes before all that is left.
LEMMA TakeGuardOK ==
    ASSUME LockInv, NEW t \in Tasks, TakeGuard(t)
    PROVE  LockInv'
<1> DEFINE g == Head(todo[t])
           new == guards[t] \cup {k \in {g} : k.kept}
<1>0. /\ at[t] = "running" /\ todo[t] # <<>> /\ todo[t][1].do = "guard" /\ g = todo[t][1]
      /\ TaskOK(t) /\ Types /\ 1 \in DOMAIN todo[t] /\ Tail(todo[t]) \in Seq(StepSet)
      /\ todo[t] \in Seq(StepSet)
  BY NextStep DEF TakeGuard
<1>1. /\ guards' = [guards EXCEPT ![t] = new] /\ todo' = [todo EXCEPT ![t] = Tail(@)]
      /\ UNCHANGED <<op, at, wal, tls, phase>>
  BY DEF TakeGuard, Rest
<1>2. todo'[t] = Tail(todo[t]) /\ guards'[t] = new
  BY <1>0, <1>1 DEF Types
<1>3. \A k \in new : k \in guards[t] \/ (k = g /\ k.kept = TRUE)
  <2>1. todo[t][1] \in StepSet
    BY <1>0
  <2>2. g \in Guards
    BY <1>0, <2>1, StepKinds DEF StepSet
  <2>3. g.kept \in BOOLEAN
    BY <2>2 DEF Guards
  <2> QED BY <2>3
<1> HIDE DEF g, new
<1>4. Bystanders(t)
  BY <1>0, <1>1 DEF Bystanders, Types
<1>5. ASSUME Orderly(t)
      PROVE  Orderly(t)' /\ AtMutex(t)' = FALSE /\ AtMutex(t) = FALSE
  <2>1. /\ Discipline(Tail(todo[t])) /\ (Tail(todo[t]) # <<>> => 1 + 1 \in DOMAIN todo[t])
        /\ Tail(todo[t]) # <<>> => Tail(todo[t])[1] = todo[t][1 + 1]
        /\ \A i \in DOMAIN Tail(todo[t]) : /\ i + 1 \in DOMAIN todo[t] /\ 1 < i + 1
                                           /\ Tail(todo[t])[i] = todo[t][i + 1]
        /\ Discipline(todo[t])
    BY <1>0, <1>5, RestDiscipline, 1 + 1 = 2 DEF Orderly
  <2>2. ASSUME NEW k \in new, NEW i \in DOMAIN Tail(todo[t]), Tail(todo[t])[i].do = "guard"
        PROVE  k.map = "queues" /\ Tail(todo[t])[i].map = "in_flight"
    <3>1. CASE k \in guards[t]
      BY <1>5, <2>1, <2>2, <3>1 DEF Orderly
    <3>2. CASE k = g /\ k.kept = TRUE
      BY <1>0, <2>1, <2>2, <3>2 DEF Discipline, Ordered
    <3> QED BY <1>3, <3>1, <3>2
  <2>3. Tail(todo[t]) # <<>> => Tail(todo[t])[1].do \notin {"append", "unlock"}
    BY <1>0, <2>1 DEF Discipline, Paired
  <2>4. todo[t] # Undo /\ Tail(todo[t]) # Undo
    BY <2>1, NotUndo
  <2> QED BY <1>0, <1>2, <2>1, <2>2, <2>3, <2>4 DEF Orderly, AtMutex
<1>6. ASSUME todo[t] = Undo
      PROVE  Orderly(t)' /\ AtMutex(t)' /\ AtMutex(t)
  BY <1>0, <1>2, <1>6, UndoSteps, UnlockOnly DEF Orderly, AtMutex
<1>7. Orderly(t)' /\ AtMutex(t)' = AtMutex(t) /\ (Orderly(t) \/ todo[t] = Undo)
  BY <1>0, <1>5, <1>6 DEF TaskOK
<1>8. TaskOK(t)'
  BY <1>0, <1>1, <1>7 DEF TaskOK
<1>9. Types'
  BY <1>0, <1>1 DEF Types
<1>10. LineOK' /\ IsFiniteSet(Running') /\ Cardinality(Running') <= Workers
  BY <1>1, <1>4, SameLine, FewerRunning
<1> QED BY <1>4, <1>7, <1>8, <1>9, <1>10, OthersOK DEF LockInv

\* The list without elements is the empty list.
LEMMA EmptyLength ==
    ASSUME NEW S, NEW s \in Seq(S)
    PROVE  s = <<>> <=> Len(s) = 0
OBVIOUS

\* What is left of a list of one is nothing.
LEMMA TailEmpty ==
    ASSUME NEW S, NEW s \in Seq(S), Len(s) > 0
    PROVE  /\ Tail(s) # <<>> <=> Len(s) > 1
           /\ 1 + 1 \in DOMAIN s => Tail(s) # <<>>
<1>1. Len(Tail(s)) = Len(s) - 1 /\ Tail(s) \in Seq(S) /\ Len(s) \in Nat
  OBVIOUS
<1>2. Tail(s) = <<>> <=> Len(Tail(s)) = 0
  BY <1>1, EmptyLength
<1>3. Tail(s) # <<>> <=> Len(s) > 1
  BY <1>1, <1>2
<1>4. 1 + 1 \in DOMAIN s => Len(s) > 1
  BY <1>1
<1> QED BY <1>3, <1>4

\* What is left after the first step, of an operation that follows the
\* discipline.
LEMMA RestOK ==
    ASSUME LockInv, NEW t \in Tasks, NEW do \in {"lock", "append", "unlock"},
           todo[t] # <<>>, todo[t][1].do = do,
           todo'[t] = Tail(todo[t]), guards'[t] = guards[t]
    PROVE  /\ Orderly(t) /\ Orderly(t)' /\ todo'[t] \in Seq(StepSet) /\ todo'[t] # Undo
           /\ do = "lock" => todo'[t] # <<>> /\ todo'[t][1].do = "append"
           /\ do = "append" => todo'[t] # <<>> /\ todo'[t][1].do = "unlock"
           /\ do = "unlock" => todo'[t] = <<>> \/ todo'[t][1].do \notin {"append", "unlock"}
           /\ AtMutex(t) <=> do # "lock"
<1> DEFINE s == todo[t]
           r == Tail(s)
<1>1. Orderly(t) /\ s # Undo
  BY UndoSteps, NotUndo DEF LockInv, TaskOK, Orderly
<1>2. /\ Discipline(s) /\ Discipline(r)
      /\ r # <<>> => 1 + 1 \in DOMAIN s /\ r[1] = s[1 + 1]
      /\ \A i \in DOMAIN r : i + 1 \in DOMAIN s /\ r[i] = s[i + 1]
      /\ 1 \in DOMAIN s
  BY <1>1, RestDiscipline, 1 + 1 = 2 DEF Orderly
<1>3. 1 + 1 \in DOMAIN s => r # <<>>
  <2>1. s \in Seq(StepSet)
    BY <1>2 DEF Discipline
  <2>2. Len(s) > 0
    BY <2>1
  <2> QED BY <2>1, <2>2, TailEmpty
<1>4. r # Undo /\ r \in Seq(StepSet)
  BY <1>2, NotUndo DEF Discipline
<1>5. todo'[t] = r /\ s[1].do = do
  OBVIOUS
<1>6. s[1].do \in {"lock", "append"} => 1 + 1 \in DOMAIN s
  BY <1>2 DEF Discipline, Paired
<1>7. 1 + 1 \in DOMAIN s => /\ s[1].do = "lock" <=> s[1 + 1].do = "append"
                            /\ s[1].do = "append" <=> s[1 + 1].do = "unlock"
  BY <1>2 DEF Discipline, Paired
<1>8. AtMutex(t) <=> do # "lock"
  BY <1>1, <1>5 DEF AtMutex
<1>9. \A k \in guards[t] : \A i \in DOMAIN r :
         r[i].do = "guard" => k.map = "queues" /\ r[i].map = "in_flight"
  BY <1>1, <1>2 DEF Orderly
<1> HIDE DEF s, r
<1>10. Orderly(t)'
  BY <1>2, <1>5, <1>9 DEF Orderly
<1> QED BY <1>1, <1>2, <1>3, <1>4, <1>5, <1>6, <1>7, <1>8, <1>10

\* A task asks for the mutex, and is the last in line.
LEMMA TakeMutexOK ==
    ASSUME LockInv, NEW t \in Tasks, TakeMutex(t)
    PROVE  LockInv'
<1>0. /\ at[t] = "running" /\ todo[t] # <<>> /\ todo[t][1].do = "lock" /\ TaskOK(t) /\ Types
  BY NextStep DEF TakeMutex
<1>1. /\ wal' = wal \o <<t>> /\ todo' = [todo EXCEPT ![t] = Tail(@)]
      /\ at' = [at EXCEPT ![t] = IF wal = <<>> THEN "running" ELSE "mutex"]
      /\ UNCHANGED <<op, guards, tls, phase>>
  BY DEF TakeMutex, Rest
<1>2. /\ todo'[t] = Tail(todo[t]) /\ guards'[t] = guards[t]
      /\ at'[t] = IF wal = <<>> THEN "running" ELSE "mutex"
  BY <1>0, <1>1 DEF Types
<1>3. /\ Orderly(t)' /\ todo'[t] \in Seq(StepSet) /\ ~AtMutex(t)
      /\ todo'[t] # <<>> /\ todo'[t][1].do = "append"
  BY <1>0, <1>2, RestOK
<1>4. t \notin Range(wal)
  BY <1>0, <1>3 DEF TaskOK
<1> DEFINE n == Len(wal)
<1>5. /\ wal \in Seq(Tasks) /\ n \in Nat /\ DOMAIN wal = 1..n
      /\ \A i, j \in 1..n : wal[i] = wal[j] => i = j
      /\ \A i \in 1..n : at[wal[i]] = "mutex" <=> i > 1
      /\ \A i \in 1..n : wal[i] \in Tasks /\ wal[i] # t
      /\ wal = <<>> <=> n = 0
  BY <1>4 DEF LockInv, LineOK, Range
<1>6. /\ wal' \in Seq(Tasks) /\ DOMAIN wal' = 1..n + 1 /\ wal'[n + 1] = t
      /\ \A i \in 1..n : wal'[i] = wal[i]
  BY <1>1, <1>5
<1> HIDE DEF n
<1>7. \A i \in 1..n + 1 : i = n + 1 \/ i \in 1..n
  BY <1>5
<1>8. \A i \in 1..n : wal'[i] # t /\ at'[wal'[i]] = at[wal[i]]
  BY <1>0, <1>1, <1>5, <1>6 DEF Types
<1>9. LineOK'
  <2>1. \A i, j \in DOMAIN wal' : wal'[i] = wal'[j] => i = j
    BY <1>5, <1>6, <1>7, <1>8
  <2>2. ASSUME NEW i \in DOMAIN wal' PROVE at'[wal'[i]] = "mutex" <=> i > 1
    <3>1. CASE i = n + 1
      <4>1. wal'[i] = t /\ (i > 1 <=> n # 0)
        BY <1>5, <1>6, <3>1
      <4>2. at'[t] = "mutex" <=> wal # <<>>
        BY <1>2
      <4> QED BY <1>5, <4>1, <4>2
    <3>2. CASE i \in 1..n
      BY <1>5, <1>8, <3>2
    <3> QED BY <1>6, <1>7, <3>1, <3>2
  <2> QED BY <1>6, <2>1, <2>2 DEF LineOK
<1>10. Range(wal') = Range(wal) \cup {t}
  BY <1>5, <1>6, <1>7 DEF Range
<1>11. Bystanders(t)
  BY <1>0, <1>1, <1>10 DEF Bystanders, Types
<1>12. TaskOK(t)'
  BY <1>0, <1>1, <1>2, <1>3, <1>10 DEF TaskOK, AtMutex
<1>13. Types'
  BY <1>0, <1>1, <1>2, <1>3 DEF Types
<1>14. IsFiniteSet(Running') /\ Cardinality(Running') <= Workers
  <2>1. \A s \in Tasks : at'[s] = "running" => at[s] = "running"
    BY <1>0, <1>1 DEF Types
  <2> QED BY <2>1, FewerRunning
<1> QED BY <1>3, <1>9, <1>11, <1>12, <1>13, <1>14, OthersOK DEF LockInv

\* The owner of the mutex goes to the file.
LEMMA BeginAppendOK ==
    ASSUME LockInv, NEW t \in Tasks, BeginAppend(t)
    PROVE  LockInv'
<1>0. /\ at[t] = "running" /\ todo[t] # <<>> /\ todo[t][1].do = "append" /\ TaskOK(t) /\ Types
  BY NextStep DEF BeginAppend
<1>1. at' = [at EXCEPT ![t] = "file"] /\ UNCHANGED <<op, todo, guards, wal, tls, phase>>
  BY DEF BeginAppend
<1>2. at'[t] = "file"
  BY <1>0, <1>1 DEF Types
<1>3. TaskOK(t)' /\ (Orderly(t) => Orderly(t)')
  BY <1>0, <1>1, <1>2 DEF TaskOK, Orderly, AtMutex
<1>4. Bystanders(t)
  BY <1>0, <1>1 DEF Bystanders, Types
<1>5. Types'
  BY <1>0, <1>1 DEF Types
<1>6. \A s \in Tasks : /\ at'[s] = "mutex" <=> at[s] = "mutex"
                       /\ at'[s] = "running" => at[s] = "running"
  BY <1>0, <1>1 DEF Types
<1>7. LineOK' /\ IsFiniteSet(Running') /\ Cardinality(Running') <= Workers
  BY <1>1, <1>4, <1>6, SameLine, FewerRunning
<1> QED BY <1>3, <1>4, <1>5, <1>7, OthersOK DEF LockInv

\* The file has answered: the operation goes on, or undoes what it did.
LEMMA EndAppendOK ==
    ASSUME LockInv, NEW t \in Tasks, EndAppend(t)
    PROVE  LockInv'
<1>0. /\ at[t] = "file" /\ todo[t] # <<>> /\ todo[t][1].do = "append" /\ TaskOK(t) /\ Types
  BY DEF EndAppend, LockInv, TaskOK
<1>1. at' = [at EXCEPT ![t] = "ready"] /\ UNCHANGED <<op, guards, wal, tls, phase>>
  BY DEF EndAppend
<1>2. at'[t] = "ready" /\ guards'[t] = guards[t]
  BY <1>0, <1>1 DEF Types
<1>3. /\ todo' = [todo EXCEPT ![t] = todo'[t]] /\ todo'[t] \in Seq(StepSet)
      /\ Orderly(t)' \/ todo'[t] = Undo
      /\ NacksAppend => Orderly(t)'
      /\ AtMutex(t)' /\ AtMutex(t)
  <2>1. CASE Rest(t)
    <3>1. todo' = [todo EXCEPT ![t] = Tail(@)] /\ todo'[t] = Tail(todo[t])
      BY <1>0, <2>1 DEF Rest, Types
    <3>2. /\ Orderly(t)' /\ todo'[t] \in Seq(StepSet) /\ AtMutex(t)
          /\ todo'[t] # <<>> /\ todo'[t][1].do = "unlock"
      BY <1>0, <1>2, <3>1, RestOK
    <3> QED BY <1>0, <3>1, <3>2 DEF AtMutex, Types
  <2>2. CASE op[t] \in FailingOps /\ todo' = [todo EXCEPT ![t] = AfterFailure(op[t])]
    <3>1. todo'[t] = AfterFailure(op[t])
      BY <1>0, <2>2 DEF Types
    <3>2. CASE op[t] \in {"nack", "cleanup"}
      <4>1. todo'[t] = Undo /\ ~NacksAppend
        BY <2>2, <3>1, <3>2 DEF AfterFailure, Undo, NacksAppend
      <4> QED BY <1>0, <2>2, <4>1, UndoSteps DEF AtMutex, Types
    <3>3. CASE op[t] \notin {"nack", "cleanup"}
      <4>1. todo'[t] = <<Unlock>>
        BY <3>1, <3>3 DEF AfterFailure
      <4>2. Orderly(t)'
        BY <4>1, UnlockOnly DEF Orderly
      <4>3. AtMutex(t)' /\ AtMutex(t) /\ <<Unlock>> \in Seq(StepSet)
        BY <1>0, <4>1, UnlockOnly DEF AtMutex, Discipline
      <4> QED BY <1>0, <2>2, <4>1, <4>2, <4>3 DEF Types
    <3> QED BY <3>2, <3>3
  <2> QED BY <2>1, <2>2 DEF EndAppend
<1>4. TaskOK(t)'
  BY <1>0, <1>1, <1>2, <1>3 DEF TaskOK
<1>5. Bystanders(t)
  BY <1>0, <1>1, <1>3 DEF Bystanders, Types
<1>6. Types'
  BY <1>0, <1>1, <1>3 DEF Types
<1>7. \A s \in Tasks : /\ at'[s] = "mutex" <=> at[s] = "mutex"
                       /\ at'[s] = "running" => at[s] = "running"
  BY <1>0, <1>1 DEF Types
<1>8. LineOK' /\ IsFiniteSet(Running') /\ Cardinality(Running') <= Workers
  BY <1>1, <1>5, <1>7, SameLine, FewerRunning
<1> QED BY <1>3, <1>4, <1>5, <1>6, <1>8, OthersOK DEF LockInv

\* The owner gives the mutex to the next in line.
LEMMA GiveMutexOK ==
    ASSUME LockInv, NEW t \in Tasks, GiveMutex(t)
    PROVE  LockInv'
<1>0. /\ at[t] = "running" /\ todo[t] # <<>> /\ todo[t][1].do = "unlock" /\ TaskOK(t) /\ Types
  BY NextStep DEF GiveMutex
<1>1. /\ wal' = Tail(wal) /\ todo' = [todo EXCEPT ![t] = Tail(@)]
      /\ at' = [s \in Tasks |-> IF Len(wal) > 1 /\ s = wal[2] THEN "ready" ELSE at[s]]
      /\ UNCHANGED <<op, guards, tls, phase>>
  BY DEF GiveMutex, Rest
<1>2. todo'[t] = Tail(todo[t]) /\ guards'[t] = guards[t]
  BY <1>0, <1>1 DEF Types
<1>3. /\ Orderly(t)' /\ todo'[t] \in Seq(StepSet) /\ AtMutex(t) /\ todo'[t] # Undo
      /\ todo'[t] = <<>> \/ todo'[t][1].do \notin {"append", "unlock"}
  BY <1>0, <1>2, RestOK
<1> DEFINE n == Len(wal)
<1>4. /\ wal \in Seq(Tasks) /\ n \in Nat /\ DOMAIN wal = 1..n
      /\ \A i, j \in 1..n : wal[i] = wal[j] => i = j
      /\ \A i \in 1..n : at[wal[i]] = "mutex" <=> i > 1
  BY DEF LockInv, LineOK
<1>5. 1 \in DOMAIN wal /\ wal[1] = t
  <2>1. t \in Range(wal)
    BY <1>0, <1>3 DEF TaskOK
  <2>2. PICK i \in 1..n : wal[i] = t
    BY <1>4, <2>1 DEF Range
  <2>3. ~(i > 1)
    BY <1>0, <1>4, <2>2
  <2> QED BY <1>4, <2>2, <2>3
<1>6. /\ wal' \in Seq(Tasks) /\ DOMAIN wal' = 1..n - 1
      /\ \A j \in 1..n - 1 : wal'[j] = wal[j + 1]
      /\ wal' # <<>> <=> n > 1
  <2>1. n > 0
    BY <1>4, <1>5
  <2>2. wal' # <<>> <=> n > 1
    BY <1>1, <1>4, <2>1, TailEmpty
  <2>3. wal # <<>> /\ n - 1 \in Nat
    BY <1>4, <2>1
  <2>4. wal' \in Seq(Tasks) /\ Len(wal') = n - 1 /\ \A j \in 1..n - 1 : wal'[j] = wal[j + 1]
    BY <1>1, <1>4, <2>3
  <2> QED BY <2>2, <2>4
<1>7. \A j \in DOMAIN wal' : wal'[j] = IF j < 1 THEN wal[j] ELSE wal[j + 1]
  BY <1>4, <1>6
<1>8. n > 1 => wal'[1] = wal[2] /\ wal[2] # t /\ at[wal[2]] = "mutex"
  BY <1>4, <1>5, <1>6
<1>9. \A s \in Tasks \ {t} :
         at'[s] = IF wal' # <<>> /\ s = wal'[1] /\ at[s] = "mutex" THEN "ready" ELSE at[s]
  BY <1>1, <1>6, <1>8
<1>10. LineOK' /\ Range(wal') = Range(wal) \ {t}
  BY <1>5, <1>6, <1>7, <1>9, LeaveLine
<1>11. at'[t] = "running"
  BY <1>0, <1>1, <1>8
<1>12. TaskOK(t)'
  BY <1>0, <1>1, <1>2, <1>3, <1>10, <1>11 DEF TaskOK, AtMutex
<1>13. Bystanders(t)
  BY <1>0, <1>1, <1>9, <1>10 DEF Bystanders, Types
<1>14. Types'
  BY <1>0, <1>1, <1>2, <1>3 DEF Types
<1>15. IsFiniteSet(Running') /\ Cardinality(Running') <= Workers
  <2>1. \A s \in Tasks : at'[s] = "running" => at[s] = "running"
    BY <1>1
  <2> QED BY <2>1, FewerRunning
<1> QED BY <1>3, <1>10, <1>12, <1>13, <1>14, <1>15, OthersOK DEF LockInv
-----------------------------------------------------------------------------
(***************************************************************************)
(* The theorems.                                                           *)
(***************************************************************************)
\* The invariant holds at the start.
LEMMA LockInit == Init => LockInv
<1> SUFFICES ASSUME Init PROVE LockInv
  OBVIOUS
<1>1. Discipline(<<>>) /\ <<>> \in Seq(StepSet) /\ <<>> \in Seq(Tasks)
  BY DEF Discipline, Ordered, Paired
<1>2. Range(wal) = {}
  BY DEF Init, Range
<1>3. Types /\ LineOK
  BY <1>1 DEF Init, Types, LineOK
<1>4. ASSUME NEW t \in Tasks PROVE TaskOK(t) /\ Orderly(t)
  <2>1. todo[t] = <<>> /\ guards[t] = {} /\ at[t] = "idle" /\ op[t] = "none"
    BY DEF Init
  <2> QED BY <1>1, <1>2, <2>1 DEF TaskOK, Orderly, AtMutex, Ops
<1>5. Running = {}
  BY DEF Init, Running
<1>6. IsFiniteSet(Running) /\ Cardinality(Running) <= Workers
  BY <1>5, FS_EmptySet
<1> QED BY <1>3, <1>4, <1>6 DEF LockInv

\* Every step keeps it.
LEMMA LockStep == LockInv /\ [Next]_vars => LockInv'
<1> SUFFICES ASSUME LockInv, [Next]_vars PROVE LockInv'
  OBVIOUS
<1>0. Cleaner \in Tasks /\ Requests \subseteq Tasks
  BY DEF Tasks
<1>1. ASSUME NEW t \in Tasks, Step(t) PROVE LockInv'
  <2>1. CASE NotFound(t) \/ Return(t)
    <3>1. After(t) \in {"none", "done"} /\ Leave(t, After(t)) /\ UNCHANGED <<tls, phase>>
      BY <2>1 DEF NotFound, Return, After
    <3> QED BY <3>1, LeaveOK
  <2> QED BY <1>1, <2>1, TakeGuardOK, TakeMutexOK, BeginAppendOK, GiveMutexOK DEF Step
<1>2. ASSUME NEW r \in Requests, Disconnect(r) PROVE LockInv'
  BY <1>0, <1>2, LeaveOK DEF Disconnect
<1>3. ASSUME NEW r \in Requests, NEW o \in Ops, Arrive(r, o) PROVE LockInv'
  BY <1>0, <1>3, StartOK DEF Arrive
<1>4. CASE Tick
  BY <1>0, <1>4, StartOK DEF Tick
<1>5. ASSUME UNCHANGED tasks, tls' = tls, phase' \in {"up", "draining", "stopped"}
      PROVE  LockInv'
  <2>1. /\ Types' /\ LineOK' /\ Running' = Running
        /\ \A t \in Tasks : (TaskOK(t)' <=> TaskOK(t)) /\ (Orderly(t)' <=> Orderly(t))
    BY <1>5 DEF LockInv, tasks, Types, LineOK, Running, TaskOK, Orderly, AtMutex
  <2> QED BY <2>1 DEF LockInv
<1>6. CASE CleanupEnds
  <2>1. Types /\ TaskOK(Cleaner)
    BY <1>0 DEF LockInv
  <2>2. /\ op[Cleaner] = "none" /\ op' = [op EXCEPT ![Cleaner] = "done"]
        /\ UNCHANGED <<todo, at, guards, wal, tls, phase>>
    BY <1>6 DEF CleanupEnds
  <2>3. op'[Cleaner] = "done" /\ Types'
    BY <1>0, <2>1, <2>2 DEF Types
  <2>4. TaskOK(Cleaner)' /\ (Orderly(Cleaner) => Orderly(Cleaner)')
    BY <2>1, <2>2, <2>3 DEF TaskOK, Orderly, AtMutex, Ops
  <2>5. Bystanders(Cleaner)
    BY <2>1, <2>2 DEF Bystanders, Types
  <2>6. LineOK' /\ IsFiniteSet(Running') /\ Cardinality(Running') <= Workers
    BY <1>0, <2>2, <2>5, SameLine, FewerRunning
  <2> QED BY <1>0, <2>3, <2>4, <2>5, <2>6, OthersOK DEF LockInv
<1>7. CASE Signal \/ Drained \/ Deadline \/ UNCHANGED vars
  BY <1>5, <1>7 DEF Signal, Drained, Deadline, vars, LockInv, Types
<1> QED BY <1>1, <1>2, <1>3, <1>4, <1>6, <1>7, PollOK, EndAppendOK DEF Next

\* Type correctness: whichever requests come, fail, wait or are dropped, no
\* task that has ended keeps a guard or a place at the mutex, no more tasks
\* run than there are threads, and of those at the mutex all but the first
\* wait.
THEOREM TypeCorrect == Spec => []TypeOK
<1>1. LockInv => TypeOK
  <2> SUFFICES ASSUME LockInv PROVE TypeOK
    OBVIOUS
  <2>1. \A t \in Tasks : at[t] = "idle" => todo[t] = <<>> /\ guards[t] = {} /\ t \notin Range(wal)
    BY DEF LockInv, TaskOK, AtMutex
  <2> QED BY <2>1 DEF LockInv, TypeOK, Types, LineOK
<1> QED BY <1>1, LockInit, LockStep, PTL DEF Spec

\* Freedom from deadlock: no requests and no pass of the cleanup loop ever wait
\* for each other in a circle, for any number of them, when the append of a
\* nack does not fail (one that fails takes a guard with the mutex in hand).
THEOREM NoDeadlock == NacksAppend => (Spec => []NoWaitCycle)
<1> SUFFICES ASSUME NacksAppend PROVE Spec => []NoWaitCycle
  OBVIOUS
<1>1. LockInv => NoWaitCycle
  <2> SUFFICES ASSUME LockInv, NEW S \in (SUBSET Tasks) \ {{}}
               PROVE  \E t \in S : WaitsFor(t) \cap S = {}
    BY DEF NoWaitCycle
  <2>0. \A t \in S : t \in Tasks
    OBVIOUS
  <2> DEFINE Asks(t, m) == at[t] # "mutex" /\ Next1(t, "guard") /\ Head(todo[t]).map = m
  <2>1. ASSUME NEW t \in Tasks
        PROVE  \/ WaitsFor(t) = {}
               \/ at[t] = "mutex"
               \/ Asks(t, "in_flight")
               \/ Asks(t, "queues")
    <3>1. CASE at[t] # "mutex" /\ Next1(t, "guard")
      <4>1. Head(todo[t]) \in StepSet /\ Head(todo[t]).do = "guard"
        BY <3>1, NextStep DEF Next1
      <4>2. Head(todo[t]).map \in {"queues", "in_flight"}
        BY <4>1, StepKinds DEF StepSet, Guards
      <4> QED BY <3>1, <4>2
    <3> QED BY <3>1 DEF WaitsFor
  <2>2. ASSUME NEW t \in Tasks, at[t] = "mutex"
        PROVE  WaitsFor(t) = {Head(wal)} /\ Head(wal) \in Tasks /\ WaitsFor(Head(wal)) = {}
    <3>1. t \in Range(wal) /\ wal \in Seq(Tasks)
      BY <2>2 DEF LockInv, TaskOK, LineOK
    <3>2. 1 \in DOMAIN wal /\ Head(wal) = wal[1] /\ wal[1] \in Tasks
      BY <3>1 DEF Range
    <3>3. at[wal[1]] # "mutex" /\ wal[1] \in Range(wal)
      BY <3>2 DEF LockInv, LineOK, Range
    <3>4. AtMutex(wal[1]) /\ Orderly(wal[1])
      BY <3>2, <3>3 DEF LockInv, TaskOK
    <3>5. todo[wal[1]] # <<>> /\ todo[wal[1]][1].do # "guard" /\ todo[wal[1]] \in Seq(StepSet)
      BY <3>4, NotUndo DEF AtMutex, Orderly, Discipline
    <3>6. ~Next1(wal[1], "guard")
      BY <3>5 DEF Next1
    <3> QED BY <2>2, <3>2, <3>3, <3>6 DEF WaitsFor
  <2>3. ASSUME NEW t \in Tasks, NEW m, Asks(t, m), NEW u \in WaitsFor(t)
        PROVE  u \in Tasks /\ ~Asks(u, "queues") /\ ~(m = "in_flight" /\ Asks(u, "in_flight"))
    <3>1. u \in Tasks /\ \E k \in guards[u] : k.map = m
      BY <2>3 DEF WaitsFor, InTheWay
    <3>2. PICK k \in guards[u] : k.map = m
      BY <3>1
    <3>3. ASSUME NEW x, Asks(u, x) PROVE m = "queues" /\ x = "in_flight"
      <4>1. 1 \in DOMAIN todo[u] /\ todo[u][1].do = "guard" /\ todo[u][1].map = x
        BY <3>1, <3>3, NextStep
      <4>2. Orderly(u)
        BY <3>1 DEF LockInv
      <4> QED BY <3>2, <4>1, <4>2 DEF Orderly
    <3> HIDE DEF Asks
    <3> QED BY <3>1, <3>3
  <2>4. ASSUME NEW t, NEW m, Asks(t, m) PROVE at[t] # "mutex"
    BY <2>4
  <2> HIDE DEF Asks
  <2>5. CASE \E t \in S : WaitsFor(t) = {}
    BY <2>5
  <2>6. CASE ~(\E t \in S : WaitsFor(t) = {}) /\ \E t \in S : at[t] = "mutex"
    BY <2>0, <2>2, <2>6
  <2>7. CASE /\ \A t \in S : WaitsFor(t) # {} /\ at[t] # "mutex"
             /\ \E t \in S : Asks(t, "in_flight")
    BY <2>0, <2>1, <2>3, <2>7
  <2>8. CASE \A t \in S : WaitsFor(t) # {} /\ at[t] # "mutex" /\ ~Asks(t, "in_flight")
    BY <2>0, <2>1, <2>3, <2>8
  <2> QED BY <2>5, <2>6, <2>7, <2>8
<1> QED BY <1>1, LockInit, LockStep, PTL DEF Spec
=============================================================================
