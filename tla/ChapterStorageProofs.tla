------------------------ MODULE ChapterStorageProofs ------------------------
(***************************************************************************)
(* Proofs about ChapterStorage, for any finite number of tasks, chapters   *)
(* and lengths, any limit, and any word that holds the size of the folder. *)
(***************************************************************************)
EXTENDS ChapterStorage, OrderLemmas

TaskRecord == [pc : TaskSteps, chapter : Chapters \cup {NoChapter}, ram : BOOLEAN, size : Lengths,
               current : Words, victim : Chapters \cup {NoChapter}, freed : Lengths]

\* What a step of a task may rely on.
Sound(x) ==
  /\ x.pc # "idle" => x.chapter \in Chapters
  /\ x.pc \in {"fitting", "measuring", "removing", "subtract", "adding"} => x.size \in Sizes
  /\ x.pc \in {"measuring", "removing"} => x.victim \in Chapters

\* The lengths that are in the folder and not yet in the counter, and the reverse.
ToAdd(x) == IF x.pc = "adding" THEN x.size ELSE 0
ToSubtract(x) == IF x.pc = "subtract" THEN x.freed ELSE 0

Adding == SumFunction([t \in Tasks |-> ToAdd(task[t])])
Removed == SumFunction([t \in Tasks |-> ToSubtract(task[t])])

-----------------------------------------------------------------------------
(* The invariant.                                                           *)

\* Eviction chooses among the files that are there, and each is a candidate once.
Folder ==
  /\ disk \in [Chapters -> Lengths]
  /\ Line(order, Chapters) /\ ToSet(order) = {c \in Chapters : disk[c] # 0}

Others == ram \in [Chapters -> Lengths] /\ counter \in Words /\ upset \in BOOLEAN

Working == task \in [Tasks -> TaskRecord] /\ \A t \in Tasks : Sound(task[t])

Deleting ==
  /\ deleter \in [pc : {"idle", "removing", "subtract"}, chapter : Chapters \cup {NoChapter},
                  freed : Lengths]
  /\ deleter.pc # "idle" => deleter.chapter \in Chapters

\* Until something is upset, the counter and what is on its way to it make the folder and what
\* has left it, but for what a subtraction that came early has wrapped.
Wraps(n) == \E k \in Int : n = k * WordSize

Balanced == upset \/ Wraps(counter + Adding - DiskBytes - Removed - ToSubtract(deleter))

IInv == Folder /\ Others /\ Working /\ Deleting /\ Balanced

-----------------------------------------------------------------------------
(* Words and sums.                                                          *)

LEMMA Constants ==
  /\ WordSize \in Nat /\ WordSize > 0 /\ IsFiniteSet(Chapters) /\ IsFiniteSet(Tasks)
  /\ Lengths \subseteq Nat /\ 0 \in Lengths /\ Sizes \subseteq Lengths /\ 0 \notin Sizes
  /\ NoChapter \notin Chapters
BY StorageConstants DEF Lengths

LEMMA WrapsAdd ==
  ASSUME NEW m \in Int, NEW n \in Int, Wraps(m), Wraps(n)
  PROVE  Wraps(m + n) /\ Wraps(0 - m)
<1>1. PICK i \in Int : m = i * WordSize  BY DEF Wraps
<1>2. PICK j \in Int : n = j * WordSize  BY DEF Wraps
<1>3. WordSize \in Int  BY Constants
<1>4. m + n = (i + j) * WordSize /\ i + j \in Int  BY <1>1, <1>2, <1>3
<1>5. 0 - m = (0 - i) * WordSize /\ 0 - i \in Int  BY <1>1, <1>3
<1> QED  BY <1>4, <1>5 DEF Wraps

LEMMA WrapsNothing ==
  /\ Wraps(0) /\ Wraps(WordSize)
  /\ \A n \in Int : Wraps(n) /\ n < WordSize /\ 0 - n < WordSize => n = 0
<1>1. WordSize \in Int /\ WordSize > 0  BY Constants
<1>2. 0 = 0 * WordSize /\ WordSize = 1 * WordSize  BY <1>1
<1>3. ASSUME NEW n \in Int, Wraps(n), n < WordSize, 0 - n < WordSize PROVE n = 0
  <2>1. PICK k \in Int : n = k * WordSize  BY <1>3 DEF Wraps
  <2>2. CASE k = 0  BY <1>1, <2>1, <2>2
  <2>3. CASE k >= 1
    <3>1. k * WordSize >= WordSize  BY <1>1, <2>3
    <3> QED  BY <1>1, <1>3, <2>1, <3>1
  <2>4. CASE k <= 0 - 1
    <3>1. k * WordSize <= 0 - WordSize  BY <1>1, <2>4
    <3> QED  BY <1>1, <1>3, <2>1, <3>1
  <2> QED  BY <2>2, <2>3, <2>4
<1> QED  BY <1>2, <1>3 DEF Wraps

LEMMA Remainder ==
  ASSUME NEW x \in Nat
  PROVE  x % WordSize \in Words /\ Wraps((x % WordSize) - x)
<1>1. WordSize \in Nat /\ WordSize > 0  BY Constants
<1>2. x % WordSize \in 0..(WordSize - 1)  BY <1>1
<1>3. x = WordSize * (x \div WordSize) + (x % WordSize) /\ x \div WordSize \in Int  BY <1>1
<1> DEFINE q == x \div WordSize
           m == x % WordSize
<1>4. m \in Int /\ q \in Int /\ x = WordSize * q + m  BY <1>1, <1>2, <1>3
<1> HIDE DEF q, m
<1>5. m - x = (0 - q) * WordSize /\ 0 - q \in Int  BY <1>1, <1>4
<1> QED  BY <1>2, <1>5 DEF m, Words, Wraps

LEMMA Subtracting ==
  ASSUME NEW a \in Words, NEW b \in Nat
  PROVE  Minus(a, b) \in Words /\ Wraps(Minus(a, b) - a + b)
<1>1. WordSize \in Nat /\ WordSize > 0 /\ a \in Nat  BY Constants DEF Words
<1>2. b % WordSize \in 0..(WordSize - 1) /\ Wraps((b % WordSize) - b)  BY Remainder DEF Words
<1> DEFINE y == b % WordSize
           x == a + WordSize - y
           z == x % WordSize
<1>3. y \in Int /\ x \in Nat /\ Minus(a, b) = z  BY <1>1, <1>2 DEF Minus
<1>4. Wraps(y - b)  BY <1>2
<1>5. z \in Words /\ Wraps(z - x)
  <2> HIDE DEF x
  <2> QED  BY <1>3, Remainder
<1>6. x = a + WordSize - y  OBVIOUS
<1> HIDE DEF x, y, z
<1>7. z \in Int  BY <1>1, <1>5 DEF Words
<1>8. Wraps(WordSize + (z - x))  BY <1>1, <1>3, <1>5, <1>7, WrapsAdd, WrapsNothing
<1>9. Wraps(0 - (y - b))  BY <1>3, <1>4, WrapsAdd
<1>10. Wraps((WordSize + (z - x)) + (0 - (y - b)))  BY <1>1, <1>3, <1>7, <1>8, <1>9, WrapsAdd
<1>11. (WordSize + (z - x)) + (0 - (y - b)) = z - a + b  BY <1>1, <1>3, <1>6, <1>7
<1> QED  BY <1>3, <1>5, <1>10, <1>11

LEMMA AddingWord ==
  ASSUME NEW a \in Words, NEW b \in Nat
  PROVE  Plus(a, b) \in Words /\ Wraps(Plus(a, b) - a - b)
<1>1. a + b \in Nat  BY Constants DEF Words
<1>2. Plus(a, b) \in Words /\ Wraps(Plus(a, b) - (a + b))  BY <1>1, Remainder DEF Plus
<1>3. Plus(a, b) - (a + b) = Plus(a, b) - a - b  BY <1>2, Constants DEF Words
<1> QED  BY <1>2, <1>3

LEMMA RecordNumbers ==
  \A y \in TaskRecord : ToAdd(y) \in Int /\ ToSubtract(y) \in Int /\ y.size \in Nat /\ y.freed \in Nat
<1>1. \A n \in Lengths : n \in Nat  BY Constants
<1>2. \A y \in TaskRecord : y.size \in Nat /\ y.freed \in Nat  BY <1>1 DEF TaskRecord
<1> QED  BY <1>2 DEF ToAdd, ToSubtract

\* No step is taken with a length that is not a number.
LEMMA SumsAreNumbers ==
  ASSUME Folder, Working, Deleting
  PROVE  /\ Adding \in Nat /\ Removed \in Nat /\ DiskBytes \in Nat
         /\ ToSubtract(deleter) \in Nat
<1>1. \A t \in Tasks : ToAdd(task[t]) \in Nat /\ ToSubtract(task[t]) \in Nat
  BY Constants DEF Working, TaskRecord, ToAdd, ToSubtract
<1> DEFINE f == [t \in Tasks |-> ToAdd(task[t])]
           g == [t \in Tasks |-> ToSubtract(task[t])]
<1>2. f \in [Tasks -> Nat] /\ g \in [Tasks -> Nat] /\ disk \in [Chapters -> Nat]
  BY <1>1, Constants DEF Folder
<1>3. Adding = SumFunction(f) /\ Removed = SumFunction(g)  BY DEF Adding, Removed
<1> HIDE DEF f, g
<1>4. Adding \in Nat /\ Removed \in Nat  BY <1>2, <1>3, SumNumber, Constants
<1>5. DiskBytes \in Nat  BY <1>2, SumNumber, Constants DEF DiskBytes
<1> QED  BY <1>4, <1>5, Constants DEF Deleting, ToSubtract

\* One task moves on.
LEMMA OneTask ==
  ASSUME Working, NEW t \in Tasks, NEW x \in TaskRecord, Sound(x), task' = [task EXCEPT ![t] = x]
  PROVE  /\ Working'
         /\ Adding' = Adding + ToAdd(x) - ToAdd(task[t])
         /\ Removed' = Removed + ToSubtract(x) - ToSubtract(task[t])
<1>1. Working'  BY DEF Working
<1>2. /\ \A u \in Tasks : ToAdd(task[u]) \in Int /\ ToSubtract(task[u]) \in Int
      /\ \A u \in Tasks : ToAdd(task'[u]) \in Int /\ ToSubtract(task'[u]) \in Int
  <2>1. \A u \in Tasks : task[u] \in TaskRecord /\ task'[u] \in TaskRecord  BY <1>1 DEF Working
  <2> QED  BY <2>1, RecordNumbers
<1>3. task'[t] = x /\ \A u \in Tasks \ {t} : task'[u] = task[u]  BY DEF Working
<1> DEFINE f == [u \in Tasks |-> ToAdd(task[u])]
           g == [u \in Tasks |-> ToAdd(task'[u])]
           h == [u \in Tasks |-> ToSubtract(task[u])]
           i == [u \in Tasks |-> ToSubtract(task'[u])]
<1>4. /\ f \in [Tasks -> Int] /\ g \in [Tasks -> Int] /\ h \in [Tasks -> Int] /\ i \in [Tasks -> Int]
      /\ f[t] = ToAdd(task[t]) /\ g[t] = ToAdd(x) /\ h[t] = ToSubtract(task[t]) /\ i[t] = ToSubtract(x)
      /\ \A u \in Tasks \ {t} : g[u] = f[u] /\ i[u] = h[u]
  BY <1>2, <1>3
<1>5. /\ Adding = SumFunction(f) /\ Adding' = SumFunction(g)
      /\ Removed = SumFunction(h) /\ Removed' = SumFunction(i)
  BY DEF Adding, Removed, ToAdd, ToSubtract
<1> HIDE DEF f, g, h, i
<1>6. SumFunction(g) = SumFunction(f) + g[t] - f[t]  BY <1>4, SumChange, Constants
<1>7. SumFunction(i) = SumFunction(h) + i[t] - h[t]  BY <1>4, SumChange, Constants
<1> QED  BY <1>1, <1>4, <1>5, <1>6, <1>7

\* One file comes, goes or is replaced.
LEMMA OneFile ==
  ASSUME Folder, NEW c \in Chapters, NEW n \in Lengths, disk' = [disk EXCEPT ![c] = n],
         order' = IF n = 0 THEN Without(order, c) ELSE Append(Without(order, c), c)
  PROVE  Folder' /\ DiskBytes' = DiskBytes + n - disk[c]
<1>1. disk \in [Chapters -> Int] /\ disk' \in [Chapters -> Int] /\ disk' \in [Chapters -> Lengths]
  <2>1. disk \in [Chapters -> Lengths] /\ disk' \in [Chapters -> Lengths]  BY DEF Folder
  <2>2. \A m \in Lengths : m \in Int  BY Constants
  <2>3. \A e : e \in [Chapters -> Lengths] => e \in [Chapters -> Int]  BY <2>2
  <2> QED  BY <2>1, <2>3
<1>2. disk'[c] = n /\ \A d \in Chapters \ {c} : disk'[d] = disk[d]  BY DEF Folder
<1>3. DiskBytes' = DiskBytes + n - disk[c]
  <2>1. SumFunction(disk') = SumFunction(disk) + disk'[c] - disk[c]
    <3> DEFINE f == disk
               g == disk'
    <3>1. /\ f \in [Chapters -> Int] /\ g \in [Chapters -> Int]
          /\ \A d \in Chapters \ {c} : g[d] = f[d]
      BY <1>1, <1>2
    <3> HIDE DEF f, g
    <3>2. SumFunction(g) = SumFunction(f) + g[c] - f[c]  BY <3>1, SumChange, Constants
    <3> QED  BY <3>2 DEF f, g
  <2> QED  BY <1>2, <2>1 DEF DiskBytes
<1> DEFINE s == Without(order, c)
<1>4. Line(s, Chapters) /\ ToSet(s) = ToSet(order) \ {c}  BY GivingUp DEF Folder
<1> HIDE DEF s
<1>5. CASE n = 0
  <2>1. order' = s  BY <1>5 DEF s
  <2>2. ToSet(order') = {d \in Chapters : disk'[d] # 0}  BY <1>2, <1>4, <1>5, <2>1 DEF Folder
  <2> QED  BY <1>1, <1>3, <1>4, <2>1, <2>2 DEF Folder
<1>6. CASE n # 0
  <2>1. order' = Append(s, c)  BY <1>6 DEF s
  <2>2. Line(Append(s, c), Chapters) /\ ToSet(Append(s, c)) = ToSet(s) \cup {c}  BY <1>4, Joining
  <2>3. ToSet(order') = {d \in Chapters : disk'[d] # 0}  BY <1>2, <1>4, <1>6, <2>1, <2>2 DEF Folder
  <2> QED  BY <1>1, <1>3, <2>1, <2>2, <2>3 DEF Folder
<1> QED  BY <1>5, <1>6

-----------------------------------------------------------------------------
(* The steps of a task.                                                     *)

\* Changes that balance keep the balance.
LEMMA BalanceKeeps ==
  ASSUME IInv, Folder', Others', Working', Deleting',
         upset' \/ (/\ ~upset
                    /\ Wraps(counter' - counter + (Adding' - Adding) - (DiskBytes' - DiskBytes)
                               - (Removed' - Removed) - (ToSubtract(deleter') - ToSubtract(deleter))))
  PROVE  IInv'
<1>1. Folder /\ Others /\ Working /\ Deleting /\ Balanced  BY DEF IInv
<1>2. SUFFICES Balanced'  BY DEF IInv
<1>3. CASE upset'  BY <1>3 DEF Balanced
<1>4. CASE ~upset'
  <2>1. /\ counter \in Int /\ Adding \in Int /\ Removed \in Int /\ DiskBytes \in Int
        /\ ToSubtract(deleter) \in Int
    BY <1>1, SumsAreNumbers, Constants DEF Others, Words
  <2>2. /\ counter' \in Int /\ Adding' \in Int /\ Removed' \in Int /\ DiskBytes' \in Int
        /\ ToSubtract(deleter') \in Int
    <3>1. counter' \in Int  BY Constants DEF Others, Words
    <3> DEFINE f == [t \in Tasks |-> ToAdd(task'[t])]
               g == [t \in Tasks |-> ToSubtract(task'[t])]
               e == disk'
    <3>2. f \in [Tasks -> Int] /\ g \in [Tasks -> Int]
      <4>1. \A t \in Tasks : task'[t] \in TaskRecord  BY DEF Working
      <4> QED  BY <4>1, RecordNumbers
    <3>3. e \in [Chapters -> Int]
      <4>1. \A n \in Lengths : n \in Int  BY Constants
      <4> QED  BY <4>1 DEF Folder
    <3>4. Adding' = SumFunction(f) /\ Removed' = SumFunction(g) /\ DiskBytes' = SumFunction(e)
      BY DEF Adding, Removed, DiskBytes, ToAdd, ToSubtract
    <3> HIDE DEF f, g, e
    <3>5. SumFunction(f) \in Int /\ SumFunction(g) \in Int /\ SumFunction(e) \in Int
      BY <3>2, <3>3, SumNumber, Constants
    <3>6. ToSubtract(deleter') \in Int
      <4>1. \A n \in Lengths : n \in Int  BY Constants
      <4> QED  BY <4>1 DEF Deleting, ToSubtract
    <3> QED  BY <3>1, <3>4, <3>5, <3>6
  <2> DEFINE m == counter + Adding - DiskBytes - Removed - ToSubtract(deleter)
             n == counter' - counter + (Adding' - Adding) - (DiskBytes' - DiskBytes)
                    - (Removed' - Removed) - (ToSubtract(deleter') - ToSubtract(deleter))
             w == counter' + Adding' - DiskBytes' - Removed' - ToSubtract(deleter')
  <2>3. m \in Int /\ n \in Int /\ m + n = w  BY <2>1, <2>2
  <2>4. Wraps(m) /\ Wraps(n)  BY <1>1, <1>4 DEF Balanced
  <2> HIDE DEF m, n
  <2>5. Wraps(w)  BY <2>3, <2>4, WrapsAdd
  <2>6. Wraps(w) => Balanced'  BY DEF Balanced, Wraps
  <2> QED  BY <2>5, <2>6
<1> QED  BY <1>3, <1>4

\* A task goes to x, and what changes on both sides is the same.
LEMMA TaskKeeps ==
  ASSUME IInv, NEW t \in Tasks, NEW x \in TaskRecord, Sound(x), task' = [task EXCEPT ![t] = x],
         Folder', Others', Deleting',
         upset' \/ (/\ ~upset
                    /\ Wraps(counter' - counter + (ToAdd(x) - ToAdd(task[t])) - (DiskBytes' - DiskBytes)
                               - (ToSubtract(x) - ToSubtract(task[t]))
                               - (ToSubtract(deleter') - ToSubtract(deleter))))
  PROVE  IInv'
<1>1. Folder /\ Working /\ Deleting  BY DEF IInv
<1>2. /\ Working'
      /\ Adding' = Adding + ToAdd(x) - ToAdd(task[t])
      /\ Removed' = Removed + ToSubtract(x) - ToSubtract(task[t])
  BY <1>1, OneTask
<1>3. Adding \in Int /\ Removed \in Int  BY <1>1, SumsAreNumbers
<1>4. ToAdd(x) \in Int /\ ToSubtract(x) \in Int /\ ToAdd(task[t]) \in Int /\ ToSubtract(task[t]) \in Int
  BY <1>1, RecordNumbers DEF Working
<1>5. Adding' - Adding = ToAdd(x) - ToAdd(task[t])
      /\ Removed' - Removed = ToSubtract(x) - ToSubtract(task[t])
  BY <1>2, <1>3, <1>4
<1> QED  BY <1>2, <1>5, BalanceKeeps

\* A task moves and leaves the folder and the counter alone.
LEMMA QuietStep ==
  ASSUME IInv, NEW t \in Tasks, NEW x \in TaskRecord, Sound(x), task' = [task EXCEPT ![t] = x],
         UNCHANGED <<disk, order, ram, counter, deleter>>, upset' \in BOOLEAN,
         upset' \/ (~upset /\ ToAdd(x) = ToAdd(task[t]) /\ ToSubtract(x) = ToSubtract(task[t]))
  PROVE  IInv'
<1>1. Folder /\ Others /\ Working /\ Deleting  BY DEF IInv
<1>2. Folder' /\ Others' /\ Deleting'  BY <1>1 DEF Folder, Others, Deleting
<1>3. CASE upset'  BY <1>2, <1>3, TaskKeeps
<1>4. CASE ~upset'
  <2>1. DiskBytes' = DiskBytes /\ ToSubtract(deleter') = ToSubtract(deleter)  BY DEF DiskBytes, ToSubtract
  <2>2. DiskBytes \in Int /\ ToSubtract(deleter) \in Int /\ counter \in Int
    BY <1>1, SumsAreNumbers, Constants DEF Others, Words
  <2>3. task[t] \in TaskRecord  BY <1>1 DEF Working
  <2>4. counter' - counter + (ToAdd(x) - ToAdd(task[t])) - (DiskBytes' - DiskBytes)
          - (ToSubtract(x) - ToSubtract(task[t])) - (ToSubtract(deleter') - ToSubtract(deleter)) = 0
    BY <1>4, <2>1, <2>2, <2>3, RecordNumbers
  <2> QED  BY <1>2, <1>4, <2>4, TaskKeeps, WrapsNothing
<1> QED  BY <1>3, <1>4

LEMMA TaskNow ==
  ASSUME IInv, NEW t \in Tasks
  PROVE  /\ task[t] \in TaskRecord /\ Sound(task[t])
         /\ task[t].chapter \in Chapters \cup {NoChapter} /\ task[t].ram \in BOOLEAN
         /\ task[t].size \in Lengths /\ task[t].current \in Words
         /\ task[t].victim \in Chapters \cup {NoChapter} /\ task[t].freed \in Lengths
         /\ task[t].pc \in TaskSteps
BY DEF IInv, Working, TaskRecord

LEMMA NoTaskSound == NoTask \in TaskRecord /\ Sound(NoTask) /\ ToAdd(NoTask) = 0 /\ ToSubtract(NoTask) = 0
<1>1. 0 \in Words /\ 0 \in Lengths /\ "idle" \in TaskSteps  BY Constants DEF Words, TaskSteps
<1> QED  BY <1>1 DEF NoTask, TaskRecord, Sound, ToAdd, ToSubtract

\* What a task comes to at each of its quiet steps.
LEMMA StartKeeps ==
  ASSUME IInv, NEW t \in Tasks, NEW c \in Chapters, NEW r \in RamModes, StartDownload(t, c, r)
  PROVE  IInv'
<1> DEFINE x == [NoTask EXCEPT !.pc = "downloading", !.chapter = c, !.ram = r]
<1>1. task' = [task EXCEPT ![t] = x] /\ At(t, "idle")
      /\ UNCHANGED <<disk, order, ram, counter, deleter, upset>>
  BY DEF StartDownload
<1>2. r \in BOOLEAN /\ "downloading" \in TaskSteps  BY StorageConstants DEF TaskSteps
<1>3. x \in TaskRecord /\ x.pc = "downloading" /\ x.chapter = c  BY <1>2, NoTaskSound DEF TaskRecord
<1> HIDE DEF x
<1>4. x \in TaskRecord /\ Sound(x) /\ ToAdd(x) = 0 /\ ToSubtract(x) = 0
  BY <1>3 DEF Sound, ToAdd, ToSubtract
<1>5. ToAdd(task[t]) = 0 /\ ToSubtract(task[t]) = 0  BY <1>1 DEF At, ToAdd, ToSubtract
<1>6. upset' \in BOOLEAN  BY <1>1 DEF IInv, Others
<1> QED  BY <1>1, <1>4, <1>5, <1>6, QuietStep

LEMMA GivesUpKeeps ==
  ASSUME IInv, NEW t \in Tasks, DownloadFails(t) \/ NothingToEvict(t) \/ AbortTask(t)
  PROVE  IInv'
<1>1. task' = [task EXCEPT ![t] = NoTask] /\ UNCHANGED <<disk, order, ram, counter, deleter>>
      /\ ~At(t, "adding") /\ upset' = (upset \/ At(t, "subtract"))
  <2>1. upset \in BOOLEAN  BY DEF IInv, Others
  <2>2. CASE DownloadFails(t)  BY <2>1, <2>2 DEF DownloadFails, At
  <2>3. CASE NothingToEvict(t)  BY <2>1, <2>3 DEF NothingToEvict, At
  <2>4. CASE AbortTask(t)  BY <2>4 DEF AbortTask, At
  <2> QED  BY <2>2, <2>3, <2>4
<1>2. upset \in BOOLEAN  BY DEF IInv, Others
<1>3. upset' \in BOOLEAN  BY <1>1, <1>2 DEF At
<1>4. upset' \/ (~upset /\ ToAdd(task[t]) = 0 /\ ToSubtract(task[t]) = 0)
  BY <1>1 DEF At, ToAdd, ToSubtract
<1> QED  BY <1>1, <1>3, <1>4, NoTaskSound, QuietStep

LEMMA BeginKeeps ==
  ASSUME IInv, NEW t \in Tasks, BeginPersist(t)
  PROVE  IInv'
<1>1. PICK s \in Sizes : task' = [task EXCEPT ![t].pc = "fitting", ![t].size = s, ![t].current = counter]
  BY DEF BeginPersist
<1> DEFINE x == [task[t] EXCEPT !.pc = "fitting", !.size = s, !.current = counter]
<1>2. At(t, "downloading") /\ UNCHANGED <<disk, order, ram, counter, deleter, upset>>
  BY DEF BeginPersist
<1>3. task' = [task EXCEPT ![t] = x]  BY <1>1 DEF IInv, Working, TaskRecord
<1>4. x \in TaskRecord /\ Sound(x) /\ ToAdd(x) = 0 /\ ToSubtract(x) = 0
  <2>1. counter \in Words /\ s \in Lengths /\ "fitting" \in TaskSteps  BY Constants DEF IInv, Others, TaskSteps
  <2> QED  BY <1>2, <2>1, TaskNow DEF TaskRecord, Sound, ToAdd, ToSubtract, At
<1> HIDE DEF x
<1>5. ToAdd(task[t]) = 0 /\ ToSubtract(task[t]) = 0  BY <1>2 DEF At, ToAdd, ToSubtract
<1>6. upset' \in BOOLEAN  BY <1>2 DEF IInv, Others
<1> QED  BY <1>2, <1>3, <1>4, <1>5, <1>6, QuietStep

\* The victim is a chapter of the folder, and its length is one that a file may have or none.
LEMMA ChooseKeeps ==
  ASSUME IInv, NEW t \in Tasks, FindVictim(t) \/ MeasureVictim(t)
  PROVE  IInv'
<1>1. UNCHANGED <<disk, order, ram, counter, deleter, upset>> /\ upset' \in BOOLEAN
  BY DEF FindVictim, MeasureVictim, IInv, Others
<1>2. ToAdd(task[t]) = 0 /\ ToSubtract(task[t]) = 0
  BY DEF FindVictim, MeasureVictim, At, ToAdd, ToSubtract
<1>3. CASE FindVictim(t)
  <2> DEFINE v == Head(order)
             x == [task[t] EXCEPT !.pc = "measuring", !.victim = v]
  <2>1. At(t, "fitting") /\ order # <<>>
        /\ task' = [task EXCEPT ![t].pc = "measuring", ![t].victim = v]
    BY <1>3 DEF FindVictim
  <2>2. v \in Chapters
    <3>1. order \in Seq(Chapters)  BY DEF IInv, Folder, Line
    <3> QED  BY <2>1, <3>1
  <2> HIDE DEF v
  <2>3. task' = [task EXCEPT ![t] = x]  BY <2>1 DEF IInv, Working, TaskRecord
  <2>4. x \in TaskRecord /\ Sound(x) /\ ToAdd(x) = 0 /\ ToSubtract(x) = 0
    <3>1. "measuring" \in TaskSteps  BY DEF TaskSteps
    <3> QED  BY <2>1, <2>2, <3>1, TaskNow DEF TaskRecord, Sound, ToAdd, ToSubtract, At
  <2> HIDE DEF x
  <2> QED  BY <1>1, <1>2, <2>3, <2>4, QuietStep
<1>4. CASE MeasureVictim(t)
  <2> DEFINE n == disk[task[t].victim]
             x == [task[t] EXCEPT !.pc = "removing", !.freed = n]
  <2>1. At(t, "measuring") /\ task' = [task EXCEPT ![t].pc = "removing", ![t].freed = n]
    BY <1>4 DEF MeasureVictim
  <2>2. n \in Lengths
    <3>1. task[t].victim \in Chapters  BY <2>1, TaskNow DEF Sound, At
    <3> QED  BY <3>1 DEF IInv, Folder
  <2> HIDE DEF n
  <2>3. task' = [task EXCEPT ![t] = x]  BY <2>1 DEF IInv, Working, TaskRecord
  <2>4. x \in TaskRecord /\ Sound(x) /\ ToAdd(x) = 0 /\ ToSubtract(x) = 0
    <3>1. "removing" \in TaskSteps  BY DEF TaskSteps
    <3> QED  BY <2>1, <2>2, <3>1, TaskNow DEF TaskRecord, Sound, ToAdd, ToSubtract, At
  <2> HIDE DEF x
  <2> QED  BY <1>1, <1>2, <2>3, <2>4, QuietStep
<1> QED  BY <1>3, <1>4

\* A removal is balanced by what is to be subtracted, unless the file has changed meanwhile.
LEMMA RemoveKeeps ==
  ASSUME IInv, NEW t \in Tasks, RemoveVictim(t) \/ RemoveVictimFails(t)
  PROVE  IInv'
<1> DEFINE v == task[t].victim
           x == [task[t] EXCEPT !.pc = "subtract", !.victim = NoChapter]
<1>1. At(t, "removing") /\ UNCHANGED <<ram, counter, deleter>>
      /\ task' = [task EXCEPT ![t].pc = "subtract", ![t].victim = NoChapter]
  BY DEF RemoveVictim, RemoveVictimFails
<1>2. v \in Chapters /\ task[t].freed \in Nat  BY <1>1, TaskNow, Constants DEF Sound, At
<1>3. task' = [task EXCEPT ![t] = x]  BY <1>1 DEF IInv, Working, TaskRecord
<1>4. x \in TaskRecord /\ Sound(x) /\ ToAdd(x) = 0 /\ ToSubtract(x) = task[t].freed
  <2>1. "subtract" \in TaskSteps  BY DEF TaskSteps
  <2> QED  BY <1>1, <2>1, TaskNow DEF TaskRecord, Sound, ToAdd, ToSubtract, At
<1> HIDE DEF x, v
<1>5. ToAdd(task[t]) = 0 /\ ToSubtract(task[t]) = 0  BY <1>1 DEF At, ToAdd, ToSubtract
<1>6. Folder /\ Others /\ Working /\ Deleting  BY DEF IInv
<1>7. CASE RemoveVictimFails(t)
  <2>1. UNCHANGED <<disk, order>> /\ upset' = TRUE  BY <1>7 DEF RemoveVictimFails
  <2> QED  BY <1>1, <1>3, <1>4, <2>1, QuietStep
<1>8. CASE RemoveVictim(t)
  <2>1. disk' = [disk EXCEPT ![v] = 0] /\ order' = Without(order, v)
        /\ upset' = (upset \/ disk[v] # task[t].freed)
    BY <1>8 DEF RemoveVictim, Unlink, v
  <2>2. 0 \in Lengths  BY Constants
  <2>3. Folder' /\ DiskBytes' = DiskBytes + 0 - disk[v]  BY <1>2, <1>6, <2>1, <2>2, OneFile
  <2>4. Others' /\ Deleting'  BY <1>1, <1>6, <2>1 DEF Others, Deleting
  <2>5. CASE upset'  BY <1>3, <1>4, <2>3, <2>4, <2>5, TaskKeeps
  <2>6. CASE ~upset'
    <3>1. ~upset /\ disk[v] = task[t].freed  BY <2>1, <2>6
    <3>2. DiskBytes \in Int /\ counter \in Int /\ ToSubtract(deleter) \in Int
      BY <1>6, SumsAreNumbers, Constants DEF Others, Words
    <3>3. counter' = counter /\ ToSubtract(deleter') = ToSubtract(deleter)  BY <1>1 DEF ToSubtract
    <3>4. counter' - counter + (ToAdd(x) - ToAdd(task[t])) - (DiskBytes' - DiskBytes)
            - (ToSubtract(x) - ToSubtract(task[t])) - (ToSubtract(deleter') - ToSubtract(deleter)) = 0
      BY <1>2, <1>4, <1>5, <2>3, <3>1, <3>2, <3>3
    <3> QED  BY <1>3, <1>4, <2>3, <2>4, <3>1, <3>4, TaskKeeps, WrapsNothing
  <2> QED  BY <2>5, <2>6
<1> QED  BY <1>7, <1>8

LEMMA SubtractKeeps ==
  ASSUME IInv, NEW t \in Tasks, SubtractEvicted(t)
  PROVE  IInv'
<1> DEFINE n == task[t].freed
           m == SaturatingMinus(task[t].current, n)
           x == [task[t] EXCEPT !.pc = "fitting", !.freed = 0, !.current = m]
<1>1. At(t, "subtract") /\ counter' = Minus(counter, n) /\ UNCHANGED <<disk, order, ram, deleter, upset>>
      /\ task' = [task EXCEPT ![t].pc = "fitting", ![t].freed = 0,
                              ![t].current = SaturatingMinus(@, task[t].freed)]
  BY DEF SubtractEvicted
<1>2. n \in Nat /\ task[t].current \in Words  BY TaskNow, Constants
<1>3. m \in Words  BY <1>2, Constants DEF SaturatingMinus, Words
<1>4. task' = [task EXCEPT ![t] = x]  BY <1>1 DEF IInv, Working, TaskRecord
<1> HIDE DEF m
<1>5. x \in TaskRecord /\ Sound(x) /\ ToAdd(x) = 0 /\ ToSubtract(x) = 0
  <2>1. 0 \in Lengths /\ "fitting" \in TaskSteps  BY Constants DEF TaskSteps
  <2> QED  BY <1>1, <1>3, <2>1, TaskNow DEF TaskRecord, Sound, ToAdd, ToSubtract, At
<1>6. ToAdd(task[t]) = 0 /\ ToSubtract(task[t]) = n  BY <1>1 DEF At, ToAdd, ToSubtract
<1> HIDE DEF x, n
<1>7. Folder /\ Others /\ Working /\ Deleting  BY DEF IInv
<1>8. counter \in Words /\ counter \in Int  BY <1>7, Constants DEF Others, Words
<1>9. counter' \in Words /\ counter' \in Int /\ Wraps(counter' - counter + n)
  BY <1>1, <1>2, <1>8, Subtracting, Constants DEF Words
<1>10. Folder' /\ Others' /\ Deleting'  BY <1>1, <1>7, <1>9 DEF Folder, Others, Deleting
<1>11. CASE upset'  BY <1>4, <1>5, <1>10, <1>11, TaskKeeps
<1>12. CASE ~upset'
  <2>1. DiskBytes' = DiskBytes /\ ToSubtract(deleter') = ToSubtract(deleter) /\ ~upset
    BY <1>1, <1>12 DEF DiskBytes, ToSubtract
  <2>2. DiskBytes \in Int /\ ToSubtract(deleter) \in Int  BY <1>7, SumsAreNumbers
  <2>3. counter' - counter + (ToAdd(x) - ToAdd(task[t])) - (DiskBytes' - DiskBytes)
          - (ToSubtract(x) - ToSubtract(task[t])) - (ToSubtract(deleter') - ToSubtract(deleter))
        = counter' - counter + n
    BY <1>2, <1>5, <1>6, <1>8, <1>9, <2>1, <2>2
  <2> QED  BY <1>4, <1>5, <1>9, <1>10, <2>1, <2>3, TaskKeeps
<1> QED  BY <1>11, <1>12

LEMMA RenameKeeps ==
  ASSUME IInv, NEW t \in Tasks, RenameToDisk(t) \/ RenameToRam(t)
  PROVE  IInv'
<1> DEFINE c == task[t].chapter
           s == task[t].size
           x == [task[t] EXCEPT !.pc = "adding", !.current = 0]
<1>1. At(t, "fitting") /\ UNCHANGED <<counter, deleter>>
      /\ task' = [task EXCEPT ![t].pc = "adding", ![t].current = 0]
  BY DEF RenameToDisk, RenameToRam
<1>2. c \in Chapters /\ s \in Lengths /\ s # 0 /\ s \in Nat
  BY <1>1, TaskNow, Constants DEF Sound, At
<1>3. task' = [task EXCEPT ![t] = x]  BY <1>1 DEF IInv, Working, TaskRecord
<1>4. x \in TaskRecord /\ Sound(x) /\ ToAdd(x) = s /\ ToSubtract(x) = 0
  <2>1. 0 \in Words /\ "adding" \in TaskSteps  BY Constants DEF Words, TaskSteps
  <2> QED  BY <1>1, <2>1, TaskNow DEF TaskRecord, Sound, ToAdd, ToSubtract, At
<1>5. ToAdd(task[t]) = 0 /\ ToSubtract(task[t]) = 0  BY <1>1 DEF At, ToAdd, ToSubtract
<1> HIDE DEF x, c, s
<1>6. Folder /\ Others /\ Working /\ Deleting  BY DEF IInv
<1>7. CASE RenameToRam(t)
  <2>1. UNCHANGED <<disk, order>> /\ upset' = TRUE /\ ram' = [ram EXCEPT ![c] = s]
    BY <1>7 DEF RenameToRam, c, s
  <2>2. Folder' /\ Others' /\ Deleting'  BY <1>1, <1>2, <1>6, <2>1 DEF Folder, Others, Deleting
  <2> QED  BY <1>3, <1>4, <2>1, <2>2, TaskKeeps
<1>8. CASE RenameToDisk(t)
  <2>1. disk' = [disk EXCEPT ![c] = s] /\ order' = Append(Without(order, c), c) /\ UNCHANGED ram
        /\ upset' = (upset \/ disk[c] # 0)
    BY <1>8 DEF RenameToDisk, Stored, c, s
  <2>2. Folder' /\ DiskBytes' = DiskBytes + s - disk[c]  BY <1>2, <1>6, <2>1, OneFile
  <2>3. Others' /\ Deleting'  BY <1>1, <1>6, <2>1 DEF Others, Deleting
  <2>4. CASE upset'  BY <1>3, <1>4, <2>2, <2>3, <2>4, TaskKeeps
  <2>5. CASE ~upset'
    <3>1. ~upset /\ disk[c] = 0  BY <2>1, <2>5
    <3>2. DiskBytes \in Int /\ counter \in Int /\ ToSubtract(deleter) \in Int
      BY <1>6, SumsAreNumbers, Constants DEF Others, Words
    <3>3. counter' = counter /\ ToSubtract(deleter') = ToSubtract(deleter)  BY <1>1 DEF ToSubtract
    <3>4. counter' - counter + (ToAdd(x) - ToAdd(task[t])) - (DiskBytes' - DiskBytes)
            - (ToSubtract(x) - ToSubtract(task[t])) - (ToSubtract(deleter') - ToSubtract(deleter)) = 0
      BY <1>2, <1>4, <1>5, <2>2, <3>1, <3>2, <3>3
    <3> QED  BY <1>3, <1>4, <2>2, <2>3, <3>1, <3>4, TaskKeeps, WrapsNothing
  <2> QED  BY <2>4, <2>5
<1> QED  BY <1>7, <1>8

LEMMA AddKeeps ==
  ASSUME IInv, NEW t \in Tasks, AddStored(t)
  PROVE  IInv'
<1> DEFINE c == task[t].chapter
           n == IF task[t].ram THEN ram[c] ELSE disk[c]
<1>1. At(t, "adding") /\ counter' = Plus(counter, n) /\ upset' = (upset \/ n # task[t].size)
      /\ task' = [task EXCEPT ![t] = NoTask] /\ UNCHANGED <<disk, order, ram, deleter>>
  BY DEF AddStored
<1>2. Folder /\ Others /\ Working /\ Deleting  BY DEF IInv
<1>3. n \in Nat
  <2>1. c \in Chapters  BY <1>1, TaskNow DEF Sound, At
  <2>2. ram[c] \in Lengths /\ disk[c] \in Lengths  BY <1>2, <2>1 DEF Folder, Others
  <2> QED  BY <2>2, Constants
<1>4. ToAdd(task[t]) = task[t].size /\ ToSubtract(task[t]) = 0  BY <1>1 DEF At, ToAdd, ToSubtract
<1> HIDE DEF c, n
<1>5. counter \in Words /\ counter \in Int  BY <1>2, Constants DEF Others, Words
<1>6. counter' \in Words /\ counter' \in Int /\ Wraps(counter' - counter - n)
  BY <1>1, <1>3, <1>5, AddingWord, Constants DEF Words
<1>7. upset' \in BOOLEAN
  <2>1. upset \in BOOLEAN  BY <1>2 DEF Others
  <2> QED  BY <1>1, <2>1
<1>8. Folder' /\ Others' /\ Deleting'  BY <1>1, <1>2, <1>6, <1>7 DEF Folder, Others, Deleting
<1>9. CASE upset'  BY <1>1, <1>8, <1>9, NoTaskSound, TaskKeeps
<1>10. CASE ~upset'
  <2>1. ~upset /\ ToAdd(task[t]) = n  BY <1>1, <1>4, <1>10
  <2>2. DiskBytes' = DiskBytes /\ ToSubtract(deleter') = ToSubtract(deleter)
    BY <1>1 DEF DiskBytes, ToSubtract
  <2>3. DiskBytes \in Int /\ ToSubtract(deleter) \in Int  BY <1>2, SumsAreNumbers
  <2>4. counter' - counter + (ToAdd(NoTask) - ToAdd(task[t])) - (DiskBytes' - DiskBytes)
          - (ToSubtract(NoTask) - ToSubtract(task[t])) - (ToSubtract(deleter') - ToSubtract(deleter))
        = counter' - counter - n
    BY <1>3, <1>4, <1>5, <1>6, <2>1, <2>2, <2>3, NoTaskSound
  <2> QED  BY <1>1, <1>6, <1>8, <2>1, <2>4, NoTaskSound, TaskKeeps
<1> QED  BY <1>9, <1>10

-----------------------------------------------------------------------------
(* Deletions, the tmpfs and restarts.                                       *)

\* A step of the delete request.
LEMMA DeleterKeeps ==
  ASSUME IInv, UNCHANGED task, Folder', Others', Deleting',
         upset' \/ (/\ ~upset
                    /\ Wraps(counter' - counter - (DiskBytes' - DiskBytes)
                               - (ToSubtract(deleter') - ToSubtract(deleter))))
  PROVE  IInv'
<1>1. Folder /\ Working /\ Deleting  BY DEF IInv
<1>2. Adding' = Adding /\ Removed' = Removed /\ Working'
  BY <1>1 DEF Adding, Removed, Working, ToAdd, ToSubtract
<1>3. Adding \in Int /\ Removed \in Int  BY <1>1, SumsAreNumbers
<1>4. CASE upset'  BY <1>2, <1>4, BalanceKeeps
<1>5. CASE ~upset'
  <2>1. counter' - counter \in Int
    BY Constants DEF IInv, Others, Words
  <2>2. counter' - counter + (Adding' - Adding) - (DiskBytes' - DiskBytes) - (Removed' - Removed)
          - (ToSubtract(deleter') - ToSubtract(deleter))
        = counter' - counter - (DiskBytes' - DiskBytes) - (ToSubtract(deleter') - ToSubtract(deleter))
    <3> DEFINE a == counter' - counter
               d == DiskBytes' - DiskBytes
               e == ToSubtract(deleter') - ToSubtract(deleter)
    <3>1. Adding' - Adding = 0 /\ Removed' - Removed = 0  BY <1>2, <1>3
    <3>2. d \in Int
      <4> DEFINE f == disk'
      <4>1. \A n \in Lengths : n \in Int  BY Constants
      <4>2. f \in [Chapters -> Int]  BY <4>1 DEF Folder
      <4>3. DiskBytes' = SumFunction(f)  BY DEF DiskBytes
      <4> HIDE DEF f
      <4>4. SumFunction(f) \in Int  BY <4>2, SumNumber, Constants
      <4>5. DiskBytes \in Int  BY <1>1, SumsAreNumbers
      <4> QED  BY <4>3, <4>4, <4>5
    <3>3. a \in Int  BY <2>1
    <3>5. e \in Int
      <4>1. \A n \in Lengths : n \in Int  BY Constants
      <4> QED  BY <1>1, <4>1 DEF Deleting, ToSubtract
    <3> HIDE DEF a, d, e
    <3>4. a + (Adding' - Adding) - d - (Removed' - Removed) - e = a - d - e  BY <3>1, <3>2, <3>3, <3>5
    <3> USE DEF a, d, e
    <3> QED  BY <3>4
  <2> QED  BY <1>2, <1>5, <2>2, BalanceKeeps
<1> QED  BY <1>4, <1>5

LEMMA DeleteNow ==
  ASSUME IInv
  PROVE  /\ Folder /\ Others /\ Deleting /\ upset \in BOOLEAN /\ counter \in Words /\ counter \in Int
         /\ DiskBytes \in Int /\ ToSubtract(deleter) \in Int /\ deleter.freed \in Nat
<1>1. Folder /\ Others /\ Working /\ Deleting  BY DEF IInv
<1>2. upset \in BOOLEAN /\ counter \in Words /\ counter \in Int  BY <1>1, Constants DEF Others, Words
<1>3. DiskBytes \in Int /\ ToSubtract(deleter) \in Int  BY <1>1, SumsAreNumbers
<1>4. deleter.freed \in Nat
  <2>1. \A n \in Lengths : n \in Nat  BY Constants
  <2> QED  BY <1>1, <2>1 DEF Deleting
<1> QED  BY <1>1, <1>2, <1>3, <1>4

LEMMA NoDeleteSound ==
  /\ NoDelete \in [pc : {"idle", "removing", "subtract"}, chapter : Chapters \cup {NoChapter},
                   freed : Lengths]
  /\ NoDelete.pc = "idle" /\ ToSubtract(NoDelete) = 0
BY Constants DEF NoDelete, ToSubtract

\* A deletion is counted as it is found: what has been removed is subtracted later.
LEMMA DeletionKeeps ==
  ASSUME IInv, (\E c \in Chapters : DeleteStat(c)) \/ DeleteRemove \/ DeleteSubtract \/ DeleteDropped
  PROVE  IInv'
<1>1. UNCHANGED <<task, ram>>  BY DEF DeleteStat, DeleteRemove, DeleteSubtract, DeleteDropped
<1>2. CASE \E c \in Chapters : DeleteStat(c)
  <2>1. PICK c \in Chapters : DeleteStat(c)  BY <1>2
  <2>2. /\ deleter.pc = "idle" /\ deleter' = [pc |-> "removing", chapter |-> c, freed |-> disk[c]]
        /\ UNCHANGED <<disk, order, counter, upset>>
    BY <2>1 DEF DeleteStat
  <2>3. disk[c] \in Lengths  BY DeleteNow DEF Folder
  <2>4. Deleting'  BY <2>2, <2>3 DEF Deleting
  <2>5. Folder' /\ Others' /\ DiskBytes' = DiskBytes  BY <1>1, <2>2, DeleteNow DEF Folder, Others, DiskBytes
  <2>6. ToSubtract(deleter') = 0 /\ ToSubtract(deleter) = 0  BY <2>2 DEF ToSubtract
  <2>7. counter' - counter - (DiskBytes' - DiskBytes) - (ToSubtract(deleter') - ToSubtract(deleter)) = 0
    BY <2>2, <2>5, <2>6, DeleteNow
  <2>8. upset' \/ ~upset  BY <2>2
  <2> QED  BY <1>1, <2>4, <2>5, <2>7, <2>8, DeleterKeeps, WrapsNothing
<1>3. CASE DeleteRemove
  <2> DEFINE c == deleter.chapter
  <2>1. deleter.pc = "removing" /\ UNCHANGED counter  BY <1>3 DEF DeleteRemove
  <2>2. c \in Chapters /\ ToSubtract(deleter) = 0  BY <2>1, DeleteNow DEF Deleting, ToSubtract
  <2>3. CASE disk[c] # 0
    <3>1. /\ disk' = [disk EXCEPT ![c] = 0] /\ order' = Without(order, c)
          /\ deleter' = [deleter EXCEPT !.pc = "subtract"] /\ upset' = (upset \/ disk[c] # deleter.freed)
      BY <1>3, <2>3 DEF DeleteRemove, Stored, Unlink
    <3>2. Deleting' /\ ToSubtract(deleter') = deleter.freed
      BY <2>1, <2>2, <3>1, DeleteNow DEF Deleting, ToSubtract
    <3>3. 0 \in Lengths  BY Constants
    <3> HIDE DEF c
    <3>4. Folder' /\ DiskBytes' = DiskBytes + 0 - disk[c]  BY <2>2, <3>1, <3>3, DeleteNow, OneFile
    <3>5. Others'  BY <1>1, <2>1, <3>1, DeleteNow DEF Others
    <3>6. CASE upset'  BY <1>1, <3>2, <3>4, <3>5, <3>6, DeleterKeeps
    <3>7. CASE ~upset'
      <4>1. ~upset /\ disk[c] = deleter.freed  BY <3>1, <3>7
      <4>2. counter' - counter - (DiskBytes' - DiskBytes) - (ToSubtract(deleter') - ToSubtract(deleter)) = 0
        BY <2>1, <2>2, <3>2, <3>4, <4>1, DeleteNow
      <4> QED  BY <1>1, <3>2, <3>4, <3>5, <4>1, <4>2, DeleterKeeps, WrapsNothing
    <3> QED  BY <3>6, <3>7
  <2>4. CASE disk[c] = 0
    <3>1. deleter' = NoDelete /\ UNCHANGED <<disk, order, upset>>
      BY <1>3, <2>4 DEF DeleteRemove, Stored
    <3>2. Deleting' /\ ToSubtract(deleter') = 0  BY <3>1, NoDeleteSound DEF Deleting
    <3>3. Folder' /\ Others' /\ DiskBytes' = DiskBytes
      BY <1>1, <2>1, <3>1, DeleteNow DEF Folder, Others, DiskBytes
    <3>4. counter' - counter - (DiskBytes' - DiskBytes) - (ToSubtract(deleter') - ToSubtract(deleter)) = 0
      BY <2>1, <2>2, <3>2, <3>3, DeleteNow
    <3>5. upset' \/ ~upset  BY <3>1
    <3> QED  BY <1>1, <3>2, <3>3, <3>4, <3>5, DeleterKeeps, WrapsNothing
  <2> QED  BY <2>3, <2>4
<1>4. CASE DeleteSubtract
  <2>1. /\ deleter.pc = "subtract" /\ counter' = Minus(counter, deleter.freed)
        /\ deleter' = NoDelete /\ UNCHANGED <<disk, order, upset>>
    BY <1>4 DEF DeleteSubtract
  <2>2. ToSubtract(deleter) = deleter.freed /\ ToSubtract(deleter') = 0 /\ Deleting'
    BY <2>1, NoDeleteSound DEF Deleting, ToSubtract
  <2>3. counter' \in Words /\ counter' \in Int /\ Wraps(counter' - counter + deleter.freed)
    <3>1. counter \in Words /\ deleter.freed \in Nat  BY DeleteNow
    <3>2. counter' \in Words /\ Wraps(counter' - counter + deleter.freed)  BY <2>1, <3>1, Subtracting
    <3> QED  BY <3>2, Constants DEF Words
  <2>4. Folder' /\ Others' /\ DiskBytes' = DiskBytes
    BY <1>1, <2>1, <2>3, DeleteNow DEF Folder, Others, DiskBytes
  <2>5. counter' - counter - (DiskBytes' - DiskBytes) - (ToSubtract(deleter') - ToSubtract(deleter))
        = counter' - counter + deleter.freed
    BY <2>2, <2>3, <2>4, DeleteNow
  <2>6. upset' \/ ~upset  BY <2>1
  <2> QED  BY <1>1, <2>2, <2>3, <2>4, <2>5, <2>6, DeleterKeeps
<1>5. CASE DeleteDropped
  <2>1. /\ deleter' = NoDelete /\ upset' = (upset \/ deleter.pc = "subtract")
        /\ UNCHANGED <<disk, order, counter>>
    BY <1>5 DEF DeleteDropped
  <2>2. ToSubtract(deleter') = 0 /\ Deleting'  BY <2>1, NoDeleteSound DEF Deleting
  <2>3. upset' \in BOOLEAN  BY <2>1, DeleteNow
  <2>4. Folder' /\ Others' /\ DiskBytes' = DiskBytes
    BY <1>1, <2>1, <2>3, DeleteNow DEF Folder, Others, DiskBytes
  <2>5. CASE upset'  BY <1>1, <2>2, <2>4, <2>5, DeleterKeeps
  <2>6. CASE ~upset'
    <3>1. ~upset /\ ToSubtract(deleter) = 0  BY <2>1, <2>6 DEF ToSubtract
    <3>2. counter' - counter - (DiskBytes' - DiskBytes) - (ToSubtract(deleter') - ToSubtract(deleter)) = 0
      BY <2>1, <2>2, <2>4, <3>1, DeleteNow
    <3> QED  BY <1>1, <2>2, <2>4, <3>1, <3>2, DeleterKeeps, WrapsNothing
  <2> QED  BY <2>5, <2>6
<1> QED  BY <1>2, <1>3, <1>4, <1>5

LEMMA EvictRamKeeps ==
  ASSUME IInv, NEW c \in Chapters, EvictRam(c)
  PROVE  IInv'
<1>1. ram' = [ram EXCEPT ![c] = 0] /\ UNCHANGED <<disk, order, counter, task, deleter, upset>>
  BY DEF EvictRam
<1>2. Folder' /\ Others' /\ Deleting' /\ DiskBytes' = DiskBytes /\ ToSubtract(deleter') = ToSubtract(deleter)
  BY <1>1, DeleteNow, Constants DEF Folder, Others, Deleting, DiskBytes, ToSubtract
<1>3. counter' - counter - (DiskBytes' - DiskBytes) - (ToSubtract(deleter') - ToSubtract(deleter)) = 0
  BY <1>1, <1>2, DeleteNow
<1>4. upset' \/ ~upset  BY <1>1
<1> QED  BY <1>1, <1>2, <1>3, <1>4, DeleterKeeps, WrapsNothing

\* Nothing is on its way to the counter when no task runs.
LEMMA NothingPending ==
  SumFunction([t \in Tasks |-> ToAdd([u \in Tasks |-> NoTask][t])]) = 0
  /\ SumFunction([t \in Tasks |-> ToSubtract([u \in Tasks |-> NoTask][t])]) = 0
<1>1. \A t \in Tasks : ToAdd([u \in Tasks |-> NoTask][t]) = 0 /\ ToSubtract([u \in Tasks |-> NoTask][t]) = 0
  BY NoTaskSound
<1>2. [t \in Tasks |-> ToAdd([u \in Tasks |-> NoTask][t])] = [t \in Tasks |-> 0]
      /\ [t \in Tasks |-> ToSubtract([u \in Tasks |-> NoTask][t])] = [t \in Tasks |-> 0]
  BY <1>1
<1>3. SumFunction([t \in Tasks |-> 0]) = 0  BY SumZero, Constants
<1> QED  BY <1>2, <1>3

\* The counter of a new process is that of the files it finds.
LEMMA RestartKeeps ==
  ASSUME IInv, Restart
  PROVE  IInv'
<1>1. /\ task' = [t \in Tasks |-> NoTask] /\ deleter' = NoDelete /\ counter' = DiskBytes % WordSize
      /\ upset' = FALSE /\ UNCHANGED <<disk, order, ram>>
  BY DEF Restart
<1>2. Working'  BY <1>1, NoTaskSound DEF Working
<1>3. Deleting' /\ ToSubtract(deleter') = 0  BY <1>1, NoDeleteSound DEF Deleting
<1>4. DiskBytes \in Nat  BY SumsAreNumbers DEF IInv
<1>5. counter' \in Words /\ Wraps(counter' - DiskBytes)  BY <1>1, <1>4, Remainder
<1>6. Folder' /\ Others' /\ DiskBytes' = DiskBytes
  BY <1>1, <1>5, DeleteNow DEF Folder, Others, DiskBytes
<1>7. Adding' = 0 /\ Removed' = 0
  BY <1>1, NothingPending DEF Adding, Removed, ToAdd, ToSubtract
<1>8. counter' \in Int  BY <1>5, Constants DEF Words
<1>9. counter' + Adding' - DiskBytes' - Removed' - ToSubtract(deleter') = counter' - DiskBytes
  BY <1>3, <1>4, <1>6, <1>7, <1>8
<1>10. Balanced'
  <2>1. Wraps(counter' + Adding' - DiskBytes' - Removed' - ToSubtract(deleter'))  BY <1>5, <1>9
  <2> QED  BY <2>1 DEF Balanced, Wraps
<1> QED  BY <1>2, <1>3, <1>6, <1>10 DEF IInv

-----------------------------------------------------------------------------
(* The invariant holds.                                                     *)

LEMMA InitIInv == Init => IInv
<1> SUFFICES ASSUME Init PROVE IInv  OBVIOUS
<1>1. /\ disk = [c \in Chapters |-> 0] /\ order = <<>> /\ ram = [c \in Chapters |-> 0]
      /\ counter = 0 /\ task = [t \in Tasks |-> NoTask] /\ deleter = NoDelete /\ upset = FALSE
  BY DEF Init
<1>2. <<>> \in Seq(Chapters) /\ Line(<<>>, Chapters) /\ ToSet(<<>>) = {}
  <2>1. <<>> \in Seq(Chapters) /\ Len(<<>>) = 0 /\ DOMAIN <<>> = {}  BY EmptySeq
  <2> QED  BY <2>1 DEF Line, Distinct, ToSet
<1>3. Folder  BY <1>1, <1>2, Constants DEF Folder
<1>4. Others
  <2>1. 0 \in Words /\ 0 \in Lengths  BY Constants DEF Words
  <2> QED  BY <1>1, <2>1 DEF Others
<1>5. Working  BY <1>1, NoTaskSound DEF Working
<1>6. Deleting /\ ToSubtract(deleter) = 0  BY <1>1, NoDeleteSound DEF Deleting
<1>7. Adding = 0 /\ Removed = 0  BY <1>1, NothingPending DEF Adding, Removed
<1>8. DiskBytes = 0  BY <1>1, SumZero, Constants DEF DiskBytes
<1>9. counter + Adding - DiskBytes - Removed - ToSubtract(deleter) = 0  BY <1>1, <1>6, <1>7, <1>8
<1> QED  BY <1>3, <1>4, <1>5, <1>6, <1>9, WrapsNothing DEF IInv, Balanced

LEMMA NextKeeps == IInv /\ [Next]_vars => IInv'
<1> SUFFICES ASSUME IInv, [Next]_vars PROVE IInv'  OBVIOUS
<1>1. ASSUME NEW t \in Tasks, Persist(t) PROVE IInv'
  BY <1>1, BeginKeeps, ChooseKeeps, GivesUpKeeps, RemoveKeeps, SubtractKeeps, RenameKeeps, AddKeeps
  DEF Persist
<1>2. ASSUME NEW t \in Tasks, DownloadFails(t) \/ AbortTask(t) PROVE IInv'  BY <1>2, GivesUpKeeps
<1>3. ASSUME NEW t \in Tasks, NEW c \in Chapters, NEW r \in RamModes, StartDownload(t, c, r) PROVE IInv'
  BY <1>3, StartKeeps
<1>4. ASSUME NEW c \in Chapters, DeleteStat(c) \/ EvictRam(c) PROVE IInv'
  BY <1>4, DeletionKeeps, EvictRamKeeps
<1>5. CASE DeleteRemove \/ DeleteSubtract \/ DeleteDropped  BY <1>5, DeletionKeeps
<1>6. CASE UNCHANGED vars
  <2>1. UNCHANGED <<disk, order, ram, counter, task, deleter, upset>>  BY <1>6 DEF vars
  <2>2. Folder' /\ Others' /\ Deleting' /\ DiskBytes' = DiskBytes
        /\ ToSubtract(deleter') = ToSubtract(deleter)
    BY <2>1, DeleteNow DEF Folder, Others, Deleting, DiskBytes, ToSubtract
  <2>3. counter' - counter - (DiskBytes' - DiskBytes) - (ToSubtract(deleter') - ToSubtract(deleter)) = 0
    BY <2>1, <2>2, DeleteNow
  <2>4. upset' \/ ~upset  BY <2>1
  <2> QED  BY <2>1, <2>2, <2>3, <2>4, DeleterKeeps, WrapsNothing
<1> QED  BY <1>1, <1>2, <1>3, <1>4, <1>5, <1>6, RestartKeeps DEF Next

LEMMA Invariance == Spec => []IInv
BY InitIInv, NextKeeps, PTL DEF Spec

-----------------------------------------------------------------------------
\* No counter or copy of it leaves its word, and a task works on files of the folder only.
THEOREM TypeCorrect == Spec => []TypeOK
<1>1. IInv => TypeOK
  BY DEF IInv, Folder, Others, Working, Deleting, TypeOK, TaskRecord, Line
<1> QED  BY <1>1, Invariance, PTL

\* At rest the counter is the size of the folder, whatever downloads, evictions, deletions,
\* aborts and restarts have overlapped, unless one of the events has come that set upset.
THEOREM CounterIsExact == Spec => []CounterExactUnlessUpset
<1>1. IInv => CounterExactUnlessUpset
  <2> SUFFICES ASSUME IInv, ~upset, AtRest PROVE counter = DiskBytes
    BY DEF CounterExactUnlessUpset
  <2>1. Folder /\ Others /\ Working /\ Deleting /\ Balanced  BY DEF IInv
  <2>2. Adding = 0 /\ Removed = 0
    <3>1. \A t \in Tasks : ToAdd(task[t]) = 0 /\ ToSubtract(task[t]) = 0
      BY DEF AtRest, At, ToAdd, ToSubtract
    <3>2. [t \in Tasks |-> ToAdd(task[t])] = [t \in Tasks |-> 0]
          /\ [t \in Tasks |-> ToSubtract(task[t])] = [t \in Tasks |-> 0]
      BY <3>1
    <3>3. SumFunction([t \in Tasks |-> 0]) = 0  BY SumZero, Constants
    <3> QED  BY <3>2, <3>3 DEF Adding, Removed
  <2>3. ToSubtract(deleter) = 0  BY NoDeleteSound DEF AtRest
  <2>4. counter \in Nat /\ counter < WordSize /\ WordSize \in Nat
    BY <2>1, Constants DEF Others, Words
  <2>5. DiskBytes \in Nat /\ DiskBytes < WordSize
    <3>1. disk \in [Chapters -> Sizes \cup {0}]  BY <2>1 DEF Folder, Lengths
    <3>2. SumFunction(disk) < WordSize  BY <3>1, DiskAssumption
    <3> QED  BY <2>1, <3>2, SumsAreNumbers DEF DiskBytes
  <2>6. Wraps(counter + Adding - DiskBytes - Removed - ToSubtract(deleter))  BY <2>1 DEF Balanced
  <2>7. counter + Adding - DiskBytes - Removed - ToSubtract(deleter) = counter - DiskBytes
    BY <2>2, <2>3, <2>4, <2>5
  <2>8. Wraps(counter - DiskBytes)  BY <2>6, <2>7
  <2>9. counter - DiskBytes = 0
    <3> DEFINE n == counter - DiskBytes
    <3>1. n \in Int /\ n < WordSize /\ 0 - n < WordSize /\ Wraps(n)  BY <2>4, <2>5, <2>8
    <3> HIDE DEF n
    <3>2. n = 0  BY <3>1, WrapsNothing
    <3> QED  BY <3>2 DEF n
  <2> QED  BY <2>4, <2>5, <2>9
<1> QED  BY <1>1, Invariance, PTL

\* What eviction chooses among is the files of the folder, each once, whatever tasks and
\* requests have renamed and removed (find_least_recently_modified_chapter reads the folder).
THEOREM CandidatesAreTheFiles ==
  Spec => [](Distinct(order) /\ ToSet(order) = {c \in Chapters : Stored(c)})
<1>1. IInv => Distinct(order) /\ ToSet(order) = {c \in Chapters : Stored(c)}
  BY DEF IInv, Folder, Line, Stored
<1> QED  BY <1>1, Invariance, PTL

-----------------------------------------------------------------------------
(* How far overlapping downloads pass the limit.                            *)

\* The word has room for the folder and for what is on its way out of the counter.
WordIsRoomy ==
  \A lengths \in [Chapters -> Sizes \cup {0}] :
    SumFunction(lengths) + (Cardinality(Tasks) + 1) * Max(Sizes) < WordSize \div 2

\* The tasks that work with a copy of the counter, and what their copies are off by: a copy
\* that has wrapped counts for nothing, and what has been removed is still to be taken off it.
Holds(x) == x.pc \in {"fitting", "measuring", "removing", "subtract"}
Holding == {t \in Tasks : Holds(task[t])}
Credit(x) == IF x.current >= WordSize \div 2 THEN 0 ELSE x.current
Owed(x) == ToSubtract(x) - Credit(x)

\* A copy that has wrapped fits at once.
Patient == \A t \in Tasks : task[t].pc \in {"measuring", "removing", "subtract"} => ~Beyond(t)

\* Room for one chapter of each task but one and k others.
Room(k) == (Cardinality(Tasks) - 1 - k) * Max(Sizes)

\* The copies were taken in the order of age, and line is the age of the latest one whose
\* file has come.  The tasks before it may still add a chapter each to what the limit
\* allowed then; a later one knows all but the files of the tasks that were at it before.
Older(age, t) == {u \in Holding : age[u] < age[t]}
Before(age, line) == {u \in Holding : age[u] < line}

Ordered(age, line) ==
  /\ \A t, u \in Holding : age[t] = age[u] => t = u
  /\ Before(age, line) # {} => DiskBytes <= LargestFill + Room(Cardinality(Before(age, line)))
  /\ \A t \in Holding :
       age[t] >= line => DiskBytes + Owed(task[t]) <= Room(Cardinality(Older(age, t)))

Filling == upset \/ \E age \in [Tasks -> Nat], line \in Nat : Ordered(age, line)

FillInv == IInv /\ Patient /\ Filling

LEMMA Rooms ==
  /\ Max(Sizes) \in Nat /\ LargestFill \in Nat /\ Limit \in Nat
  /\ Max(Sizes) <= LargestFill /\ Limit <= LargestFill /\ \A s \in Lengths : s <= Max(Sizes)
  /\ Cardinality(Tasks) \in Nat
  /\ \A k \in Int : Room(k) \in Int /\ Room(k - 1) = Room(k) + Max(Sizes)
  /\ \A j, k \in Int : j <= k => Room(k) <= Room(j)
<1>1. Limit \in Nat /\ Sizes \subseteq Nat /\ Sizes # {} /\ IsFiniteSet(Sizes)
  BY StorageConstants
<1>2. Max(Sizes) \in Sizes /\ \A s \in Sizes : s <= Max(Sizes)
  <2>1. Sizes \in SUBSET Int  BY <1>1
  <2> QED  BY <1>1, <2>1, MaxOfSet
<1> DEFINE m == Max(Sizes)
           P == {Limit, m}
           n == Cardinality(Tasks)
<1>3. m \in Nat  BY <1>1, <1>2
<1>4. LargestFill \in Nat /\ Limit <= LargestFill /\ m <= LargestFill
  <2>1. IsFiniteSet(P)
    <3>1. IsFiniteSet({Limit}) /\ {Limit} \cup {m} = P  BY FS_Singleton
    <3> QED  BY <3>1, FS_AddElement
  <2>2. P \in SUBSET Int /\ P # {} /\ Limit \in P /\ m \in P /\ P \subseteq Nat  BY <1>1, <1>3
  <2>3. LargestFill = Max(P)  BY DEF LargestFill
  <2> HIDE DEF P
  <2> QED  BY <2>1, <2>2, <2>3, MaxOfSet
<1>5. n \in Nat  BY Constants, FS_CardinalityType
<1>6. \A k \in Int : Room(k) = (n - 1 - k) * m  BY DEF Room
<1>7. \A s \in Lengths : s <= m  BY <1>2, <1>3 DEF Lengths
<1> HIDE DEF m, n
<1>8. ASSUME NEW k \in Int PROVE Room(k) \in Int /\ Room(k - 1) = Room(k) + m
  <2>1. Room(k) = (n - 1 - k) * m /\ Room(k - 1) = (n - 1 - (k - 1)) * m  BY <1>6
  <2>2. (n - 1 - (k - 1)) * m = (n - 1 - k) * m + m  BY <1>3, <1>5
  <2> QED  BY <1>3, <1>5, <2>1, <2>2
<1>9. ASSUME NEW j \in Int, NEW k \in Int, j <= k PROVE Room(k) <= Room(j)
  <2>1. (n - 1 - j) * m = (n - 1 - k) * m + (k - j) * m  BY <1>3, <1>5
  <2>2. (k - j) * m >= 0
    <3>1. k - j \in Nat  BY <1>9
    <3> QED  BY <1>3, <3>1
  <2>3. (n - 1 - j) * m \in Int /\ (n - 1 - k) * m \in Int /\ (k - j) * m \in Int  BY <1>3, <1>5
  <2> QED  BY <1>6, <2>1, <2>2, <2>3
<1> QED  BY <1>1, <1>3, <1>4, <1>5, <1>7, <1>8, <1>9 DEF m, n

\* Numbers of tasks.
LEMMA Counting ==
  /\ \A S \in SUBSET Tasks : IsFiniteSet(S) /\ Cardinality(S) \in Nat
  /\ \A S, T \in SUBSET Tasks : S \subseteq T => Cardinality(S) <= Cardinality(T)
  /\ \A S \in SUBSET Tasks : \A t \in S : Cardinality(S \ {t}) = Cardinality(S) - 1
  /\ \A S \in SUBSET Tasks : Cardinality(S) = 0 => S = {}
<1>1. \A S \in SUBSET Tasks : IsFiniteSet(S)  BY Constants, FS_Subset
<1>2. \A S \in SUBSET Tasks : Cardinality(S) \in Nat  BY <1>1, FS_CardinalityType
<1>3. \A S, T \in SUBSET Tasks : S \subseteq T => Cardinality(S) <= Cardinality(T)
  BY <1>1, FS_Subset
<1>4. \A S \in SUBSET Tasks : \A t \in S : Cardinality(S \ {t}) = Cardinality(S) - 1
  BY <1>1, FS_RemoveElement
<1>5. \A S \in SUBSET Tasks : Cardinality(S) = 0 => S = {}  BY <1>1, FS_EmptySet
<1> QED  BY <1>1, <1>2, <1>3, <1>4, <1>5

\* Fewer tasks have more room.
LEMMA RoomOf ==
  /\ Room(0) \in Int /\ \A S \in SUBSET Tasks : Room(Cardinality(S)) \in Int
  /\ \A S, T \in SUBSET Tasks : S \subseteq T => Room(Cardinality(T)) <= Room(Cardinality(S))
  /\ \A S \in SUBSET Tasks : Room(Cardinality(S)) <= Room(0)
  /\ \A S \in SUBSET Tasks : \A t \in S :
       Room(Cardinality(S \ {t})) = Room(Cardinality(S)) + Max(Sizes)
<1>1. \A S \in SUBSET Tasks : Cardinality(S) \in Int /\ 0 <= Cardinality(S)  BY Counting
<1>2. Room(0) \in Int /\ \A S \in SUBSET Tasks : Room(Cardinality(S)) \in Int
  <2>1. \A k \in Int : Room(k) \in Int  BY Rooms
  <2>2. Room(0) \in Int  BY <2>1
  <2> QED  BY <1>1, <2>1, <2>2
<1>3. ASSUME NEW S \in SUBSET Tasks, NEW T \in SUBSET Tasks, S \subseteq T
      PROVE  Room(Cardinality(T)) <= Room(Cardinality(S))
  <2>1. Cardinality(S) <= Cardinality(T)  BY <1>3, Counting
  <2> QED  BY <1>1, <2>1, Rooms
<1>4. ASSUME NEW S \in SUBSET Tasks PROVE Room(Cardinality(S)) <= Room(0)
  <2>1. \A j, k \in Int : j <= k => Room(k) <= Room(j)  BY Rooms
  <2> DEFINE k == Cardinality(S)
  <2>2. k \in Int /\ 0 <= k /\ 0 \in Int  BY <1>1
  <2> HIDE DEF k
  <2>3. Room(k) <= Room(0)  BY <2>1, <2>2
  <2> QED  BY <2>3 DEF k
<1>5. ASSUME NEW S \in SUBSET Tasks, NEW t \in S
      PROVE  Room(Cardinality(S \ {t})) = Room(Cardinality(S)) + Max(Sizes)
  <2>1. Cardinality(S \ {t}) = Cardinality(S) - 1  BY Counting
  <2> QED  BY <1>1, <2>1, Rooms
<1> QED  BY <1>2, <1>3, <1>4, <1>5

LEMMA FillNow ==
  ASSUME IInv
  PROVE  /\ DiskBytes \in Nat
         /\ \A x \in TaskRecord : /\ Credit(x) \in Nat /\ ToSubtract(x) \in Nat /\ Owed(x) \in Int
                                  /\ ToSubtract(x) <= Max(Sizes) /\ x.size <= Max(Sizes)
         /\ \A t \in Tasks : task[t] \in TaskRecord /\ Sound(task[t])
<1>1. DiskBytes \in Nat  BY SumsAreNumbers DEF IInv
<1>2. WordSize \div 2 \in Nat  BY Constants
<1>3. ASSUME NEW x \in TaskRecord
      PROVE  /\ Credit(x) \in Nat /\ ToSubtract(x) \in Nat /\ ToSubtract(x) <= Max(Sizes)
             /\ x.size <= Max(Sizes)
  <2>1. x.current \in Nat /\ x.freed \in Lengths /\ x.size \in Lengths
    <3>1. x.current \in Words /\ x.freed \in Lengths /\ x.size \in Lengths  BY DEF TaskRecord
    <3> QED  BY <3>1, Constants DEF Words
  <2>2. 0 \in Lengths /\ Lengths \subseteq Nat  BY Constants
  <2> QED  BY <2>1, <2>2, Rooms DEF Credit, ToSubtract
<1>4. \A x \in TaskRecord : Owed(x) \in Int  BY <1>3 DEF Owed
<1>5. \A t \in Tasks : task[t] \in TaskRecord /\ Sound(task[t])  BY DEF IInv, Working
<1> QED  BY <1>1, <1>3, <1>4, <1>5

\* Nobody takes a copy, and no file comes.
LEMMA Passing ==
  ASSUME IInv, NEW age \in [Tasks -> Nat], NEW line \in Nat, Ordered(age, line),
         Holding' \subseteq Holding, DiskBytes' \in Int, DiskBytes' <= DiskBytes,
         \A t \in Holding' : /\ Owed(task'[t]) \in Int
                             /\ DiskBytes' + Owed(task'[t]) <= DiskBytes + Owed(task[t])
  PROVE  Ordered(age, line)'
<1> DEFINE B == Before(age, line)
           C == {u \in Holding' : age[u] < line}
           O(t) == Older(age, t)
           P(t) == {u \in Holding' : age[u] < age[t]}
<1>1. DiskBytes \in Int /\ \A t \in Tasks : Owed(task[t]) \in Int  BY FillNow
<1>2. Holding \subseteq Tasks /\ B \in SUBSET Tasks /\ C \in SUBSET Tasks /\ C \subseteq B
      /\ \A t \in Holding : O(t) \in SUBSET Tasks /\ P(t) \in SUBSET Tasks /\ P(t) \subseteq O(t)
  BY DEF Holding, Before, Older
<1>3. Room(Cardinality(B)) <= Room(Cardinality(C)) /\ Room(Cardinality(B)) \in Int
      /\ Room(Cardinality(C)) \in Int
  BY <1>2, RoomOf
<1>4. \A t \in Holding : /\ Room(Cardinality(O(t))) <= Room(Cardinality(P(t)))
                         /\ Room(Cardinality(O(t))) \in Int /\ Room(Cardinality(P(t))) \in Int
  BY <1>2, RoomOf
<1>5. C # {} => DiskBytes' <= LargestFill + Room(Cardinality(C))
  <2>1. B # {} => DiskBytes <= LargestFill + Room(Cardinality(B))  BY DEF Ordered
  <2>2. C # {} => B # {}  BY <1>2
  <2> DEFINE j == Room(Cardinality(B))
             k == Room(Cardinality(C))
  <2>3. j \in Int /\ k \in Int /\ j <= k  BY <1>3
  <2>4. B # {} => DiskBytes <= LargestFill + j  BY <2>1
  <2> HIDE DEF B, C, j, k
  <2>5. LargestFill \in Int  BY Rooms
  <2>6. C # {} => DiskBytes' <= LargestFill + k  BY <1>1, <2>2, <2>3, <2>4, <2>5
  <2> QED  BY <2>6 DEF k
<1>6. \A t \in Holding' : age[t] >= line => DiskBytes' + Owed(task'[t]) <= Room(Cardinality(P(t)))
  <2>1. \A t \in Holding : age[t] >= line => DiskBytes + Owed(task[t]) <= Room(Cardinality(O(t)))
    BY DEF Ordered
  <2> HIDE DEF O, P
  <2> SUFFICES ASSUME NEW t \in Holding', age[t] >= line
               PROVE  DiskBytes' + Owed(task'[t]) <= Room(Cardinality(P(t)))
    OBVIOUS
  <2>2. t \in Holding /\ t \in Tasks  BY <1>2
  <2> DEFINE a == DiskBytes' + Owed(task'[t])
             b == DiskBytes + Owed(task[t])
  <2>3. a \in Int /\ b \in Int /\ a <= b  BY <1>1, <2>2
  <2>4. b <= Room(Cardinality(O(t)))  BY <2>1, <2>2
  <2> HIDE DEF a, b
  <2>5. a <= Room(Cardinality(P(t)))  BY <1>4, <2>2, <2>3, <2>4
  <2> QED  BY <2>5 DEF a
<1>7. \A t, u \in Holding' : age[t] = age[u] => t = u  BY DEF Ordered
<1>8. Before(age, line)' = C /\ \A t : Older(age, t)' = P(t)  BY DEF Before, Older
<1> HIDE DEF C, P
<1>9. Before(age, line)' # {} => DiskBytes' <= LargestFill + Room(Cardinality(Before(age, line)'))
  BY <1>5, <1>8
<1> QED  BY <1>6, <1>7, <1>8, <1>9 DEF Ordered, Room

\* The file of t comes, and what may come after it are the files of those before it.
LEMMA Coming ==
  ASSUME IInv, NEW age \in [Tasks -> Nat], NEW line \in Nat, Ordered(age, line), NEW t \in Holding,
         Holding' = Holding \ {t}, \A u \in Holding' : task'[u] = task[u],
         NEW s \in Nat, s <= Max(Sizes), DiskBytes' = DiskBytes + s,
         ToSubtract(task[t]) = 0,
         Credit(task[t]) + s <= LargestFill
  PROVE  /\ DiskBytes' <= LargestFill + Room(0)
         /\ \E l \in Nat : Ordered(age, l)'
<1> DEFINE l == IF age[t] < line THEN line ELSE age[t]
           B == {u \in Holding : age[u] < l} \ {t}
           C == {u \in Holding' : age[u] < l}
           O(u) == Older(age, u)
           P(u) == {v \in Holding' : age[v] < age[u]}
<1>1. /\ DiskBytes \in Int /\ t \in Tasks /\ Holding \subseteq Tasks /\ Holding' \subseteq Tasks
      /\ \A u \in Tasks : Owed(task[u]) \in Int /\ Credit(task[u]) \in Int /\ ToSubtract(task[u]) \in Int
  BY FillNow DEF Holding
<1>2. l \in Nat /\ age[t] <= l /\ line <= l /\ \A u \in Tasks : age[u] \in Nat  BY <1>1
<1>3. B = C /\ C \in SUBSET Tasks /\ \A u \in Tasks : O(u) \in SUBSET Tasks  BY <1>1 DEF Older
\* What t itself has known.
<1>4. DiskBytes' <= LargestFill + Room(Cardinality(C))
  <2>1. CASE age[t] < line
    <3> DEFINE D == Before(age, line)
    <3>1. t \in D /\ D \in SUBSET Tasks /\ C = D \ {t}  BY <1>1, <1>3, <2>1 DEF Before
    <3>2. DiskBytes <= LargestFill + Room(Cardinality(D))  BY <3>1 DEF Ordered
    <3> HIDE DEF D, C
    <3>4. Room(Cardinality(C)) = Room(Cardinality(D)) + Max(Sizes) /\ Room(Cardinality(D)) \in Int
      BY <3>1, RoomOf
    <3> QED  BY <1>1, <3>2, <3>4, Rooms
  <2>2. CASE age[t] >= line
    <3>1. C = O(t)
      <4>1. l = age[t] /\ t \notin O(t)  BY <1>1, <1>2, <2>2 DEF Older
      <4> QED  BY <1>1, <4>1 DEF Older
    <3>2. DiskBytes + Owed(task[t]) <= Room(Cardinality(O(t)))  BY <2>2 DEF Ordered
    <3>3. Owed(task[t]) = 0 - Credit(task[t])  BY <1>1 DEF Owed
    <3> HIDE DEF C
    <3>4. Room(Cardinality(C)) \in Int  BY <1>3, RoomOf
    <3> QED  BY <1>1, <3>1, <3>2, <3>3, <3>4, Rooms
  <2> QED  BY <1>1, <1>2, <2>1, <2>2
<1>5. Room(Cardinality(C)) <= Room(0) /\ Room(Cardinality(C)) \in Int /\ Room(0) \in Int
  BY <1>3, RoomOf
<1>6. DiskBytes' <= LargestFill + Room(0)
  <2> HIDE DEF C
  <2> QED  BY <1>1, <1>4, <1>5, Rooms
\* Those after t have one task less before them.
<1>7. ASSUME NEW u \in Holding', age[u] >= l
      PROVE  DiskBytes' + Owed(task'[u]) <= Room(Cardinality(P(u)))
  <2>1. u \in Holding /\ u \in Tasks /\ u # t  BY <1>1
  <2>2. age[t] < age[u] /\ age[u] >= line
    <3>1. age[t] # age[u]  BY <2>1 DEF Ordered
    <3> QED  BY <1>1, <1>2, <1>7, <2>1, <3>1
  <2>3. t \in O(u) /\ P(u) = O(u) \ {t}  BY <1>1, <2>2 DEF Older
  <2>4. DiskBytes + Owed(task[u]) <= Room(Cardinality(O(u)))  BY <2>1, <2>2 DEF Ordered
  <2> HIDE DEF O, P
  <2>6. Room(Cardinality(P(u))) = Room(Cardinality(O(u))) + Max(Sizes) /\ Room(Cardinality(O(u))) \in Int
    BY <1>3, <2>1, <2>3, RoomOf
  <2>7. task'[u] = task[u] /\ Owed(task[u]) \in Int  BY <1>1, <2>1
  <2> QED  BY <1>1, <2>4, <2>6, <2>7, Rooms
<1>8. \A u, v \in Holding' : age[u] = age[v] => u = v  BY DEF Ordered
<1>9. Before(age, l)' = C /\ \A u : Older(age, u)' = P(u)  BY DEF Before, Older
<1> HIDE DEF C, P
<1>10. Before(age, l)' # {} => DiskBytes' <= LargestFill + Room(Cardinality(Before(age, l)'))
  BY <1>4, <1>9
<1> HIDE DEF l
<1>11. Ordered(age, l)'  BY <1>7, <1>8, <1>9, <1>10 DEF Ordered, Room
<1> QED  BY <1>2, <1>6, <1>11

\* What is on its way to the counter and from it: one chapter for each task and request.
LEMMA Underway ==
  ASSUME IInv, WordIsRoomy
  PROVE  /\ Adding \in Nat /\ Removed \in Nat /\ ToSubtract(deleter) \in Nat
         /\ Adding <= Cardinality({t \in Tasks : ToAdd(task[t]) # 0}) * Max(Sizes)
         /\ DiskBytes + Removed + ToSubtract(deleter) < WordSize \div 2
<1>1. Folder /\ Working /\ Deleting  BY DEF IInv
<1>2. Adding \in Nat /\ Removed \in Nat /\ DiskBytes \in Nat /\ ToSubtract(deleter) \in Nat
  BY <1>1, SumsAreNumbers
<1> DEFINE m == Max(Sizes)
           n == Cardinality(Tasks)
           f == [t \in Tasks |-> ToAdd(task[t])]
           g == [t \in Tasks |-> ToSubtract(task[t])]
           A == {t \in Tasks : f[t] # 0}
           R == {t \in Tasks : g[t] # 0}
<1>3. m \in Nat /\ n \in Nat /\ (\A s \in Lengths : s <= m) /\ 0 \in Lengths /\ Lengths \subseteq Nat
  BY Rooms, Constants
<1>4. \A t \in Tasks : /\ ToAdd(task[t]) \in Nat /\ ToAdd(task[t]) <= m
                       /\ ToSubtract(task[t]) \in Nat /\ ToSubtract(task[t]) <= m
  BY <1>1, <1>3 DEF Working, TaskRecord, ToAdd, ToSubtract
<1>5. /\ f \in [Tasks -> Nat] /\ g \in [Tasks -> Nat] /\ \A t \in Tasks : f[t] <= m /\ g[t] <= m
      /\ A = {t \in Tasks : ToAdd(task[t]) # 0}
  BY <1>4
<1>6. Adding = SumFunction(f) /\ Removed = SumFunction(g)  BY DEF Adding, Removed
<1> HIDE DEF f, g, m
<1>7. SumFunction(f) <= Cardinality(A) * m /\ SumFunction(g) <= Cardinality(R) * m
  BY <1>3, <1>5, SumBound, Constants
<1>8. Removed <= n * m
  <2>1. R \in SUBSET Tasks  OBVIOUS
  <2> HIDE DEF R
  <2>2. Cardinality(R) \in Nat /\ Cardinality(R) <= n  BY <2>1, Counting
  <2>3. Cardinality(R) * m <= n * m
    <3> DEFINE r == Cardinality(R)
    <3>1. r \in Nat /\ n - r \in Nat  BY <1>3, <2>2
    <3> HIDE DEF r, n
    <3>2. (n - r) * m >= 0  BY <1>3, <3>1
    <3>3. n * m = r * m + (n - r) * m /\ r * m \in Int /\ (n - r) * m \in Int  BY <1>3, <3>1
    <3> QED  BY <3>2, <3>3 DEF r
  <2>4. Cardinality(R) * m \in Int /\ n * m \in Int  BY <1>3, <2>2
  <2> QED  BY <1>2, <1>6, <1>7, <2>3, <2>4
<1>9. ToSubtract(deleter) <= m
  <2>1. deleter.freed \in Lengths  BY <1>1 DEF Deleting
  <2> QED  BY <1>3, <2>1 DEF ToSubtract
<1>10. DiskBytes + (n + 1) * m < WordSize \div 2
  <2>1. disk \in [Chapters -> Sizes \cup {0}]  BY <1>1 DEF Folder, Lengths
  <2> QED  BY <2>1 DEF WordIsRoomy, DiskBytes, m
<1>11. DiskBytes + Removed + ToSubtract(deleter) < WordSize \div 2
  <2> DEFINE k == n * m
             h == WordSize \div 2
  <2>1. (n + 1) * m = k + m /\ k \in Int /\ h \in Int  BY <1>3, Constants
  <2>2. DiskBytes + (n + 1) * m < h /\ Removed <= k  BY <1>8, <1>10
  <2> HIDE DEF k, h, n
  <2>3. DiskBytes + Removed + ToSubtract(deleter) < h  BY <1>2, <1>3, <1>9, <2>1, <2>2
  <2> QED  BY <2>3 DEF h
<1> QED  BY <1>2, <1>5, <1>6, <1>7, <1>11 DEF m

\* The counter lacks what is to be added, or it has wrapped and there is less than that.
LEMMA CounterKnows ==
  ASSUME IInv, WordIsRoomy, ~upset
  PROVE  DiskBytes <= Adding + (IF counter >= WordSize \div 2 THEN 0 ELSE counter)
<1> DEFINE p == Removed + ToSubtract(deleter)
           h == WordSize \div 2
<1>1. /\ Adding \in Nat /\ p \in Nat /\ DiskBytes \in Nat /\ DiskBytes + p < h
      /\ h \in Nat /\ WordSize \in Nat /\ h <= WordSize /\ counter \in Nat /\ counter < WordSize
  <2>1. /\ Adding \in Nat /\ Removed \in Nat /\ ToSubtract(deleter) \in Nat
        /\ DiskBytes + Removed + ToSubtract(deleter) < WordSize \div 2
    BY Underway
  <2>2. DiskBytes \in Nat  BY FillNow
  <2>3. WordSize \in Nat /\ WordSize > 0 /\ WordSize \div 2 \in Nat /\ WordSize \div 2 <= WordSize
    BY Constants
  <2>4. counter \in Nat /\ counter < WordSize  BY <2>3 DEF IInv, Others, Words
  <2> HIDE DEF h
  <2>5. h = WordSize \div 2  BY DEF h
  <2> QED  BY <2>1, <2>2, <2>3, <2>4, <2>5
<1>2. PICK k \in Int : counter + Adding - DiskBytes - Removed - ToSubtract(deleter) = k * WordSize
  BY DEF IInv, Balanced, Wraps
<1>3. counter + Adding - DiskBytes - p = k * WordSize
  BY <1>1, <1>2, Underway
<1> HIDE DEF p, h
<1>4. CASE counter >= h
  <2>1. k >= 1
    <3>1. SUFFICES ASSUME k <= 0 PROVE FALSE  OBVIOUS
    <3>2. k * WordSize <= 0  BY <1>1, <3>1
    <3>3. k * WordSize \in Int  BY <1>1
    <3> QED  BY <1>1, <1>3, <1>4, <3>2, <3>3
  <2>2. k * WordSize >= WordSize /\ k * WordSize \in Int  BY <1>1, <2>1
  <2>3. DiskBytes <= Adding  BY <1>1, <1>3, <2>2
  <2> QED  BY <1>1, <1>4, <2>3 DEF h
<1>5. CASE counter < h
  <2>1. k >= 0
    <3>1. SUFFICES ASSUME k <= 0 - 1 PROVE FALSE  OBVIOUS
    <3>2. k * WordSize <= 0 - WordSize /\ k * WordSize \in Int  BY <1>1, <3>1
    <3> QED  BY <1>1, <1>3, <3>2
  <2>2. k * WordSize >= 0 /\ k * WordSize \in Int  BY <1>1, <2>1
  <2>3. DiskBytes <= Adding + counter  BY <1>1, <1>3, <2>2
  <2> QED  BY <1>1, <1>5, <2>3 DEF h
<1> QED  BY <1>1, <1>4, <1>5

\* A copy is taken: all who work with one, or have still to add, are before it.
LEMMA Taking ==
  ASSUME IInv, WordIsRoomy, ~upset, NEW age \in [Tasks -> Nat], NEW line \in Nat, Ordered(age, line),
         NEW t \in Tasks, BeginPersist(t)
  PROVE  \E a \in [Tasks -> Nat] : Ordered(a, line)'
<1>1. PICK s \in Sizes : task' = [task EXCEPT ![t].pc = "fitting", ![t].size = s, ![t].current = counter]
  BY DEF BeginPersist
<1>2. At(t, "downloading") /\ disk' = disk  BY DEF BeginPersist
<1>3. /\ task'[t] = [task[t] EXCEPT !.pc = "fitting", !.size = s, !.current = counter]
      /\ task[t] \in TaskRecord /\ \A u \in Tasks \ {t} : task'[u] = task[u]
  BY <1>1, FillNow DEF IInv, Working
<1>4. task'[t].pc = "fitting" /\ task'[t].current = counter  BY <1>3 DEF TaskRecord
<1>5. t \notin Holding /\ Holding' = Holding \cup {t} /\ Holding \in SUBSET Tasks
      /\ ToAdd(task[t]) = 0
  <2>1. ~Holds(task[t]) /\ Holds(task'[t]) /\ ToAdd(task[t]) = 0  BY <1>2, <1>4 DEF At, Holds, ToAdd
  <2> QED  BY <1>3, <2>1 DEF Holding
<1> DEFINE N == {age[u] : u \in Tasks} \cup {line}
<1>6. PICK m \in Nat : line <= m /\ \A u \in Tasks : age[u] < m
  <2>1. IsFiniteSet(N) /\ N \in SUBSET Int /\ N # {}
    <3> DEFINE I == {age[u] : u \in Tasks}
    <3>1. IsFiniteSet(I)
      <4>1. age \in Surjection(Tasks, I)  BY DEF Surjection
      <4> HIDE DEF I
      <4> QED  BY <4>1, Constants, FS_Surjection
    <3>2. I \subseteq Nat  OBVIOUS
    <3> HIDE DEF I
    <3>3. IsFiniteSet(I \cup {line})  BY <3>1, FS_AddElement
    <3> QED  BY <3>2, <3>3 DEF I
  <2>2. line \in N /\ \A u \in Tasks : age[u] \in N  OBVIOUS
  <2>3. N \subseteq Nat  OBVIOUS
  <2> HIDE DEF N
  <2>4. Max(N) \in Nat /\ \A x \in N : x <= Max(N) /\ x \in Nat  BY <2>1, <2>3, MaxOfSet
  <2>5. Max(N) + 1 \in Nat /\ line <= Max(N) + 1 /\ \A u \in Tasks : age[u] < Max(N) + 1
    BY <2>2, <2>4
  <2> QED  BY <2>5
<1> HIDE DEF N
<1> DEFINE a == [age EXCEPT ![t] = m]
<1>7. /\ a \in [Tasks -> Nat] /\ a[t] = m /\ \A u \in Holding : a[u] = age[u] /\ u # t
      /\ \A u \in Holding : a[u] < m /\ a[u] \in Nat
  BY <1>5, <1>6
<1> HIDE DEF a
<1>8. \A u, v \in Holding' : a[u] = a[v] => u = v
  <2>1. \A u, v \in Holding : age[u] = age[v] => u = v  BY DEF Ordered
  <2> QED  BY <1>5, <1>7, <2>1
<1>9. DiskBytes' = DiskBytes  BY <1>2 DEF DiskBytes
<1>10. Before(a, line)' = Before(age, line)
  <2>1. {u \in Holding' : a[u] < line} = {u \in Holding : age[u] < line}  BY <1>5, <1>6, <1>7
  <2> QED  BY <2>1 DEF Before
<1>11. \A u \in Holding : Older(a, u)' = Older(age, u)
  <2>1. \A u \in Holding : {v \in Holding' : a[v] < a[u]} = {v \in Holding : age[v] < age[u]}
    BY <1>5, <1>6, <1>7
  <2> QED  BY <2>1 DEF Older
<1>12. Older(a, t)' = Holding
  <2>1. {v \in Holding' : a[v] < a[t]} = Holding  BY <1>5, <1>6, <1>7
  <2> QED  BY <2>1 DEF Older
<1>13. DiskBytes + Owed(task'[t]) <= Room(Cardinality(Holding))
  <2> DEFINE A == {u \in Tasks : ToAdd(task[u]) # 0}
             i == Cardinality(A)
             j == Cardinality(Holding)
             n == Cardinality(Tasks)
             k == Max(Sizes)
             c == IF counter >= WordSize \div 2 THEN 0 ELSE counter
  <2>1. Owed(task'[t]) = 0 - c /\ c \in Nat
    <3>1. ToSubtract(task'[t]) = 0 /\ Credit(task'[t]) = c  BY <1>4 DEF ToSubtract, Credit
    <3>2. counter \in Nat  BY Constants DEF IInv, Others, Words
    <3> QED  BY <3>1, <3>2 DEF Owed
  <2>2. DiskBytes <= Adding + c /\ Adding <= i * k /\ Adding \in Nat /\ DiskBytes \in Nat
    BY CounterKnows, Underway, FillNow
  <2>3. i \in Nat /\ j \in Nat /\ n \in Nat /\ k \in Nat /\ i + j <= n - 1
    <3>1. A \in SUBSET Tasks /\ A \cap Holding = {} /\ t \notin A /\ t \notin Holding
      <4>1. \A u \in Holding : ToAdd(task[u]) = 0  BY DEF Holding, Holds, ToAdd
      <4> QED  BY <1>5, <4>1
    <3> HIDE DEF A
    <3>2. IsFiniteSet(A) /\ IsFiniteSet(Holding) /\ i \in Nat /\ j \in Nat
      BY <1>5, <3>1, Counting
    <3>3. Cardinality(A \cup Holding) = i + j
      <4>1. Cardinality({}) = 0  BY FS_EmptySet
      <4>2. Cardinality(A \cup Holding) = i + j - Cardinality(A \cap Holding)  BY <3>2, FS_Union
      <4>3. Cardinality(A \cap Holding) = 0  BY <3>1, <4>1
      <4>4. i + j - 0 = i + j  BY <3>2
      <4> QED  BY <4>2, <4>3, <4>4
    <3>4. A \cup Holding \in SUBSET Tasks /\ t \notin A \cup Holding  BY <1>5, <3>1
    <3> DEFINE V == A \cup Holding
    <3>5. Cardinality(V) = i + j /\ V \in SUBSET Tasks /\ V \subseteq Tasks \ {t}  BY <3>3, <3>4
    <3> HIDE DEF V
    <3>6. Cardinality(V) <= Cardinality(Tasks \ {t})
      <4>1. Tasks \ {t} \in SUBSET Tasks  OBVIOUS
      <4> QED  BY <3>5, <4>1, Counting
    <3>7. Cardinality(Tasks \ {t}) = n - 1 /\ n \in Nat
      <4>1. Tasks \in SUBSET Tasks  OBVIOUS
      <4> QED  BY <4>1, Counting
    <3> QED  BY <3>2, <3>5, <3>6, <3>7, Rooms
  <2> HIDE DEF i, j, n, k, c
  <2>4. i * k <= (n - 1 - j) * k
    <3>1. (n - 1 - j) - i \in Nat  BY <2>3
    <3>2. ((n - 1 - j) - i) * k >= 0  BY <2>3, <3>1
    <3>3. (n - 1 - j) * k = i * k + ((n - 1 - j) - i) * k /\ i * k \in Int
          /\ ((n - 1 - j) - i) * k \in Int
      BY <2>3, <3>1
    <3> QED  BY <3>2, <3>3
  <2>5. Room(j) = (n - 1 - j) * k  BY DEF Room, n, k
  <2>6. i * k \in Int /\ (n - 1 - j) * k \in Int  BY <2>3
  <2>7. DiskBytes + Owed(task'[t]) <= Room(j)
    <3> DEFINE p == i * k
               q == (n - 1 - j) * k
    <3>1. p \in Int /\ q \in Int /\ p <= q /\ Adding <= p /\ Room(j) = q  BY <2>2, <2>4, <2>5, <2>6
    <3> HIDE DEF p, q
    <3> QED  BY <2>1, <2>2, <3>1
  <2> QED  BY <2>7 DEF j
<1>14. ASSUME NEW u \in Holding', a[u] >= line
       PROVE  DiskBytes' + Owed(task'[u]) <= Room(Cardinality(Older(a, u)'))
  <2>1. CASE u = t  BY <1>9, <1>12, <1>13, <2>1
  <2>2. CASE u \in Holding
    <3>1. age[u] >= line /\ task'[u] = task[u]  BY <1>3, <1>5, <1>7, <1>14, <2>2
    <3>2. DiskBytes + Owed(task[u]) <= Room(Cardinality(Older(age, u)))  BY <2>2, <3>1 DEF Ordered
    <3> QED  BY <1>9, <1>11, <2>2, <3>1, <3>2
  <2> QED  BY <1>5, <2>1, <2>2
<1>15. Before(a, line)' # {} => DiskBytes' <= LargestFill + Room(Cardinality(Before(a, line)'))
  BY <1>9, <1>10 DEF Ordered
<1>16. Ordered(a, line)'  BY <1>8, <1>14, <1>15 DEF Ordered, Room
<1> QED  BY <1>7, <1>16

\* What one task comes to, while the folder does not grow.
LEMMA TaskFills ==
  ASSUME IInv, NEW t \in Tasks, NEW x \in TaskRecord, task' = [task EXCEPT ![t] = x],
         DiskBytes' \in Int, DiskBytes' <= DiskBytes,
         Holds(x) => Holds(task[t]) /\ DiskBytes' + Owed(x) <= DiskBytes + Owed(task[t]),
         x.pc \in {"measuring", "removing", "subtract"} => x.current < WordSize \div 2, Patient, Filling,
         upset => upset'
  PROVE  Patient' /\ Filling'
<1>1. /\ DiskBytes \in Int /\ Owed(x) \in Int /\ \A u \in Tasks : Owed(task[u]) \in Int
      /\ task'[t] = x /\ \A u \in Tasks \ {t} : task'[u] = task[u]
  BY FillNow DEF IInv, Working
<1>2. Patient'
  <2>1. \A u \in Tasks : task[u].pc \in {"measuring", "removing", "subtract"} => ~(task[u].current >= WordSize \div 2)
    BY DEF Patient, Beyond
  <2>2. x.pc \in {"measuring", "removing", "subtract"} => ~(x.current >= WordSize \div 2)
    <3>1. x.current \in Int /\ WordSize \div 2 \in Int  BY Constants DEF TaskRecord, Words
    <3> QED  BY <3>1
  <2>3. \A u \in Tasks : task'[u].pc \in {"measuring", "removing", "subtract"} => ~(task'[u].current >= WordSize \div 2)
    BY <1>1, <2>1, <2>2
  <2> QED  BY <2>3 DEF Patient, Beyond
<1>3. Filling'
  <2>1. CASE upset'  BY <2>1 DEF Filling
  <2>2. CASE ~upset'
    <3>1. PICK age \in [Tasks -> Nat], line \in Nat : Ordered(age, line)  BY <2>2 DEF Filling
    <3>2. Holding' \subseteq Holding
      <4>1. \A u \in Tasks : Holds(task'[u]) => Holds(task[u])  BY <1>1
      <4> QED  BY <4>1 DEF Holding
    <3>3. ASSUME NEW u \in Holding'
          PROVE  Owed(task'[u]) \in Int /\ DiskBytes' + Owed(task'[u]) <= DiskBytes + Owed(task[u])
      <4>1. u \in Tasks /\ Holds(task'[u])  BY DEF Holding
      <4>2. CASE u = t  BY <1>1, <4>1, <4>2
      <4>3. CASE u # t
        <5>1. task'[u] = task[u] /\ Owed(task[u]) \in Int  BY <1>1, <4>1, <4>3
        <5> QED  BY <1>1, <5>1
      <4> QED  BY <4>2, <4>3
    <3>4. Ordered(age, line)'  BY <3>1, <3>2, <3>3, Passing
    <3> QED  BY <3>4 DEF Filling
  <2> QED  BY <2>1, <2>2
<1> QED  BY <1>2, <1>3

\* Nobody has a copy in a task that starts or ends.
LEMMA LeavingFills ==
  ASSUME FillInv, NEW t \in Tasks,
         \/ \E c \in Chapters, r \in RamModes : StartDownload(t, c, r)
         \/ DownloadFails(t) \/ NothingToEvict(t) \/ AbortTask(t) \/ AddStored(t)
  PROVE  Patient' /\ Filling'
<1>1. IInv /\ Patient /\ Filling  BY DEF FillInv
<1>2. DiskBytes' = DiskBytes /\ DiskBytes \in Int /\ (upset => upset')
  <2>1. disk' = disk  BY DEF StartDownload, DownloadFails, NothingToEvict, AbortTask, AddStored
  <2>2. upset \in BOOLEAN  BY <1>1 DEF IInv, Others
  <2>3. upset => upset'
    BY <2>2 DEF StartDownload, DownloadFails, NothingToEvict, AbortTask, AddStored
  <2> QED  BY <1>1, <2>1, <2>3, FillNow DEF DiskBytes
<1>3. CASE \E c \in Chapters, r \in RamModes : StartDownload(t, c, r)
  <2>1. PICK c \in Chapters, r \in RamModes : StartDownload(t, c, r)  BY <1>3
  <2> DEFINE x == [NoTask EXCEPT !.pc = "downloading", !.chapter = c, !.ram = r]
  <2>2. task' = [task EXCEPT ![t] = x]  BY <2>1 DEF StartDownload
  <2>3. r \in BOOLEAN /\ "downloading" \in TaskSteps  BY StorageConstants DEF TaskSteps
  <2>4. x \in TaskRecord /\ x.pc = "downloading"  BY <2>3, NoTaskSound DEF TaskRecord
  <2> HIDE DEF x
  <2>5. ~Holds(x) /\ x.pc \notin {"measuring", "removing", "subtract"}  BY <2>4 DEF Holds
  <2>6. DiskBytes' <= DiskBytes /\ DiskBytes' \in Int  BY <1>2
  <2> QED  BY <1>1, <1>2, <2>2, <2>4, <2>5, <2>6, TaskFills
<1>4. CASE DownloadFails(t) \/ NothingToEvict(t) \/ AbortTask(t) \/ AddStored(t)
  <2>1. task' = [task EXCEPT ![t] = NoTask]
    BY <1>4 DEF DownloadFails, NothingToEvict, AbortTask, AddStored
  <2>2. ~Holds(NoTask) /\ NoTask.pc \notin {"measuring", "removing", "subtract"}  BY DEF NoTask, Holds
  <2>3. DiskBytes' <= DiskBytes /\ DiskBytes' \in Int  BY <1>2
  <2> QED  BY <1>1, <1>2, <2>1, <2>2, <2>3, NoTaskSound, TaskFills
<1> QED  BY <1>3, <1>4

\* An eviction takes from the folder what the copy is lowered by.
LEMMA EvictingFills ==
  ASSUME FillInv, NEW t \in Tasks,
         FindVictim(t) \/ MeasureVictim(t) \/ RemoveVictim(t) \/ RemoveVictimFails(t) \/ SubtractEvicted(t)
  PROVE  Patient' /\ Filling'
<1>1. IInv /\ Patient /\ Filling  BY DEF FillInv
<1>2. /\ DiskBytes \in Int /\ task[t] \in TaskRecord /\ Sound(task[t]) /\ upset \in BOOLEAN
      /\ task[t].current \in Nat /\ task[t].freed \in Nat /\ WordSize \div 2 \in Nat
      /\ Owed(task[t]) \in Int
  <2>1. task[t].current \in Nat /\ task[t].freed \in Nat
    <3>1. task[t].current \in Words /\ task[t].freed \in Lengths  BY <1>1, TaskNow
    <3>2. Words \subseteq Nat /\ Lengths \subseteq Nat  BY Constants DEF Words
    <3> QED  BY <3>1, <3>2
  <2> QED  BY <1>1, <2>1, FillNow, Constants DEF IInv, Others
<1>3. CASE FindVictim(t) \/ MeasureVictim(t)
  <2>1. /\ UNCHANGED <<disk, order, upset>> /\ ~Beyond(t)
        /\ task[t].pc \in {"fitting", "measuring"}
    <3>1. CASE FindVictim(t)  BY <3>1 DEF FindVictim, TooBig, Fits, At
    <3>2. CASE MeasureVictim(t)  BY <1>1, <3>2 DEF MeasureVictim, Patient, At
    <3> QED  BY <1>3, <3>1, <3>2
  <2> DEFINE x == task'[t]
  <2>2. x.current = task[t].current /\ x.pc \in {"measuring", "removing"}
        /\ \E y : task' = [task EXCEPT ![t] = y]
    <3>1. CASE FindVictim(t)
      <4> DEFINE y == [task[t] EXCEPT !.pc = "measuring", !.victim = Head(order)]
      <4>1. task' = [task EXCEPT ![t] = y]  BY <1>1, <3>1 DEF FindVictim, IInv, Working, TaskRecord
      <4>2. y.current = task[t].current /\ y.pc = "measuring"  BY <1>2 DEF TaskRecord
      <4> HIDE DEF y
      <4> QED  BY <1>1, <4>1, <4>2 DEF IInv, Working
    <3>2. CASE MeasureVictim(t)
      <4> DEFINE y == [task[t] EXCEPT !.pc = "removing", !.freed = disk[task[t].victim]]
      <4>1. task' = [task EXCEPT ![t] = y]  BY <1>1, <3>2 DEF MeasureVictim, IInv, Working, TaskRecord
      <4>2. y.current = task[t].current /\ y.pc = "removing"  BY <1>2 DEF TaskRecord
      <4> HIDE DEF y
      <4> QED  BY <1>1, <4>1, <4>2 DEF IInv, Working
    <3> QED  BY <1>3, <3>1, <3>2
  <2>3. task' = [task EXCEPT ![t] = x]  BY <1>1, <2>2 DEF IInv, Working
  <2>4. x \in TaskRecord
    <3>1. IInv'  BY <1>1, <1>3, ChooseKeeps
    <3> QED  BY <3>1 DEF IInv, Working
  <2> HIDE DEF x
  <2>5. Holds(task[t]) /\ ToSubtract(task[t]) = 0 /\ ToSubtract(x) = 0 /\ Credit(x) = Credit(task[t])
    BY <2>1, <2>2 DEF Holds, ToSubtract, Credit
  <2>6. Owed(x) = Owed(task[t]) /\ x.current < WordSize \div 2  BY <1>2, <2>1, <2>2, <2>5 DEF Owed, Beyond
  <2>7. DiskBytes' = DiskBytes  BY <2>1 DEF DiskBytes
  <2>8. DiskBytes' \in Int /\ DiskBytes' <= DiskBytes /\ DiskBytes' + Owed(x) <= DiskBytes + Owed(task[t])
    BY <1>2, <2>6, <2>7
  <2> QED  BY <1>1, <2>1, <2>3, <2>4, <2>5, <2>6, <2>8, TaskFills
<1>4. CASE RemoveVictim(t)
  <2> DEFINE v == task[t].victim
             x == [task[t] EXCEPT !.pc = "subtract", !.victim = NoChapter]
  <2>1. /\ At(t, "removing") /\ disk' = [disk EXCEPT ![v] = 0] /\ order' = Without(order, v)
        /\ upset' = (upset \/ disk[v] # task[t].freed)
        /\ task' = [task EXCEPT ![t].pc = "subtract", ![t].victim = NoChapter]
    BY <1>4 DEF RemoveVictim, Unlink
  <2>2. task' = [task EXCEPT ![t] = x]  BY <1>1, <2>1 DEF IInv, Working, TaskRecord
  <2>3. /\ x \in TaskRecord /\ x.current = task[t].current /\ x.pc = "subtract"
        /\ x.freed = task[t].freed
    <3>1. "subtract" \in TaskSteps  BY DEF TaskSteps
    <3> QED  BY <1>2, <3>1 DEF TaskRecord
  <2>4. ~Beyond(t)  BY <1>1, <2>1 DEF Patient, At
  <2>5. v \in Chapters /\ disk[v] \in Nat /\ 0 \in Lengths
    <3>1. v \in Chapters  BY <1>2, <2>1 DEF Sound, At
    <3>2. disk[v] \in Lengths  BY <1>1, <3>1 DEF IInv, Folder
    <3> QED  BY <3>1, <3>2, Constants
  <2> HIDE DEF v, x
  <2>6. DiskBytes' = DiskBytes + 0 - disk[v]  BY <1>1, <2>1, <2>5, OneFile DEF IInv
  <2>7. /\ ToSubtract(task[t]) = 0 /\ ToSubtract(x) = task[t].freed /\ Credit(x) = Credit(task[t])
        /\ Holds(task[t])
    BY <2>1, <2>3 DEF At, Holds, ToSubtract, Credit
  <2>8. Credit(task[t]) \in Int  BY <1>1, <1>2, FillNow
  <2>9. x.current < WordSize \div 2  BY <1>2, <2>3, <2>4 DEF Beyond
  <2>10. DiskBytes' \in Int /\ DiskBytes' <= DiskBytes  BY <1>2, <2>5, <2>6
  <2>11. CASE upset'
    <3>1. Filling'  BY <2>11 DEF Filling
    <3>2. Patient'
      <4>1. \A u \in Tasks \ {t} : task'[u] = task[u]  BY <2>2
      <4>2. task'[t] = x  BY <1>1, <2>2 DEF IInv, Working
      <4>3. ~(task'[t].current >= WordSize \div 2)  BY <2>3, <2>4, <4>2 DEF Beyond
      <4>4. \A u \in Tasks : task'[u].pc \in {"measuring", "removing", "subtract"}
                               => ~(task'[u].current >= WordSize \div 2)
        BY <1>1, <4>1, <4>3 DEF Patient, Beyond
      <4> QED  BY <4>4 DEF Patient, Beyond
    <3> QED  BY <3>1, <3>2
  <2>12. CASE ~upset'
    <3>1. disk[v] = task[t].freed /\ ~upset  BY <2>1, <2>12
    <3>2. DiskBytes' + Owed(x) <= DiskBytes + Owed(task[t])
      BY <1>2, <2>5, <2>6, <2>7, <2>8, <3>1 DEF Owed
    <3> QED  BY <1>1, <2>2, <2>3, <2>7, <2>9, <2>10, <3>1, <3>2, TaskFills
  <2> QED  BY <2>11, <2>12
<1>5. CASE RemoveVictimFails(t)
  <2>1. /\ At(t, "removing") /\ upset' = TRUE
        /\ task' = [task EXCEPT ![t].pc = "subtract", ![t].victim = NoChapter]
    BY <1>5 DEF RemoveVictimFails
  <2>2. Filling'  BY <2>1 DEF Filling
  <2>3. Patient'
    <3>1. \A u \in Tasks \ {t} : task'[u] = task[u]  BY <1>1, <2>1 DEF IInv, Working
    <3>2. task'[t].current = task[t].current  BY <1>1, <1>2, <2>1 DEF IInv, Working, TaskRecord
    <3>3. ~(task'[t].current >= WordSize \div 2)  BY <1>1, <2>1, <3>2 DEF Patient, Beyond, At
    <3>4. \A u \in Tasks : task'[u].pc \in {"measuring", "removing", "subtract"}
                             => ~(task'[u].current >= WordSize \div 2)
      BY <1>1, <3>1, <3>3 DEF Patient, Beyond
    <3> QED  BY <3>4 DEF Patient, Beyond
  <2> QED  BY <2>2, <2>3
<1>6. CASE SubtractEvicted(t)
  <2> DEFINE n == task[t].freed
             m == SaturatingMinus(task[t].current, n)
             x == [task[t] EXCEPT !.pc = "fitting", !.freed = 0, !.current = m]
  <2>1. /\ At(t, "subtract") /\ UNCHANGED <<disk, upset>>
        /\ task' = [task EXCEPT ![t].pc = "fitting", ![t].freed = 0,
                                ![t].current = SaturatingMinus(@, task[t].freed)]
    BY <1>6 DEF SubtractEvicted
  <2>2. /\ m \in Nat /\ m <= task[t].current
        /\ n - task[t].current >= 0 - m
    BY <1>2 DEF SaturatingMinus
  <2>3. m \in Words
    <3>1. task[t].current \in Words  BY <1>1, TaskNow
    <3> HIDE DEF m
    <3> QED  BY <2>2, <3>1, Constants DEF Words
  <2>4. task' = [task EXCEPT ![t] = x]  BY <1>1, <2>1 DEF IInv, Working, TaskRecord
  <2> HIDE DEF m, n
  <2>5. x \in TaskRecord /\ x.current = m /\ x.pc = "fitting"
    <3>1. "fitting" \in TaskSteps /\ 0 \in Lengths  BY Constants DEF TaskSteps
    <3> QED  BY <1>2, <2>3, <3>1 DEF TaskRecord
  <2> HIDE DEF x
  <2>6. task[t].current < WordSize \div 2
    <3>1. ~(task[t].current >= WordSize \div 2)  BY <1>1, <2>1 DEF Patient, Beyond, At
    <3> QED  BY <1>2, <3>1
  <2>7. /\ Holds(task[t]) /\ ToSubtract(task[t]) = n /\ ToSubtract(x) = 0
        /\ Credit(x) = m /\ Credit(task[t]) = task[t].current
    <3>1. ~(task[t].current >= WordSize \div 2) /\ ~(m >= WordSize \div 2)  BY <1>2, <2>2, <2>6
    <3> QED  BY <2>1, <2>5, <3>1 DEF At, Holds, ToSubtract, Credit, n
  <2>8. DiskBytes' = DiskBytes  BY <2>1 DEF DiskBytes
  <2>9. n \in Nat  BY <1>2 DEF n
  <2>10. DiskBytes' \in Int /\ DiskBytes' <= DiskBytes /\ DiskBytes' + Owed(x) <= DiskBytes + Owed(task[t])
    BY <1>2, <2>2, <2>7, <2>8, <2>9 DEF Owed
  <2> QED  BY <1>1, <2>1, <2>4, <2>5, <2>7, <2>10, TaskFills
<1> QED  BY <1>3, <1>4, <1>5, <1>6

\* The tasks stand still, and the folder does not grow.
LEMMA ShrinkingFills ==
  ASSUME FillInv, UNCHANGED task, DiskBytes' \in Int, DiskBytes' <= DiskBytes, upset => upset'
  PROVE  Patient' /\ Filling'
<1>1. IInv /\ Patient /\ Filling  BY DEF FillInv
<1>2. DiskBytes \in Int /\ \A t \in Tasks : Owed(task[t]) \in Int  BY <1>1, FillNow
<1>3. Patient'  BY <1>1 DEF Patient, Beyond
<1>4. CASE upset'  BY <1>3, <1>4 DEF Filling
<1>5. CASE ~upset'
  <2>1. PICK age \in [Tasks -> Nat], line \in Nat : Ordered(age, line)  BY <1>1, <1>5 DEF Filling
  <2>2. Holding' \subseteq Holding /\ Holding' \subseteq Tasks  BY DEF Holding
  <2>3. \A t \in Holding' : /\ Owed(task'[t]) \in Int
                            /\ DiskBytes' + Owed(task'[t]) <= DiskBytes + Owed(task[t])
    BY <1>2, <2>2
  <2>4. Ordered(age, line)'  BY <1>1, <2>1, <2>2, <2>3, Passing
  <2> QED  BY <1>3, <2>4 DEF Filling
<1> QED  BY <1>4, <1>5

LEMMA RequestsShrink ==
  ASSUME FillInv, \/ \E c \in Chapters : DeleteStat(c) \/ EvictRam(c)
                  \/ DeleteRemove \/ DeleteSubtract \/ DeleteDropped \/ UNCHANGED vars
  PROVE  DiskBytes' \in Int /\ DiskBytes' <= DiskBytes /\ Patient' /\ Filling'
<1>1. IInv /\ upset \in BOOLEAN /\ DiskBytes \in Nat /\ Folder /\ Deleting
  BY FillNow DEF FillInv, IInv, Others
<1>2. UNCHANGED task /\ (upset => upset')
  BY <1>1 DEF DeleteStat, EvictRam, DeleteRemove, DeleteSubtract, DeleteDropped, vars
<1>3. DiskBytes' \in Int /\ DiskBytes' <= DiskBytes
  <2>1. CASE UNCHANGED disk
    <3>1. DiskBytes' = DiskBytes  BY <2>1 DEF DiskBytes
    <3> QED  BY <1>1, <3>1
  <2>2. CASE ~UNCHANGED disk
    <3> DEFINE c == deleter.chapter
    <3>1. /\ deleter.pc = "removing" /\ disk' = [disk EXCEPT ![c] = 0] /\ order' = Without(order, c)
      BY <2>2 DEF DeleteStat, EvictRam, DeleteRemove, DeleteSubtract, DeleteDropped, vars, Unlink
    <3>2. c \in Chapters /\ disk[c] \in Nat /\ 0 \in Lengths
      <4>1. c \in Chapters  BY <1>1, <3>1 DEF Deleting
      <4>2. disk[c] \in Lengths  BY <1>1, <4>1 DEF Folder
      <4> QED  BY <4>1, <4>2, Constants
    <3> HIDE DEF c
    <3>3. DiskBytes' = DiskBytes + 0 - disk[c]  BY <1>1, <3>1, <3>2, OneFile
    <3> QED  BY <1>1, <3>2, <3>3
  <2> QED  BY <2>1, <2>2
<1> QED  BY <1>2, <1>3, ShrinkingFills

LEMMA RestartFills ==
  ASSUME FillInv, Restart
  PROVE  Patient' /\ Filling'
<1>1. task' = [t \in Tasks |-> NoTask]  BY DEF Restart
<1>2. \A t \in Tasks : task'[t].pc = "idle"  BY <1>1 DEF NoTask
<1>3. Patient'  BY <1>2 DEF Patient
<1>4. Holding' = {}  BY <1>2 DEF Holding, Holds
<1> DEFINE age == [t \in Tasks |-> 0]
<1>5. age \in [Tasks -> Nat] /\ 0 \in Nat  OBVIOUS
<1>6. Before(age, 0)' = {}  BY <1>4 DEF Before
<1> HIDE DEF age
<1>7. Ordered(age, 0)'  BY <1>4, <1>6 DEF Ordered
<1> QED  BY <1>3, <1>5, <1>7 DEF Filling

\* A file comes within the bound.
LEMMA RenamingFills ==
  ASSUME FillInv, NEW t \in Tasks, RenameToDisk(t), ~upset
  PROVE  /\ DiskBytes' > DiskBytes => DiskBytes' <= LargestFill + Room(0)
         /\ Patient' /\ Filling'
<1> DEFINE c == task[t].chapter
           s == task[t].size
<1>1. IInv /\ Patient /\ Filling  BY DEF FillInv
<1>2. /\ At(t, "fitting") /\ Fits(t) /\ disk' = [disk EXCEPT ![c] = s]
      /\ order' = Append(Without(order, c), c) /\ upset' = (upset \/ disk[c] # 0)
      /\ task' = [task EXCEPT ![t].pc = "adding", ![t].current = 0]
  BY DEF RenameToDisk, Stored
<1>3. /\ task[t] \in TaskRecord /\ c \in Chapters /\ s \in Lengths /\ s # 0 /\ s \in Nat /\ s <= Max(Sizes)
      /\ task[t].current \in Nat /\ DiskBytes \in Nat /\ disk[c] \in Nat /\ Credit(task[t]) \in Nat
  <2>1. task[t] \in TaskRecord /\ Sound(task[t]) /\ s <= Max(Sizes) /\ Credit(task[t]) \in Nat
        /\ DiskBytes \in Nat
    BY <1>1, FillNow
  <2>2. c \in Chapters /\ s \in Sizes  BY <1>2, <2>1 DEF Sound, At
  <2>3. disk[c] \in Lengths  BY <1>1, <2>2 DEF IInv, Folder
  <2>4. task[t].current \in Nat  BY <2>1, Constants DEF TaskRecord, Words
  <2> QED  BY <2>1, <2>2, <2>3, <2>4, Constants
<1>4. /\ task'[t].pc = "adding" /\ \A u \in Tasks \ {t} : task'[u] = task[u]
  BY <1>1, <1>2, <1>3 DEF IInv, Working, TaskRecord
<1>5. t \in Holding /\ Holding' = Holding \ {t} /\ \A u \in Holding' : task'[u] = task[u]
  <2>1. Holds(task[t]) /\ ~Holds(task'[t])  BY <1>2, <1>4 DEF Holds, At
  <2> QED  BY <1>4, <2>1 DEF Holding
<1>6. Patient'
  <2>1. \A u \in Tasks : task'[u].pc \in {"measuring", "removing", "subtract"} => ~(task'[u].current >= WordSize \div 2)
    BY <1>1, <1>4 DEF Patient, Beyond
  <2> QED  BY <2>1 DEF Patient, Beyond
<1>7. ToSubtract(task[t]) = 0  BY <1>2 DEF ToSubtract, At
<1>8. Credit(task[t]) + s <= LargestFill
  <2>1. LargestFill \in Nat /\ Limit \in Nat /\ Limit <= LargestFill /\ Max(Sizes) <= LargestFill
        /\ Max(Sizes) \in Nat
    BY Rooms
  <2>2. CASE Beyond(t)
    <3>1. Credit(task[t]) = 0  BY <2>2 DEF Beyond, Credit
    <3> QED  BY <1>3, <2>1, <3>1
  <2>3. CASE ~Beyond(t)
    <3>1. Credit(task[t]) = task[t].current /\ task[t].current + s <= Limit
      BY <1>2, <2>3 DEF Beyond, Credit, Fits
    <3> QED  BY <1>3, <2>1, <3>1
  <2> QED  BY <2>2, <2>3
<1> HIDE DEF c, s
<1>9. DiskBytes' = DiskBytes + s - disk[c]  BY <1>1, <1>2, <1>3, OneFile DEF IInv
<1>10. PICK age \in [Tasks -> Nat], line \in Nat : Ordered(age, line)  BY <1>1 DEF Filling
<1>11. CASE DiskBytes' > DiskBytes
  <2> DEFINE d == s - disk[c]
  <2>1. d \in Nat /\ d <= s /\ DiskBytes' = DiskBytes + d  BY <1>3, <1>9, <1>11
  <2>2. d <= Max(Sizes) /\ Credit(task[t]) + d <= LargestFill
    <3>1. Max(Sizes) \in Nat /\ LargestFill \in Nat  BY Rooms
    <3> HIDE DEF d
    <3> QED  BY <1>3, <1>8, <2>1, <3>1
  <2> HIDE DEF d
  <2>3. DiskBytes' <= LargestFill + Room(0) /\ \E l \in Nat : Ordered(age, l)'
    BY <1>1, <1>5, <1>7, <1>10, <2>1, <2>2, Coming
  <2>4. Filling'
    <3>1. PICK l \in Nat : Ordered(age, l)'  BY <2>3
    <3> QED  BY <3>1 DEF Filling
  <2> QED  BY <1>6, <2>3, <2>4
\* A file that is replaced has been there before.
<1>12. CASE ~(DiskBytes' > DiskBytes)
  <2>1. disk[c] # 0  BY <1>3, <1>9, <1>12
  <2> QED  BY <1>2, <1>6, <1>12, <2>1 DEF Filling
<1> QED  BY <1>11, <1>12

LEMMA InitFills == Init => FillInv
<1> SUFFICES ASSUME Init PROVE FillInv  OBVIOUS
<1>1. IInv  BY InitIInv
<1>2. \A t \in Tasks : task[t].pc = "idle"  BY DEF Init, NoTask
<1>3. Patient  BY <1>2 DEF Patient
<1>4. Holding = {}  BY <1>2 DEF Holding, Holds
<1> DEFINE age == [t \in Tasks |-> 0]
<1>5. age \in [Tasks -> Nat] /\ 0 \in Nat  OBVIOUS
<1>6. Before(age, 0) = {}  BY <1>4 DEF Before
<1> HIDE DEF age
<1>7. Ordered(age, 0)  BY <1>4, <1>6 DEF Ordered
<1> QED  BY <1>1, <1>3, <1>5, <1>7 DEF FillInv, Filling

\* The bound of a step that fills the folder.
Within == ~upset /\ DiskBytes' > DiskBytes => DiskBytes' <= LargestFill + Room(0)

LEMMA NextFills ==
  ASSUME WordIsRoomy, FillInv, [Next]_vars
  PROVE  FillInv' /\ Within
<1>1. IInv /\ Patient /\ Filling /\ IInv'  BY NextKeeps DEF FillInv
<1>2. DiskBytes \in Int  BY <1>1, FillNow
<1>3. ASSUME NEW t \in Tasks, BeginPersist(t) PROVE Patient' /\ Filling' /\ DiskBytes' = DiskBytes
  <2>1. UNCHANGED <<disk, upset>>  BY <1>3 DEF BeginPersist
  <2>2. Filling'
    <3>1. CASE upset  BY <2>1, <3>1 DEF Filling
    <3>2. CASE ~upset
      <4>1. PICK age \in [Tasks -> Nat], line \in Nat : Ordered(age, line)  BY <1>1, <3>2 DEF Filling
      <4>2. PICK a \in [Tasks -> Nat] : Ordered(a, line)'  BY <1>1, <1>3, <3>2, <4>1, Taking
      <4> QED  BY <4>2 DEF Filling
    <3> QED  BY <3>1, <3>2
  <2>3. Patient'
    <3>1. /\ task'[t].pc = "fitting" /\ \A u \in Tasks \ {t} : task'[u] = task[u]
      BY <1>1, <1>3 DEF BeginPersist, IInv, Working, TaskRecord
    <3>2. \A u \in Tasks : task'[u].pc \in {"measuring", "removing", "subtract"}
                             => ~(task'[u].current >= WordSize \div 2)
      BY <1>1, <3>1 DEF Patient, Beyond
    <3> QED  BY <3>2 DEF Patient, Beyond
  <2> QED  BY <2>1, <2>2, <2>3 DEF DiskBytes
<1>4. ASSUME NEW t \in Tasks, RenameToRam(t) PROVE Patient' /\ Filling' /\ DiskBytes' = DiskBytes
  <2>1. UNCHANGED disk /\ upset' = TRUE  BY <1>4 DEF RenameToRam
  <2>2. Patient'
    <3>1. /\ task'[t].pc = "adding" /\ \A u \in Tasks \ {t} : task'[u] = task[u]
      BY <1>1, <1>4 DEF RenameToRam, IInv, Working, TaskRecord
    <3>2. \A u \in Tasks : task'[u].pc \in {"measuring", "removing", "subtract"}
                             => ~(task'[u].current >= WordSize \div 2)
      BY <1>1, <3>1 DEF Patient, Beyond
    <3> QED  BY <3>2 DEF Patient, Beyond
  <2> QED  BY <2>1, <2>2 DEF Filling, DiskBytes
<1>5. ASSUME NEW t \in Tasks, RenameToDisk(t) PROVE Patient' /\ Filling' /\ Within
  <2>1. CASE ~upset  BY <1>5, <2>1, RenamingFills DEF Within
  <2>2. CASE upset
    <3>1. upset'  BY <1>5, <2>2 DEF RenameToDisk
    <3>2. /\ task'[t].pc = "adding" /\ \A u \in Tasks \ {t} : task'[u] = task[u]
      BY <1>1, <1>5 DEF RenameToDisk, IInv, Working, TaskRecord
    <3>3. \A u \in Tasks : task'[u].pc \in {"measuring", "removing", "subtract"}
                             => ~(task'[u].current >= WordSize \div 2)
      BY <1>1, <3>2 DEF Patient, Beyond
    <3> QED  BY <2>2, <3>1, <3>3 DEF Patient, Beyond, Filling, Within
  <2> QED  BY <2>1, <2>2
<1>6. ASSUME NEW t \in Tasks,
             \/ FindVictim(t) \/ MeasureVictim(t) \/ RemoveVictimFails(t) \/ SubtractEvicted(t)
             \/ DownloadFails(t) \/ NothingToEvict(t) \/ AbortTask(t) \/ AddStored(t)
             \/ \E c \in Chapters, r \in RamModes : StartDownload(t, c, r)
      PROVE  Patient' /\ Filling' /\ DiskBytes' = DiskBytes
  <2>1. UNCHANGED disk
    BY <1>6 DEF FindVictim, MeasureVictim, RemoveVictimFails, SubtractEvicted, DownloadFails,
                NothingToEvict, AbortTask, AddStored, StartDownload
  <2>2. DiskBytes' = DiskBytes  BY <2>1 DEF DiskBytes
  <2> QED  BY <1>6, <2>2, LeavingFills, EvictingFills
<1>7. ASSUME NEW t \in Tasks, RemoveVictim(t) PROVE Patient' /\ Filling' /\ ~(DiskBytes' > DiskBytes)
  <2> DEFINE v == task[t].victim
  <2>1. At(t, "removing") /\ disk' = [disk EXCEPT ![v] = 0] /\ order' = Without(order, v)
    BY <1>7 DEF RemoveVictim, Unlink
  <2>2. v \in Chapters /\ disk[v] \in Nat /\ 0 \in Lengths
    <3>1. v \in Chapters  BY <1>1, <2>1, TaskNow DEF Sound, At
    <3>2. disk[v] \in Lengths  BY <1>1, <3>1 DEF IInv, Folder
    <3> QED  BY <3>1, <3>2, Constants
  <2> HIDE DEF v
  <2>3. DiskBytes' = DiskBytes + 0 - disk[v]  BY <1>1, <2>1, <2>2, OneFile DEF IInv
  <2> QED  BY <1>2, <1>7, <2>2, <2>3, EvictingFills
<1>8. ASSUME \/ \E c \in Chapters : DeleteStat(c) \/ EvictRam(c)
             \/ DeleteRemove \/ DeleteSubtract \/ DeleteDropped \/ UNCHANGED vars
      PROVE  Patient' /\ Filling' /\ ~(DiskBytes' > DiskBytes)
  <2>1. Patient' /\ Filling'  BY <1>8, RequestsShrink
  <2>2. ~(DiskBytes' > DiskBytes)  BY <1>8, RequestsShrink, <1>2
  <2> QED  BY <2>1, <2>2
<1>9. CASE Restart
  <2>1. UNCHANGED disk  BY <1>9 DEF Restart
  <2>2. DiskBytes' = DiskBytes  BY <2>1 DEF DiskBytes
  <2> QED  BY <1>1, <1>2, <1>9, <2>2, RestartFills DEF FillInv, Within
<1>10. Patient' /\ Filling' /\ Within
  <2>1. \A t \in Tasks : Persist(t) => Patient' /\ Filling' /\ Within
    BY <1>2, <1>3, <1>4, <1>5, <1>6, <1>7 DEF Persist, Within
  <2>2. \A t \in Tasks : DownloadFails(t) \/ AbortTask(t) => Patient' /\ Filling' /\ Within
    BY <1>2, <1>6 DEF Within
  <2>3. \A t \in Tasks, c \in Chapters, r \in RamModes : StartDownload(t, c, r) => Patient' /\ Filling' /\ Within
    BY <1>2, <1>6 DEF Within
  <2>4. \A c \in Chapters : DeleteStat(c) \/ EvictRam(c) => Patient' /\ Filling' /\ Within
    BY <1>8 DEF Within
  <2>5. DeleteRemove \/ DeleteSubtract \/ DeleteDropped \/ UNCHANGED vars => Patient' /\ Filling' /\ Within
    BY <1>8 DEF Within
  <2>6. Restart => Patient' /\ Filling' /\ Within  BY <1>9 DEF FillInv
  <2> QED  BY <2>1, <2>2, <2>3, <2>4, <2>5, <2>6 DEF Next
<1> QED  BY <1>1, <1>10 DEF FillInv

\* Until something upsets the counter, downloads on stale copies of it leave the folder above
\* the limit by at most one chapter for each task but one, for any number of tasks and any
\* lengths, if the word has room for them: also when deletions overtake additions and the
\* counter wraps, for then there is less in the folder than is still to be added.
THEOREM OvershootIsBounded ==
  ASSUME WordIsRoomy
  PROVE  Spec => OvershootBounded
<1>1. FillInv /\ [Next]_vars => FillInv' /\ Within  BY NextFills
<1>2. Within => [~upset /\ DiskBytes' > DiskBytes =>
                   DiskBytes' <= LargestFill + (Cardinality(Tasks) - 1) * Max(Sizes)]_vars
  <2>1. Room(0) = (Cardinality(Tasks) - 1) * Max(Sizes)
    <3>1. Cardinality(Tasks) - 1 - 0 = Cardinality(Tasks) - 1  BY Rooms
    <3> QED  BY <3>1 DEF Room
  <2> QED  BY <2>1 DEF Within
<1> QED  BY <1>1, <1>2, InitFills, PTL DEF Spec, OvershootBounded
=============================================================================
