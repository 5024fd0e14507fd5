--------------------------- MODULE ChapterStorage ---------------------------
(***************************************************************************)
(* The downloads folder and its size counter (shared/src/chapter_storage.rs*)
(* and chapter_downloader.rs).                                             *)
(*                                                                         *)
(* Download tasks work on clones of one ChapterStorage, which share only   *)
(* the atomic counter and the folder itself.  A task checks whether the    *)
(* chapter is stored, downloads it to a temporary file, evicts the least   *)
(* recently modified files until its own snapshot of the counter leaves    *)
(* room, renames the file into place and adds its length to the counter.   *)
(* Requests that delete a file hold the mutex of the shared instance, so   *)
(* there is one at a time, but downloads do not take that mutex.           *)
(*                                                                         *)
(* The steps between two awaits are split where another worker thread can  *)
(* come between them.  The counter is a machine word: subtraction wraps.   *)
(***************************************************************************)
EXTENDS Naturals, FiniteSets, FiniteSetsExt, Functions, Sequences, Lines

CONSTANTS Chapters,   \* the chapters (one file name each)
          Tasks,      \* download tasks that may run at the same time
          NoChapter,  \* a task that works on no chapter
          Sizes,      \* the lengths a downloaded chapter may have
          Limit,      \* storage_size_limit
          WordSize,   \* 2^64: the counter is an AtomicU64
          RamModes    \* the values use_ram may have

ASSUME StorageConstants ==
  /\ Sizes \subseteq Nat \ {0} /\ Sizes # {} /\ IsFiniteSet(Sizes)
  /\ Limit \in Nat /\ WordSize \in Nat \ {0}
  /\ IsFiniteSet(Chapters) /\ IsFiniteSet(Tasks)
  /\ NoChapter \notin Chapters
  /\ RamModes \subseteq BOOLEAN

\* No file system holds 2^64 bytes.
ASSUME DiskAssumption ==
  \A lengths \in [Chapters -> Sizes \cup {0}] : SumFunction(lengths) < WordSize

VARIABLES
  disk,     \* the length of each stored file, 0 when there is none
  order,    \* the stored files, least recently modified first
  ram,      \* the same for the tmpfs
  counter,  \* cached_storage_size
  task,     \* what each download task is doing
  deleter,  \* the delete request in progress
  upset     \* something has happened that the counter does not account for

vars == <<disk, order, ram, counter, task, deleter, upset>>

Lengths == Sizes \cup {0}
Words == 0..(WordSize - 1)

TaskSteps ==
  {"idle", "downloading", "fitting", "measuring", "removing", "subtract", "adding"}

\* chapter and ram: what is downloaded and where to; size: the temporary
\* file; current: the local copy of the counter; victim and freed: the file
\* being evicted and the length read for it before its removal.
NoTask == [pc |-> "idle", chapter |-> NoChapter, ram |-> FALSE, size |-> 0,
           current |-> 0, victim |-> NoChapter, freed |-> 0]

NoDelete == [pc |-> "idle", chapter |-> NoChapter, freed |-> 0]

\* calculate_storage_size
DiskBytes == SumFunction(disk)

Stored(c) == disk[c] # 0

\* Fault: a signed counter.
MinusSigned(a, b) == a - b

Minus(a, b) == (a + WordSize - (b % WordSize)) % WordSize
Plus(a, b) == (a + b) % WordSize
SaturatingMinus(a, b) == IF a > b THEN a - b ELSE 0

At(t, pc) == task[t].pc = pc

Init ==
  /\ disk = [c \in Chapters |-> 0]
  /\ order = <<>>
  /\ ram = [c \in Chapters |-> 0]
  /\ counter = 0
  /\ task = [t \in Tasks |-> NoTask]
  /\ deleter = NoDelete
  /\ upset = FALSE

\* The file of c is gone; what was subtracted for it is settled later.
Unlink(c) ==
  /\ disk' = [disk EXCEPT ![c] = 0]
  /\ order' = Without(order, c)

-----------------------------------------------------------------------------
(* ensure_chapter_is_in_storage: nothing to do for a stored chapter.        *)

StartDownload(t, c, useRam) ==
  /\ At(t, "idle")
  /\ ~Stored(c) /\ (useRam => ram[c] = 0)
  /\ task' = [task EXCEPT ![t] = [NoTask EXCEPT !.pc = "downloading",
                                                !.chapter = c, !.ram = useRam]]
  /\ UNCHANGED <<disk, order, ram, counter, deleter, upset>>

\* The download fails: the temporary file goes.
DownloadFails(t) ==
  /\ At(t, "downloading")
  /\ task' = [task EXCEPT ![t] = NoTask]
  /\ UNCHANGED <<disk, order, ram, counter, deleter, upset>>

-----------------------------------------------------------------------------
(* persist_chapter                                                          *)

BeginPersist(t) ==
  /\ At(t, "downloading")
  /\ \E s \in Sizes :
       task' = [task EXCEPT ![t].pc = "fitting", ![t].size = s,
                            ![t].current = counter]
  /\ UNCHANGED <<disk, order, ram, counter, deleter, upset>>

\* A counter that wrapped below zero is past what Size, an i64, can hold: read
\* as negative, or capped and then overflowing in the sum, it always fits.
Beyond(t) == task[t].current >= WordSize \div 2
Fits(t) == Beyond(t) \/ task[t].current + task[t].size <= Limit
TooBig(t) == ~Fits(t)

\* Every chapter of the folder is a candidate, whoever downloads or reads it.
FindVictim(t) ==
  /\ At(t, "fitting") /\ TooBig(t) /\ order # <<>>
  /\ task' = [task EXCEPT ![t].pc = "measuring", ![t].victim = Head(order)]
  /\ UNCHANGED <<disk, order, ram, counter, deleter, upset>>

\* The length of a file that has gone since the search is 0.
MeasureVictim(t) ==
  /\ At(t, "measuring")
  /\ task' = [task EXCEPT ![t].pc = "removing", ![t].freed = disk[task[t].victim]]
  /\ UNCHANGED <<disk, order, ram, counter, deleter, upset>>

NothingToEvict(t) ==
  /\ At(t, "fitting") /\ TooBig(t) /\ order = <<>>
  /\ task' = [task EXCEPT ![t] = NoTask]
  /\ UNCHANGED <<disk, order, ram, counter, deleter, upset>>

\* A file that is already gone counts as evicted.
RemoveVictim(t) ==
  LET v == task[t].victim IN
  /\ At(t, "removing")
  /\ Unlink(v)
  /\ upset' = (upset \/ disk[v] # task[t].freed)
  /\ task' = [task EXCEPT ![t].pc = "subtract", ![t].victim = NoChapter]
  /\ UNCHANGED <<ram, counter, deleter>>

\* Any other failure is dropped, and the length is subtracted all the same.
RemoveVictimFails(t) ==
  /\ At(t, "removing") /\ Stored(task[t].victim)
  /\ upset' = TRUE
  /\ task' = [task EXCEPT ![t].pc = "subtract", ![t].victim = NoChapter]
  /\ UNCHANGED <<disk, order, ram, counter, deleter>>

\* Faults: the shared counter is not lowered; the local copy is not lowered.
SubtractEvictedLocally(t) ==
  /\ At(t, "subtract")
  /\ task' = [task EXCEPT ![t].pc = "fitting", ![t].freed = 0,
                          ![t].current = SaturatingMinus(@, task[t].freed)]
  /\ UNCHANGED <<disk, order, ram, counter, deleter, upset>>

SubtractEvictedGlobally(t) ==
  /\ At(t, "subtract")
  /\ task' = [task EXCEPT ![t].pc = "fitting", ![t].freed = 0]
  /\ counter' = Minus(counter, task[t].freed)
  /\ UNCHANGED <<disk, order, ram, deleter, upset>>

SubtractEvicted(t) ==
  /\ At(t, "subtract")
  /\ task' = [task EXCEPT ![t].pc = "fitting", ![t].freed = 0,
                          ![t].current = SaturatingMinus(@, task[t].freed)]
  /\ counter' = Minus(counter, task[t].freed)
  /\ UNCHANGED <<disk, order, ram, deleter, upset>>

\* Fault: the limit is not looked at again.
RenameAnyway(t) ==
  LET c == task[t].chapter IN
  /\ At(t, "fitting") /\ ~task[t].ram
  /\ disk' = [disk EXCEPT ![c] = task[t].size]
  /\ order' = Append(Without(order, c), c)
  /\ upset' = (upset \/ Stored(c))
  /\ task' = [task EXCEPT ![t].pc = "adding", ![t].current = 0]
  /\ UNCHANGED <<ram, counter, deleter>>

\* The rename replaces a file that another task has put there since the
\* check; its length stays in the counter.
RenameToDisk(t) ==
  LET c == task[t].chapter IN
  /\ At(t, "fitting") /\ Fits(t) /\ ~task[t].ram
  /\ disk' = [disk EXCEPT ![c] = task[t].size]
  /\ order' = Append(Without(order, c), c)
  /\ upset' = (upset \/ Stored(c))
  /\ task' = [task EXCEPT ![t].pc = "adding", ![t].current = 0]
  /\ UNCHANGED <<ram, counter, deleter>>

\* The tmpfs is not part of the downloads folder; its files are counted and
\* make room there all the same.
RenameToRam(t) ==
  /\ At(t, "fitting") /\ Fits(t) /\ task[t].ram
  /\ ram' = [ram EXCEPT ![task[t].chapter] = task[t].size]
  /\ upset' = TRUE
  /\ task' = [task EXCEPT ![t].pc = "adding", ![t].current = 0]
  /\ UNCHANGED <<disk, order, counter, deleter>>

\* The length is read again from the file that is there by now, if any.
AddStored(t) ==
  LET c == task[t].chapter
      length == IF task[t].ram THEN ram[c] ELSE disk[c] IN
  /\ At(t, "adding")
  /\ counter' = Plus(counter, length)
  /\ upset' = (upset \/ length # task[t].size)
  /\ task' = [task EXCEPT ![t] = NoTask]
  /\ UNCHANGED <<disk, order, ram, deleter>>

\* A cancelled task is dropped at an await: while it downloads, or around the
\* removal of a victim, which the file system completes on its own.
AbortTask(t) ==
  /\ task[t].pc \in {"downloading", "removing", "subtract"}
  /\ upset' = (upset \/ At(t, "subtract"))
  /\ task' = [task EXCEPT ![t] = NoTask]
  /\ UNCHANGED <<disk, order, ram, counter, deleter>>

-----------------------------------------------------------------------------
(* delete_filename, from the cleaner and from revoke_manga_chapter          *)

DeleteStat(c) ==
  /\ deleter.pc = "idle" /\ Stored(c)
  /\ deleter' = [pc |-> "removing", chapter |-> c, freed |-> disk[c]]
  /\ UNCHANGED <<disk, order, ram, counter, task, upset>>

\* A file that is already gone is an error, and nothing is subtracted.
DeleteRemove ==
  LET c == deleter.chapter IN
  /\ deleter.pc = "removing"
  /\ \/ /\ Stored(c)
        /\ Unlink(c)
        /\ deleter' = [deleter EXCEPT !.pc = "subtract"]
        /\ upset' = (upset \/ disk[c] # deleter.freed)
     \/ /\ ~Stored(c)
        /\ deleter' = NoDelete
        /\ UNCHANGED <<disk, order, upset>>
  /\ UNCHANGED <<ram, counter, task>>

DeleteSubtract ==
  /\ deleter.pc = "subtract"
  /\ counter' = Minus(counter, deleter.freed)
  /\ deleter' = NoDelete
  /\ UNCHANGED <<disk, order, ram, task, upset>>

\* The request's client goes away while the file is being removed.
DeleteDropped ==
  /\ deleter.pc # "idle"
  /\ upset' = (upset \/ deleter.pc = "subtract")
  /\ deleter' = NoDelete
  /\ UNCHANGED <<disk, order, ram, counter, task>>

\* evict_tmpfs_older_than_current and clean_tmpfs do not touch the counter.
EvictRam(c) ==
  /\ ram[c] # 0
  /\ ram' = [ram EXCEPT ![c] = 0]
  /\ UNCHANGED <<disk, order, counter, task, deleter, upset>>

\* ChapterStorage::new after a crash: the counter is computed from the files.
Restart ==
  /\ task' = [t \in Tasks |-> NoTask]
  /\ deleter' = NoDelete
  /\ counter' = DiskBytes % WordSize
  /\ upset' = FALSE
  /\ UNCHANGED <<disk, order, ram>>

-----------------------------------------------------------------------------
Persist(t) ==
  \/ BeginPersist(t) \/ FindVictim(t) \/ MeasureVictim(t) \/ NothingToEvict(t)
  \/ RemoveVictim(t) \/ RemoveVictimFails(t) \/ SubtractEvicted(t)
  \/ RenameToDisk(t) \/ RenameToRam(t) \/ AddStored(t)

Next ==
  \/ \E t \in Tasks, c \in Chapters, r \in RamModes : StartDownload(t, c, r)
  \/ \E t \in Tasks : DownloadFails(t) \/ Persist(t) \/ AbortTask(t)
  \/ \E c \in Chapters : DeleteStat(c) \/ EvictRam(c)
  \/ DeleteRemove \/ DeleteSubtract \/ DeleteDropped \/ Restart

Spec == Init /\ [][Next]_vars

\* The runtime polls a task that can go on, and file operations return.
FairSpec == Spec /\ \A t \in Tasks : WF_vars(Persist(t))

-----------------------------------------------------------------------------
(* Properties.                                                              *)

TypeOK ==
  /\ disk \in [Chapters -> Lengths]
  /\ order \in Seq(Chapters)
  /\ ram \in [Chapters -> Lengths]
  /\ counter \in Words
  /\ task \in [Tasks -> [pc : TaskSteps, chapter : Chapters \cup {NoChapter},
                         ram : BOOLEAN, size : Lengths, current : Words,
                         victim : Chapters \cup {NoChapter}, freed : Lengths]]
  /\ deleter \in [pc : {"idle", "removing", "subtract"},
                  chapter : Chapters \cup {NoChapter}, freed : Lengths]
  /\ upset \in BOOLEAN

AtRest == deleter = NoDelete /\ \A t \in Tasks : At(t, "idle")

\* The counter is the size of the folder whenever nothing is under way, unless
\* since the start a chapter went to RAM, a file was replaced, a removal lost
\* its subtraction to an abort, or two removals met on one file: those are
\* the only ways it drifts, whatever else overlaps.
CounterExactUnlessUpset == ~upset /\ AtRest => counter = DiskBytes

\* Until one of those happens, downloads that overlap leave the folder above
\* the limit by at most one chapter for each task but one: the room a task has
\* made is not given to another.  A chapter longer than the limit stands for the
\* limit, for it is stored when the counter is below zero.
LargestFill == Max({Limit, Max(Sizes)})

OvershootBounded ==
  [][~upset /\ DiskBytes' > DiskBytes =>
       DiskBytes' <= LargestFill + (Cardinality(Tasks) - 1) * Max(Sizes)]_vars

\* "Total size in bytes of persistently stored chapters ... updated on every
\* persist/delete" (chapter_storage.rs:622-624).
CounterExact == AtRest => counter = DiskBytes

\* The victim of a round was gone before its length was read.
Misses(t) == At(t, "removing") /\ task[t].freed = 0

\* A task that looks for room stores its chapter, gives up, or has another task
\* or request take the file it chose: a round that evicts what it chose lowers its
\* copy of the counter, and a round whose file is gone lowers nothing.  The loop
\* has no other bound, so it can go on only for as long as others keep removing
\* the very files it chooses.
PersistEnds(t) == At(t, "fitting") ~> At(t, "idle") \/ Misses(t)
=============================================================================
