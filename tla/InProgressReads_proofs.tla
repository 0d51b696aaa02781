---------------------- MODULE InProgressReads_proofs ----------------------
(***************************************************************************)
(* Theorems about InProgressReads for every set of positions and of        *)
(* settings, and for every bound on reads, days, moves, edits and faults.  *)
(* The inductive invariant is                                              *)
(*                                                                         *)
(*   Types /\ Dated /\ Jobs /\ Shelved /\ Aimed /\ Earned /\ Checked       *)
(*     /\ Others /\ Unsplit                                                *)
(*                                                                         *)
(* Jobs says where a job stands, Aimed what it knows of the read it is     *)
(* about to write, Earned and Unsplit what two of the properties need.     *)
(* Alone, that there is one active read but for the copies a resent        *)
(* insertion makes, is inductive relative to it: an active read of one     *)
(* insertion is alone, and beside a copy there are only copies.            *)
(***************************************************************************)
EXTENDS InProgressReads, FiniteSetTheorems, WellFoundedInduction, TLAPS

---------------------------------------------------------------------------
(* The invariant                                                           *)

JobRecords == [pos : 0..Duration, start : Days \cup {NoDay}, ub : Books, cache : Books,
               snapped : BOOLEAN, reads : SUBSET ReadRecords, read : ReadRecords,
               save : BOOLEAN, raced : BOOLEAN, blind : BOOLEAN]
Budgets == [listens : Nat, edits : Nat, faults : Nat]
Entries == [prog : 0..Duration, status : {"none", "IN_PROGRESS", "FINISHED"},
            fresh : BOOLEAN]

Types ==
  /\ abs \in [pos : Positions, start : Days, later : BOOLEAN]
  /\ today \in Days /\ config \in Configs
  /\ book \in Books /\ cache \in Books
  /\ reads \subseteq ReadRecords /\ made \in 0..MaxReads
  /\ \A r \in reads : r.id \in 1..made
  /\ \A r, o \in reads : r.id = o.id => r = o
  /\ entry \in Entries
  /\ pc \in Places /\ job \in JobRecords
  /\ ckpt \in 0..Duration /\ recent \subseteq 1..made
  /\ budget \in Budgets

\* Nothing lies in the future, and what the sync inserted has a start and does
\* not end before it.
Dated ==
  /\ abs.start <= today /\ job.start <= today
  /\ \A r \in reads : r.started <= today /\ r.finished <= today
  /\ \A r \in job.reads : r.finished <= today
  /\ \A r \in reads :
       r.by = "sync" => /\ r.started # NoDay
                        /\ ~Unfinished(r) => r.started <= r.finished

\* The place of a job, and what it holds there.
Jobs ==
  /\ pc = "idle" => job = NoJob
  /\ pc # "idle" => job.pos \in Positions
  /\ pc \notin {"idle", "status", "clean", "save"} => job.start \in Days
  /\ pc \in {"close", "update", "insert", "save"} => job.save
  /\ pc = "edition" => ~job.snapped /\ ~job.blind
  /\ pc \in {"find", "create", "load", "edition"} => ~job.save /\ ~job.snapped
  /\ \A r \in job.reads : r.id \in 1..made

\* A user book that exists has an edition, wherever it is kept.
Real(b) == b = NoBook \/ b.edition # "none"

Shelved ==
  /\ Real(book) /\ Real(cache) /\ Real(job.cache)
  /\ pc \notin {"idle", "find", "create"} => book.edition # "none"
  /\ pc \in {"edition", "reads", "close", "update", "insert"} => job.ub.edition # "none"

\* A finish in this set that findStaleRereadDate counts is after that day.
Outdated(set, day) ==
  \E f \in FinishedTargets(set) :
    /\ ~(Progress(f) = 0 /\ f.started = f.finished /\ f.finished = today)
    /\ f.finished > day

\* What a job knows of the read it is about to write.
Aimed ==
  /\ pc \in {"close", "update"} =>
       /\ job.read \in job.reads /\ Unfinished(job.read)
       /\ \A r \in reads : r.id = job.read.id =>
            /\ r.started = job.read.started
            /\ job.raced \/ Unfinished(r)
  /\ pc = "close" => job.read.started # NoDay /\ Outdated(job.reads, job.read.started)

\* What a checkpoint is earned by.
Earned ==
  ~job.raced =>
    /\ pc \in {"edition", "reads", "close", "update", "insert"} =>
         job.ub.status \in {book.status, "unknown"}
    /\ pc \in {"status", "clean", "save"} /\ job.save =>
         \E r \in reads : Unfinished(r) /\ r.seconds = job.pos
    /\ pc \in {"clean", "save"} => book.status = "reading"

\* The checkpoint is of the position that it was taken at.
Checked ==
  ckpt > 0 => /\ ckpt \in Positions
              /\ entry.status = "IN_PROGRESS" /\ entry.prog = Stored(ckpt)

\* The user's reads in progress are not of the target edition.
Others == \A r \in reads : r.by = "user" /\ Unfinished(r) => r.edition # "target"

\* A read inserted since the last edit starts after every finish, and what a
\* job knows of the finishes stays true until the user edits the book.
Unsplit ==
  /\ \A r \in reads : r.id \in recent =>
       r.started # NoDay /\ \A f \in FinishedTargets(reads) : f.finished <= r.started
  /\ pc = "close" => /\ job.read.id \notin recent
                     /\ recent = {} \/ FinishedTargets(job.reads) \subseteq reads
  /\ pc \in {"close", "insert"} /\ ~job.blind /\ ~job.raced =>
       \A f \in FinishedTargets(reads) :
         \E g \in FinishedTargets(job.reads) : f.finished <= g.finished

IInv == /\ Types /\ Dated /\ Jobs /\ Shelved /\ Aimed
        /\ Earned /\ Checked /\ Others /\ Unsplit

\* A read that the sync wrote, in progress for the edition.
Active(r) == /\ r.by # "user" /\ r.edition = "target"
             /\ Unfinished(r) /\ r.seconds # NoProgress

\* Beside an active read of one insertion there is no other.  What a job writes
\* is the only one, or a copy beside copies, and where it inserts a read there
\* are only copies, unless it did not see the reads.
Alone ==
  \/ missed # {}
  \/ /\ \A r, o \in reads : Active(r) /\ Active(o) /\ r.id \notin resent => r = o
     /\ pc \in {"close", "update"} =>
          \A r \in reads : Active(r) => \/ r.id = job.read.id
                                        \/ r.id \in resent /\ job.read.id \in resent
     /\ pc = "insert" => job.blind \/ \A r \in reads : Active(r) => r.id \in resent

---------------------------------------------------------------------------
(* What the steps do, field by field                                       *)

World == UNCHANGED <<abs, today, config, book, reads, made, entry, ckpt, missed, resent, recent>>

\* The job is over.
Rests == pc' = "idle" /\ job' = NoJob

\* The job goes on with what k holds, as far as the invariant speaks of it.
Keeps(k) ==
  /\ job'.pos = k.pos /\ job'.start = k.start /\ job'.ub = k.ub
  /\ job'.reads = k.reads /\ job'.raced = k.raced /\ job'.blind = k.blind

\* With the reads settled only the position, and whether to save it, matter.
Settles(k, save) ==
  /\ pc' \in {"status", "save"}
  /\ job'.pos = k.pos /\ job'.save = save /\ job'.raced = k.raced
  /\ job'.reads = {} /\ job'.start = NoDay
  /\ pc' = "save" => save /\ k.ub.status = "reading"

\* What Decide leads to.  The read chosen is one of the target edition, with
\* progress, if the job knows of such a read.
Chosen(k) ==
  \/ Rests
  \/ /\ pc' = "insert" /\ Keeps(k) /\ job'.save
     /\ \A r \in k.reads : ~(Unfinished(r) /\ r.edition = "target")
  \/ /\ pc' \in {"close", "update"} /\ Keeps(k) /\ job'.save
     /\ job'.read \in k.reads /\ Unfinished(job'.read)
     /\ \A r \in k.reads :
          Unfinished(r) /\ r.edition = "target" /\ r.seconds # NoProgress
            => job'.read.edition = "target" /\ job'.read.seconds # NoProgress
     /\ pc' = "close" => job'.read.started # NoDay /\ Outdated(k.reads, job'.read.started)
  \/ \E save \in BOOLEAN :
       /\ Settles(k, save)
       /\ save => \E r \in k.reads : Unfinished(r) /\ r.seconds = k.pos

Begins ==
  /\ World /\ pc = "idle" /\ pc' = "find"
  /\ job'.pos = abs.pos /\ job'.start = abs.start /\ job'.reads = {}
  /\ ~job'.save /\ ~job'.snapped /\ ~job'.raced /\ ~job'.blind

\* The user book is looked up further, or created.
Looks ==
  /\ World /\ pc = "find"
  /\ \/ /\ pc' \in {"load", "create"} /\ UNCHANGED job
        /\ pc' = "load" => book.edition = "target"
     \/ /\ pc' = "edition" /\ book.edition # "none"
        /\ job'.pos = job.pos /\ job'.start = job.start /\ job'.raced = job.raced
        /\ job'.reads = job.reads /\ ~job'.blind /\ ~job'.snapped /\ ~job'.save
        /\ job'.ub.status \in {book.status, "unknown"}
        /\ job'.ub.edition # "none"

\* The user book is known, its reads are not.
Learns ==
  /\ UNCHANGED <<abs, today, config, reads, made, entry, ckpt, missed, resent, recent>>
  /\ pc \in {"find", "load", "edition"} /\ book.edition # "none"
  /\ book' \in Books /\ book'.edition # "none" /\ book'.status = book.status
  /\ \/ Rests
     \/ /\ pc' = "reads"
        /\ job'.pos = job.pos /\ job'.start = job.start /\ job'.reads \in {job.reads, {}}
        /\ job.raced => job'.raced
        /\ \/ job'.raced \/ job'.ub.status \in {book.status, "unknown"}
           \/ pc = "edition" /\ job'.ub = job.ub
        /\ job'.ub.edition # "none"

\* The reads are known, if the answer shows them.
Knows(k) ==
  /\ k.pos = job.pos /\ k.start = job.start /\ k.raced = job.raced
  /\ k.reads \in {reads, {}} /\ k.blind = (k.reads # reads)
  /\ k.ub.status \in {book.status, "unknown"} \/ (pc = "reads" /\ k.ub = job.ub)
  /\ k.ub.edition # "none"

Chooses ==
  /\ World /\ pc \in {"find", "reads"} /\ book.edition # "none"
  /\ \E k \in JobRecords : Knows(k) /\ Chosen(k)

AddsBlank ==
  \/ UNCHANGED <<reads, made>>
  \/ /\ made < MaxReads /\ made' = made + 1
     /\ \E r \in ReadRecords :
          /\ reads' = reads \cup {r} /\ r.id = made + 1 /\ Unfinished(r)
          /\ r.by = "hardcover" /\ r.seconds = NoProgress /\ r.started = NoDay

Creates ==
  /\ UNCHANGED <<abs, today, config, entry, ckpt, missed, resent, recent>>
  /\ pc = "create" /\ pc' = "load" /\ UNCHANGED job /\ AddsBlank
  /\ book' \in Books /\ book'.edition # "none"

\* A read of the user book is written anew.
Rewrites(r, new) ==
  /\ r \in reads /\ r.id = job.read.id
  /\ new \in ReadRecords /\ reads' = (reads \ {r}) \cup {new}
  /\ new.id = r.id /\ new.edition = r.edition /\ new.by = r.by

Closes ==
  /\ UNCHANGED <<abs, today, config, book, made, entry, ckpt, missed, resent, recent>>
  /\ pc = "close"
  /\ \E r \in reads, new \in ReadRecords, f \in FinishedTargets(job.reads) :
       /\ Rewrites(r, new) /\ new.started = r.started /\ new.seconds = r.seconds
       /\ new.finished = f.finished /\ f.finished > job.read.started
  /\ Rests \/ (pc' = "insert" /\ UNCHANGED job)

Updates ==
  /\ UNCHANGED <<abs, today, config, book, made, entry, ckpt, missed, resent, recent>>
  /\ pc = "update"
  /\ \E r \in reads, new \in ReadRecords :
       /\ Rewrites(r, new) /\ new.finished = r.finished /\ new.seconds = job.pos
       /\ new.started = IF job.read.started = NoDay THEN job.start ELSE job.read.started
  /\ Rests \/ Settles(job, job.save)

Inserts ==
  /\ UNCHANGED <<abs, today, config, book, entry, ckpt>>
  /\ pc = "insert" /\ ~AlreadyRecorded
  /\ made' \in Nat /\ made < made' /\ made' <= MaxReads
  /\ \E new \in SUBSET ReadRecords :
       /\ reads' = reads \cup new /\ new # {}
       /\ \A r \in new : /\ r.id \in (made + 1)..made' /\ r.by = "sync"
                         /\ Unfinished(r) /\ r.seconds = job.pos
                         /\ r.started # NoDay /\ r.started <= today
                         /\ \A f \in FinishedTargets(job.reads) : f.finished <= r.started
       /\ \A r, o \in new : r.id = o.id => r = o
       /\ \/ \A r \in new : r.id \in resent'
          \/ /\ \A r, o \in new : r = o
             /\ \A r \in reads : r.id \in resent => ~Unfinished(r)
  /\ resent \subseteq resent'
  /\ \A i \in resent' : i \in resent \/ i > made
  /\ missed' = missed \cup Excuse
  /\ recent' \in {recent, recent \cup ((made + 1)..made')}
  /\ job.blind \/ job.raced => recent' = recent
  /\ Rests \/ Settles(job, job.save)

SetsStatus ==
  /\ UNCHANGED <<abs, today, config, entry, ckpt, missed, resent, recent>>
  /\ pc = "status" /\ AddsBlank
  /\ book' \in Books /\ book'.status = "reading" /\ book'.edition = book.edition
  /\ \/ Rests
     \/ /\ pc' = "clean" /\ job'.pos = job.pos /\ job'.save = job.save
        /\ job'.raced = job.raced /\ job'.reads = job.reads /\ job'.start = job.start

Cleans ==
  /\ UNCHANGED <<abs, today, config, book, made, entry, ckpt, missed, resent, recent>>
  /\ pc = "clean" /\ reads' \in {reads, {r \in reads : ~Blank(r)}}
  /\ Rests \/ (pc' = "save" /\ job.save /\ UNCHANGED job)

Saves ==
  /\ UNCHANGED <<today, config, book, reads, made, missed, resent, recent>>
  /\ pc = "save" /\ Rests
  /\ \/ UNCHANGED <<abs, entry, ckpt>>
     \/ /\ entry' = Updated(job.pos) /\ ckpt' = job.pos
        /\ \E later \in BOOLEAN : abs' = [abs EXCEPT !.later = later]

Ends == World /\ Rests

Listens ==
  /\ UNCHANGED <<today, config, book, reads, made, entry, ckpt, missed, resent, recent,
               pc, job>>
  /\ abs'.pos \in Positions /\ abs'.start \in {abs.start, today} /\ abs'.later \in BOOLEAN
  /\ abs' = [pos |-> abs'.pos, start |-> abs'.start, later |-> abs'.later]

\* The user adds a read, finishes one, or removes one.
Alters ==
  \/ UNCHANGED <<reads, made>>
  \/ /\ made < MaxReads /\ made' = made + 1
     /\ \E r \in ReadRecords :
          /\ reads' = reads \cup {r} /\ r.id = made + 1 /\ r.by = "user"
          /\ r.started = today /\ r.finished \in {NoDay, today}
          /\ Unfinished(r) => r.edition # "target"
  \/ /\ UNCHANGED made
     /\ \E r \in reads, new \in ReadRecords :
          /\ reads' = (reads \ {r}) \cup {new} /\ new.finished = today /\ Unfinished(r)
          /\ new.id = r.id /\ new.edition = r.edition /\ new.by = r.by
          /\ new.started = r.started /\ new.seconds = r.seconds
  \/ UNCHANGED made /\ \E r \in reads : reads' = reads \ {r}

EditsBook ==
  /\ UNCHANGED <<abs, today, config, entry, ckpt, missed, resent, pc>>
  /\ recent' = {} /\ Alters /\ budget'.edits # budget.edits
  /\ book.edition # "none" /\ book' \in Books /\ book'.edition # "none"
  /\ Keeps([job EXCEPT !.raced = pc # "idle"])
  /\ job'.read = job.read /\ job'.save = job.save /\ job'.snapped = job.snapped
  /\ pc = "idle" => job' = NoJob

Ticks ==
  /\ UNCHANGED <<abs, config, book, reads, made, ckpt, missed, resent, recent, pc>>
  /\ today' = today + 1 /\ today' \in Days
  /\ entry' \in Entries /\ entry'.prog = entry.prog /\ entry'.status = entry.status
  /\ Keeps(job) /\ job'.read = job.read /\ job'.save = job.save
  /\ job'.snapped = job.snapped
  /\ pc = "idle" => job' = NoJob

\* What every step keeps of the rest.
Shaped ==
  /\ job' \in JobRecords /\ cache' \in Books /\ Real(cache') /\ Real(job'.cache)
  /\ budget' \in Budgets

Step ==
  \/ Begins \/ Looks \/ Learns \/ Chooses \/ Creates \/ Closes \/ Updates \/ Inserts
  \/ SetsStatus \/ Cleans \/ Saves \/ Ends \/ Listens \/ EditsBook \/ Ticks
  \/ UNCHANGED vars

---------------------------------------------------------------------------
(* The helpers on sets of reads                                            *)

\* The Max of FiniteSetsExt is a maximum on every nonempty set of read numbers.
LEMMA MaxOfNumbers ==
  ASSUME NEW n \in Nat, NEW S \in SUBSET (0..n), S # {}
  PROVE  Max(S) \in S /\ \A x \in S : x <= Max(S)
<1> DEFINE Above(x) == {y \in S : y > x}
           Family == {Above(x) : x \in S}
<1>1. IsFiniteSet(0..n)
  BY FS_Interval
<1>2. Family \subseteq FiniteSubsetsOf(0..n)
  BY <1>1, FS_FiniteSubsetsOfFinite
<1>3. PICK A \in Family :
        \A B \in Family : <<B, A>> \notin StrictSubsetOrdering(0..n)
  <2>1. Family # {} OBVIOUS
  <2> HIDE DEF Family
  <2> QED BY <1>2, <2>1, FS_StrictSubsetOrderingWellFounded, WFMin
<1>4. PICK m \in S : A = Above(m) OBVIOUS
<1>5. \A y \in S : m >= y
  <2> SUFFICES ASSUME NEW y \in S, ~(m >= y) PROVE FALSE OBVIOUS
  <2>1. y > m /\ m \in Int /\ y \in Int OBVIOUS
  <2>2. y \in Above(m) /\ y \notin Above(y) BY <2>1
  <2>3. Above(y) \subseteq Above(m)
    <3> SUFFICES ASSUME NEW z \in S, z > y PROVE z > m OBVIOUS
    <3>1. z \in Int OBVIOUS
    <3> QED BY <2>1, <3>1
  <2>4. <<Above(y), Above(m)>> \in StrictSubsetOrdering(0..n)
    BY <2>2, <2>3 DEF StrictSubsetOrdering
  <2> QED BY <1>3, <1>4, <2>4
<1>6. Max(S) \in S /\ \A x \in S : Max(S) >= x
  BY <1>5 DEF Max
<1> QED BY <1>6

\* The latest finish of a set of finished reads is one of theirs, and no other
\* is later.
LEMMA LatestIsFinish ==
  ASSUME NEW S \in SUBSET ReadRecords, \A r \in S : ~Unfinished(r)
  PROVE  /\ S = {} => Latest(S) = NoDay
         /\ S # {} => \E r \in S : Latest(S) = r.finished
         /\ \A r \in S : r.finished <= Latest(S)
         /\ Latest(S) \in Days \cup {NoDay}
<1> DEFINE F == {r.finished : r \in S}
<1>1. \A r \in S : r.finished \in 0..MaxDay
  BY DEF ReadRecords, Unfinished, Days
<1>2. F \in SUBSET (0..MaxDay) BY <1>1
<1>3. MaxDay \in Nat BY InProgressAssumption
<1>4. CASE S = {} BY <1>4 DEF Latest
<1>5. CASE S # {}
  <2>1. F # {} BY <1>5
  <2> HIDE DEF F
  <2>2. Max(F) \in F /\ \A x \in F : x <= Max(F) BY <1>2, <1>3, <2>1, MaxOfNumbers
  <2> USE DEF F
  <2>3. Latest(S) = Max(F) BY <1>5 DEF Latest
  <2> QED BY <1>1, <1>5, <2>2, <2>3 DEF Days
<1> QED BY <1>4, <1>5

\* What findStaleRereadDate looks for is there when some finish is late enough.
LEMMA StaleMeansOutdated ==
  ASSUME NEW S \in SUBSET ReadRecords, NEW day \in Days \cup {NoDay}
  PROVE  /\ day < LatestFinish(S) => Outdated(S, day)
         /\ Outdated(S, day) => \E f \in FinishedTargets(S) :
              LatestFinish(S) = f.finished /\ f.finished > day
<1> DEFINE C == {r \in FinishedTargets(S) :
                   ~(Progress(r) = 0 /\ r.started = r.finished /\ r.finished = today)}
<1>1. C \in SUBSET ReadRecords /\ (\A r \in C : ~Unfinished(r) /\ r \in FinishedTargets(S))
  BY DEF FinishedTargets
<1>2. LatestFinish(S) = Latest(C) BY DEF LatestFinish
<1>3. \A r \in C : r.finished \in Int BY <1>1 DEF ReadRecords, Days, NoDay
<1>4. day \in Int /\ day >= NoDay BY DEF Days, NoDay
<1>5. Outdated(S, day) <=> \E f \in C : f.finished > day BY DEF Outdated
<1> HIDE DEF C
<1>6. /\ C = {} => Latest(C) = NoDay
      /\ C # {} => \E r \in C : Latest(C) = r.finished
      /\ \A r \in C : r.finished <= Latest(C)
  BY <1>1, LatestIsFinish
<1>7. ASSUME day < LatestFinish(S) PROVE Outdated(S, day)
  BY <1>2, <1>4, <1>5, <1>6, <1>7 DEF NoDay
<1>8. ASSUME Outdated(S, day)
      PROVE  \E f \in FinishedTargets(S) : LatestFinish(S) = f.finished /\ f.finished > day
  <2>1. PICK c \in C : c.finished > day BY <1>5, <1>8
  <2>2. PICK f \in C : Latest(C) = f.finished BY <1>6, <2>1
  <2>3. f.finished >= c.finished BY <1>6, <2>2
  <2> QED BY <1>1, <1>2, <1>3, <1>4, <2>1, <2>2, <2>3
<1> QED BY <1>7, <1>8

\* The furthest read exists in every nonempty set.
LEMMA FurthestIsThere ==
  ASSUME NEW S \in SUBSET ReadRecords, S # {}
  PROVE  Furthest(S) \in S /\ \A o \in S : Progress(o) <= Progress(Furthest(S))
<1> DEFINE P == {Progress(r) : r \in S}
<1>1. \A r \in S : Progress(r) \in 0..Duration /\ r.id \in 0..MaxReads
  BY DEF ReadRecords, Progress, NoProgress, Duration
<1>2. Duration \in Nat /\ MaxReads \in Nat BY InProgressAssumption DEF Duration
<1>3. Max(P) \in P /\ \A x \in P : x <= Max(P)
  <2>1. P \in SUBSET (0..Duration) /\ P # {} BY <1>1
  <2> HIDE DEF P
  <2> QED BY <1>2, <2>1, MaxOfNumbers
<1>4. PICK a \in S : Progress(a) = Max(P) BY <1>3
<1> DEFINE T == {r \in S : Progress(r) = Progress(a)}
           I == {MaxReads - r.id : r \in T}
<1>5. Max(I) \in I /\ \A x \in I : x <= Max(I)
  <2>1. I \in SUBSET (0..MaxReads) /\ I # {} BY <1>1, <1>2
  <2> HIDE DEF I
  <2> QED BY <1>2, <2>1, MaxOfNumbers
<1>6. PICK b \in T : MaxReads - b.id = Max(I) BY <1>5
<1>7. \A o \in S : Progress(o) <= Progress(b) BY <1>3, <1>4, <1>6
<1>8. \A o \in S : Progress(o) = Progress(b) => b.id <= o.id
  <2> SUFFICES ASSUME NEW o \in S, Progress(o) = Progress(b) PROVE b.id <= o.id OBVIOUS
  <2>1. MaxReads - o.id \in I BY <1>6
  <2>2. MaxReads - o.id <= MaxReads - b.id BY <1>5, <1>6, <2>1
  <2> QED BY <1>1, <1>2, <1>6, <2>2
<1> HIDE DEF P, T, I
<1>9. b \in S BY <1>6 DEF T
<1>10. \A o \in S : \/ Progress(o) < Progress(b)
                    \/ Progress(o) = Progress(b) /\ b.id <= o.id
  BY <1>1, <1>7, <1>8, <1>9
<1>11. Furthest(S) \in S /\ \A o \in S : \/ Progress(o) < Progress(Furthest(S))
                                         \/ Progress(o) = Progress(Furthest(S))
                                              /\ Furthest(S).id <= o.id
  BY <1>9, <1>10 DEF Furthest
<1> QED BY <1>1, <1>11

\* The read selected is an unfinished one of the set, of the target edition and
\* with progress if there is such a read.
LEMMA SelectedIsOpen ==
  ASSUME NEW S \in SUBSET ReadRecords, NEW ub, \A r \in S : r.id # 0
  PROVE  LET read == Selected(S, ub) IN
         /\ read = NoRead => \A r \in S : ~(Unfinished(r) /\ r.edition = "target")
         /\ read # NoRead =>
              /\ read \in S /\ Unfinished(read)
              /\ \A r \in S :
                   Unfinished(r) /\ r.edition = "target" /\ r.seconds # NoProgress
                     => read.edition = "target" /\ read.seconds # NoProgress
<1> DEFINE of(e) == OpenOf(S, e)
<1>1. ASSUME NEW e, of(e) # {}
      PROVE  /\ Furthest(of(e)) \in S /\ Unfinished(Furthest(of(e)))
             /\ Furthest(of(e)).edition = e
             /\ \A o \in of(e) : Progress(o) <= Progress(Furthest(of(e)))
  <2>1. of(e) \in SUBSET ReadRecords BY DEF OpenOf
  <2>2. \A r \in of(e) : r \in S /\ Unfinished(r) /\ r.edition = e BY DEF OpenOf
  <2> QED BY <1>1, <2>1, <2>2, FurthestIsThere
<1>2. \A r \in S : r # NoRead BY DEF NoRead
<1>3. \A r \in S : r.seconds \in 1..Duration \cup {NoProgress} BY DEF ReadRecords
<1>4. CASE of("target") # {}
  <2>1. Selected(S, ub) = Furthest(of("target")) BY <1>4 DEF Selected
  <2>2. \A r \in S : Unfinished(r) /\ r.edition = "target" => r \in of("target") BY DEF OpenOf
  <2> DEFINE best == Furthest(of("target"))
  <2>3. /\ best \in S /\ Unfinished(best) /\ best.edition = "target"
        /\ \A o \in of("target") : Progress(o) <= Progress(best)
    BY <1>1, <1>4
  <2> HIDE DEF best, of
  <2>4. ASSUME NEW r \in S, Unfinished(r), r.edition = "target", r.seconds # NoProgress
        PROVE  best.seconds # NoProgress
    <3>1. Progress(r) <= Progress(best) BY <2>2, <2>3, <2>4
    <3>2. r.seconds \in 1..Duration BY <1>3, <2>4
    <3>3. Progress(r) = r.seconds BY <2>4 DEF Progress
    <3>4. r.seconds > 0 BY <3>2 DEF Duration
    <3>5. best.seconds = NoProgress => Progress(best) = 0 BY DEF Progress
    <3> HIDE DEF Progress
    <3> QED BY <3>1, <3>2, <3>3, <3>4, <3>5 DEF Duration
  <2> USE DEF best
  <2> QED BY <1>2, <2>1, <2>3, <2>4
<1>5. CASE of("target") = {}
  <2>1. \A r \in S : ~(Unfinished(r) /\ r.edition = "target") BY <1>5 DEF OpenOf
  <2>2. \/ Selected(S, ub) = NoRead
        \/ of("nil") # {} /\ Selected(S, ub) = Furthest(of("nil"))
        \/ of(ub.edition) # {} /\ Selected(S, ub) = Furthest(of(ub.edition))
    <3>1. CASE of("nil") # {} BY <1>5, <3>1 DEF Selected
    <3>2. CASE of("nil") = {} /\ of(ub.edition) # {} BY <1>5, <3>2 DEF Selected
    <3>3. CASE of("nil") = {} /\ of(ub.edition) = {} BY <1>5, <3>3 DEF Selected
    <3> QED BY <3>1, <3>2, <3>3
  <2>3. CASE Selected(S, ub) = NoRead BY <2>1, <2>3
  <2>4. ASSUME NEW e, of(e) # {}, Selected(S, ub) = Furthest(of(e)) PROVE Selected(S, ub) \in S
          /\ Unfinished(Selected(S, ub))
    BY <1>1, <2>4
  <2> HIDE DEF of
  <2> QED BY <2>1, <2>2, <2>3, <2>4
<1> QED BY <1>4, <1>5

---------------------------------------------------------------------------
(* Every step does one of these                                            *)

\* A bound keeps its type, and so do the empty records.
LEMMA Basics ==
  /\ NoBook \in Books /\ NoRead \in ReadRecords /\ NoJob \in JobRecords
  /\ MaxDay \in Nat /\ MaxReads \in Nat /\ Duration = 1000
  /\ \A p \in Positions : p \in 1..(Duration - 1) /\ p \in 0..Duration
<1>1. MaxDay \in Nat /\ MaxReads \in Nat /\ Positions \subseteq 1..(Duration - 1)
  BY InProgressAssumption
<1>2. NoBook \in Books BY DEF NoBook, Books, Statuses
<1>3. NoRead \in ReadRecords BY <1>1 DEF NoRead, ReadRecords, NoDay, NoProgress
<1>4. NoJob \in JobRecords BY <1>2, <1>3 DEF NoJob, JobRecords, NoDay, Duration
<1> QED BY <1>1, <1>2, <1>3, <1>4 DEF Duration

\* The counts of moves, edits and faults are numbers.
LEMMA BudgetTyped ==
  ASSUME budget \in Budgets
  PROVE  /\ NoFault => budget' \in Budgets
         /\ \A n \in Nat : Faults(n) => budget' \in Budgets
<1>1. NoFault => budget' \in Budgets BY DEF NoFault
<1>2. ASSUME NEW n \in Nat, Faults(n) PROVE budget' \in Budgets
  BY <1>2 DEF Faults, Budgets
<1> QED BY <1>1, <1>2

\* The caches after a step hold what they held, or nothing.
Cached(k) == /\ cache' \in {cache, k.cache, NoBook}
             /\ job'.cache \in {k.cache, NoBook}

\* With the reads settled a job is over, or sets the status, or saves.
LEMMA Settling ==
  ASSUME NEW k \in JobRecords, Settle(k)
  PROVE  (Rests \/ Settles(k, k.save)) /\ job' \in JobRecords /\ Cached(k)
<1>1. CASE Leave(k.cache)
  BY <1>1, Basics DEF Leave, Rests, Cached, NoJob
<1>2. CASE ~Leave(k.cache)
  <2>1. /\ pc' \in {"status", "save"} /\ job' = Settled(k) /\ cache' = cache
        /\ pc' = "save" => k.save /\ k.ub.status = "reading"
    BY <1>2 DEF Settle, Goto
  <2>2. Settled(k) \in JobRecords 
    <3>1. /\ k.pos \in 0..Duration /\ k.cache \in Books
          /\ k.save \in BOOLEAN /\ k.raced \in BOOLEAN
      BY DEF JobRecords
    <3>2. NoJob \in JobRecords BY Basics
    <3> HIDE DEF NoJob
    <3> QED BY <3>1, <3>2 DEF Settled, JobRecords
  <2>3. /\ job'.pos = k.pos /\ job'.save = k.save /\ job'.raced = k.raced
        /\ job'.cache = k.cache /\ job'.reads = {} /\ job'.start = NoDay
    BY <2>1 DEF Settled, NoJob
  <2> QED BY <2>1, <2>2, <2>3 DEF Settles, Cached
<1> QED BY <1>1, <1>2

\* A job that knows the reads inserts one, closes or updates one, or has settled.
LEMMA Choosing ==
  ASSUME NEW k \in JobRecords, k.pos \in Positions, \A r \in k.reads : r.id # 0,
         Decide(k)
  PROVE  Chosen(k) /\ job' \in JobRecords /\ Cached(k)
<1> DEFINE read == Selected(k.reads, k.ub)
           near == Near(k.pos, Progress(read))
           next == [k EXCEPT !.read = read, !.save = TRUE]
           done == [next EXCEPT !.save = k.pos = Progress(read)]
<1>1. k.reads \in SUBSET ReadRecords BY DEF JobRecords
<1>2. /\ read = NoRead => \A r \in k.reads : ~(Unfinished(r) /\ r.edition = "target")
      /\ read # NoRead =>
           /\ read \in k.reads /\ Unfinished(read)
           /\ \A r \in k.reads :
                Unfinished(r) /\ r.edition = "target" /\ r.seconds # NoProgress
                  => read.edition = "target" /\ read.seconds # NoProgress
  BY <1>1, SelectedIsOpen
<1>3. read \in ReadRecords BY <1>1, <1>2, Basics
<1>4. next \in JobRecords /\ next.read = read /\ next.save = TRUE /\ next.pos = k.pos
      /\ next.start = k.start /\ next.ub = k.ub /\ next.reads = k.reads
      /\ next.raced = k.raced /\ next.blind = k.blind /\ next.cache = k.cache
  BY <1>3 DEF JobRecords
<1>5. \/ pc' = "insert" /\ read = NoRead /\ job' = next /\ cache' = cache
      \/ pc' = "close" /\ read # NoRead /\ Stale(read, k.reads) /\ job' = next /\ cache' = cache
      \/ pc' = "update" /\ read # NoRead /\ job' = next /\ cache' = cache
      \/ read # NoRead /\ Settle(done)
  BY DEF Decide, Goto
<1>6. read.started \in Days \cup {NoDay} BY <1>3 DEF ReadRecords
<1>7. Stale(read, k.reads) => read.started # NoDay /\ Outdated(k.reads, read.started)
  BY <1>1, <1>6, StaleMeansOutdated DEF Stale
<1>8. CASE read # NoRead /\ Settle(done)
  <2>1. /\ done \in JobRecords /\ done.save = (k.pos = Progress(read)) /\ done.pos = k.pos
        /\ done.ub = k.ub /\ done.raced = k.raced /\ done.cache = k.cache
    <3> HIDE DEF next, read
    <3> QED BY <1>4 DEF JobRecords
  <2>2. (Rests \/ Settles(done, done.save)) /\ job' \in JobRecords /\ Cached(done)
    BY <1>8, <2>1, Settling
  <2>3. Settles(done, done.save) => Settles(k, done.save) BY <2>1 DEF Settles
  <2> HIDE DEF done, next, near, read
  <2>4. ASSUME done.save PROVE \E r \in k.reads : Unfinished(r) /\ r.seconds = k.pos
    <3>1. k.pos = Progress(read) BY <2>1, <2>4
    <3>2. k.pos # 0 BY Basics
    <3> QED BY <1>2, <1>8, <3>1, <3>2 DEF Progress
  <2>5. Cached(k) BY <2>1, <2>2 DEF Cached
  <2>6. done.save \in BOOLEAN BY <2>1 DEF JobRecords
  <2> QED BY <2>2, <2>3, <2>4, <2>5, <2>6 DEF Chosen
<1>9. CASE job' = next /\ cache' = cache /\ pc' \in {"insert", "close", "update"}
  <2>1. Keeps(k) /\ Cached(k) BY <1>4, <1>9 DEF Keeps, Cached
  <2> HIDE DEF next, read
  <2>2. job' \in JobRecords /\ job'.save /\ job'.read = read BY <1>4, <1>9
  <2>3. CASE pc' = "insert" /\ read = NoRead BY <1>2, <2>1, <2>2, <2>3 DEF Chosen
  <2>4. CASE pc' \in {"close", "update"} /\ read # NoRead
             /\ (pc' = "close" => Stale(read, k.reads))
    BY <1>2, <1>7, <2>1, <2>2, <2>4 DEF Chosen
  <2>5. CASE read # NoRead /\ Settle(done) BY <1>8, <2>5
  <2> QED BY <1>5, <2>1, <2>2, <2>3, <2>4, <2>5
<1> HIDE DEF next, read, done
<1> QED BY <1>5, <1>8, <1>9

\* With the user book known a job rests, chooses, or asks for the reads.
LEMMA Loading ==
  ASSUME NEW k \in JobRecords, k.pos \in Positions, \A r \in k.reads : r.id # 0,
         Loaded(k)
  PROVE  /\ job' \in JobRecords /\ Cached(k)
         /\ \/ Rests
            \/ k.snapped /\ Chosen(k)
            \/ /\ ~k.snapped /\ pc' = "reads" /\ Keeps(k) /\ job'.save = k.save
<1> DEFINE known == [k EXCEPT !.cache = IF k.ub.status = "unknown" THEN NoBook ELSE @]
<1>1. /\ known \in JobRecords /\ known.pos = k.pos /\ known.start = k.start
      /\ known.ub = k.ub /\ known.reads = k.reads /\ known.raced = k.raced
      /\ known.blind = k.blind /\ known.snapped = k.snapped /\ known.save = k.save
      /\ known.cache \in {k.cache, NoBook}
  <2>1. k.cache \in Books /\ NoBook \in Books BY Basics DEF JobRecords
  <2>2. \A b \in Books : [k EXCEPT !.cache = b] \in JobRecords BY DEF JobRecords
  <2>3. known = [k EXCEPT !.cache = IF k.ub.status = "unknown" THEN NoBook ELSE k.cache] OBVIOUS
  <2>4. known \in JobRecords
    <3>1. CASE k.ub.status = "unknown" BY <2>1, <2>2, <2>3, <3>1
    <3>2. CASE k.ub.status # "unknown" BY <2>1, <2>2, <2>3, <3>2
    <3> QED BY <3>1, <3>2
  <2> QED BY <2>4 DEF JobRecords
<1>2. \/ Leave(known.cache)
      \/ known.snapped /\ Decide(known)
      \/ ~known.snapped /\ Goto("reads") /\ job' = known
  BY DEF Loaded
<1> HIDE DEF known
<1>3. CASE Leave(known.cache)
  BY <1>1, <1>3, Basics DEF Leave, Rests, Cached, NoJob
<1>4. CASE known.snapped /\ Decide(known)
  <2>1. Chosen(known) /\ job' \in JobRecords /\ Cached(known) BY <1>1, <1>4, Choosing
  <2>2. Chosen(k) BY <1>1, <2>1 DEF Chosen, Keeps, Settles
  <2> QED BY <1>1, <1>4, <2>1, <2>2 DEF Cached
<1>5. CASE ~known.snapped /\ Goto("reads") /\ job' = known
  BY <1>1, <1>5 DEF Goto, Keeps, Cached
<1> QED BY <1>2, <1>3, <1>4, <1>5

JobShaped == job' \in JobRecords /\ cache' \in Books /\ Real(cache') /\ Real(job'.cache)

\* A job that ends leaves its caches.
LEMMA Leaving ==
  ASSUME job \in JobRecords, cache \in Books, Shelved,
         NEW c \in {cache, job.cache, NoBook}, Leave(c)
  PROVE  Rests /\ JobShaped
<1>1. c \in Books /\ Real(c) BY Basics DEF JobRecords, Shelved, Real
<1> QED BY <1>1, Basics DEF Leave, Rests, JobShaped, NoJob, Real

\* What is cached after a step is of the right shape.
LEMMA CachedShape ==
  ASSUME NEW k \in JobRecords, cache \in Books, Shelved, Real(k.cache),
         job' \in JobRecords, Cached(k)
  PROVE  JobShaped
<1>1. k.cache \in Books BY DEF JobRecords
<1>2. Real(NoBook) /\ Real(cache) BY DEF Real, Shelved
<1> QED BY <1>1, <1>2, Basics DEF Cached, JobShaped

\* The lookup by book tells the status, and perhaps the reads.
LEMMA FindUserBookEffect ==
  ASSUME Types, Jobs, Shelved, FindUserBook
  PROVE  (Chooses \/ Learns \/ Looks \/ Ends) /\ Shaped
<1> USE DEF absVars, remote, ghostVars
<1>1. PICK status \in {book.status, "unknown"}, snapped \in BOOLEAN, seen \in {reads, {}} :
        /\ Faults(Count(status # book.status) + Count(~snapped) + Count(seen # reads))
        /\ snapped \/ seen = reads
        /\ LET found == [job EXCEPT !.ub.status = status, !.ub.edition = "target",
                                    !.blind = seen # reads] IN
           IF book.edition = "target"
           THEN Loaded([found EXCEPT !.snapped = snapped,
                                     !.reads = IF snapped THEN seen ELSE {}])
           ELSE seen = reads /\ Goto("edition") /\ job' = found
  BY DEF FindUserBook
<1> DEFINE found == [job EXCEPT !.ub.status = status, !.ub.edition = "target",
                                !.blind = seen # reads]
           k == [found EXCEPT !.snapped = snapped, !.reads = IF snapped THEN seen ELSE {}]
<1>2. budget' \in Budgets
  <2>1. /\ Count(status # book.status) \in Nat /\ Count(~snapped) \in Nat
        /\ Count(seen # reads) \in Nat
    BY DEF Count
  <2>2. Count(status # book.status) + Count(~snapped) + Count(seen # reads) \in Nat
    BY <2>1
  <2> QED BY <1>1, <2>2, BudgetTyped DEF Types
<1>3. World /\ pc = "find" /\ book.edition # "none"
  BY DEF FindUserBook, World, Shelved, Real
<1>4. /\ found \in JobRecords /\ found.pos = job.pos /\ found.start = job.start
      /\ found.ub.status = status /\ found.ub.edition = "target"
      /\ found.raced = job.raced /\ found.blind = (seen # reads)
      /\ found.cache = job.cache /\ found.reads = job.reads
      /\ found.snapped = job.snapped /\ found.save = job.save
  <2>1. job.ub \in Books /\ status \in Statuses BY DEF Types, JobRecords, Books, Statuses
  <2>2. (seen # reads) \in BOOLEAN OBVIOUS
  <2> QED BY <2>1, <2>2 DEF Types, JobRecords, Books
<1>5. job \in JobRecords /\ cache \in Books /\ ~job.save /\ ~job.snapped /\ job.pos \in Positions
      /\ book \in Books
  BY <1>3 DEF Types, Jobs
<1> HIDE DEF found
<1>6. /\ k \in JobRecords /\ k.pos = job.pos /\ k.start = job.start
      /\ k.ub = found.ub /\ k.raced = job.raced /\ k.blind = (seen # reads)
      /\ k.cache = job.cache /\ k.snapped = snapped /\ k.save = job.save
      /\ k.reads = IF snapped THEN seen ELSE {}
  <2>1. seen \in SUBSET ReadRecords BY DEF Types
  <2> QED BY <1>4, <2>1 DEF JobRecords
<1>7. \A r \in k.reads : r.id # 0 BY <1>6 DEF Types
<1> HIDE DEF k
<1>8. Real(job.cache) BY DEF Shelved
<1>9. CASE book.edition = "target"
  <2>1. Loaded(k) BY <1>1, <1>9 DEF k, found
  <2>2. /\ job' \in JobRecords /\ Cached(k)
        /\ \/ Rests
           \/ k.snapped /\ Chosen(k)
           \/ /\ ~k.snapped /\ pc' = "reads" /\ Keeps(k) /\ job'.save = k.save
    BY <1>5, <1>6, <1>7, <2>1, Loading
  <2>3. Shaped BY <1>2, <1>5, <1>6, <1>8, <2>2, CachedShape DEF Shaped, JobShaped
  <2>4. CASE Rests BY <1>3, <2>3, <2>4 DEF Ends
  <2>5. CASE k.snapped /\ Chosen(k)
    <3>1. Knows(k) BY <1>4, <1>6, <2>5 DEF Knows
    <3> QED BY <1>3, <1>6, <2>3, <2>5, <3>1 DEF Chooses
  <2>6. CASE ~k.snapped /\ pc' = "reads" /\ Keeps(k)
    <3>1. job'.ub.status = status /\ job'.ub.edition = "target" BY <1>4, <1>6, <2>6 DEF Keeps
    <3> QED BY <1>3, <1>5, <1>6, <2>3, <2>6, <3>1 DEF Keeps, Learns, World
  <2> QED BY <2>2, <2>4, <2>5, <2>6
<1>10. CASE book.edition # "target"
  <2>1. seen = reads /\ pc' = "edition" /\ cache' = cache /\ job' = found
    BY <1>1, <1>10 DEF Goto, found
  <2>2. Shaped BY <1>2, <1>4, <1>5, <1>8, <2>1 DEF Shaped, Shelved
  <2> QED BY <1>3, <1>4, <1>5, <2>1, <2>2 DEF Looks
<1> QED BY <1>9, <1>10

\* Correcting the edition, or loading the user book, leads to its reads.
LEMMA LearnEffect ==
  ASSUME Types, Jobs, Shelved, CorrectEdition \/ LoadUserBook
  PROVE  Learns /\ Shaped
<1> USE DEF absVars, remote, ghostVars
<1>1. job \in JobRecords /\ cache \in Books /\ book \in Books /\ ~job.save /\ ~job.snapped
      /\ job.pos \in Positions /\ (\A r \in job.reads : r.id # 0) /\ pc \in {"load", "edition"}
      /\ book.edition # "none"
  BY DEF Types, Jobs, Shelved, CorrectEdition, LoadUserBook
<1>2. ASSUME NEW k \in JobRecords, k.pos = job.pos, k.start = job.start, k.reads = job.reads,
             k.snapped = job.snapped, Loaded(k), Real(k.cache)
      PROVE  /\ JobShaped
             /\ Rests \/ (pc' = "reads" /\ Keeps(k))
  <2>1. /\ job' \in JobRecords /\ Cached(k)
        /\ Rests \/ (pc' = "reads" /\ Keeps(k))
    BY <1>1, <1>2, Loading
  <2> QED BY <1>1, <1>2, <2>1, CachedShape
<1>3. CASE CorrectEdition
  <2> DEFINE k == [job EXCEPT !.cache = NoBook]
  <2>1. /\ k \in JobRecords /\ k.pos = job.pos /\ k.start = job.start /\ k.reads = job.reads
        /\ k.snapped = job.snapped /\ k.cache = NoBook /\ k.ub = job.ub /\ k.raced = job.raced
    BY <1>1, Basics DEF JobRecords
  <2>2. Loaded(k) BY <1>3 DEF CorrectEdition
  <2>3. /\ book' = [book EXCEPT !.edition = "target"] /\ book'.edition = "target"
        /\ book'.status = book.status /\ book' \in Books
        /\ UNCHANGED <<abs, today, config, reads, made, entry, ckpt, missed, resent, recent>>
        /\ pc = "edition" /\ budget' \in Budgets
    BY <1>1, <1>3, BudgetTyped DEF CorrectEdition, Books, Types
  <2> HIDE DEF k
  <2>4. Real(k.cache) BY <2>1 DEF Real
  <2>5. JobShaped /\ (Rests \/ (pc' = "reads" /\ Keeps(k))) BY <1>2, <2>1, <2>2, <2>4
  <2>6. job.ub.edition # "none" BY <2>3 DEF Shelved
  <2> QED BY <1>1, <2>1, <2>3, <2>5, <2>6 DEF Learns, Keeps, Shaped, JobShaped
<1>4. CASE LoadUserBook
  <2>1. /\ UNCHANGED <<abs, today, config, book, reads, made, entry, ckpt, missed, resent, recent>>
        /\ pc = "load"
    BY <1>4 DEF LoadUserBook
  <2>2. CASE job.cache = NoBook
    <3>1. PICK status \in {book.status, "unknown"} :
            LET ub == [book EXCEPT !.status = status] IN
            /\ Faults(Count(status # book.status))
            /\ Loaded([job EXCEPT !.ub = ub, !.cache = ub])
      BY <1>4, <2>2 DEF LoadUserBook
    <3> DEFINE ub == [book EXCEPT !.status = status]
               k == [job EXCEPT !.ub = ub, !.cache = ub]
    <3>2. ub \in Books /\ ub.status = status /\ ub.edition = book.edition
      BY <1>1 DEF Books, Statuses
    <3>3. Loaded(k) BY <3>1
    <3> HIDE DEF ub
    <3>4. /\ k \in JobRecords /\ k.pos = job.pos /\ k.start = job.start /\ k.reads = job.reads
          /\ k.snapped = job.snapped /\ k.cache = ub /\ k.ub = ub /\ k.raced = job.raced
      BY <1>1, <3>2 DEF JobRecords
    <3> HIDE DEF k
    <3>5. Real(k.cache) BY <1>1, <3>2, <3>4 DEF Real
    <3>6. JobShaped /\ (Rests \/ (pc' = "reads" /\ Keeps(k))) BY <1>2, <3>3, <3>4, <3>5
    <3>7. budget' \in Budgets
      <4>1. Count(status # book.status) \in Nat BY DEF Count
      <4> QED BY <3>1, <4>1, BudgetTyped DEF Types
    <3> QED BY <1>1, <2>1, <3>2, <3>4, <3>6, <3>7 DEF Learns, Keeps, Shaped, JobShaped
  <2>3. CASE job.cache # NoBook
    <3> DEFINE k == [job EXCEPT !.ub = job.cache, !.raced = @ \/ job.cache # book]
    <3>1. Loaded(k) /\ NoFault BY <1>4, <2>3 DEF LoadUserBook
    <3>2. (job.raced \/ job.cache # book) \in BOOLEAN OBVIOUS
    <3>3. /\ k \in JobRecords /\ k.pos = job.pos /\ k.start = job.start /\ k.reads = job.reads
          /\ k.snapped = job.snapped /\ k.cache = job.cache /\ k.ub = job.cache
          /\ k.raced = (job.raced \/ job.cache # book)
      BY <1>1, <3>2 DEF JobRecords
    <3> HIDE DEF k
    <3>4. Real(k.cache) /\ job.cache.edition # "none" BY <2>3, <3>3 DEF Shelved, Real
    <3>5. JobShaped /\ (Rests \/ (pc' = "reads" /\ Keeps(k))) BY <1>2, <3>1, <3>3, <3>4
    <3>6. budget' \in Budgets BY <3>1, BudgetTyped DEF Types
    <3> QED BY <1>1, <2>1, <3>3, <3>4, <3>5, <3>6 DEF Learns, Keeps, Shaped, JobShaped
  <2> QED BY <2>2, <2>3
<1> QED BY <1>3, <1>4

\* Reading the reads leads to a choice.
LEMMA ReadReadsEffect ==
  ASSUME Types, Jobs, Shelved, ReadReads
  PROVE  Chooses /\ Shaped
<1> USE DEF absVars, remote, ghostVars
<1>1. PICK seen \in {reads, {}} :
        /\ Faults(Count(seen # reads))
        /\ Decide([job EXCEPT !.reads = seen, !.blind = seen # reads])
  BY DEF ReadReads
<1> DEFINE k == [job EXCEPT !.reads = seen, !.blind = seen # reads]
<1>2. /\ pc = "reads" /\ World /\ job \in JobRecords /\ cache \in Books
      /\ job.pos \in Positions /\ book.edition # "none" /\ job.ub.edition # "none"
      /\ Real(job.cache)
  BY DEF ReadReads, World, Types, Jobs, Shelved
<1>3. /\ k \in JobRecords /\ k.pos = job.pos /\ k.start = job.start /\ k.reads = seen
      /\ k.cache = job.cache /\ k.ub = job.ub /\ k.raced = job.raced
      /\ k.blind = (seen # reads)
  <2>1. seen \in SUBSET ReadRecords BY DEF Types
  <2>2. (seen # reads) \in BOOLEAN OBVIOUS
  <2> QED BY <1>2, <2>1, <2>2 DEF JobRecords
<1>4. \A r \in k.reads : r.id # 0 BY <1>3 DEF Types
<1>5. Decide(k) BY <1>1
<1> HIDE DEF k
<1>6. Chosen(k) /\ job' \in JobRecords /\ Cached(k) BY <1>2, <1>3, <1>4, <1>5, Choosing
<1>7. budget' \in Budgets
  <2>1. Count(seen # reads) \in Nat BY DEF Count
  <2> QED BY <1>1, <2>1, BudgetTyped DEF Types
<1>8. Shaped BY <1>2, <1>3, <1>6, <1>7, CachedShape DEF Shaped, JobShaped
<1>9. Knows(k) BY <1>2, <1>3 DEF Knows
<1> QED BY <1>2, <1>3, <1>6, <1>8, <1>9 DEF Chooses

\* Hardcover's blank read is a read.
LEMMA BlankIsRead ==
  ASSUME Types, NEW e \in {"target", "other"}, MayAddBlank(e)
  PROVE  AddsBlank
<1> DEFINE b == [NoRead EXCEPT !.id = made + 1, !.edition = e, !.by = "hardcover"]
<1>1. CASE UNCHANGED <<reads, made>> BY <1>1 DEF AddsBlank
<1>2. CASE made < MaxReads /\ made' = made + 1 /\ reads' = reads \cup {b}
  <2>1. made + 1 \in 0..MaxReads BY <1>2, Basics DEF Types
  <2>2. b.id = made + 1 /\ Unfinished(b) /\ b.by = "hardcover" /\ b.seconds = NoProgress
        /\ b.started = NoDay
    BY DEF NoRead, Unfinished
  <2>3. b \in ReadRecords BY <2>1 DEF NoRead, ReadRecords, NoDay, NoProgress
  <2> HIDE DEF b
  <2> QED BY <1>2, <2>2, <2>3 DEF AddsBlank
<1> QED BY <1>1, <1>2 DEF MayAddBlank

\* The start of a new read is not in the future and not before a finish that
\* the job knows of.
LEMMA StartIsLate ==
  ASSUME Types, Dated, job.start \in Days
  PROVE  /\ StartOfNew \in Days /\ StartOfNew <= today
         /\ \A f \in FinishedTargets(job.reads) : f.finished <= StartOfNew
<1> DEFINE F == FinishedTargets(job.reads)
           last == Latest(F)
<1>1. F \in SUBSET ReadRecords /\ (\A r \in F : ~Unfinished(r)) /\ F \subseteq job.reads
  BY DEF FinishedTargets, Types, JobRecords
<1>2. /\ F = {} => last = NoDay
      /\ F # {} => \E r \in F : last = r.finished
      /\ \A r \in F : r.finished <= last
      /\ last \in Days \cup {NoDay}
  BY <1>1, LatestIsFinish
<1>3. \A r \in F : r.finished \in Days /\ r.finished <= today
  BY <1>1 DEF ReadRecords, Unfinished, Dated
<1>4. today \in Days /\ job.start <= today BY DEF Types, Dated
<1>5. StartOfNew = IF last # NoDay THEN IF job.start > last THEN job.start ELSE today
                   ELSE IF LikelyRestart /\ job.start = 0 THEN today ELSE job.start
  BY DEF StartOfNew
<1> HIDE DEF F, last
<1>6. CASE last # NoDay
  <2>1. last \in Int /\ last <= today /\ today \in Int /\ job.start \in Int
    BY <1>2, <1>3, <1>4, <1>6 DEF Days, NoDay
  <2>2. StartOfNew = IF job.start > last THEN job.start ELSE today BY <1>5, <1>6
  <2>3. last <= StartOfNew /\ StartOfNew \in {today, job.start}
    BY <2>1, <2>2
  <2>4. ASSUME NEW f \in F PROVE f.finished <= StartOfNew
    <3>1. f.finished <= last /\ f.finished \in Int BY <1>2, <1>3 DEF Days
    <3> QED BY <2>1, <2>3, <3>1
  <2> QED BY <1>4, <2>3, <2>4 DEF F, Days
<1>7. CASE last = NoDay
  <2>1. F = {} BY <1>2, <1>3, <1>7 DEF Days, NoDay
  <2>2. StartOfNew \in {today, job.start} BY <1>5, <1>7
  <2> QED BY <1>4, <2>1, <2>2 DEF F, Days
<1> QED BY <1>6, <1>7

\* Closing a stale read.
LEMMA CloseEffect ==
  ASSUME Types, Dated, Jobs, Shelved, Aimed, CloseStale
  PROVE  Closes /\ Shaped
<1> USE DEF absVars, remote, ghostVars
<1>1. pc = "close" /\ job \in JobRecords /\ cache \in Books /\ Real(cache) /\ Real(job.cache)
  BY DEF CloseStale, Types, Shelved
<1>2. PICK r \in reads :
        /\ r.id = job.read.id
        /\ Replace(r, [r EXCEPT !.finished = LatestFinish(job.reads)])
  BY DEF CloseStale
<1> DEFINE new == [r EXCEPT !.finished = LatestFinish(job.reads)]
<1>3. job.reads \in SUBSET ReadRecords /\ job.read \in ReadRecords BY <1>1 DEF JobRecords
<1>4. PICK f \in FinishedTargets(job.reads) :
        LatestFinish(job.reads) = f.finished /\ f.finished > job.read.started
  <2>1. job.read.started \in Days \cup {NoDay} BY <1>3 DEF ReadRecords
  <2> QED BY <1>1, <1>3, <2>1, StaleMeansOutdated DEF Aimed
<1>5. f \in ReadRecords /\ r \in ReadRecords BY <1>3, <1>2 DEF FinishedTargets, Types
<1>6. /\ new \in ReadRecords /\ new.id = r.id /\ new.edition = r.edition /\ new.by = r.by
      /\ new.started = r.started /\ new.seconds = r.seconds /\ new.finished = f.finished
  BY <1>4, <1>5 DEF ReadRecords
<1>7. reads' = (reads \ {r}) \cup {new} BY <1>2 DEF Replace
<1> HIDE DEF new
<1>8. UNCHANGED <<abs, today, config, book, made, entry, ckpt, missed, resent, recent>>
      /\ Answered(Goto("insert") /\ UNCHANGED job)
  BY DEF CloseStale
<1>9. /\ (Goto("insert") /\ UNCHANGED job) \/ (Rests /\ JobShaped)
      /\ budget' \in Budgets
  BY <1>8, BudgetTyped, Leaving DEF Answered, Types
<1>10. Shaped /\ (Rests \/ (pc' = "insert" /\ UNCHANGED job))
  BY <1>1, <1>9 DEF Shaped, JobShaped, Goto
<1>11. Rewrites(r, new) BY <1>2, <1>6, <1>7 DEF Rewrites
<1> QED BY <1>1, <1>4, <1>6, <1>8, <1>10, <1>11 DEF Closes

\* Updating a read.
LEMMA UpdateEffect ==
  ASSUME Types, Dated, Jobs, Shelved, UpdateRead
  PROVE  Updates /\ Shaped
<1> USE DEF absVars, remote, ghostVars
<1>1. /\ pc = "update" /\ job \in JobRecords /\ cache \in Books /\ Real(cache)
      /\ Real(job.cache) /\ job.pos \in Positions /\ job.start \in Days
  BY DEF UpdateRead, Types, Shelved, Jobs
<1>2. PICK r \in reads : r.id = job.read.id /\ Replace(r, Written(r)) BY DEF UpdateRead
<1>3. job.read \in ReadRecords /\ r \in ReadRecords /\ job.pos \in 1..Duration
  BY <1>1, <1>2, Basics DEF JobRecords, Types
<1>4. /\ Written(r) \in ReadRecords /\ Written(r).id = r.id /\ Written(r).edition = r.edition
      /\ Written(r).by = r.by /\ Written(r).finished = r.finished
      /\ Written(r).seconds = job.pos
      /\ Written(r).started
           = IF job.read.started = NoDay THEN job.start ELSE job.read.started
  BY <1>1, <1>3 DEF Written, ReadRecords
<1>5. reads' = (reads \ {r}) \cup {Written(r)} BY <1>2 DEF Replace
<1>6. UNCHANGED <<abs, today, config, book, made, entry, ckpt, missed, resent, recent>>
      /\ Answered(Settle(job))
  BY DEF UpdateRead
<1>7. Settle(job) \/ (Rests /\ JobShaped)
  BY <1>6, BudgetTyped, Leaving DEF Answered, Types
<1>8. budget' \in Budgets BY <1>6, BudgetTyped DEF Answered, Types
<1>9. (Rests \/ Settles(job, job.save)) /\ JobShaped
  <2>1. CASE Settle(job) BY <1>1, <2>1, Settling, CachedShape
  <2> QED BY <1>7, <2>1
<1>10. Rewrites(r, Written(r)) BY <1>2, <1>4, <1>5 DEF Rewrites
<1> QED BY <1>1, <1>4, <1>6, <1>8, <1>9, <1>10 DEF Updates, Shaped, JobShaped

\* Inserting a read.
LEMMA InsertEffect ==
  ASSUME Types, Dated, Jobs, Shelved, InsertRead
  PROVE  Inserts /\ Shaped
<1> USE DEF absVars, remote, ghostVars
<1> DEFINE copy(i) == [id |-> i, edition |-> job.ub.edition, started |-> StartOfNew,
                       finished |-> NoDay, seconds |-> job.pos, by |-> "sync"]
           sent == /\ Goto(IF job.ub.status = "reading" THEN "save" ELSE "status")
                   /\ job' = Settled(job)
<1>1. /\ pc = "insert" /\ job \in JobRecords /\ cache \in Books /\ Real(cache)
      /\ Real(job.cache) /\ job.pos \in Positions /\ job.start \in Days /\ job.save
      /\ job.ub.edition # "none"
  BY DEF InsertRead, Types, Shelved, Jobs
<1>2. /\ StartOfNew \in Days /\ StartOfNew <= today
      /\ \A f \in FinishedTargets(job.reads) : f.finished <= StartOfNew
  BY <1>1, StartIsLate
<1>3. PICK copies \in 1..(1 + Retries) :
        LET ids == (made + 1)..(made + copies) IN
        /\ made + copies <= MaxReads /\ made' = made + copies
        /\ reads' = reads \cup {copy(i) : i \in ids}
        /\ resent' = IF copies > 1 \/ \E r \in reads : r.id \in resent /\ Unfinished(r)
                     THEN resent \cup ids ELSE resent
        /\ recent' = IF job.blind \/ job.raced THEN recent ELSE recent \cup ids
        /\ \/ sent /\ Faults(Count(copies > 1))
           \/ Leave(job.cache) /\ Faults(1)
  BY DEF InsertRead
<1>4. /\ UNCHANGED <<abs, today, config, book, entry, ckpt>> /\ ~AlreadyRecorded
      /\ missed' = missed \cup Excuse
  BY DEF InsertRead
<1> DEFINE ids == (made + 1)..made'
           new == {copy(i) : i \in ids}
<1>5. /\ made \in Nat /\ Retries \in Nat /\ MaxReads \in Nat /\ copies \in Nat /\ copies > 0
      /\ made' = made + copies /\ ids \subseteq 0..MaxReads
      /\ copies = 1 => ids = {made + 1}
  BY <1>3, InProgressAssumption DEF Types
<1>6. ASSUME NEW i \in ids
      PROVE  /\ copy(i) \in ReadRecords /\ copy(i).id = i /\ copy(i).by = "sync"
             /\ Unfinished(copy(i)) /\ copy(i).seconds = job.pos
             /\ copy(i).started = StartOfNew
  <2>1. i \in 0..MaxReads BY <1>5
  <2>2. job.ub.edition \in {"target", "other"} BY <1>1 DEF JobRecords, Books
  <2>3. job.pos \in 1..Duration BY <1>1, Basics
  <2> HIDE DEF Duration
  <2> QED BY <1>2, <2>1, <2>2, <2>3 DEF ReadRecords, Unfinished
<1> HIDE DEF copy
<1>7. StartOfNew # NoDay BY <1>2 DEF Days, NoDay
<1>8. new \subseteq ReadRecords /\ reads' = reads \cup new BY <1>3, <1>5, <1>6
<1>16. new # {} BY <1>5
<1>9. \A r \in new : /\ r.id \in ids /\ r.by = "sync"
                     /\ Unfinished(r) /\ r.seconds = job.pos
                     /\ r.started # NoDay /\ r.started <= today
                     /\ \A f \in FinishedTargets(job.reads) : f.finished <= r.started
  BY <1>2, <1>6, <1>7
<1>10. \A r, o \in new : r.id = o.id => r = o BY <1>6
<1>11. \/ \A r \in new : r.id \in resent'
       \/ (\A r, o \in new : r = o) /\ \A r \in reads : r.id \in resent => ~Unfinished(r)
  <2>1. CASE copies > 1 \/ \E r \in reads : r.id \in resent /\ Unfinished(r)
    <3>1. ids \subseteq resent' BY <1>3, <1>5, <2>1
    <3> QED BY <1>9, <3>1
  <2>2. CASE ~(copies > 1 \/ \E r \in reads : r.id \in resent /\ Unfinished(r))
    <3>1. ids = {made + 1} BY <1>5, <2>2
    <3>2. \A r, o \in new : r = o BY <3>1
    <3> QED BY <2>2, <3>2
  <2> QED BY <2>1, <2>2
<1>12. /\ resent \subseteq resent' /\ \A i \in resent' : i \in resent \/ i > made
       /\ recent' \in {recent, recent \cup ids}
       /\ job.blind \/ job.raced => recent' = recent
  BY <1>3, <1>5
<1>13. (sent \/ (Rests /\ JobShaped)) /\ budget' \in Budgets
  BY <1>3, BudgetTyped, Leaving DEF Types, Count
<1>14. (Rests \/ Settles(job, job.save)) /\ JobShaped
  <2>1. CASE sent
    <3>1. Settled(job) \in JobRecords
      <4>1. /\ job.pos \in 0..Duration /\ job.cache \in Books
            /\ job.save \in BOOLEAN /\ job.raced \in BOOLEAN
        BY <1>1 DEF JobRecords
      <4>2. NoJob \in JobRecords BY Basics
      <4> HIDE DEF NoJob
      <4> QED BY <4>1, <4>2 DEF Settled, JobRecords
    <3>2. /\ job'.pos = job.pos /\ job'.save = job.save /\ job'.raced = job.raced
          /\ job'.cache = job.cache /\ job'.reads = {} /\ job'.start = NoDay
      BY <2>1 DEF Settled, NoJob
    <3> QED BY <1>1, <2>1, <3>1, <3>2 DEF Settles, JobShaped, Goto
  <2> QED BY <1>13, <2>1
<1>15. Inserts
  <2> HIDE DEF new
  <2>1. made' \in Nat /\ made < made' /\ made' <= MaxReads BY <1>3, <1>5
  <2>2. new \in SUBSET ReadRecords BY <1>8
  <2> QED BY <1>1, <1>4, <1>8, <1>9, <1>10, <1>11, <1>12, <1>14, <1>16, <2>1, <2>2 DEF Inserts
<1> QED BY <1>1, <1>5, <1>13, <1>14, <1>15 DEF Shaped, JobShaped

\* Creating the user book, setting its status, deleting blank reads.
LEMMA StatusEffect ==
  ASSUME Types, Jobs, Shelved, CreateUserBook \/ SetStatus \/ DeleteBlankReads
  PROVE  (Creates \/ SetsStatus \/ Cleans) /\ Shaped
<1> USE DEF absVars, remote, ghostVars
<1>1. /\ job \in JobRecords /\ cache \in Books /\ Real(cache) /\ Real(job.cache)
      /\ book \in Books
  BY DEF Types, Shelved
<1>2. CASE CreateUserBook
  <2>1. AddsBlank BY <1>2, BlankIsRead DEF CreateUserBook
  <2>2. book' \in Books /\ book'.edition # "none"
    BY <1>2 DEF CreateUserBook, Books, Statuses
  <2>3. budget' \in Budgets BY <1>2, BudgetTyped DEF CreateUserBook, Types
  <2>4. Shaped BY <1>1, <1>2, <2>3 DEF CreateUserBook, Goto, Shaped
  <2> QED BY <1>2, <2>1, <2>2, <2>4 DEF CreateUserBook, Goto, Creates
<1>3. CASE SetStatus
  <2>1. pc = "status" /\ book.edition \in {"target", "other"}
    BY <1>1, <1>3 DEF SetStatus, Shelved, Books
  <2>2. AddsBlank BY <1>3, <2>1, BlankIsRead DEF SetStatus
  <2>3. book' \in Books /\ book'.status = "reading" /\ book'.edition = book.edition
    BY <1>1, <1>3 DEF SetStatus, Books, Statuses
  <2>4. \/ /\ pc' = "clean" /\ cache' = cache /\ job' = [job EXCEPT !.cache = NoBook]
        \/ Rests /\ JobShaped
    BY <1>1, <1>3, Leaving DEF SetStatus, Answered, Goto
  <2>5. budget' \in Budgets BY <1>3, BudgetTyped DEF SetStatus, Answered, Types
  <2>6. ASSUME job' = [job EXCEPT !.cache = NoBook]
        PROVE  /\ job'.pos = job.pos /\ job'.save = job.save /\ job'.raced = job.raced
               /\ job'.reads = job.reads /\ job'.start = job.start
               /\ job'.cache = NoBook /\ job' \in JobRecords
    BY <1>1, <2>6, Basics DEF JobRecords
  <2>7. Real(NoBook) BY DEF Real
  <2>8. Shaped BY <1>1, <2>4, <2>5, <2>6, <2>7 DEF Shaped, JobShaped
  <2>9. UNCHANGED <<abs, today, config, entry, ckpt, missed, resent, recent>> BY <1>3 DEF SetStatus
  <2> QED BY <2>1, <2>2, <2>3, <2>4, <2>6, <2>8, <2>9 DEF SetsStatus
<1>4. CASE DeleteBlankReads
  <2>1. /\ pc = "clean" /\ reads' \in {reads, {r \in reads : ~Blank(r)}}
        /\ NoFault \/ Faults(1)
        /\ IF job.save THEN Goto("save") /\ UNCHANGED job ELSE Leave(job.cache)
        /\ UNCHANGED <<abs, today, config, book, made, entry, ckpt, missed, resent, recent>>
    BY <1>4 DEF DeleteBlankReads
  <2>2. budget' \in Budgets BY <2>1, BudgetTyped DEF Types
  <2>3. CASE job.save BY <1>1, <2>1, <2>2, <2>3 DEF Cleans, Goto, Shaped
  <2>4. CASE ~job.save
    <3>1. Rests /\ JobShaped BY <1>1, <2>1, <2>4, Leaving
    <3> QED BY <2>1, <2>2, <3>1 DEF Cleans, Shaped, JobShaped
  <2> QED BY <2>3, <2>4
<1> QED BY <1>2, <1>3, <1>4

\* The steps that begin or end a job.
LEMMA EndEffect ==
  ASSUME Types, Jobs, Shelved,
         \/ Begin \/ MissUserBook \/ FindByEdition \/ CreateRefused \/ ReadGone
         \/ SkipInsert \/ SaveCheckpoint \/ SaveFails \/ RequestFails \/ Stop
  PROVE  (Begins \/ Looks \/ Saves \/ Ends) /\ Shaped
<1> USE DEF absVars, remote, ghostVars
<1>1. /\ job \in JobRecords /\ cache \in Books /\ Real(cache) /\ Real(job.cache)
      /\ budget \in Budgets
  BY DEF Types, Shelved
<1>2. /\ NoFault => budget' \in Budgets
      /\ Faults(1) => budget' \in Budgets
  BY <1>1, BudgetTyped
<1>3. CASE Begin
  <2>1. /\ abs.pos \in 0..Duration /\ abs.start \in Days
    BY Basics DEF Types
  <2>2. job' = [NoJob EXCEPT !.pos = abs.pos, !.start = abs.start, !.cache = cache]
        /\ pc = "idle" /\ pc' = "find" /\ cache' = cache /\ NoFault /\ World
    BY <1>3 DEF Begin, Goto, World
  <2>3. job' \in JobRecords
    <3>1. job' = [NoJob EXCEPT !.pos = abs.pos, !.start = abs.start, !.cache = cache]
      BY <2>2
    <3>2. NoJob \in JobRecords BY Basics
    <3> QED BY <1>1, <2>1, <3>1, <3>2 DEF JobRecords
  <2>4. /\ job'.pos = abs.pos /\ job'.start = abs.start /\ job'.reads = {}
        /\ ~job'.save /\ ~job'.snapped /\ ~job'.raced /\ ~job'.blind /\ job'.cache = cache
    BY <2>2 DEF NoJob
  <2> QED BY <1>1, <1>2, <2>2, <2>3, <2>4 DEF Begins, Shaped
<1>4. CASE MissUserBook
  BY <1>1, <1>2, <1>4 DEF MissUserBook, Goto, World, Looks, Shaped
<1>5. CASE FindByEdition
  BY <1>1, <1>2, <1>5 DEF FindByEdition, Goto, World, Looks, Shaped
<1>6. CASE CreateRefused \/ ReadGone \/ SkipInsert \/ RequestFails \/ Stop
  <2>1. World /\ (NoFault \/ Faults(1))
        /\ \E c \in {cache, job.cache, NoBook} : Leave(c)
    BY <1>6 DEF CreateRefused, ReadGone, SkipInsert, RequestFails, Stop, World
  <2> QED BY <1>1, <1>2, <2>1, Leaving DEF Ends, Shaped, JobShaped
<1>7. CASE SaveCheckpoint \/ SaveFails
  <2>1. /\ pc = "save" /\ (NoFault \/ Faults(1))
        /\ \E c \in {cache, job.cache} : Leave(c)
        /\ UNCHANGED <<today, config, book, reads, made, missed, resent, recent>>
        /\ Recorded \/ UNCHANGED <<abs, entry, ckpt>>
    BY <1>7 DEF SaveCheckpoint, SaveFails
  <2>2. Rests /\ JobShaped BY <1>1, <2>1, Leaving
  <2>3. ASSUME Recorded
        PROVE  /\ entry' = Updated(job.pos) /\ ckpt' = job.pos
               /\ \E later \in BOOLEAN : abs' = [abs EXCEPT !.later = later]
    <3>1. (abs.later /\ entry' = entry) \in BOOLEAN OBVIOUS
    <3> QED BY <2>3, <3>1 DEF Recorded
  <2> QED BY <1>2, <2>1, <2>2, <2>3 DEF Saves, Shaped, JobShaped
<1> QED BY <1>3, <1>4, <1>5, <1>6, <1>7

\* The listener, the user and the clock.
LEMMA OutsideEffect ==
  ASSUME Types, Jobs, Shelved, Listen \/ Edits \/ Tick
  PROVE  (Listens \/ EditsBook \/ Ticks) /\ Shaped
<1> USE DEF absVars, remote, ghostVars
<1>1. /\ job \in JobRecords /\ cache \in Books /\ Real(cache) /\ Real(job.cache)
      /\ budget \in Budgets /\ book \in Books /\ Real(book) /\ today \in Days
  BY DEF Types, Shelved
<1>2. CASE Listen
  <2>1. budget' \in Budgets BY <1>1, <1>2 DEF Listen, Budgets
  <2>2. PICK pos \in Positions, again \in BOOLEAN :
          abs' = IF again THEN [pos |-> pos, start |-> today, later |-> TRUE]
                 ELSE [abs EXCEPT !.pos = pos]
    BY <1>2 DEF Listen
  <2>3. /\ abs'.pos \in Positions /\ abs'.start \in {abs.start, today}
        /\ abs'.later \in BOOLEAN
        /\ abs' = [pos |-> abs'.pos, start |-> abs'.start, later |-> abs'.later]
    BY <2>2 DEF Types
  <2> QED BY <1>1, <1>2, <2>1, <2>3 DEF Listen, Listens, Shaped
<1>3. CASE Edits
  <2>1. Edit BY <1>3 DEF Edits, EditAddRead, EditFinishRead, EditRemoveRead, EditUserBook
  <2>2. /\ budget' \in Budgets /\ budget'.edits # budget.edits
    BY <1>1, <2>1 DEF Edit, Budgets
  <2>3. /\ UNCHANGED <<abs, today, config, entry, cache, ckpt, missed, resent, pc>> /\ recent' = {}
        /\ job' = [job EXCEPT !.raced = pc # "idle"] /\ book # NoBook
    BY <2>1 DEF Edit
  <2>4. /\ job' \in JobRecords /\ Keeps([job EXCEPT !.raced = pc # "idle"])
        /\ job'.read = job.read /\ job'.save = job.save /\ job'.snapped = job.snapped
        /\ job'.cache = job.cache
    <3>1. (pc # "idle") \in BOOLEAN OBVIOUS
    <3> QED BY <1>1, <2>3, <3>1 DEF JobRecords, Keeps
  <2>5. pc = "idle" => job' = NoJob
    <3> SUFFICES ASSUME pc = "idle" PROVE job' = NoJob OBVIOUS
    <3>1. job = NoJob BY DEF Jobs
    <3> QED BY <2>3, <3>1 DEF NoJob
  <2>6. book.edition # "none" BY <1>1, <2>3 DEF Real
  <2>7. book' \in Books /\ book'.edition # "none"
    <3>1. CASE UNCHANGED book BY <1>1, <2>6, <3>1
    <3>2. CASE EditUserBook BY <1>1, <2>6, <3>2 DEF EditUserBook, Books, Statuses
    <3> QED BY <1>3, <3>1, <3>2 DEF Edits, EditAddRead, EditFinishRead, EditRemoveRead
  <2>8. Alters
    <3>1. CASE EditAddRead
      <4>1. PICK read \in {[NoRead EXCEPT !.edition = "nil"],
                           [NoRead EXCEPT !.edition = "target", !.finished = today],
                           [NoRead EXCEPT !.edition = "target", !.finished = today,
                                          !.seconds = Duration]} :
              reads' = reads \cup {[read EXCEPT !.id = made + 1, !.started = today]}
        BY <3>1 DEF EditAddRead
      <4> DEFINE new == [read EXCEPT !.id = made + 1, !.started = today]
      <4>2. made < MaxReads /\ made' = made + 1 /\ made + 1 \in 0..MaxReads
        BY <3>1, Basics DEF EditAddRead, Types
      <4>3. /\ new \in ReadRecords /\ new.id = made + 1 /\ new.by = "user"
            /\ new.started = today /\ new.finished \in {NoDay, today}
            /\ Unfinished(new) => new.edition # "target"
        <5>1. today # NoDay BY <1>1 DEF Days, NoDay
        <5>2. CASE read = [NoRead EXCEPT !.edition = "nil"]
          BY <1>1, <4>2, <5>1, <5>2 DEF NoRead, ReadRecords, Unfinished, NoDay, NoProgress
        <5>3. CASE read = [NoRead EXCEPT !.edition = "target", !.finished = today]
          BY <1>1, <4>2, <5>1, <5>3 DEF NoRead, ReadRecords, Unfinished, NoDay, NoProgress
        <5>4. CASE read = [NoRead EXCEPT !.edition = "target", !.finished = today,
                                         !.seconds = Duration]
          <6>1. Duration \in 1..Duration BY Basics
          <6>2. NoRead \in ReadRecords BY Basics
          <6>3. read \in ReadRecords BY <1>1, <5>4, <6>1, <6>2 DEF ReadRecords
          <6>4. read.by = "user" /\ read.finished = today BY <5>4 DEF NoRead
          <6>5. /\ new \in ReadRecords /\ new.id = made + 1 /\ new.by = read.by
                /\ new.started = today /\ new.finished = read.finished
            BY <1>1, <4>2, <6>3 DEF ReadRecords
          <6> QED BY <5>1, <6>4, <6>5 DEF Unfinished
        <5> QED BY <4>1, <5>2, <5>3, <5>4
      <4> HIDE DEF new
      <4>4. reads' = reads \cup {new} BY <4>1 DEF new
      <4> QED BY <4>2, <4>3, <4>4 DEF Alters
    <3>2. CASE EditFinishRead
      <4>1. PICK r \in reads : Unfinished(r) /\ Replace(r, [r EXCEPT !.finished = today])
        BY <3>2 DEF EditFinishRead
      <4> DEFINE new == [r EXCEPT !.finished = today]
      <4>2. r \in ReadRecords BY DEF Types
      <4>3. /\ new \in ReadRecords /\ new.id = r.id /\ new.edition = r.edition
            /\ new.by = r.by /\ new.started = r.started /\ new.seconds = r.seconds
            /\ new.finished = today
        BY <1>1, <4>2 DEF ReadRecords
      <4>4. reads' = (reads \ {r}) \cup {new} /\ UNCHANGED made
        BY <3>2, <4>1 DEF Replace, EditFinishRead
      <4> HIDE DEF new
      <4> QED BY <4>1, <4>3, <4>4 DEF Alters
    <3>3. CASE EditRemoveRead BY <3>3 DEF EditRemoveRead, Alters
    <3>4. CASE EditUserBook BY <3>4 DEF EditUserBook, Alters
    <3> QED BY <1>3, <3>1, <3>2, <3>3, <3>4 DEF Edits
  <2> QED BY <1>1, <2>2, <2>3, <2>4, <2>5, <2>6, <2>7, <2>8 DEF EditsBook, Shaped
<1>4. CASE Tick
  <2>1. /\ UNCHANGED <<abs, config, book, reads, made, ckpt, missed, resent, recent, pc, budget>>
        /\ today' = today + 1 /\ today < MaxDay
        /\ entry' \in {entry, [entry EXCEPT !.fresh = FALSE]}
        /\ cache' \in {cache, NoBook} /\ job' \in {job, [job EXCEPT !.cache = NoBook]}
    BY <1>4 DEF Tick
  <2>2. today' \in Days BY <1>1, <2>1, Basics DEF Days
  <2>3. entry' \in Entries /\ entry'.prog = entry.prog /\ entry'.status = entry.status
    BY <2>1 DEF Types, Entries
  <2>4. /\ Keeps(job) /\ job'.read = job.read /\ job'.save = job.save
        /\ job'.snapped = job.snapped /\ job'.cache \in {job.cache, NoBook}
        /\ job' \in JobRecords
    BY <1>1, <2>1, Basics DEF JobRecords, Keeps
  <2>5. pc = "idle" => job' = NoJob
    <3> SUFFICES ASSUME pc = "idle" PROVE job' = NoJob OBVIOUS
    <3>1. job = NoJob BY DEF Jobs
    <3> QED BY <2>1, <3>1 DEF NoJob
  <2>6. Real(NoBook) BY DEF Real
  <2> QED BY <1>1, <2>1, <2>2, <2>3, <2>4, <2>5, <2>6, Basics DEF Ticks, Shaped
<1> QED BY <1>2, <1>3, <1>4

\* Every step is one of those above.
LEMMA Effects ==
  ASSUME Types, Dated, Jobs, Shelved, Aimed, [Next]_vars
  PROVE  Step /\ (Shaped \/ UNCHANGED vars)
BY FindUserBookEffect, LearnEffect, ReadReadsEffect, CloseEffect, UpdateEffect, InsertEffect,
   StatusEffect, EndEffect, OutsideEffect
DEF Next, Sync, Find, Write, Step

---------------------------------------------------------------------------
(* Every step keeps each part                                              *)

\* What a step does to the reads: it adds some, writes one anew, or takes some.
Changes ==
  \/ reads' \subseteq reads /\ made' = made
  \/ /\ made' \in Nat /\ made < made' /\ made' <= MaxReads
     /\ \E new \in SUBSET ReadRecords :
          /\ reads' = reads \cup new /\ \A n \in new : n.id \in (made + 1)..made'
          /\ \A n, o \in new : n.id = o.id => n = o
  \/ /\ made' = made
     /\ \E r \in reads, n \in ReadRecords :
          n.id = r.id /\ reads' = (reads \ {r}) \cup {n}

\* Every step does one of these to the reads.
LEMMA ReadsChange ==
  ASSUME Types, Step
  PROVE  Changes
<1>0. made \in Nat /\ MaxReads \in Nat BY Basics DEF Types
<1>1. CASE Begins \/ Looks \/ Learns \/ Chooses \/ Ends \/ Listens \/ Ticks \/ Saves
  BY <1>1 DEF Begins, Looks, Learns, Chooses, Ends, Listens, Ticks, Saves, World, Changes
<1>2. ASSUME made < MaxReads, made' = made + 1, NEW n \in ReadRecords,
             n.id = made + 1, reads' = reads \cup {n}
      PROVE  Changes
  <2>1. {n} \in SUBSET ReadRecords /\ \A o \in {n} : o.id \in (made + 1)..made'
    BY <1>0, <1>2
  <2>2. made' \in Nat /\ made < made' /\ made' <= MaxReads BY <1>0, <1>2
  <2>3. \A p, o \in {n} : p.id = o.id => p = o OBVIOUS
  <2> QED BY <1>2, <2>1, <2>2, <2>3, Zenon DEF Changes
<1>8. CASE Creates \/ SetsStatus
  <2>1. AddsBlank BY <1>8 DEF Creates, SetsStatus
  <2> QED BY <1>2, <2>1 DEF AddsBlank, Changes
<1>3. CASE Closes \/ Updates BY <1>3 DEF Closes, Updates, Rewrites, Changes
<1>4. CASE Inserts BY <1>4 DEF Inserts, Changes
<1>5. CASE Cleans BY <1>5 DEF Cleans, Changes
<1>6. CASE EditsBook
  <2>1. Alters BY <1>6 DEF EditsBook
  <2> QED BY <1>2, <2>1 DEF Alters, Changes
<1>7. CASE UNCHANGED vars BY <1>7 DEF vars, remote, Changes
<1> QED BY <1>1, <1>3, <1>4, <1>5, <1>6, <1>7, <1>8 DEF Step

\* Reads keep their type and their distinct identifiers.
LEMMA StepReads ==
  ASSUME Types, Changes
  PROVE  /\ reads' \subseteq ReadRecords /\ made' \in 0..MaxReads /\ made <= made'
         /\ \A r \in reads' : r.id \in 1..made'
         /\ \A r, o \in reads' : r.id = o.id => r = o
         /\ made \in Nat /\ made' \in Nat
<1>1. made \in 0..MaxReads /\ MaxReads \in Nat BY Basics DEF Types
<1>2. /\ reads \subseteq ReadRecords /\ \A r \in reads : r.id \in 1..made
      /\ \A r, o \in reads : r.id = o.id => r = o
  BY DEF Types
<1>3. CASE reads' \subseteq reads /\ made' = made BY <1>1, <1>2, <1>3
<1>4. CASE /\ made' \in Nat /\ made < made' /\ made' <= MaxReads
           /\ \E new \in SUBSET ReadRecords :
                /\ reads' = reads \cup new /\ \A n \in new : n.id \in (made + 1)..made'
                /\ \A n, o \in new : n.id = o.id => n = o
  <2>1. PICK new \in SUBSET ReadRecords :
          /\ reads' = reads \cup new /\ \A n \in new : n.id \in (made + 1)..made'
          /\ \A n, o \in new : n.id = o.id => n = o
    BY <1>4
  <2>2. \A n \in new : n.id \notin 1..made BY <1>1, <1>4, <2>1
  <2>3. 1..made \subseteq 1..made' /\ (made + 1)..made' \subseteq 1..made' BY <1>1, <1>4
  <2> QED BY <1>1, <1>2, <1>4, <2>1, <2>2, <2>3
<1>5. CASE /\ made' = made
           /\ \E r \in reads, n \in ReadRecords :
                n.id = r.id /\ reads' = (reads \ {r}) \cup {n}
  BY <1>1, <1>2, <1>5
<1> QED BY <1>3, <1>4, <1>5 DEF Changes

\* A checkpoint is of its type.
LEMMA UpdatedTyped ==
  ASSUME Types, NEW pos \in Positions
  PROVE  Updated(pos) \in Entries /\ Stored(pos) \in 0..Duration
<1>1. Stored(pos) \in 0..Duration BY Basics DEF Stored, Percent
<1> QED BY <1>1 DEF Updated, Entries, Types

\* Types are kept.
LEMMA StepTypes ==
  ASSUME Types, Jobs, Step, Shaped \/ UNCHANGED vars
  PROVE  Types'
<1>1. CASE UNCHANGED vars
  BY <1>1 DEF vars, absVars, remote, ghostVars, Types
<1>2. CASE Shaped /\ ~UNCHANGED vars
  <2>1. /\ reads' \subseteq ReadRecords /\ made' \in 0..MaxReads /\ made <= made'
        /\ \A r \in reads' : r.id \in 1..made'
        /\ \A r, o \in reads' : r.id = o.id => r = o
        /\ made \in Nat /\ made' \in Nat
    BY ReadsChange, StepReads
  <2>2. /\ job' \in JobRecords /\ cache' \in Books /\ budget' \in Budgets
    BY <1>2 DEF Shaped
  <2>3. /\ abs \in [pos : Positions, start : Days, later : BOOLEAN]
        /\ today \in Days /\ config \in Configs /\ book \in Books /\ entry \in Entries
        /\ ckpt \in 0..Duration /\ recent \subseteq 1..made /\ pc \in Places
    BY DEF Types
  <2>4. abs' \in [pos : Positions, start : Days, later : BOOLEAN]
    <3>1. CASE Listens BY <2>3, <3>1 DEF Listens
    <3>2. CASE Saves BY <2>3, <3>2 DEF Saves
    <3> QED BY <1>2, <2>3, <3>1, <3>2 DEF Step, Begins, Looks, Learns, Chooses, Creates,
            Closes, Updates, Inserts, SetsStatus, Cleans, Ends, EditsBook, Ticks, World
  <2>5. today' \in Days /\ config' \in Configs /\ book' \in Books
    BY <1>2, <2>3 DEF Step, Begins, Looks, Learns, Chooses, Creates, Closes, Updates, Inserts,
       SetsStatus, Cleans, Saves, Ends, Listens, EditsBook, Ticks, World
  <2>6. entry' \in Entries /\ ckpt' \in 0..Duration
    <3>1. CASE Saves
      <4>1. job.pos \in Positions BY <3>1 DEF Saves, Jobs
      <4> QED BY <2>3, <3>1, <4>1, UpdatedTyped, Basics DEF Saves
    <3>2. CASE Ticks BY <2>3, <3>2 DEF Ticks
    <3> QED BY <1>2, <2>3, <3>1, <3>2 DEF Step, Begins, Looks, Learns, Chooses, Creates,
            Closes, Updates, Inserts, SetsStatus, Cleans, Ends, Listens, EditsBook, World
  <2>7. recent' \subseteq 1..made'
    <3>1. CASE Inserts BY <2>1, <2>3, <3>1 DEF Inserts
    <3>2. recent' = recent \/ recent' = {} \/ Inserts
      BY <1>2 DEF Step, Begins, Looks, Learns, Chooses, Creates, Closes, Updates,
         SetsStatus, Cleans, Saves, Ends, Listens, EditsBook, Ticks, World
    <3>3. 1..made \subseteq 1..made' BY <2>1
    <3> QED BY <2>3, <3>1, <3>2, <3>3
  <2>8. pc' \in Places
    <3>1. CASE Rests BY <3>1 DEF Rests, Places
    <3> QED BY <1>2, <2>3, <3>1 DEF Step, Begins, Looks, Learns, Chooses, Creates, Closes,
            Updates, Inserts, SetsStatus, Cleans, Saves, Ends, Listens, EditsBook, Ticks,
            Chosen, Settles, Places
  <2> QED BY <2>1, <2>2, <2>4, <2>5, <2>6, <2>7, <2>8 DEF Types
<1> QED BY <1>1, <1>2

\* A job that ends is empty.
LEMMA Empty ==
  /\ NoJob.pos = 0 /\ NoJob.start = NoDay /\ NoJob.reads = {} /\ NoJob.save = FALSE
  /\ NoJob.raced = FALSE /\ NoJob.blind = FALSE /\ NoJob.snapped = FALSE
BY DEF NoJob

\* Where a job stands is kept.
LEMMA StepJobs ==
  ASSUME Types, Jobs, Step
  PROVE  Jobs'
<1>0. /\ made \in Nat /\ made' \in Nat /\ made <= made'
      /\ \A r \in reads : r.id \in 1..made'
      /\ \A r \in job.reads : r.id \in 1..made'
  <2>1. /\ made \in Nat /\ made' \in Nat /\ made <= made' BY ReadsChange, StepReads
  <2> QED BY <2>1 DEF Types, Jobs
<1>1. CASE Rests BY <1>1, Empty DEF Rests, Jobs
<1>2. CASE Begins BY <1>0, <1>2 DEF Begins, Jobs, Types
<1>3. CASE Looks BY <1>0, <1>3 DEF Looks, Jobs
<1>4. CASE Learns BY <1>0, <1>1, <1>4 DEF Learns, Jobs
<1>5. CASE Chooses
  <2>1. PICK k \in JobRecords : Knows(k) /\ Chosen(k) BY <1>5 DEF Chooses
  <2>2. k.pos \in Positions /\ k.start \in Days BY <1>5, <2>1 DEF Chooses, Knows, Jobs
  <2>3. \A r \in k.reads : r.id \in 1..made' BY <1>0, <2>1 DEF Knows
  <2> QED BY <1>1, <2>1, <2>2, <2>3 DEF Chosen, Keeps, Settles, Jobs
<1>6. CASE Creates \/ Closes \/ Cleans BY <1>0, <1>1, <1>6 DEF Creates, Closes, Cleans, Jobs
<1>7. CASE Updates \/ Inserts BY <1>0, <1>1, <1>7 DEF Updates, Inserts, Settles, Jobs
<1>8. CASE SetsStatus BY <1>0, <1>1, <1>8 DEF SetsStatus, Jobs
<1>9. CASE Saves \/ Ends BY <1>1, <1>9 DEF Saves, Ends
<1>10. CASE Listens BY <1>0, <1>10 DEF Listens, Jobs
<1>11. CASE EditsBook
  <2>1. /\ job'.pos = job.pos /\ job'.start = job.start /\ job'.reads = job.reads
        /\ job'.blind = job.blind
    BY <1>11 DEF EditsBook, Keeps, Types, JobRecords
  <2> QED BY <1>0, <1>11, <2>1 DEF EditsBook, Jobs
<1>12. CASE Ticks
  <2>1. /\ pc' = pc /\ job'.pos = job.pos /\ job'.start = job.start
        /\ job'.reads = job.reads /\ job'.blind = job.blind /\ job'.save = job.save
        /\ job'.snapped = job.snapped /\ (pc = "idle" => job' = NoJob)
    BY <1>12 DEF Ticks, Keeps
  <2> QED BY <1>0, <2>1 DEF Jobs
<1>13. CASE UNCHANGED vars BY <1>13 DEF vars, remote, Jobs
<1> QED BY <1>1, <1>2, <1>3, <1>4, <1>5, <1>6, <1>7, <1>8, <1>9, <1>10, <1>11, <1>12, <1>13
        DEF Step

\* User books that exist have an edition.
LEMMA StepShelved ==
  ASSUME Types, Jobs, Shelved, Step, Shaped \/ UNCHANGED vars
  PROVE  Shelved'
<1>1. CASE UNCHANGED vars BY <1>1 DEF vars, remote, Shelved, Real
<1>2. CASE Shaped /\ ~UNCHANGED vars
  <2>1. Real(cache') /\ Real(job'.cache) BY <1>2 DEF Shaped
  <2>2. Real(book') /\ (pc' \notin {"idle", "find", "create"} => book'.edition # "none")
    BY <1>2 DEF Step, Begins, Looks, Learns, Chooses, Creates, Closes, Updates, Inserts,
       SetsStatus, Cleans, Saves, Ends, Listens, EditsBook, Ticks, World, Rests, Chosen,
       Settles, Shelved, Real
  <2>3. pc' \in {"edition", "reads", "close", "update", "insert"} => job'.ub.edition # "none"
    <3>1. CASE Chooses BY <3>1 DEF Chooses, Knows, Chosen, Keeps, Rests, Settles
    <3>2. CASE EditsBook BY <3>2 DEF EditsBook, Keeps, Shelved, Types, JobRecords
    <3> QED BY <1>2, <3>1, <3>2 DEF Step, Begins, Looks, Learns, Creates, Closes, Updates,
            Inserts, SetsStatus, Cleans, Saves, Ends, Listens, Ticks, Rests, Keeps, Settles,
            Shelved
  <2> QED BY <2>1, <2>2, <2>3 DEF Shelved, Real
<1> QED BY <1>1, <1>2

\* The steps that leave the reads alone and lead to no choice.
Quiet ==
  /\ UNCHANGED <<today, reads, made, missed, resent, recent>>
  /\ pc' \notin {"close", "update", "insert", "status", "clean", "save"}
  /\ job'.reads \in {job.reads, {}} /\ job'.start \in {job.start, abs.start, NoDay}
  /\ abs' = abs \/ \E later \in BOOLEAN : abs' = [abs EXCEPT !.later = later]

\* Beginning, looking for the user book, saving and ending are such steps.
LEMMA QuietSteps ==
  ASSUME Types, Begins \/ Looks \/ Learns \/ Saves \/ Ends
  PROVE  Quiet
<1>1. CASE Begins BY <1>1 DEF Begins, World, Quiet
<1>2. CASE Looks BY <1>2 DEF Looks, World, Quiet
<1>3. CASE Learns BY <1>3, Empty DEF Learns, Rests, Quiet
<1>4. CASE Saves BY <1>4, Empty DEF Saves, Rests, Quiet
<1>5. CASE Ends BY <1>5, Empty DEF Ends, World, Rests, Quiet
<1> QED BY <1>1, <1>2, <1>3, <1>4, <1>5

\* Nothing comes to lie in the future.
LEMMA StepDated ==
  ASSUME Types, Dated, Jobs, Aimed, Step
  PROVE  Dated'
<1>0. /\ today \in Int /\ today >= 0 /\ abs.start \in Int /\ NoDay = -1
      /\ \A r \in ReadRecords : r.started \in Int /\ r.finished \in Int
                                /\ r.finished >= NoDay /\ r.started >= NoDay
      /\ reads \subseteq ReadRecords /\ job.reads \subseteq ReadRecords
      /\ job.start \in Int
  BY DEF Types, JobRecords, ReadRecords, Days, NoDay
<1>1. CASE Quiet
  <2>1. abs'.start = abs.start BY <1>1 DEF Quiet, Types
  <2> QED BY <1>0, <1>1, <2>1 DEF Quiet, Dated
<1>2. CASE Chooses
  <2>1. PICK k \in JobRecords : Knows(k) /\ Chosen(k) BY <1>2 DEF Chooses
  <2>2. UNCHANGED <<abs, today, reads>> BY <1>2 DEF Chooses, World
  <2>3. /\ job'.start \in {NoDay, job.start} /\ job'.reads \in {{}, reads}
    BY <2>1, Empty DEF Knows, Chosen, Keeps, Settles, Rests
  <2> QED BY <1>0, <2>2, <2>3 DEF Dated
<1>3. CASE Creates \/ SetsStatus
  <2>1. UNCHANGED <<abs, today>> /\ AddsBlank /\ job'.reads \in {{}, job.reads}
        /\ job'.start \in {NoDay, job.start}
    BY <1>3, Empty DEF Creates, SetsStatus, Rests
  <2>2. \A r \in reads' : r \in reads \/ (r.by = "hardcover" /\ r.started = NoDay
                                          /\ r.finished = NoDay)
    BY <2>1 DEF AddsBlank, Unfinished
  <2> QED BY <1>0, <2>1, <2>2 DEF Dated
<1>4. CASE Closes
  <2>1. PICK r \in reads, new \in ReadRecords, f \in FinishedTargets(job.reads) :
          /\ Rewrites(r, new) /\ new.started = r.started /\ new.seconds = r.seconds
          /\ new.finished = f.finished /\ f.finished > job.read.started
    BY <1>4 DEF Closes
  <2>2. UNCHANGED <<abs, today>> /\ job'.reads \in {{}, job.reads}
        /\ job'.start \in {NoDay, job.start}
    BY <1>4, Empty DEF Closes, Rests
  <2>3. f \in job.reads BY DEF FinishedTargets
  <2>4. r.started = job.read.started BY <1>4, <2>1 DEF Closes, Rewrites, Aimed
  <2>5. reads' = (reads \ {r}) \cup {new} /\ new.by = r.by BY <2>1 DEF Rewrites
  <2>6. /\ new.started <= today /\ new.finished <= today
        /\ new.by = "sync" => new.started # NoDay /\ new.started <= new.finished
    BY <1>0, <2>1, <2>3, <2>4, <2>5 DEF Dated
  <2> QED BY <1>0, <2>2, <2>5, <2>6 DEF Dated
<1>5. CASE Updates
  <2>1. PICK r \in reads, new \in ReadRecords :
          /\ Rewrites(r, new) /\ new.finished = r.finished
          /\ new.started = IF job.read.started = NoDay THEN job.start ELSE job.read.started
    BY <1>5 DEF Updates
  <2>2. UNCHANGED <<abs, today>> /\ job'.reads \in {{}, job.reads}
        /\ job'.start \in {NoDay, job.start}
    BY <1>5, Empty DEF Updates, Rests, Settles
  <2>3. r.started = job.read.started BY <1>5, <2>1 DEF Updates, Rewrites, Aimed
  <2>4. reads' = (reads \ {r}) \cup {new} /\ new.by = r.by BY <2>1 DEF Rewrites
  <2>5. /\ new.started <= today /\ new.finished <= today
        /\ new.by = "sync" => /\ new.started # NoDay
                              /\ ~Unfinished(new) => new.started <= new.finished
    BY <1>0, <2>1, <2>3, <2>4 DEF Dated, Unfinished
  <2> QED BY <1>0, <2>2, <2>4, <2>5 DEF Dated
<1>6. CASE Inserts
  <2>1. PICK new \in SUBSET ReadRecords :
          /\ reads' = reads \cup new
          /\ \A r \in new : Unfinished(r) /\ r.started # NoDay /\ r.started <= today
    BY <1>6 DEF Inserts
  <2>2. UNCHANGED <<abs, today>> /\ job'.reads \in {{}, job.reads}
        /\ job'.start \in {NoDay, job.start}
    BY <1>6, Empty DEF Inserts, Rests, Settles
  <2> QED BY <1>0, <2>1, <2>2 DEF Dated, Unfinished
<1>7. CASE Cleans
  <2>1. UNCHANGED <<abs, today>> /\ job'.reads \in {{}, job.reads}
        /\ job'.start \in {NoDay, job.start} /\ reads' \subseteq reads
    BY <1>7, Empty DEF Cleans, Rests
  <2> QED BY <1>0, <2>1 DEF Dated
<1>8. CASE Listens BY <1>0, <1>8 DEF Listens, Dated
<1>9. CASE EditsBook
  <2>1. UNCHANGED <<abs, today>> /\ job'.reads = job.reads /\ job'.start = job.start
    BY <1>9 DEF EditsBook, Keeps, Types, JobRecords
  <2>2. \A r \in reads' :
          \/ r \in reads
          \/ r \in ReadRecords /\ r.by = "user" /\ r.started <= today /\ r.finished <= today
          \/ r.finished = today /\ \E o \in reads : r.by = o.by /\ r.started = o.started
    BY <1>0, <1>9 DEF EditsBook, Alters
  <2>3. \A r \in reads : r.started <= today BY DEF Dated
  <2> QED BY <1>0, <2>1, <2>2, <2>3 DEF Dated
<1>10. CASE Ticks
  <2>1. abs' = abs /\ today' = today + 1 /\ reads' = reads /\ job'.reads = job.reads
        /\ job'.start = job.start
    BY <1>10 DEF Ticks, Keeps
  <2> QED BY <1>0, <2>1 DEF Dated
<1>11. CASE UNCHANGED vars BY <1>11 DEF vars, absVars, remote, Dated
<1> QED BY <1>1, <1>2, <1>3, <1>4, <1>5, <1>6, <1>7, <1>8, <1>9, <1>10, <1>11, QuietSteps
        DEF Step

\* What a job knows of the read it is about to write stays true.
LEMMA StepAimed ==
  ASSUME Types, Dated, Jobs, Aimed, Step
  PROVE  Aimed'
<1>1. CASE pc' \notin {"close", "update"} BY <1>1 DEF Aimed
<1>2. CASE Chooses /\ pc' \in {"close", "update"}
  <2>1. PICK k \in JobRecords : Knows(k) /\ Chosen(k) BY <1>2 DEF Chooses
  <2>2. /\ Keeps(k) /\ job'.read \in k.reads /\ Unfinished(job'.read)
        /\ pc' = "close" => job'.read.started # NoDay /\ Outdated(k.reads, job'.read.started)
    BY <1>2, <2>1 DEF Chosen, Rests, Settles
  <2>3. k.reads = reads /\ reads' = reads /\ today' = today
    BY <1>2, <2>1, <2>2 DEF Knows, Chooses, World
  <2>4. job'.reads = reads BY <2>2, <2>3 DEF Keeps
  <2>5. \A r \in reads : r.id = job'.read.id => r = job'.read BY <2>2, <2>3 DEF Types
  <2>6. Outdated(job.reads, job.read.started)' <=> Outdated(k.reads, job'.read.started)
    BY <2>3, <2>4 DEF Outdated, FinishedTargets
  <2> QED BY <2>2, <2>3, <2>4, <2>5, <2>6 DEF Aimed, Unfinished
<1>3. CASE Listens BY <1>3 DEF Listens, Aimed, Outdated, FinishedTargets
<1>4. CASE EditsBook /\ pc' \in {"close", "update"}
  <2>1. /\ pc' = pc /\ today' = today /\ job'.reads = job.reads /\ job'.read = job.read
        /\ job'.raced
    BY <1>4 DEF EditsBook, Keeps, Types, JobRecords
  <2>2. job.read \in job.reads /\ job.read.id \in 1..made BY <1>4, <2>1 DEF Aimed, Jobs
  <2>3. made \in Nat BY DEF Types
  <2>4. \A r \in reads' : r.id = made + 1 \/ \E o \in reads : r.id = o.id /\ r.started = o.started
    BY <1>4 DEF EditsBook, Alters
  <2>5. made + 1 # job.read.id BY <2>2, <2>3
  <2>6. \A r \in reads' : r.id = job.read.id => r.started = job.read.started
    BY <1>4, <2>1, <2>4, <2>5 DEF Aimed
  <2> QED BY <1>4, <2>1, <2>2, <2>6 DEF Aimed, Outdated, FinishedTargets
<1>5. CASE Ticks /\ pc' \in {"close", "update"}
  <2>1. /\ pc' = pc /\ today' = today + 1 /\ job'.reads = job.reads /\ job'.read = job.read
        /\ job'.raced = job.raced /\ reads' = reads
    BY <1>5 DEF Ticks, Keeps
  <2>2. ASSUME pc = "close" PROVE Outdated(job.reads, job.read.started)'
    <3>1. PICK f \in FinishedTargets(job.reads) :
            /\ ~(Progress(f) = 0 /\ f.started = f.finished /\ f.finished = today)
            /\ f.finished > job.read.started
      BY <2>2 DEF Aimed, Outdated
    <3>2. f \in job.reads /\ f \in FinishedTargets(job.reads)' /\ f \in ReadRecords
      BY <2>1 DEF FinishedTargets, Types, JobRecords
    <3>3. f.finished # today'
      <4>1. f.finished <= today /\ f.finished \in Int /\ today \in Int
        BY <3>2 DEF Dated, ReadRecords, Types, Days, NoDay
      <4> QED BY <2>1, <4>1
    <3> QED BY <2>1, <3>1, <3>2, <3>3 DEF Outdated
  <2> QED BY <1>5, <2>1, <2>2 DEF Aimed
<1>6. CASE UNCHANGED vars
  BY <1>6 DEF vars, absVars, remote, Aimed, Outdated, FinishedTargets
<1>7. CASE Quiet BY <1>1, <1>7 DEF Quiet
<1>8. CASE Creates \/ Closes \/ Updates \/ Inserts \/ SetsStatus \/ Cleans
  BY <1>1, <1>8 DEF Creates, Closes, Updates, Inserts, SetsStatus, Cleans, Rests, Settles
<1> QED BY <1>1, <1>2, <1>3, <1>4, <1>5, <1>6, <1>7, <1>8, QuietSteps DEF Step

\* What a checkpoint is earned by is kept.
LEMMA StepEarned ==
  ASSUME Types, Jobs, Aimed, Earned, Step
  PROVE  Earned'
<1>0. SUFFICES ASSUME ~job'.raced PROVE Earned'
  BY DEF Earned
<1>1. CASE Rests BY <1>1, Empty DEF Rests, Earned
<1>2. CASE Begins BY <1>2 DEF Begins, Earned
<1>3. CASE Looks BY <1>3 DEF Looks, World, Earned
<1>4. CASE Learns
  <2>1. CASE pc' = "reads"
    <3>1. job'.ub.status \in {book.status, "unknown"} /\ book'.status = book.status
      BY <1>0, <1>1, <1>4, <2>1 DEF Learns, Rests, Earned
    <3> QED BY <2>1, <3>1 DEF Earned
  <2> QED BY <1>1, <1>4, <2>1 DEF Learns
<1>5. CASE Chooses /\ ~Rests
  <2>1. PICK k \in JobRecords : Knows(k) /\ Chosen(k) BY <1>5 DEF Chooses
  <2>2. book' = book /\ reads' = reads BY <1>5 DEF Chooses, World
  <2>3. ~k.raced /\ ~job.raced BY <1>0, <1>5, <2>1 DEF Chosen, Keeps, Settles, Knows
  <2>4. k.ub.status \in {book.status, "unknown"} BY <2>1, <2>3 DEF Knows, Earned
  <2>5. CASE pc' \in {"insert", "close", "update"} /\ Keeps(k)
    BY <2>2, <2>4, <2>5 DEF Keeps, Earned
  <2>6. ASSUME NEW save \in BOOLEAN, Settles(k, save),
               save => \E r \in k.reads : Unfinished(r) /\ r.seconds = k.pos
        PROVE  Earned'
    <3>1. /\ pc' \in {"status", "save"} /\ job'.pos = k.pos /\ job'.save = save
          /\ pc' = "save" => k.ub.status = "reading"
      BY <2>6 DEF Settles
    <3>2. k.reads \subseteq reads BY <2>1 DEF Knows
    <3>3. pc' = "save" => book'.status = "reading" BY <2>2, <2>4, <3>1
    <3>4. job'.save => \E r \in reads' : Unfinished(r) /\ r.seconds = job'.pos
      BY <2>2, <2>6, <3>1, <3>2
    <3> QED BY <3>1, <3>3, <3>4 DEF Earned, Unfinished
  <2> QED BY <1>5, <2>1, <2>5, <2>6 DEF Chosen
<1>6. CASE Creates BY <1>6 DEF Creates, Earned
<1>7. CASE Closes /\ ~Rests BY <1>0, <1>7 DEF Closes, Earned
<1>8. CASE Updates /\ ~Rests
  <2>1. PICK r \in reads, new \in ReadRecords :
          /\ Rewrites(r, new) /\ new.finished = r.finished /\ new.seconds = job.pos
    BY <1>8 DEF Updates
  <2>2. Settles(job, job.save) /\ book' = book /\ pc = "update" BY <1>8 DEF Updates
  <2>3. ~job.raced /\ job'.pos = job.pos /\ pc' \in {"status", "save"}
        /\ (pc' = "save" => job.ub.status = "reading")
    BY <1>0, <2>2 DEF Settles
  <2>4. Unfinished(new) /\ new \in reads'
    BY <2>1, <2>2, <2>3 DEF Rewrites, Aimed, Unfinished
  <2>5. pc' = "save" => book'.status = "reading" BY <2>2, <2>3 DEF Earned
  <2> QED BY <2>1, <2>3, <2>4, <2>5 DEF Earned, Unfinished
<1>9. CASE Inserts /\ ~Rests
  <2>1. PICK new \in SUBSET ReadRecords :
          /\ reads' = reads \cup new /\ new # {}
          /\ \A r \in new : Unfinished(r) /\ r.seconds = job.pos
    BY <1>9 DEF Inserts
  <2>2. Settles(job, job.save) /\ book' = book /\ pc = "insert" BY <1>9 DEF Inserts
  <2>3. ~job.raced /\ job'.pos = job.pos /\ pc' \in {"status", "save"}
        /\ (pc' = "save" => job.ub.status = "reading")
    BY <1>0, <2>2 DEF Settles
  <2>4. pc' = "save" => book'.status = "reading" BY <2>2, <2>3 DEF Earned
  <2> QED BY <2>1, <2>3, <2>4 DEF Earned, Unfinished
<1>10. CASE SetsStatus /\ ~Rests
  <2>1. reads \subseteq reads' BY <1>10 DEF SetsStatus, AddsBlank
  <2>2. /\ pc = "status" /\ pc' = "clean" /\ job'.pos = job.pos /\ job'.save = job.save
        /\ ~job.raced /\ book'.status = "reading"
    BY <1>0, <1>10 DEF SetsStatus
  <2>3. job.save => \E r \in reads : Unfinished(r) /\ r.seconds = job.pos
    BY <2>2 DEF Earned
  <2> QED BY <2>1, <2>2, <2>3 DEF Earned, Unfinished
<1>11. CASE Cleans /\ ~Rests
  <2>1. pc = "clean" /\ pc' = "save" /\ job.save /\ job' = job /\ book' = book
        /\ reads' \in {reads, {r \in reads : ~Blank(r)}}
    BY <1>11 DEF Cleans
  <2>2. PICK r \in reads : Unfinished(r) /\ r.seconds = job.pos
    BY <1>0, <2>1 DEF Earned
  <2>3. job.pos # NoProgress
    <3>1. job.pos \in 1..(Duration - 1) BY <2>1, Basics DEF Jobs
    <3> QED BY <3>1, Basics DEF NoProgress
  <2>4. r \in reads' BY <2>1, <2>2, <2>3 DEF Blank
  <2>5. book.status = "reading" BY <1>0, <2>1 DEF Earned
  <2> QED BY <2>1, <2>2, <2>4, <2>5 DEF Earned, Unfinished
<1>12. CASE Saves \/ Ends BY <1>1, <1>12 DEF Saves, Ends
<1>13. CASE Listens BY <1>0, <1>13 DEF Listens, Earned, Unfinished
<1>14. CASE EditsBook
  <2>1. job'.raced = (pc # "idle") /\ pc' = pc
    BY <1>14 DEF EditsBook, Keeps, Types, JobRecords
  <2> QED BY <1>0, <2>1 DEF Earned
<1>15. CASE Ticks
  <2>1. /\ pc' = pc /\ job'.pos = job.pos /\ job'.ub = job.ub /\ job'.raced = job.raced
        /\ job'.save = job.save /\ book' = book /\ reads' = reads
    BY <1>15 DEF Ticks, Keeps
  <2> QED BY <1>0, <2>1 DEF Earned, Unfinished
<1>16. CASE UNCHANGED vars BY <1>0, <1>16 DEF vars, remote, Earned, Unfinished
<1> QED BY <1>1, <1>2, <1>3, <1>4, <1>5, <1>6, <1>7, <1>8, <1>9, <1>10, <1>11, <1>12, <1>13,
           <1>14, <1>15, <1>16
        DEF Step

\* The checkpoint stays that of the position it was taken at.
LEMMA StepChecked ==
  ASSUME Types, Jobs, Checked, Step
  PROVE  Checked'
<1>1. CASE Saves
  <2>1. CASE UNCHANGED <<abs, entry, ckpt>> BY <2>1 DEF Checked, Stored
  <2>2. CASE entry' = Updated(job.pos) /\ ckpt' = job.pos
    <3>1. /\ Updated(job.pos).status = "IN_PROGRESS"
          /\ Updated(job.pos).prog = Stored(job.pos)
      BY DEF Updated
    <3>2. Stored(ckpt)' = Stored(job.pos) BY <2>2 DEF Stored
    <3>3. job.pos \in Positions BY <1>1 DEF Saves, Jobs
    <3> QED BY <2>2, <3>1, <3>2, <3>3 DEF Checked
  <2> QED BY <1>1, <2>1, <2>2 DEF Saves
<1>2. CASE Ticks BY <1>2 DEF Ticks, Checked, Stored
<1>3. CASE UNCHANGED vars BY <1>3 DEF vars, ghostVars, Checked, Stored
<1>4. CASE UNCHANGED <<entry, ckpt>> BY <1>4 DEF Checked, Stored
<1> QED BY <1>1, <1>2, <1>3, <1>4 DEF Step, Begins, Looks, Learns, Chooses, Creates, Closes,
           Updates, Inserts, SetsStatus, Cleans, Ends, Listens, EditsBook, World

\* The user adds no read in progress of the target edition.
LEMMA StepOthers ==
  ASSUME Others, Step
  PROVE  Others'
<1>1. CASE Creates \/ SetsStatus
  <2>1. AddsBlank BY <1>1 DEF Creates, SetsStatus
  <2> QED BY <2>1 DEF AddsBlank, Others, Unfinished
<1>2. CASE Closes
  <2>1. PICK r \in reads, new \in ReadRecords, f \in FinishedTargets(job.reads) :
          Rewrites(r, new) /\ new.finished = f.finished
    BY <1>2 DEF Closes
  <2>2. ~Unfinished(new) BY <2>1 DEF FinishedTargets, Unfinished
  <2> QED BY <2>1, <2>2 DEF Rewrites, Others, Unfinished
<1>3. CASE Updates
  <2>1. PICK r \in reads, new \in ReadRecords : Rewrites(r, new) /\ new.finished = r.finished
    BY <1>3 DEF Updates
  <2> QED BY <2>1 DEF Rewrites, Others, Unfinished
<1>4. CASE Inserts BY <1>4 DEF Inserts, Others, Unfinished
<1>5. CASE Cleans BY <1>5 DEF Cleans, Others, Unfinished
<1>6. CASE EditsBook
  <2>1. \A r \in reads' :
          \/ Unfinished(r) => r.edition # "target"
          \/ \E o \in reads : Unfinished(o) /\ r.by = o.by /\ r.edition = o.edition
          \/ r \in reads
    BY <1>6 DEF EditsBook, Alters
  <2> QED BY <2>1 DEF Others, Unfinished
<1>7. CASE UNCHANGED vars BY <1>7 DEF vars, remote, Others, Unfinished
<1>8. CASE UNCHANGED reads BY <1>8 DEF Others, Unfinished
<1> QED BY <1>1, <1>2, <1>3, <1>4, <1>5, <1>6, <1>7, <1>8 DEF Step, Begins, Looks, Learns,
           Chooses, Saves, Ends, Listens, Ticks, World

\* The steps after which no job writes a read.
Idles == pc' \notin {"close", "update", "insert"}

\* The steps that leave the job where it was, about to write the same read.
Stays == /\ pc' = pc /\ job'.read = job.read /\ job'.blind = job.blind
         /\ UNCHANGED <<missed, resent>>

\* No step that makes no read active, and leads to no choice, makes a second one.
LEMMA NoNewActive ==
  ASSUME Alone, Stays \/ (Idles /\ UNCHANGED <<missed, resent>>),
         \A r \in reads' : Active(r) => r \in reads
  PROVE  Alone'
BY DEF Alone, Stays, Idles, Active, Unfinished

\* An insertion that did not see an active read has an excuse: the checkpoint
\* tells of a position that it was taken at, past the first percent.
LEMMA GuardHolds ==
  ASSUME Types, Jobs, Checked, pc = "insert", job.blind, ~AlreadyRecorded
  PROVE  Excuse # {}
<1> SUFFICES ASSUME Told, ckpt > Percent PROVE FALSE
  BY DEF Excuse, Types, Percent
<1>1. entry.status = "IN_PROGRESS" /\ entry.prog = Stored(ckpt) BY DEF Checked, Told
<1>2. Stored(ckpt) = ckpt BY DEF Stored
<1> QED BY <1>1, <1>2 DEF AlreadyRecorded, Told

\* There is at most one active read after a step, if there was before.
LEMMA StepAlone ==
  ASSUME Types, Jobs, Aimed, Checked, Others, Alone, Step
  PROVE  Alone'
<1>0. \A r, o \in reads : r.id = o.id => r = o BY DEF Types
<1>1. CASE Quiet
  BY <1>1, NoNewActive DEF Quiet, Idles
<1>2. CASE Chooses
  <2>1. PICK k \in JobRecords : Knows(k) /\ Chosen(k) BY <1>2 DEF Chooses
  <2>2. UNCHANGED <<reads, missed, resent>> BY <1>2 DEF Chooses, World
  <2>3. CASE Idles BY <2>2, <2>3, NoNewActive
  <2>4. CASE pc' = "insert"
    <3>1. Keeps(k) /\ \A r \in k.reads : ~(Unfinished(r) /\ r.edition = "target")
      BY <2>1, <2>4 DEF Chosen, Rests, Settles
    <3>2. job'.blind \/ k.reads = reads BY <2>1, <3>1 DEF Knows, Keeps
    <3>3. job'.blind \/ \A r \in reads : ~Active(r) BY <3>1, <3>2 DEF Active
    <3> QED BY <2>2, <2>4, <3>3 DEF Alone, Active, Unfinished
  <2>5. CASE pc' \in {"close", "update"}
    <3>1. /\ job'.read \in k.reads /\ Unfinished(job'.read)
          /\ \A r \in k.reads :
               Unfinished(r) /\ r.edition = "target" /\ r.seconds # NoProgress
                 => job'.read.edition = "target" /\ job'.read.seconds # NoProgress
      BY <2>1, <2>5 DEF Chosen, Rests, Settles
    <3>2. k.reads = reads /\ job'.read \in reads BY <2>1, <3>1 DEF Knows
    <3>3. ASSUME missed = {}, NEW r \in reads, Active(r)
          PROVE  r = job'.read \/ (r.id \in resent /\ job'.read.id \in resent)
      <4>1. Active(job'.read) BY <3>1, <3>2, <3>3 DEF Active, Others
      <4> QED BY <3>2, <3>3, <4>1 DEF Alone
    <3> QED BY <2>2, <2>5, <3>3 DEF Alone, Active, Unfinished
  <2> QED BY <2>3, <2>4, <2>5 DEF Idles
<1>3. CASE Creates \/ SetsStatus
  <2>1. AddsBlank /\ Idles /\ UNCHANGED <<missed, resent>>
    BY <1>3 DEF Creates, SetsStatus, Idles, Rests
  <2>2. \A r \in reads' : Active(r) => r \in reads BY <2>1 DEF AddsBlank, Active
  <2> QED BY <2>1, <2>2, NoNewActive
<1>4. CASE Closes
  <2>1. PICK r \in reads, new \in ReadRecords, f \in FinishedTargets(job.reads) :
          Rewrites(r, new) /\ new.finished = f.finished
    BY <1>4 DEF Closes
  <2>2. reads' = (reads \ {r}) \cup {new} /\ r.id = job.read.id BY <2>1 DEF Rewrites
  <2>3. ~Unfinished(new) BY <2>1 DEF FinishedTargets, Unfinished
  <2>4. \A o \in reads' : Active(o) => o \in reads /\ o # r BY <2>2, <2>3 DEF Active
  <2>5. UNCHANGED <<missed, resent>> /\ pc = "close" /\ pc' \in {"idle", "insert"}
    BY <1>4 DEF Closes, Rests
  <2>6. missed # {} \/ \A o \in reads' : Active(o) => o.id \in resent
    BY <1>0, <2>2, <2>4, <2>5 DEF Alone
  <2>7. CASE missed # {} BY <2>5, <2>7 DEF Alone
  <2>8. CASE missed = {}
    <3>1. \A o \in reads' : Active(o)' => Active(o) BY DEF Active, Unfinished
    <3> QED BY <2>5, <2>6, <2>8, <3>1 DEF Alone
  <2> QED BY <2>7, <2>8
<1>5. CASE Updates
  <2>1. PICK r \in reads, new \in ReadRecords : Rewrites(r, new) BY <1>5 DEF Updates
  <2>2. reads' = (reads \ {r}) \cup {new} /\ r.id = job.read.id /\ new.id = r.id
    BY <2>1 DEF Rewrites
  <2>3. UNCHANGED <<missed, resent>> /\ pc = "update" /\ Idles
    BY <1>5 DEF Updates, Idles, Rests, Settles
  <2>4. missed # {} \/ \A o \in reads' : Active(o) =>
          o = new \/ (o.id \in resent /\ new.id \in resent)
    BY <1>0, <2>2, <2>3 DEF Alone
  <2>5. \A o \in reads' : Active(o)' => Active(o) BY DEF Active, Unfinished
  <2> QED BY <2>3, <2>4, <2>5 DEF Alone, Idles
<1>6. CASE Inserts
  <2>1. PICK new \in SUBSET ReadRecords :
          /\ reads' = reads \cup new
          /\ \A r \in new : r.id \in (made + 1)..made'
          /\ \/ \A r \in new : r.id \in resent'
             \/ (\A r, o \in new : r = o) /\ \A r \in reads : r.id \in resent => ~Unfinished(r)
    BY <1>6 DEF Inserts
  <2>2. /\ pc = "insert" /\ ~AlreadyRecorded /\ resent \subseteq resent'
        /\ missed' = missed \cup Excuse
    BY <1>6 DEF Inserts
  <2>3. Idles BY <1>6 DEF Inserts, Idles, Rests, Settles
  <2>4. CASE missed' # {} BY <2>4 DEF Alone
  <2>5. CASE missed' = {}
    <3>1. missed = {} /\ ~job.blind BY <2>2, <2>5, GuardHolds
    <3>2. \A r \in reads : Active(r) => r.id \in resent BY <2>2, <3>1 DEF Alone
    <3>3. ASSUME NEW r \in reads', NEW o \in reads', Active(r), Active(o), r.id \notin resent'
          PROVE  r = o
      <4>1. r \in new BY <2>1, <2>2, <3>2, <3>3
      <4>2. (\A p, q \in new : p = q) /\ \A p \in reads : p.id \in resent => ~Unfinished(p)
        BY <2>1, <3>3, <4>1
      <4>3. o \in new BY <2>1, <3>2, <3>3, <4>2 DEF Active
      <4> QED BY <4>1, <4>2, <4>3
    <3>4. \A r \in reads' : Active(r)' => Active(r) BY DEF Active, Unfinished
    <3> QED BY <2>3, <3>3, <3>4 DEF Alone, Idles
  <2> QED BY <2>4, <2>5
<1>7. CASE Cleans
  <2>1. reads' \subseteq reads /\ Idles /\ UNCHANGED <<missed, resent>>
    BY <1>7 DEF Cleans, Idles, Rests
  <2> QED BY <2>1, NoNewActive
<1>8. CASE Listens BY <1>8, NoNewActive DEF Listens, Stays
<1>9. CASE EditsBook
  <2>1. Stays BY <1>9 DEF EditsBook, Keeps, Stays, Types, JobRecords
  <2>2. today # NoDay BY DEF Types, Days, NoDay
  <2>3. \A r \in reads' : Active(r) => r \in reads
    BY <1>9, <2>2 DEF EditsBook, Alters, Active, Unfinished
  <2> QED BY <2>1, <2>3, NoNewActive
<1>10. CASE Ticks BY <1>10, NoNewActive DEF Ticks, Keeps, Stays
<1>11. CASE UNCHANGED vars BY <1>11, NoNewActive DEF vars, remote, ghostVars, Stays
<1> QED BY <1>1, <1>2, <1>3, <1>4, <1>5, <1>6, <1>7, <1>8, <1>9, <1>10, <1>11, QuietSteps
        DEF Step

\* The first part of Unsplit.
Forward ==
  \A r \in reads : r.id \in recent =>
    r.started # NoDay /\ \A f \in FinishedTargets(reads) : f.finished <= r.started

\* A step that adds no finish and changes no recent read keeps them apart.
LEMMA StaysForward ==
  ASSUME Forward, UNCHANGED recent,
         \A r \in reads' : r.id \in recent => \E o \in reads : o.id = r.id /\ o.started = r.started,
         \A f \in FinishedTargets(reads') : \E g \in FinishedTargets(reads) : f.finished = g.finished
  PROVE  Forward'
<1> SUFFICES ASSUME NEW r \in reads', r.id \in recent
             PROVE  r.started # NoDay /\ \A f \in FinishedTargets(reads') : f.finished <= r.started
  BY DEF Forward, FinishedTargets, Unfinished
<1>1. PICK o \in reads : o.id = r.id /\ o.started = r.started OBVIOUS
<1> QED BY <1>1 DEF Forward

\* What Unsplit says at each place.
LEMMA UnsplitParts ==
  /\ Unsplit => Forward
  /\ Forward' /\ pc' \notin {"close", "insert"} => Unsplit'
BY DEF Unsplit, Forward, FinishedTargets, Unfinished

\* What a job inserts knowing the others is not stale after any step.
LEMMA StepUnsplit ==
  ASSUME Types, Dated, Jobs, Aimed, Unsplit, Step
  PROVE  Unsplit'
<1>0. /\ made \in Nat /\ recent \subseteq 1..made /\ made + 1 \notin recent
      /\ reads \subseteq ReadRecords /\ job.reads \subseteq ReadRecords
      /\ \A r, o \in reads : r.id = o.id => r = o
      /\ \A r \in ReadRecords : r.started \in Int /\ r.finished \in Int
      /\ Forward
  BY UnsplitParts DEF Types, JobRecords, ReadRecords, Days, NoDay
<1>1. CASE Quiet
  <2>1. Forward' BY <1>0, <1>1, StaysForward DEF Quiet
  <2> QED BY <1>1, <2>1, UnsplitParts DEF Quiet
<1>2. CASE Chooses
  <2>1. PICK k \in JobRecords : Knows(k) /\ Chosen(k) BY <1>2 DEF Chooses
  <2>2. reads' = reads /\ recent' = recent BY <1>2 DEF Chooses, World
  <2>3. Forward' BY <1>0, <2>2, StaysForward
  <2>4. CASE pc' \notin {"close", "insert"} BY <2>3, <2>4, UnsplitParts
  <2>5. ASSUME pc' \in {"close", "insert"}, ~job'.blind
        PROVE  job'.reads = reads
    BY <2>1, <2>5 DEF Chosen, Rests, Settles, Keeps, Knows
  <2>6. ASSUME pc' = "close"
        PROVE  job'.read.id \notin recent /\ job'.reads = reads
    <3>1. job'.read \in k.reads /\ Outdated(k.reads, job'.read.started) /\ Keeps(k)
      BY <2>1, <2>6 DEF Chosen, Rests, Settles
    <3>2. k.reads = reads BY <2>1, <3>1 DEF Knows
    <3>3. PICK f \in FinishedTargets(reads) : f.finished > job'.read.started
      BY <3>1, <3>2 DEF Outdated
    <3>4. f.finished \in Int /\ job'.read.started \in Int
      BY <1>0, <3>1, <3>2 DEF FinishedTargets
    <3> QED BY <1>0, <3>1, <3>2, <3>3, <3>4 DEF Forward, Keeps
  <2>7. \A f \in FinishedTargets(reads) : f \in reads /\ f.finished <= f.finished
    BY <1>0 DEF FinishedTargets
  <2>8. CASE pc' \in {"close", "insert"}
    <3>1. FinishedTargets(reads)' = FinishedTargets(reads) BY <2>2 DEF FinishedTargets, Unfinished
    <3>2. job'.reads = reads => FinishedTargets(job.reads)' = FinishedTargets(reads)
      BY DEF FinishedTargets, Unfinished
    <3> QED BY <2>2, <2>3, <2>5, <2>6, <2>7, <2>8, <3>1, <3>2 DEF Unsplit, Forward
  <2> QED BY <2>4, <2>8
<1>3. CASE Creates \/ SetsStatus
  <2>1. AddsBlank /\ pc' \notin {"close", "insert"} /\ recent' = recent
    BY <1>3 DEF Creates, SetsStatus, Rests
  <2>2. \A r \in reads' : r \in reads \/ (r.id = made + 1 /\ Unfinished(r))
    BY <2>1 DEF AddsBlank
  <2>3. FinishedTargets(reads') \subseteq FinishedTargets(reads)
    BY <2>2 DEF FinishedTargets
  <2>4. Forward' BY <1>0, <2>1, <2>2, <2>3, StaysForward
  <2> QED BY <2>1, <2>4, UnsplitParts
<1>4. CASE Closes
  <2>1. PICK r \in reads, new \in ReadRecords, f \in FinishedTargets(job.reads) :
          Rewrites(r, new) /\ new.started = r.started /\ new.finished = f.finished
    BY <1>4 DEF Closes
  <2>2. /\ reads' = (reads \ {r}) \cup {new} /\ new.id = job.read.id /\ r.id = job.read.id
        /\ recent' = recent /\ pc = "close"
    BY <1>4, <2>1 DEF Rewrites, Closes
  <2>3. new.id \notin recent BY <2>2 DEF Unsplit
  <2>4. \A g \in FinishedTargets(reads') : g \in FinishedTargets(reads) \/ g = new
    BY <2>2 DEF FinishedTargets
  <2>5. recent = {} \/ f \in FinishedTargets(reads)
    BY <2>1, <2>2 DEF Unsplit, FinishedTargets
  <2>6. recent = {} \/ \A g \in FinishedTargets(reads') :
          \E h \in FinishedTargets(reads) : g.finished = h.finished
    BY <2>1, <2>4, <2>5
  <2>7. Forward'
    <3>1. CASE recent = {} BY <2>2, <3>1 DEF Forward
    <3>2. CASE recent # {}
      <4>1. \A o \in reads' : o.id \in recent => o \in reads BY <2>2, <2>3
      <4> QED BY <1>0, <2>2, <2>6, <3>2, <4>1, StaysForward
    <3> QED BY <3>1, <3>2
  <2>8. CASE pc' = "insert" /\ UNCHANGED job
    <3>1. ASSUME ~job.blind, ~job.raced, NEW g \in FinishedTargets(reads')
          PROVE  \E h \in FinishedTargets(job.reads) : g.finished <= h.finished
      <4>1. CASE g = new
        <5>1. g.finished = f.finished /\ f.finished \in Int BY <1>0, <2>1, <4>1 DEF FinishedTargets
        <5> QED BY <5>1
      <4>2. CASE g \in FinishedTargets(reads) BY <2>2, <3>1, <4>2 DEF Unsplit
      <4> QED BY <2>4, <4>1, <4>2
    <3>2. /\ FinishedTargets(reads)' = FinishedTargets(reads')
          /\ FinishedTargets(job.reads)' = FinishedTargets(job.reads)
      BY <2>8 DEF FinishedTargets, Unfinished
    <3> QED BY <2>7, <2>8, <3>1, <3>2 DEF Unsplit, Forward
  <2>9. CASE Rests BY <2>7, <2>9, UnsplitParts DEF Rests
  <2> QED BY <1>4, <2>8, <2>9 DEF Closes
<1>5. CASE Updates
  <2>1. PICK r \in reads, new \in ReadRecords :
          /\ Rewrites(r, new) /\ new.finished = r.finished
          /\ new.started = IF job.read.started = NoDay THEN job.start ELSE job.read.started
    BY <1>5 DEF Updates
  <2>2. /\ reads' = (reads \ {r}) \cup {new} /\ new.id = r.id /\ r.id = job.read.id
        /\ new.edition = r.edition
        /\ recent' = recent /\ pc = "update" /\ pc' \notin {"close", "insert"}
    BY <1>5, <2>1 DEF Rewrites, Updates, Rests, Settles
  <2>3. r.started = job.read.started BY <2>1, <2>2 DEF Aimed
  <2>4. r.id \in recent => new.started = r.started BY <1>0, <2>1, <2>3 DEF Forward
  <2>5. \A o \in reads' : o.id \in recent =>
          \E p \in reads : p.id = o.id /\ p.started = o.started
    BY <2>2, <2>4
  <2>6. \A g \in FinishedTargets(reads') :
          \E h \in FinishedTargets(reads) : g.finished = h.finished
    BY <2>1, <2>2 DEF FinishedTargets, Unfinished
  <2>7. Forward' BY <1>0, <2>2, <2>5, <2>6, StaysForward
  <2> QED BY <2>2, <2>7, UnsplitParts
<1>6. CASE Inserts
  <2>1. PICK new \in SUBSET ReadRecords :
          /\ reads' = reads \cup new
          /\ \A r \in new : /\ r.id \in (made + 1)..made' /\ Unfinished(r)
                            /\ r.started # NoDay
                            /\ \A f \in FinishedTargets(job.reads) : f.finished <= r.started
    BY <1>6 DEF Inserts
  <2>2. /\ recent' \in {recent, recent \cup ((made + 1)..made')} /\ made' \in Nat
        /\ job.blind \/ job.raced => recent' = recent
        /\ pc = "insert" /\ pc' \notin {"close", "insert"}
    BY <1>6 DEF Inserts, Rests, Settles
  <2>3. FinishedTargets(reads') = FinishedTargets(reads)
    BY <2>1 DEF FinishedTargets
  <2>4. ASSUME NEW r \in reads', r.id \in recent'
        PROVE  r.started # NoDay /\ \A f \in FinishedTargets(reads') : f.finished <= r.started
    <3>1. CASE r \in new
      <4>1. r.id \in Int /\ r.id > made BY <1>0, <2>1, <2>2, <3>1
      <4>2. r.id \notin recent BY <1>0, <4>1
      <4>3. ~job.blind /\ ~job.raced BY <2>2, <2>4, <4>2
      <4>4. ASSUME NEW f \in FinishedTargets(reads) PROVE f.finished <= r.started
        <5>1. PICK g \in FinishedTargets(job.reads) : f.finished <= g.finished
          BY <2>2, <4>3 DEF Unsplit
        <5>2. g.finished <= r.started BY <2>1, <3>1
        <5>3. f.finished \in Int /\ g.finished \in Int /\ r.started \in Int
          BY <1>0, <3>1 DEF FinishedTargets
        <5> QED BY <5>1, <5>2, <5>3
      <4> QED BY <2>1, <2>3, <3>1, <4>4
    <3>2. CASE r \notin new
      <4>1. r \in reads /\ r.id \in 1..made BY <2>1, <3>2 DEF Types
      <4>2. r.id \notin (made + 1)..made' BY <1>0, <2>2, <4>1
      <4>3. r.id \in recent BY <2>2, <2>4, <4>2
      <4> QED BY <1>0, <2>3, <4>1, <4>3 DEF Forward
    <3> QED BY <3>1, <3>2
  <2>5. Forward' BY <2>4 DEF Forward, FinishedTargets, Unfinished
  <2> QED BY <2>2, <2>5, UnsplitParts
<1>7. CASE Cleans
  <2>1. reads' \subseteq reads /\ recent' = recent /\ pc' \notin {"close", "insert"}
    BY <1>7 DEF Cleans, Rests
  <2>2. FinishedTargets(reads') \subseteq FinishedTargets(reads)
    BY <2>1 DEF FinishedTargets
  <2>3. Forward' BY <1>0, <2>1, <2>2, StaysForward
  <2> QED BY <2>1, <2>3, UnsplitParts
<1>8. CASE EditsBook
  <2>1. recent' = {} /\ pc' = pc /\ job'.raced = (pc # "idle")
    BY <1>8 DEF EditsBook, Keeps, Types, JobRecords
  <2> QED BY <2>1 DEF Unsplit
<1>9. CASE Listens BY <1>9 DEF Listens, Unsplit, FinishedTargets, Unfinished
<1>10. CASE Ticks
  <2>1. /\ UNCHANGED <<reads, recent, pc>> /\ job'.reads = job.reads /\ job'.read = job.read
        /\ job'.blind = job.blind /\ job'.raced = job.raced
    BY <1>10 DEF Ticks, Keeps
  <2> QED BY <2>1 DEF Unsplit, FinishedTargets, Unfinished
<1>11. CASE UNCHANGED vars
  BY <1>11 DEF vars, remote, ghostVars, Unsplit, FinishedTargets, Unfinished
<1> QED BY <1>1, <1>2, <1>3, <1>4, <1>5, <1>6, <1>7, <1>8, <1>9, <1>10, <1>11, QuietSteps
        DEF Step

---------------------------------------------------------------------------
(* The theorems                                                            *)

\* The read that was finished today is a read.
LEMMA OldIsRead ==
  LET old == [NoRead EXCEPT !.id = 1, !.edition = "target", !.started = 0, !.finished = 1]
  IN /\ old.id = 1 /\ old.started = 0 /\ old.finished = 1 /\ old.by = "user"
     /\ old \in ReadRecords
<1> DEFINE old == [NoRead EXCEPT !.id = 1, !.edition = "target", !.started = 0,
                                 !.finished = 1]
<1>1. /\ MaxDay \in Nat /\ MaxDay > 0 /\ MaxReads \in Nat /\ MaxReads > 0
  BY InProgressAssumption
<1>2. old.id = 1 /\ old.started = 0 /\ old.finished = 1 /\ old.by = "user"
  BY DEF NoRead
<1>3. 0 \in Days /\ 1 \in Days /\ 1 \in 0..MaxReads /\ NoProgress = -1 BY <1>1 DEF Days, NoProgress
<1>4. old \in ReadRecords BY <1>3 DEF NoRead, ReadRecords
<1> QED BY <1>2, <1>4

\* The invariant holds at first, and there is no active read.
LEMMA InitIInv ==
  ASSUME Init
  PROVE  IInv /\ Alone
<1>1. /\ FirstPosition \in Positions /\ MaxDay \in Nat /\ MaxDay > 0
      /\ MaxReads \in Nat /\ MaxReads > 0
  BY InProgressAssumption
<1> DEFINE old == [NoRead EXCEPT !.id = 1, !.edition = "target", !.started = 0,
                                 !.finished = 1]
<1>2. /\ old.id = 1 /\ old.started = 0 /\ old.finished = 1 /\ old.by = "user"
      /\ old \in ReadRecords
  BY OldIsRead
<1>3. /\ abs = [pos |-> FirstPosition, start |-> 0, later |-> FALSE]
      /\ today = 1 /\ config \in Configs /\ cache = NoBook /\ pc = "idle" /\ job = NoJob
      /\ ckpt = 0 /\ missed = {} /\ resent = {} /\ recent = {}
      /\ budget = [listens |-> 0, edits |-> 0, faults |-> 0]
      /\ made = Cardinality(reads)
  BY DEF Init
<1>4. (book = NoBook \/ book.edition # "none") /\ book \in Books
  BY DEF Init, Books, Statuses, NoBook
<1>5. entry \in Entries
  <2>1. entry \in {NoEntry, [prog |-> Duration, status |-> "FINISHED", fresh |-> FALSE]}
    BY Zenon DEF Init
  <2> HIDE DEF old
  <2>2. 0 \in 0..Duration /\ Duration \in 0..Duration BY Basics
  <2>3. NoEntry \in Entries BY <2>2 DEF NoEntry, Entries
  <2>4. [prog |-> Duration, status |-> "FINISHED", fresh |-> FALSE] \in Entries
    BY <2>2 DEF Entries
  <2> QED BY <2>1, <2>3, <2>4
<1>6. (reads = {} /\ made = 0) \/ (reads = {old} /\ made = 1)
  <2>1. reads = {} \/ reads = {old} BY DEF Init
  <2> HIDE DEF old
  <2>2. Cardinality({}) = 0 /\ Cardinality({old}) = 1 BY FS_EmptySet, FS_Singleton
  <2> QED BY <1>3, <2>1, <2>2
<1> HIDE DEF old
<1>7. Types
  <2>1. abs \in [pos : Positions, start : Days, later : BOOLEAN] BY <1>1, <1>3 DEF Days
  <2>2. reads \subseteq ReadRecords /\ made \in 0..MaxReads BY <1>1, <1>2, <1>6
  <2>3. \A r \in reads : r.id \in 1..made BY <1>2, <1>6
  <2>4. \A r, o \in reads : r.id = o.id => r = o BY <1>6
  <2> QED BY <1>1, <1>3, <1>4, <1>5, <2>1, <2>2, <2>3, <2>4, Basics
      DEF Types, Days, Places, Budgets
<1>8. Dated
  BY <1>2, <1>3, <1>6, Empty DEF Dated, NoDay
<1>9. Jobs /\ Earned /\ Aimed /\ Checked /\ Unsplit
  BY <1>3, Empty DEF Jobs, Earned, Aimed, Checked, Unsplit
<1>10. Shelved
  <2>1. NoJob.cache = NoBook BY DEF NoJob
  <2> QED BY <1>3, <1>4, <2>1 DEF Shelved, Real
<1>11. Others BY <1>2, <1>6 DEF Others, Unfinished, NoDay
<1>12. Alone BY <1>2, <1>3, <1>6 DEF Alone, Active, Unfinished, NoDay
<1> QED BY <1>7, <1>8, <1>9, <1>10, <1>11, <1>12 DEF IInv

\* Every step keeps the invariant.
LEMMA StepIInv ==
  ASSUME IInv, [Next]_vars
  PROVE  IInv'
<1>1. /\ Types /\ Dated /\ Jobs /\ Shelved /\ Aimed
      /\ Earned /\ Checked /\ Others /\ Unsplit
  BY DEF IInv
<1>2. Step /\ (Shaped \/ UNCHANGED vars) BY <1>1, Effects
<1> QED BY <1>1, <1>2, StepTypes, StepDated, StepJobs, StepShelved, StepAimed, StepEarned,
           StepChecked, StepOthers, StepUnsplit DEF IInv

\* The invariant holds of every behaviour.
LEMMA InvariantHolds == Spec => []IInv
<1>1. Init => IInv BY InitIInv
<1>2. IInv /\ [Next]_vars => IInv' BY StepIInv
<1> QED BY <1>1, <1>2, PTL DEF Spec

\* Reads have distinct identifiers, and no read of the sync ends before it
\* starts, through every close and reread of handleInProgressBook.
THEOREM TypeCorrect == Spec => []TypeOK
<1>1. IInv => TypeOK
  BY DEF IInv, Types, Dated, TypeOK, JobRecords, Entries
<1> QED BY <1>1, InvariantHolds, PTL

\* A checkpoint is only taken of a position that Hardcover holds in a read in
\* progress (updateSyncState).
THEOREM CheckpointsEarned == Spec => []CheckpointEarned
<1>1. IInv => CheckpointEarned
  BY DEF IInv, Jobs, Earned, CheckpointEarned
<1> QED BY <1>1, InvariantHolds, PTL

\* A read that a job inserts knowing the others is not stale until the user
\* edits the user book (the "strictly less than" of handleInProgressBook).
THEOREM NoLoop == Spec => []NoSplitLoop
<1>1. IInv => NoSplitLoop
  BY DEF IInv, Unsplit, NoSplitLoop
<1> QED BY <1>1, InvariantHolds, PTL

\* No step of a job changes or deletes a read that was finished when the job
\* looked (handleInProgressBook, deleteBlankReads).
THEOREM HistoryIsKept == Spec => HistoryKept
<1> DEFINE Kept == \/ budget'.edits # budget.edits \/ job.raced
                   \/ \A r \in reads : ~Unfinished(r) => r \in reads'
<1>1. ASSUME IInv, [Next]_vars
      PROVE  Kept \/ UNCHANGED vars
  <2>1. Types /\ Dated /\ Jobs /\ Shelved /\ Aimed BY <1>1 DEF IInv
  <2>2. Step BY <1>1, <2>1, Effects
  <2>3. CASE Closes
    BY <2>1, <2>3 DEF Closes, Rewrites, Aimed
  <2>4. CASE Updates
    BY <2>1, <2>4 DEF Updates, Rewrites, Aimed
  <2>5. CASE Cleans BY <2>5 DEF Cleans, Blank
  <2>6. CASE Creates \/ SetsStatus BY <2>6 DEF Creates, SetsStatus, AddsBlank
  <2>7. CASE Inserts BY <2>7 DEF Inserts
  <2>8. CASE EditsBook BY <2>8 DEF EditsBook
  <2>9. CASE Begins \/ Looks \/ Learns \/ Chooses \/ Saves \/ Ends \/ Listens \/ Ticks
    BY <2>9 DEF Begins, Looks, Learns, Chooses, Saves, Ends, Listens, Ticks, World
  <2> QED BY <2>2, <2>3, <2>4, <2>5, <2>6, <2>7, <2>8, <2>9 DEF Step
<1>2. IInv /\ [Next]_vars => [Kept]_vars BY <1>1
<1> QED BY <1>2, InvariantHolds, PTL DEF Spec, HistoryKept

\* There is at most one read in progress for the edition that the sync wrote,
\* beside the copies of an insertion that was sent again and what is inserted
\* beside them, whatever fails, stops or is edited; an empty answer aside that
\* the guard before the insertion could not see through (Excuse).
THEOREM OneActive == Spec => []OneActiveRead
<1>1. Init => IInv /\ Alone BY InitIInv
<1>2. ASSUME IInv, Alone, [Next]_vars
      PROVE  Alone'
  <2>1. Types /\ Dated /\ Jobs /\ Shelved /\ Aimed /\ Checked /\ Others BY <1>2 DEF IInv
  <2>2. Step BY <1>2, <2>1, Effects
  <2> QED BY <1>2, <2>1, <2>2, StepAlone
<1>3. IInv /\ Alone /\ [Next]_vars => (IInv /\ Alone)' BY <1>2, StepIInv
<1>4. Alone => OneActiveRead
  <2> SUFFICES ASSUME Alone, missed = {} PROVE Cardinality(ActiveReads) <= 1
    BY DEF OneActiveRead
  <2>1. \A r, o \in ActiveReads : r = o BY DEF Alone, Active, ActiveReads
  <2>2. ActiveReads = {} \/ \E r \in ActiveReads : ActiveReads = {r} BY <2>1
  <2>3. CASE ActiveReads = {}
    <3>1. Cardinality(ActiveReads) = 0 BY <2>3, FS_EmptySet
    <3> QED BY <3>1
  <2>4. ASSUME NEW r \in ActiveReads, ActiveReads = {r}
        PROVE  Cardinality(ActiveReads) <= 1
    <3>1. Cardinality(ActiveReads) = 1 BY <2>4, FS_Singleton
    <3> QED BY <3>1
  <2> QED BY <2>2, <2>3, <2>4
<1> QED BY <1>1, <1>3, <1>4, PTL DEF Spec
=============================================================================
