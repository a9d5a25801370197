--------------------------- MODULE ExperienceStoreProofs ---------------------------
(***************************************************************************)
(* What the store of confirmed experiences keeps and what its calls leave  *)
(* behind, for any number of threads, experiences, deaths and              *)
(* interleavings.                                                          *)
(***************************************************************************)
EXTENDS ExperienceStore, FiniteSetTheorems, WellFoundedInduction, TLAPS

-----------------------------------------------------------------------------
(* Threads and files *)

WriterLabel == {"idle", "find", "list", "rebuild", "finish"}
TidierLabel == {"idle", "sign", "merge", "unlink", "rewrite", "list", "rebuild"}
Label == WriterLabel \cup TidierLabel \cup {"retrieve"}

ProcState ==
  [pc : Label, job : Key \cup Kind \cup {Unknown} \cup BOOLEAN,
   todo : SUBSET Id, got : SUBSET (Kind \X Id), kinds : SUBSET Kind,
   canon : Id \cup {0}, moving : SUBSET Key, alone : BOOLEAN,
   end : {"none", "returned", "raised", "died"}]

\* A thread does what its role does.
PlaysRole(p, r) ==
  /\ p \in Writer => r.pc \in WriterLabel /\ (r.pc # "idle" => r.job \in Key)
  /\ p \in Reader => r.pc \in {"idle", "retrieve"}
  /\ p \in Tidier => r.pc \in TidierLabel /\ (r.pc # "idle" => r.job \in BOOLEAN)
  /\ r.moving # {} => p \in Tidier /\ r.pc \in {"unlink", "rewrite"}

\* It works on identifiers that were given out.
OnUsed(r, given) ==
  /\ r.todo \subseteq given /\ \A e \in r.got : e[2] \in given
  /\ r.canon \in given \cup {0} /\ (r.pc \in {"unlink", "rewrite"} => r.canon # 0)

Fits(p, r, given) == r \in ProcState /\ PlaysRole(p, r) /\ OnUsed(r, given)

Files ==
  /\ disk \in [Id -> File \cup {NoFile, Torn}] /\ used \subseteq Id /\ index \subseteq Kind \X Id
  /\ \A i \in Id : disk[i] # NoFile => i \in used
  /\ \A e \in index : e[2] \in used

Histories ==
  /\ {finished, learned, raced, lost} \subseteq SUBSET Key
  /\ writes \in 0..MaxWrites /\ deaths \in 0..MaxDeaths

Threads == proc \in [Thread -> ProcState] /\ \A p \in Thread : Fits(p, proc[p], used)

Sound == Files /\ Histories /\ Threads

\* The first of some identifiers is one of them.
LEMMA LeastIsOne ==
  ASSUME NEW S \in SUBSET Id, S # {}
  PROVE  Least(S) \in S
<1>1. PICK n \in S : \A m \in S : <<m, n>> \notin OpToRel(<, Nat)
  <2>1. S \in SUBSET Nat
    BY DEF Id
  <2> HIDE DEF OpToRel
  <2> QED
    BY <2>1, NatLessThanWellFounded, WFMin
<1>2. \A m \in S : m \in Nat
  BY DEF Id
<1>3. \A m \in S : ~(m < n)
  BY <1>1, <1>2 DEF OpToRel
<1>4. \A m \in S : n <= m
  BY <1>2, <1>3
<1> QED
  BY <1>4 DEF Least

\* A file that can be read names keys and a kind, and is neither missing nor
\* truncated.
LEMMA FilesAreReal ==
  ASSUME NEW f \in File
  PROVE  f.keys \subseteq Key /\ f.kind \in Kind /\ f # NoFile /\ f # Torn
<1>1. f \in [keys : SUBSET Key, kind : Kind]
  BY DEF File
<1> QED
  BY <1>1, StoreAssumption

\* A file can be read exactly if it holds an experience; a torn one is listed, and cannot.
LEMMA ReadableFiles ==
  ASSUME disk \in [Id -> File \cup {NoFile, Torn}], NEW i \in Id
  PROVE  /\ Readable(i) => disk[i] \in File /\ i \in Listed
         /\ ~Readable(i) => disk[i] = NoFile \/ disk[i] = Torn
         /\ i \in Listed <=> disk[i] # NoFile
BY DEF Readable, Listed

\* What a thread is between two calls, and when one ends.
Ended(p, how) ==
  IF p \in Writer THEN [Idle EXCEPT !.pc = "finish", !.job = proc[p].job, !.end = how]
  ELSE IF p \in Reader /\ how = "returned" THEN Idle ELSE [Idle EXCEPT !.end = how]

\* A thread that does nothing holds nothing.
LEMMA IdleFits == ASSUME NEW p, NEW given PROVE Fits(p, Idle, given)
BY DEF Idle, Fits, ProcState, PlaysRole, OnUsed, Label, WriterLabel, TidierLabel

\* A call that returns or raises holds nothing either.
LEMMA EndedFits ==
  ASSUME NEW p \in Thread, NEW given, proc[p] \in ProcState, PlaysRole(p, proc[p]), proc[p].pc # "idle",
         NEW how \in {"returned", "raised"}
  PROVE  Fits(p, Ended(p, how), given)
<1>1. Idle = [pc |-> "idle", job |-> Unknown, todo |-> {}, got |-> {}, kinds |-> {},
              canon |-> 0, moving |-> {}, alone |-> TRUE, end |-> "none"]
  BY DEF Idle
<1>2. CASE p \in Writer
  <2>1. proc[p].job \in Key
    BY <1>2 DEF PlaysRole
  <2>2. p \notin Reader /\ p \notin Tidier
    BY <1>2, StoreAssumption
  <2>3. Ended(p, how) = [pc |-> "finish", job |-> proc[p].job, todo |-> {}, got |-> {}, kinds |-> {},
                         canon |-> 0, moving |-> {}, alone |-> TRUE, end |-> how]
    BY <1>1, <1>2 DEF Ended
  <2> QED
    BY <2>1, <2>2, <2>3 DEF Fits, ProcState, PlaysRole, OnUsed, Label, WriterLabel
<1>3. CASE p \notin Writer
  <2>1. CASE p \in Reader /\ how = "returned"
    BY <1>3, <2>1, IdleFits DEF Ended
  <2>2. CASE ~(p \in Reader /\ how = "returned")
    <3>1. Ended(p, how) = [pc |-> "idle", job |-> Unknown, todo |-> {}, got |-> {}, kinds |-> {},
                           canon |-> 0, moving |-> {}, alone |-> TRUE, end |-> how]
      BY <1>1, <1>3, <2>2 DEF Ended
    <3> QED
      BY <1>3, <3>1 DEF Fits, ProcState, PlaysRole, OnUsed, Label, WriterLabel, TidierLabel
  <2> QED
    BY <2>1, <2>2
<1> QED
  BY <1>2, <1>3

-----------------------------------------------------------------------------
(* Steps of one thread *)

\* The other threads do nothing.
Others(p) == \A q \in Thread \ {p} : proc'[q] = proc[q]

\* The call of a thread stays what it was.
Keeps(r, s) == r.job = s.job /\ r.kinds = s.kinds /\ r.alone = s.alone /\ r.end = s.end

\* `Set` changes the state of one thread.
LEMMA SetIs ==
  ASSUME proc \in [Thread -> ProcState], NEW p \in Thread, NEW r, Set(p, r)
  PROVE  proc'[p] = r /\ Others(p)
BY DEF Set, Others

\* A thread goes on from r, the store may have changed: the identifiers that
\* were given out stay so.
LEMMA ThreadMoves ==
  ASSUME Threads, NEW p \in Thread, NEW r, Fits(p, r, used'), Set(p, r), used \subseteq used'
  PROVE  Threads'
<1>1. \A q \in Thread \ {p} : Fits(q, proc[q], used')
  BY DEF Threads, Fits, OnUsed
<1>2. proc' = [proc EXCEPT ![p] = r] /\ r \in ProcState
  BY DEF Set, Fits
<1>3. proc' \in [Thread -> ProcState]
  BY <1>2 DEF Threads
<1> QED
  BY <1>1, <1>2, <1>3 DEF Threads

\* End is a step to Ended.
LEMMA EndMoves ==
  ASSUME Threads, NEW p \in Thread, NEW how \in {"returned", "raised"}, End(p, how), proc[p].pc # "idle",
         used \subseteq used'
  PROVE  Threads' /\ Others(p) /\ proc'[p] = Ended(p, how)
<1>1. Set(p, Ended(p, how))
  BY DEF End, Ended
<1>2. proc[p] \in ProcState /\ PlaysRole(p, proc[p])
  BY DEF Threads, Fits
<1>3. proc'[p] = Ended(p, how) /\ Others(p)
  BY <1>1, SetIs DEF Threads
<1> QED
  BY <1>1, <1>2, <1>3, EndedFits, ThreadMoves

\* A file of the list was read.
LEMMA TookMoves ==
  ASSUME Threads, NEW p \in Thread, NEW entries \in SUBSET (Kind \X Id), \A e \in entries : e[2] \in used',
         Took(p, entries), proc[p].todo # {}, used \subseteq used'
  PROVE  /\ Threads' /\ Others(p) /\ proc'[p].pc = proc[p].pc /\ Keeps(proc'[p], proc[p])
         /\ proc'[p].todo = proc[p].todo \ {Least(proc[p].todo)} /\ proc'[p].got = proc[p].got \cup entries
         /\ proc'[p].canon = proc[p].canon /\ proc'[p].moving = proc[p].moving
<1> DEFINE s == proc[p]
           todo == s.todo \ {Least(s.todo)}
           got == s.got \cup entries
           r == [s EXCEPT !.todo = todo, !.got = got]
<1>1. Set(p, r)
  BY DEF Took
<1>2. s \in ProcState /\ PlaysRole(p, s) /\ OnUsed(s, used)
  BY DEF Threads, Fits
<1>3. todo \in SUBSET Id /\ got \in SUBSET (Kind \X Id) /\ todo \subseteq s.todo
  BY <1>2 DEF ProcState
<1>4. \A e \in got : e[2] \in used'
  BY <1>2 DEF OnUsed
<1> HIDE DEF s, todo, got
<1>5. r \in ProcState /\ r.pc = s.pc /\ r.job = s.job /\ r.todo = todo /\ r.got = got /\ r.canon = s.canon
      /\ r.moving = s.moving /\ Keeps(r, s)
  BY <1>2, <1>3 DEF ProcState, Keeps
<1> HIDE DEF r
<1>6. PlaysRole(p, r)
  BY <1>2, <1>5 DEF PlaysRole
<1>7. OnUsed(r, used')
  BY <1>2, <1>3, <1>4, <1>5 DEF OnUsed
<1>8. Threads'
  BY <1>1, <1>5, <1>6, <1>7, ThreadMoves DEF Fits
<1>9. proc'[p] = r /\ Others(p)
  BY <1>1, SetIs DEF Threads
<1> QED
  BY <1>5, <1>8, <1>9 DEF s, todo, got

\* The calls of the others go on; those that are busy are no longer alone.
Joins(p) ==
  \A q \in Thread \ {p} :
    /\ proc'[q].pc = proc[q].pc /\ proc'[q].job = proc[q].job /\ proc'[q].todo = proc[q].todo
    /\ proc'[q].got = proc[q].got /\ proc'[q].kinds = proc[q].kinds
    /\ proc'[q].canon = proc[q].canon /\ proc'[q].moving = proc[q].moving
    /\ proc'[q].end = proc[q].end
    /\ q \in Writer \cup Tidier /\ Busy(q) => proc'[q].alone = FALSE
    /\ ~(q \in Writer \cup Tidier /\ Busy(q)) => proc'[q] = proc[q]

\* A call begins, and those under way are no longer alone.
LEMMA BeginMoves ==
  ASSUME Files, Threads, NEW p \in Writer \cup Tidier, NEW pc, NEW job, Begin(p, pc, job), used' = used,
         p \in Writer => pc = "find" /\ job \in Key,
         p \in Tidier => pc = "sign" /\ job \in BOOLEAN
  PROVE  /\ Threads' /\ proc[p].pc = "idle"
         /\ proc'[p].pc = pc /\ proc'[p].job = job /\ proc'[p].todo = Listed /\ proc'[p].got = {}
         /\ proc'[p].moving = {} /\ proc'[p].end = "none"
         /\ proc'[p].alone <=> \A q \in Writer \cup Tidier : ~Busy(q)
         /\ Joins(p)
<1> DEFINE others == {q \in Writer \cup Tidier : Busy(q)}
           r == [Idle EXCEPT !.pc = pc, !.job = job, !.todo = Listed, !.alone = others = {}]
<1>1. /\ proc[p].pc = "idle" /\ p \in Thread
      /\ proc' = [q \in Thread |-> IF q = p THEN r
                                   ELSE IF q \in others THEN [proc[q] EXCEPT !.alone = FALSE] ELSE proc[q]]
  BY DEF Begin, At, Thread
<1>2. proc'[p] = r
  BY <1>1
<1>3. (others = {}) \in BOOLEAN /\ (others = {} <=> \A q \in Writer \cup Tidier : ~Busy(q))
  OBVIOUS
<1>4. Listed \subseteq Id /\ Listed \subseteq used
  BY DEF Listed, Files
<1>5. pc \in Label /\ job \in Key \cup Kind \cup {Unknown} \cup BOOLEAN
  BY DEF Label, WriterLabel, TidierLabel
<1>6. Idle \in ProcState /\ Idle.got = {} /\ Idle.canon = 0 /\ Idle.moving = {} /\ Idle.end = "none"
  BY DEF Idle, ProcState, Label, WriterLabel
<1> DEFINE alone == others = {}
<1>7. alone \in BOOLEAN
  OBVIOUS
<1> HIDE DEF others, alone
<1>8. /\ r \in ProcState /\ r.pc = pc /\ r.job = job /\ r.todo = Listed /\ r.got = {} /\ r.moving = {}
      /\ r.end = "none" /\ r.alone = alone /\ r.canon = 0
  BY <1>4, <1>5, <1>6, <1>7 DEF ProcState, alone
<1> HIDE DEF r
<1>9. Fits(p, r, used')
  BY <1>1, <1>4, <1>8, StoreAssumption DEF Fits, PlaysRole, OnUsed, WriterLabel, TidierLabel
<1>10. ASSUME NEW q \in Thread \ {p}
       PROVE  /\ proc'[q].pc = proc[q].pc /\ proc'[q].job = proc[q].job /\ proc'[q].todo = proc[q].todo
              /\ proc'[q].got = proc[q].got /\ proc'[q].kinds = proc[q].kinds
              /\ proc'[q].canon = proc[q].canon /\ proc'[q].moving = proc[q].moving
              /\ proc'[q].end = proc[q].end
              /\ q \in others => proc'[q].alone = FALSE
              /\ q \notin others => proc'[q] = proc[q]
              /\ proc'[q] \in ProcState
  <2>1. proc[q] \in ProcState
    BY DEF Threads
  <2>2. proc'[q] = IF q \in others THEN [proc[q] EXCEPT !.alone = FALSE] ELSE proc[q]
    BY <1>1
  <2>3. CASE q \in others
    <3>1. PICK x, y : x = proc[q] /\ y = proc'[q]
      OBVIOUS
    <3>2. x \in ProcState /\ y = [x EXCEPT !.alone = FALSE]
      BY <2>1, <2>2, <2>3, <3>1
    <3>3. /\ y.pc = x.pc /\ y.job = x.job /\ y.todo = x.todo /\ y.got = x.got /\ y.kinds = x.kinds
          /\ y.canon = x.canon /\ y.moving = x.moving /\ y.end = x.end /\ y.alone = FALSE
          /\ y \in ProcState
      BY <3>2 DEF ProcState
    <3> QED
      BY <2>3, <3>1, <3>3
  <2> QED
    BY <2>1, <2>2, <2>3
<1>11. ASSUME NEW q \in Thread \ {p} PROVE Fits(q, proc'[q], used')
  <2>1. Fits(q, proc[q], used)
    BY DEF Threads
  <2> QED
    BY <1>10, <2>1 DEF Fits, PlaysRole, OnUsed
<1>12. proc' \in [Thread -> ProcState]
  <2>1. \A q \in Thread : proc'[q] \in ProcState
    BY <1>2, <1>8, <1>10
  <2>2. DOMAIN proc' = Thread /\ proc' = [q \in Thread |-> proc'[q]]
    BY <1>1
  <2> QED
    BY <2>1, <2>2
<1>13. Threads'
  BY <1>2, <1>9, <1>11, <1>12 DEF Threads
<1>14. \A q : q \in others <=> q \in Writer \cup Tidier /\ Busy(q)
  BY DEF others
<1>15. proc'[p].alone <=> \A q \in Writer \cup Tidier : ~Busy(q)
  BY <1>2, <1>3, <1>8 DEF alone, others
<1>16. Joins(p)
  BY <1>10, <1>14 DEF Joins
<1> QED
  BY <1>1, <1>2, <1>8, <1>13, <1>15, <1>16

\* What a thread is after its call has returned or raised.
LEMMA EndedIs ==
  ASSUME NEW p \in Thread, NEW how \in {"returned", "raised"}
  PROVE  /\ Ended(p, how).pc \in {"idle", "finish"} /\ Ended(p, how).todo = {} /\ Ended(p, how).got = {}
         /\ Ended(p, how).moving = {}
         /\ p \in Writer => Ended(p, how).job = proc[p].job
         /\ p \in Writer \cup Tidier => Ended(p, how).end = how
         /\ p \in Reader => Ended(p, how).end \in {"none", "raised"}
         /\ p \in Reader /\ how = "returned" => Ended(p, how).end = "none"
BY StoreAssumption DEF Ended, Idle

-----------------------------------------------------------------------------
(* What each step does, and that it keeps the store sound *)

\* Reading and listing change no file and no history.
FilesKept == UNCHANGED <<disk, used, index>>
HistoriesKept == UNCHANGED <<finished, learned, raced, lost, writes, deaths>>

\* A step that leaves files and histories alone leaves what is sound of them.
LEMMA KeptSound ==
  ASSUME Sound
  PROVE  /\ FilesKept => Files'
         /\ HistoriesKept => Histories'
BY DEF Sound, Files, Histories, FilesKept, HistoriesKept

\* A thread goes on with its job.
LEMMA GoesOn ==
  ASSUME Threads, NEW p \in Thread, proc[p].pc # "idle", NEW r \in ProcState, Set(p, r),
         r.job = proc[p].job, OnUsed(r, used'), used \subseteq used',
         p \in Writer => r.pc \in WriterLabel, p \in Reader => r.pc = "retrieve",
         p \in Tidier => r.pc \in TidierLabel,
         r.moving # {} => p \in Tidier /\ r.pc \in {"unlink", "rewrite"}
  PROVE  Threads' /\ proc'[p] = r /\ Others(p)
<1>1. PlaysRole(p, r)
  BY DEF Threads, Fits, PlaysRole
<1> QED
  BY <1>1, ThreadMoves, SetIs DEF Fits, Threads

\* Reading the next file of `find_by_logical_key`: missing, the key, or another.
LEMMA LookStep ==
  ASSUME Sound, NEW w \in Writer, Look(w)
  PROVE  /\ Sound' /\ Others(w) /\ FilesKept /\ HistoriesKept
         /\ proc[w].pc = "find" /\ Least(proc[w].todo) \in proc[w].todo
         /\ \/ disk[Least(proc[w].todo)] = NoFile /\ proc'[w] = Ended(w, "raised")
            \/ /\ Readable(Least(proc[w].todo)) /\ proc[w].job \in disk[Least(proc[w].todo)].keys
               /\ proc'[w].pc = "list" /\ Keeps(proc'[w], proc[w]) /\ proc'[w].todo = {}
               /\ proc'[w].got = proc[w].got /\ proc'[w].moving = proc[w].moving
            \/ /\ ~(Readable(Least(proc[w].todo)) /\ proc[w].job \in disk[Least(proc[w].todo)].keys)
               /\ proc'[w].pc = "find" /\ Keeps(proc'[w], proc[w])
               /\ proc'[w].todo = proc[w].todo \ {Least(proc[w].todo)}
               /\ proc'[w].got = proc[w].got /\ proc'[w].moving = proc[w].moving
<1> DEFINE s == proc[w]
           i == Least(s.todo)
<1>1. w \in Thread /\ s \in ProcState /\ PlaysRole(w, s) /\ OnUsed(s, used) /\ s.todo \in SUBSET Id /\ Threads
  BY DEF Sound, Threads, Fits, ProcState, Thread
<1>2. s.pc = "find" /\ s.todo # {} /\ FilesKept /\ HistoriesKept
  BY DEF Look, At, FilesKept, HistoriesKept
<1>3. i \in s.todo
  BY <1>1, <1>2, LeastIsOne
<1>4. Files' /\ Histories' /\ used \subseteq used'
  BY <1>2, KeptSound DEF FilesKept
<1>5. CASE disk[i] = NoFile
  <2>1. End(w, "raised")
    BY <1>5 DEF Look
  <2>2. Threads' /\ Others(w) /\ proc'[w] = Ended(w, "raised")
    BY <1>1, <1>2, <1>4, <2>1, EndMoves
  <2> QED
    BY <1>2, <1>3, <1>4, <1>5, <2>2 DEF Sound
<1>6. CASE disk[i] # NoFile /\ Readable(i) /\ s.job \in disk[i].keys
  <2> DEFINE r == [s EXCEPT !.pc = "list", !.todo = {}]
  <2>1. Set(w, r)
    BY <1>6 DEF Look
  <2> HIDE DEF s
  <2>2. /\ r \in ProcState /\ r.pc = "list" /\ r.todo = {} /\ r.got = s.got /\ r.moving = s.moving
        /\ r.canon = s.canon /\ Keeps(r, s)
    BY <1>1 DEF ProcState, Keeps, Label, WriterLabel
  <2> HIDE DEF r
  <2>3. OnUsed(r, used') /\ r.job = s.job /\ r.moving = {}
    BY <1>1, <1>2, <1>4, <2>2 DEF PlaysRole, OnUsed, Keeps
  <2>4. Threads' /\ proc'[w] = r /\ Others(w)
    BY <1>1, <1>2, <1>4, <2>1, <2>2, <2>3, GoesOn, StoreAssumption DEF WriterLabel, s
  <2> QED
    BY <1>2, <1>3, <1>4, <1>6, <2>2, <2>4 DEF Sound, s
<1>7. CASE disk[i] # NoFile /\ ~(Readable(i) /\ s.job \in disk[i].keys)
  <2>1. Took(w, {})
    BY <1>7 DEF Look
  <2>2. /\ Threads' /\ Others(w) /\ proc'[w].pc = s.pc /\ Keeps(proc'[w], s)
        /\ proc'[w].todo = s.todo \ {i} /\ proc'[w].got = s.got \cup {} /\ proc'[w].moving = s.moving
    BY <1>1, <1>2, <1>4, <2>1, TookMoves
  <2>3. s.got \cup {} = s.got
    OBVIOUS
  <2> QED
    BY <1>2, <1>3, <1>4, <1>7, <2>2, <2>3 DEF Sound
<1> QED
  BY <1>5, <1>6, <1>7

\* A new file: its identifier was not given out, and nothing was there.
LEMMA SaveStep ==
  ASSUME Sound, NEW w \in Writer, Save(w)
  PROVE  /\ Sound' /\ Others(w) /\ HistoriesKept /\ UNCHANGED index
         /\ proc[w].pc = "find" /\ proc[w].todo = {} /\ proc[w].job \in Key
         /\ \E i \in Id \ used :
              /\ disk[i] = NoFile /\ disk'[i] \in File /\ disk'[i].keys = {proc[w].job}
              /\ used' = used \cup {i} /\ \A j \in Id \ {i} : disk'[j] = disk[j]
         /\ proc'[w].pc = "list" /\ Keeps(proc'[w], proc[w]) /\ proc'[w].todo = proc[w].todo
         /\ proc'[w].got = proc[w].got /\ proc'[w].moving = {}
<1> DEFINE s == proc[w]
           file == [keys |-> {s.job}, kind |-> KindOf[s.job]]
           r == [s EXCEPT !.pc = "list"]
<1>1. PICK i \in Id \ used : disk' = [disk EXCEPT ![i] = file] /\ used' = used \cup {i}
  BY DEF Save
<1>2. /\ w \in Thread /\ s \in ProcState /\ PlaysRole(w, s) /\ OnUsed(s, used) /\ Threads
      /\ s.pc = "find" /\ s.todo = {} /\ HistoriesKept /\ UNCHANGED index /\ Set(w, r)
  BY DEF Sound, Threads, Fits, Thread, Save, At, HistoriesKept
<1>3. s.job \in Key /\ s.moving = {}
  BY <1>2, StoreAssumption DEF PlaysRole
<1>4. file \in File
  BY <1>3, StoreAssumption DEF File
<1>5. disk[i] = NoFile /\ disk \in [Id -> File \cup {NoFile, Torn}]
  BY DEF Sound, Files
<1>6. disk'[i] = file /\ file.keys = {s.job} /\ \A j \in Id \ {i} : disk'[j] = disk[j]
  BY <1>1, <1>5
<1>7. Files'
  <2>1. disk' \in [Id -> File \cup {NoFile, Torn}] /\ used' \subseteq Id
    BY <1>1, <1>4, <1>5 DEF Sound, Files
  <2>2. \A j \in Id : disk'[j] # NoFile => j \in used'
    BY <1>1, <1>6 DEF Sound, Files
  <2> QED
    BY <1>1, <1>2, <2>1, <2>2 DEF Sound, Files
<1>8. Histories'
  BY <1>2, KeptSound
<1> HIDE DEF s, file
<1>9. /\ r \in ProcState /\ r.pc = "list" /\ r.todo = s.todo /\ r.got = s.got /\ r.moving = s.moving
      /\ r.canon = s.canon /\ Keeps(r, s)
  BY <1>2 DEF ProcState, Keeps, Label, WriterLabel
<1> HIDE DEF r
<1>10. OnUsed(r, used') /\ r.job = s.job
  BY <1>1, <1>2, <1>9 DEF OnUsed, Keeps
<1>11. Threads' /\ proc'[w] = r /\ Others(w)
  BY <1>1, <1>2, <1>3, <1>9, <1>10, GoesOn, StoreAssumption DEF WriterLabel, s
<1> QED
  BY <1>1, <1>2, <1>3, <1>4, <1>5, <1>6, <1>7, <1>8, <1>9, <1>11 DEF Sound, s

\* The event is finished after the write returned.
LEMMA FinishStep ==
  ASSUME Sound, NEW w \in Writer, FinishEvent(w)
  PROVE  /\ Sound' /\ Others(w) /\ FilesKept /\ UNCHANGED <<learned, raced, lost>>
         /\ proc[w].pc = "finish" /\ proc'[w] = Idle
<1>1. w \in Thread /\ Threads /\ proc[w].pc = "finish" /\ Set(w, Idle) /\ FilesKept
      /\ finished' = finished \cup {proc[w].job} /\ UNCHANGED <<learned, raced, lost, writes, deaths>>
  BY DEF Sound, Thread, FinishEvent, At, FilesKept
<1>2. proc[w].job \in Key
  BY <1>1 DEF Threads, Fits, PlaysRole
<1>3. Histories'
  BY <1>1, <1>2 DEF Sound, Histories
<1>4. Threads' /\ proc'[w] = Idle /\ Others(w)
  BY <1>1, IdleFits, ThreadMoves, SetIs DEF Threads, FilesKept
<1> QED
  BY <1>1, <1>3, <1>4, KeptSound DEF Sound

\* Listing the directory for a rebuild of the index.
LEMMA ListStep ==
  ASSUME Sound, NEW p \in Writer \cup Tidier, List(p)
  PROVE  /\ Sound' /\ Others(p) /\ FilesKept /\ HistoriesKept
         /\ proc[p].pc = "list" /\ proc'[p].pc = "rebuild" /\ Keeps(proc'[p], proc[p])
         /\ proc'[p].todo = Listed /\ proc'[p].got = {} /\ proc'[p].moving = {}
<1> DEFINE s == proc[p]
           r == [s EXCEPT !.pc = "rebuild", !.todo = Listed, !.got = {}]
<1>1. p \in Thread /\ s \in ProcState /\ PlaysRole(p, s) /\ OnUsed(s, used) /\ Threads
  BY DEF Sound, Threads, Fits, Thread
<1>2. s.pc = "list" /\ Set(p, r) /\ FilesKept /\ HistoriesKept
  BY DEF List, At, FilesKept, HistoriesKept
<1>3. Listed \subseteq Id /\ Listed \subseteq used
  BY DEF Listed, Sound, Files
<1>4. s.moving = {}
  BY <1>1, <1>2 DEF PlaysRole
<1>5. Files' /\ Histories' /\ used' = used
  BY <1>2, KeptSound DEF FilesKept
<1> HIDE DEF s
<1>6. /\ r \in ProcState /\ r.pc = "rebuild" /\ r.todo = Listed /\ r.got = {} /\ r.moving = s.moving
      /\ r.canon = s.canon /\ Keeps(r, s)
  BY <1>1, <1>3 DEF ProcState, Keeps, Label, WriterLabel
<1> HIDE DEF r
<1>7. OnUsed(r, used') /\ r.job = s.job
  BY <1>1, <1>3, <1>5, <1>6 DEF OnUsed, Keeps
<1>8. Threads' /\ proc'[p] = r /\ Others(p)
  BY <1>1, <1>2, <1>4, <1>5, <1>6, <1>7, GoesOn, StoreAssumption DEF WriterLabel, TidierLabel, s
<1> QED
  BY <1>2, <1>4, <1>5, <1>6, <1>8 DEF Sound, s

\* Reading the next file: one more entry, or a call that raises.
LEMMA ScanStep ==
  ASSUME Sound, NEW p \in Writer \cup Tidier, Scan(p)
  PROVE  /\ Sound' /\ Others(p) /\ FilesKept /\ HistoriesKept
         /\ proc[p].pc \in {"rebuild", "sign"} /\ proc[p].moving = {}
         /\ Least(proc[p].todo) \in proc[p].todo
         /\ \/ /\ Readable(Least(proc[p].todo)) /\ proc'[p].pc = proc[p].pc /\ Keeps(proc'[p], proc[p])
               /\ proc'[p].todo = proc[p].todo \ {Least(proc[p].todo)} /\ proc'[p].moving = {}
               /\ proc'[p].got = proc[p].got \cup {<<disk[Least(proc[p].todo)].kind, Least(proc[p].todo)>>}
            \/ ~Readable(Least(proc[p].todo)) /\ proc'[p] = Ended(p, "raised")
<1> DEFINE s == proc[p]
           i == Least(s.todo)
<1>1. p \in Thread /\ s \in ProcState /\ PlaysRole(p, s) /\ OnUsed(s, used) /\ s.todo \in SUBSET Id /\ Threads
  BY DEF Sound, Threads, Fits, ProcState, Thread
<1>2. s.pc \in {"rebuild", "sign"} /\ s.todo # {} /\ FilesKept /\ HistoriesKept
  BY DEF Scan, FilesKept, HistoriesKept
<1>3. i \in s.todo
  BY <1>1, <1>2, LeastIsOne
<1>4. Files' /\ Histories' /\ used \subseteq used' /\ used' = used
  BY <1>2, KeptSound DEF FilesKept
<1>5. s.moving = {}
  BY <1>1, <1>2 DEF PlaysRole
<1>6. CASE Readable(i)
  <2> DEFINE entries == {<<disk[i].kind, i>>}
  <2>1. Took(p, entries)
    BY <1>6 DEF Scan
  <2>2. i \in used /\ i \in Id /\ disk[i].kind \in Kind
    BY <1>1, <1>3, <1>6, ReadableFiles, FilesAreReal DEF OnUsed, Sound, Files
  <2>3. entries \in SUBSET (Kind \X Id) /\ \A e \in entries : e[2] \in used'
    BY <1>4, <2>2
  <2> HIDE DEF entries
  <2>4. /\ Threads' /\ Others(p) /\ proc'[p].pc = s.pc /\ Keeps(proc'[p], s)
        /\ proc'[p].todo = s.todo \ {i} /\ proc'[p].got = s.got \cup entries /\ proc'[p].moving = s.moving
    BY <1>1, <1>2, <1>4, <2>1, <2>3, TookMoves
  <2> QED
    BY <1>2, <1>3, <1>4, <1>5, <1>6, <2>4 DEF Sound, entries
<1>7. CASE ~Readable(i)
  <2>1. End(p, "raised")
    BY <1>7 DEF Scan
  <2>2. Threads' /\ Others(p) /\ proc'[p] = Ended(p, "raised")
    BY <1>1, <1>2, <1>4, <2>1, EndMoves
  <2> QED
    BY <1>2, <1>3, <1>4, <1>5, <1>7, <2>2 DEF Sound
<1> QED
  BY <1>6, <1>7

\* Replacing the index by what was read; a write then has learned its key.
LEMMA WriteIndexStep ==
  ASSUME Sound, NEW p \in Writer \cup Tidier, WriteIndex(p)
  PROVE  /\ Sound' /\ Others(p) /\ UNCHANGED <<disk, used, raced, lost>>
         /\ proc[p].pc = "rebuild" /\ proc[p].todo = {} /\ index' = proc[p].got
         /\ learned' = IF p \in Writer THEN learned \cup {proc[p].job} ELSE learned
         /\ proc'[p] = Ended(p, "returned") /\ proc[p].moving = {}
<1> DEFINE s == proc[p]
<1>1. p \in Thread /\ s \in ProcState /\ PlaysRole(p, s) /\ OnUsed(s, used) /\ Threads
  BY DEF Sound, Threads, Fits, Thread
<1>2. /\ s.pc = "rebuild" /\ s.todo = {} /\ index' = s.got /\ End(p, "returned")
      /\ learned' = IF p \in Writer THEN learned \cup {s.job} ELSE learned
      /\ UNCHANGED <<disk, used, finished, raced, lost, writes, deaths>>
  BY DEF WriteIndex, At
<1>3. s.got \subseteq Kind \X Id /\ s.moving = {}
  BY <1>1, <1>2 DEF ProcState, PlaysRole
<1>4. Files'
  BY <1>1, <1>2, <1>3 DEF Sound, Files, OnUsed
<1>5. p \in Writer => s.job \in Key
  BY <1>1, <1>2 DEF PlaysRole
<1>6. Histories'
  BY <1>2, <1>5 DEF Sound, Histories
<1>7. Threads' /\ Others(p) /\ proc'[p] = Ended(p, "returned")
  BY <1>1, <1>2, EndMoves
<1> QED
  BY <1>2, <1>3, <1>4, <1>6, <1>7 DEF Sound

\* What a reader does.
Reads(r) == (\E q \in Kind \cup {Unknown} : StartRetrieve(r, q)) \/ Retrieve(r) \/ Rank(r)

\* A reader takes its candidates from the index or the listing, reads them one
\* by one, and ends.
LEMMA ReaderStep ==
  ASSUME Sound, NEW r \in Reader, Reads(r)
  PROVE  /\ Sound' /\ Others(r) /\ FilesKept /\ HistoriesKept
         /\ \/ /\ proc'[r].end = "none" /\ proc'[r].got = {}
               /\ \A i \in proc'[r].todo : i \in Listed \/ \E e \in index : e[2] = i
            \/ /\ proc[r].todo # {} /\ Readable(Least(proc[r].todo)) /\ proc'[r].end = proc[r].end
               /\ proc'[r].todo \subseteq proc[r].todo
               /\ \A e \in proc'[r].got : e \in proc[r].got \/ e[2] = Least(proc[r].todo)
            \/ /\ proc[r].todo # {} /\ Least(proc[r].todo) \in proc[r].todo /\ ~Readable(Least(proc[r].todo))
               /\ proc'[r] = Ended(r, "raised")
            \/ /\ \E e \in proc[r].got : e[2] \notin Listed
               /\ proc'[r] = Ended(r, "raised")
            \/ proc'[r] = Ended(r, "returned")
<1> DEFINE s == proc[r]
<1>1. r \in Thread /\ s \in ProcState /\ PlaysRole(r, s) /\ OnUsed(s, used) /\ s.todo \in SUBSET Id /\ Threads
  BY DEF Sound, Threads, Fits, ProcState, Thread
<1>2. r \notin Writer /\ r \notin Tidier
  BY StoreAssumption
<1>3. FilesKept /\ HistoriesKept
  <2>1. CASE Retrieve(r)
    BY <2>1 DEF Retrieve, FilesKept, HistoriesKept
  <2>2. CASE Rank(r)
    BY <2>2 DEF Rank, FilesKept, HistoriesKept
  <2>3. ASSUME NEW q \in Kind \cup {Unknown}, StartRetrieve(r, q) PROVE FilesKept /\ HistoriesKept
    BY <2>3 DEF StartRetrieve, FilesKept, HistoriesKept
  <2> QED
    BY <2>1, <2>2, <2>3 DEF Reads
<1>4. Files' /\ Histories' /\ used' = used
  BY <1>3, KeptSound DEF FilesKept
<1>5. ASSUME NEW q \in Kind \cup {Unknown}, StartRetrieve(r, q)
      PROVE  /\ Threads' /\ Others(r)
             /\ proc'[r].end = "none" /\ proc'[r].got = {}
             /\ \A i \in proc'[r].todo : i \in Listed \/ \E e \in index : e[2] = i
  <2> DEFINE todo == IF q = Unknown THEN Listed ELSE {i \in Id : <<q, i>> \in index}
             t == [Idle EXCEPT !.pc = "retrieve", !.job = q, !.todo = todo]
  <2>1. Set(r, t)
    BY <1>5 DEF StartRetrieve
  <2>2. todo \subseteq Id /\ \A i \in todo : i \in Listed \/ \E e \in index : e[2] = i
    <3>1. CASE q = Unknown
      BY <3>1 DEF Listed
    <3>2. CASE q # Unknown
      BY <3>2
    <3> QED
      BY <3>1, <3>2
  <2>3. todo \subseteq used
    BY <2>2 DEF Listed, Sound, Files
  <2>4. Idle \in ProcState /\ Idle.got = {} /\ Idle.canon = 0 /\ Idle.moving = {} /\ Idle.end = "none"
    BY DEF Idle, ProcState, Label, WriterLabel
  <2> HIDE DEF todo
  <2>5. /\ t \in ProcState /\ t.pc = "retrieve" /\ t.todo = todo /\ t.got = {} /\ t.moving = {}
        /\ t.end = "none" /\ t.canon = 0
    BY <2>2, <2>4 DEF ProcState, Label
  <2> HIDE DEF t
  <2>6. Fits(r, t, used')
    BY <1>2, <1>4, <2>3, <2>5 DEF Fits, PlaysRole, OnUsed
  <2>7. Threads' /\ proc'[r] = t /\ Others(r)
    BY <1>1, <1>4, <2>1, <2>6, ThreadMoves, SetIs DEF Threads
  <2> QED
    BY <2>2, <2>5, <2>7
<1>6. CASE Retrieve(r)
  <2> DEFINE i == Least(s.todo)
             hit == {<<disk[i].kind, i>>}
             entries == IF s.job \in {Unknown, disk[i].kind} THEN hit ELSE {}
  <2>1. s.pc = "retrieve" /\ s.todo # {}
    BY <1>6 DEF Retrieve, At
  <2>2. i \in s.todo /\ i \in Id /\ i \in used
    BY <1>1, <2>1, LeastIsOne DEF OnUsed
  <2>3. CASE Readable(i)
    <3>1. Took(r, entries)
      BY <1>6, <2>3 DEF Retrieve
    <3>2. disk[i].kind \in Kind
      BY <2>2, <2>3, ReadableFiles, FilesAreReal DEF Sound, Files
    <3>3. entries \in SUBSET (Kind \X Id) /\ \A e \in entries : e[2] \in used' /\ e[2] = i
      BY <1>4, <2>2, <3>2
    <3> HIDE DEF entries
    <3>4. /\ Threads' /\ Others(r) /\ Keeps(proc'[r], s)
          /\ proc'[r].todo = s.todo \ {i} /\ proc'[r].got = s.got \cup entries
      BY <1>1, <1>4, <2>1, <3>1, <3>3, TookMoves
    <3>5. proc'[r].todo \subseteq s.todo /\ \A e \in proc'[r].got : e \in s.got \/ e[2] = i
      BY <3>3, <3>4
    <3> QED
      BY <1>3, <1>4, <2>1, <2>3, <3>4, <3>5 DEF Sound, Keeps
  <2>4. CASE ~Readable(i)
    <3>1. End(r, "raised")
      BY <1>6, <2>4 DEF Retrieve
    <3>2. Threads' /\ Others(r) /\ proc'[r] = Ended(r, "raised")
      BY <1>1, <1>4, <2>1, <3>1, EndMoves
    <3> QED
      BY <1>3, <1>4, <2>1, <2>2, <2>4, <3>2 DEF Sound
  <2> QED
    BY <2>3, <2>4
<1>7. CASE Rank(r)
  <2>1. s.pc = "retrieve"
    BY <1>7 DEF Rank, At
  <2>2. CASE \A hit \in s.got : hit[2] \in Listed
    <3>1. End(r, "returned")
      BY <1>7, <2>2 DEF Rank
    <3>2. Threads' /\ Others(r) /\ proc'[r] = Ended(r, "returned")
      BY <1>1, <1>4, <2>1, <3>1, EndMoves
    <3> QED
      BY <1>3, <1>4, <3>2 DEF Sound
  <2>3. CASE ~ \A hit \in s.got : hit[2] \in Listed
    <3>1. End(r, "raised")
      BY <1>7, <2>3 DEF Rank
    <3>2. Threads' /\ Others(r) /\ proc'[r] = Ended(r, "raised")
      BY <1>1, <1>4, <2>1, <3>1, EndMoves
    <3> QED
      BY <1>3, <1>4, <2>3, <3>2 DEF Sound
  <2> QED
    BY <2>2, <2>3
<1> QED
  BY <1>3, <1>4, <1>5, <1>6, <1>7 DEF Sound, Reads

\* A write or a consolidation begins.
Starts(p) == \/ p \in Writer /\ \E k \in Key : StartWrite(p, k)
             \/ p \in Tidier /\ \E apply \in BOOLEAN : StartTidy(p, apply)

LEMMA StartStep ==
  ASSUME Sound, NEW p \in Writer \cup Tidier, Starts(p)
  PROVE  /\ Sound' /\ FilesKept /\ UNCHANGED <<finished, learned, lost>> /\ raced \subseteq raced'
         /\ proc[p].pc = "idle"
         /\ p \in Writer => /\ proc'[p].pc = "find" /\ proc'[p].job \in Key
                            /\ proc'[p].job \in raced' \/ \A q \in Thread \ {p} : Busy(q) =>
                                 q \notin Tidier /\ (q \in Writer => proc[q].job # proc'[p].job)
         /\ p \in Tidier => /\ proc'[p].pc = "sign" /\ proc[p] = Idle
                            /\ \A w \in Writer : Busy(w) => proc[w].job \in raced'
         /\ proc'[p].todo = Listed /\ proc'[p].got = {} /\ proc'[p].moving = {} /\ proc'[p].end = "none"
         /\ proc'[p].alone <=> \A q \in Writer \cup Tidier : ~Busy(q)
         /\ Joins(p)
<1>1. CASE p \in Writer /\ \E k \in Key : StartWrite(p, k)
  <2>1. PICK k \in Key : StartWrite(p, k)
    BY <1>1
  <2>2. /\ Begin(p, "find", k) /\ FilesKept /\ UNCHANGED <<finished, learned, lost, deaths>>
        /\ writes < MaxWrites /\ writes' = writes + 1
        /\ raced' = IF \E q \in (Writer \cup Tidier) \ {p} : Busy(q) /\ (q \in Writer => proc[q].job = k)
                    THEN raced \cup {k} ELSE raced
    BY <2>1 DEF StartWrite, FilesKept
  <2>3. p \notin Tidier
    BY <1>1, StoreAssumption
  <2>4. /\ raced \subseteq raced' /\ raced' \subseteq raced \cup {k}
        /\ k \in raced' \/ \A q \in Thread \ {p} : Busy(q) => q \notin Tidier /\ (q \in Writer => proc[q].job # k)
    BY <2>2, StoreAssumption DEF Thread
  <2>5. Files' /\ used' = used /\ Files /\ Threads
    BY <2>2, KeptSound DEF FilesKept, Sound
  <2>6. Histories'
    BY <2>2, <2>4, StoreAssumption DEF Sound, Histories
  <2> HIDE DEF Begin
  <2>7. p \in Writer => "find" = "find" /\ k \in Key
    OBVIOUS
  <2>8. p \in Tidier => "find" = "sign" /\ k \in BOOLEAN
    BY <2>3
  <2>9. /\ Threads' /\ proc[p].pc = "idle"
        /\ proc'[p].pc = "find" /\ proc'[p].job = k /\ proc'[p].todo = Listed /\ proc'[p].got = {}
        /\ proc'[p].moving = {} /\ proc'[p].end = "none"
        /\ proc'[p].alone <=> \A q \in Writer \cup Tidier : ~Busy(q)
        /\ Joins(p)
    BY <2>2, <2>5, <2>7, <2>8, BeginMoves
  <2> QED
    BY <2>2, <2>3, <2>4, <2>5, <2>6, <2>9 DEF Sound
<1>2. CASE p \in Tidier /\ \E apply \in BOOLEAN : StartTidy(p, apply)
  <2>1. PICK apply : apply \in BOOLEAN /\ StartTidy(p, apply)
    BY <1>2
  <2>2. /\ Begin(p, "sign", apply) /\ FilesKept /\ UNCHANGED <<finished, learned, lost, writes, deaths>>
        /\ proc[p] = Idle /\ raced' = raced \cup {proc[w].job : w \in {v \in Writer : Busy(v)}}
    BY <2>1 DEF StartTidy, FilesKept
  <2>3. p \notin Writer
    BY <1>2, StoreAssumption
  <2>4. raced \subseteq raced' /\ \A w \in Writer : Busy(w) => proc[w].job \in raced'
    BY <2>2
  <2>5. Files' /\ used' = used /\ Files /\ Threads
    BY <2>2, KeptSound DEF FilesKept, Sound
  <2>6. \A w \in Writer : Busy(w) => proc[w].job \in Key
    BY DEF Sound, Threads, Fits, PlaysRole, Busy, Thread
  <2>7. Histories'
    BY <2>2, <2>6 DEF Sound, Histories
  <2> HIDE DEF Begin
  <2>8. p \in Writer => "sign" = "find" /\ apply \in Key
    BY <2>3
  <2>10. p \in Tidier => "sign" = "sign" /\ apply \in BOOLEAN
    BY <2>1
  <2>9. /\ Threads' /\ proc[p].pc = "idle"
        /\ proc'[p].pc = "sign" /\ proc'[p].job = apply /\ proc'[p].todo = Listed /\ proc'[p].got = {}
        /\ proc'[p].moving = {} /\ proc'[p].end = "none"
        /\ proc'[p].alone <=> \A q \in Writer \cup Tidier : ~Busy(q)
        /\ Joins(p)
    BY <2>2, <2>5, <2>8, <2>10, BeginMoves
  <2> QED
    BY <2>2, <2>3, <2>4, <2>5, <2>7, <2>9 DEF Sound
<1> QED
  BY <1>1, <1>2 DEF Starts

-----------------------------------------------------------------------------
(* Consolidation *)

\* The kinds still to be merged have files, and the canonical file is one of a
\* kind's.
Groups(r) ==
  /\ r.pc \in {"merge", "unlink", "rewrite"} => \A k \in r.kinds : \E e \in r.got : e[1] = k
  /\ r.pc \in {"unlink", "rewrite"} => \E k \in r.kinds : \E e \in r.got : e[1] = k /\ e[2] = r.canon

Grouping == \A c \in Tidier : Groups(proc[c])

\* The members of a group are the files that were read with its kind.
LEMMA MembersAre ==
  ASSUME Threads, NEW c \in Tidier, NEW kind
  PROVE  /\ Members(c, kind) \subseteq used /\ Members(c, kind) \in SUBSET Id
         /\ \A i : i \in Members(c, kind) <=> \E e \in proc[c].got : e[1] = kind /\ e[2] = i
<1>1. proc[c].got \subseteq Kind \X Id /\ \A e \in proc[c].got : e[2] \in used
  BY DEF Threads, Fits, OnUsed, ProcState, Thread
<1> QED
  BY <1>1 DEF Members

\* The files read are grouped by kind, or the call was a dry run.
LEMMA GroupStep ==
  ASSUME Sound, NEW c \in Tidier, Group(c)
  PROVE  /\ Sound' /\ Others(c) /\ FilesKept /\ HistoriesKept
         /\ proc[c].pc = "sign" /\ proc[c].moving = {}
         /\ \/ proc[c].job = FALSE /\ proc'[c] = Ended(c, "returned")
            \/ /\ proc'[c].pc = "merge" /\ proc'[c].todo = {} /\ proc'[c].got = proc[c].got
               /\ proc'[c].end = proc[c].end /\ proc'[c].alone = proc[c].alone
               /\ proc'[c].moving = {} /\ Groups(proc'[c])
<1> DEFINE s == proc[c]
           kinds == {kind \in Kind : Cardinality(Members(c, kind)) > 1}
           r == [s EXCEPT !.pc = "merge", !.kinds = kinds]
<1>1. c \in Thread /\ s \in ProcState /\ PlaysRole(c, s) /\ OnUsed(s, used) /\ Threads
  BY DEF Sound, Threads, Fits, Thread
<1>2. s.pc = "sign" /\ s.todo = {} /\ FilesKept /\ HistoriesKept
  BY DEF Group, At, FilesKept, HistoriesKept
<1>3. s.moving = {} /\ s.job \in BOOLEAN
  BY <1>1, <1>2 DEF PlaysRole
<1>4. Files' /\ Histories' /\ used' = used
  BY <1>2, KeptSound DEF FilesKept
<1>5. CASE ~s.job
  <2>1. End(c, "returned")
    BY <1>5 DEF Group
  <2>2. Threads' /\ Others(c) /\ proc'[c] = Ended(c, "returned")
    BY <1>1, <1>2, <1>4, <2>1, EndMoves
  <2>3. s.job = FALSE
    BY <1>3, <1>5
  <2> QED
    BY <1>2, <1>3, <1>4, <2>2, <2>3 DEF Sound
<1>6. CASE s.job
  <2>1. Set(c, r)
    BY <1>6 DEF Group
  <2>2. kinds \subseteq Kind /\ \A k \in kinds : \E e \in s.got : e[1] = k
    <3>1. ASSUME NEW k \in kinds PROVE \E e \in s.got : e[1] = k
      <4>1. Cardinality(Members(c, k)) > 1
        OBVIOUS
      <4>2. Members(c, k) # {}
        BY <4>1, FS_EmptySet
      <4> QED
        BY <1>1, <4>2, MembersAre
    <3> QED
      BY <3>1
  <2> HIDE DEF s, kinds
  <2>3. /\ r \in ProcState /\ r.pc = "merge" /\ r.todo = s.todo /\ r.got = s.got /\ r.moving = s.moving
        /\ r.canon = s.canon /\ r.kinds = kinds /\ r.job = s.job /\ r.end = s.end
        /\ r.alone = s.alone
    BY <1>1, <2>2 DEF ProcState, Label, TidierLabel
  <2> HIDE DEF r
  <2>4. OnUsed(r, used')
    BY <1>1, <1>4, <2>3 DEF OnUsed
  <2>5. Threads' /\ proc'[c] = r /\ Others(c)
    BY <1>1, <1>2, <1>3, <1>4, <2>1, <2>3, <2>4, GoesOn, StoreAssumption DEF TidierLabel, s
  <2>6. Groups(r)
    BY <2>2, <2>3 DEF Groups
  <2> QED
    BY <1>2, <1>3, <1>4, <2>3, <2>5, <2>6 DEF Sound, s
<1> QED
  BY <1>5, <1>6

\* The next group: its canonical file is the first of all, its keys are those
\* of all its files.
LEMMA GatherStep ==
  ASSUME Sound, Grouping, NEW c \in Tidier, Gather(c)
  PROVE  /\ Sound' /\ Others(c) /\ FilesKept /\ HistoriesKept
         /\ proc[c].pc = "merge" /\ proc[c].moving = {}
         /\ \/ proc'[c] = Ended(c, "raised")
            \/ /\ proc'[c].pc = "unlink" /\ proc'[c].end = proc[c].end /\ proc'[c].alone = proc[c].alone
               /\ Groups(proc'[c])
               /\ proc'[c].canon \in Id /\ proc'[c].canon \notin proc'[c].todo
               /\ \A k \in Key : k \in proc'[c].moving <=>
                    \E i \in proc'[c].todo \cup {proc'[c].canon} : Readable(i) /\ k \in disk[i].keys
<1> DEFINE s == proc[c]
           all == UNION {Members(c, kind) : kind \in s.kinds}
           canon == Least(all)
           kind == CHOOSE k \in s.kinds : canon \in Members(c, k)
           members == Members(c, kind)
           todo == members \ {canon}
           moving == UNION {disk[i].keys : i \in {m \in members : Readable(m)}}
           r == [s EXCEPT !.pc = "unlink", !.canon = canon, !.todo = todo, !.moving = moving]
<1>1. c \in Thread /\ s \in ProcState /\ PlaysRole(c, s) /\ OnUsed(s, used) /\ Threads
  BY DEF Sound, Threads, Fits, Thread
<1>2. s.pc = "merge" /\ s.kinds # {} /\ FilesKept /\ HistoriesKept
  BY DEF Gather, At, FilesKept, HistoriesKept
<1>3. s.moving = {}
  BY <1>1, <1>2 DEF PlaysRole
<1>4. Files' /\ Histories' /\ used' = used
  BY <1>2, KeptSound DEF FilesKept
<1>5. IF members \subseteq Listed THEN Set(c, r) ELSE End(c, "raised")
  BY DEF Gather
<1>6. all \in SUBSET Id /\ all # {}
  <2>1. \A k \in s.kinds : Members(c, k) \in SUBSET Id
    BY <1>1, MembersAre
  <2>2. PICK k \in s.kinds : \E e \in s.got : e[1] = k
    BY <1>2 DEF Grouping, Groups
  <2>3. Members(c, k) # {}
    BY <1>1, <2>2, MembersAre
  <2> QED
    BY <2>1, <2>3
<1>7. canon \in all
  BY <1>6, LeastIsOne
<1>8. kind \in s.kinds /\ canon \in members
  <2>1. \E k \in s.kinds : canon \in Members(c, k)
    BY <1>7
  <2> HIDE DEF canon
  <2> QED
    BY <2>1
<1>9. members \in SUBSET Id /\ members \subseteq used
  BY <1>1, MembersAre
<1>10. moving \in SUBSET Key /\ \A k : k \in moving <=> \E i \in members : Readable(i) /\ k \in disk[i].keys
  <2>1. \A i \in members : Readable(i) => disk[i].keys \subseteq Key
    BY <1>9, ReadableFiles, FilesAreReal DEF Sound, Files
  <2> QED
    BY <2>1
<1> HIDE DEF canon, moving, kind, all
<1>11. \E e \in s.got : e[1] = kind /\ e[2] = canon
  BY <1>1, <1>8, MembersAre
<1> HIDE DEF members
<1>12. CASE ~(members \subseteq Listed)
  <2>1. End(c, "raised")
    BY <1>5, <1>12
  <2>2. Threads' /\ Others(c) /\ proc'[c] = Ended(c, "raised")
    BY <1>1, <1>2, <1>4, <2>1, EndMoves
  <2> QED
    BY <1>2, <1>3, <1>4, <2>2 DEF Sound
<1>13. CASE members \subseteq Listed
  <2>1. Set(c, r)
    BY <1>5, <1>13
  <2>2. todo \in SUBSET Id /\ todo \subseteq used /\ canon \in Id /\ canon \in used /\ canon \notin todo
        /\ members = todo \cup {canon} /\ canon # 0
    BY <1>8, <1>9 DEF Id
  <2> HIDE DEF s, todo
  <2>3. /\ r \in ProcState /\ r.pc = "unlink" /\ r.todo = todo /\ r.got = s.got /\ r.moving = moving
        /\ r.canon = canon /\ r.kinds = s.kinds /\ r.job = s.job /\ r.end = s.end
        /\ r.alone = s.alone
    BY <1>1, <1>10, <2>2 DEF ProcState, Label, TidierLabel
  <2> HIDE DEF r
  <2>4. OnUsed(r, used')
    BY <1>1, <1>4, <2>2, <2>3 DEF OnUsed
  <2>5. Threads' /\ proc'[c] = r /\ Others(c)
    BY <1>1, <1>2, <1>4, <2>1, <2>3, <2>4, GoesOn, StoreAssumption DEF TidierLabel, s
  <2>6. Groups(s)
    BY DEF Grouping, s
  <2>7. Groups(r)
    BY <1>2, <1>8, <1>11, <2>3, <2>6 DEF Groups, s
  <2>8. \A k \in Key : k \in r.moving <=>
          \E i \in r.todo \cup {r.canon} : Readable(i) /\ k \in disk[i].keys
    BY <1>10, <2>2, <2>3
  <2> QED
    BY <1>2, <1>3, <1>4, <2>2, <2>3, <2>5, <2>7, <2>8 DEF Sound, s
<1> QED
  BY <1>12, <1>13

\* A file of the group other than the canonical one is removed.
LEMMA UnlinkStep ==
  ASSUME Sound, Grouping, NEW c \in Tidier, Unlink(c)
  PROVE  /\ Sound' /\ Others(c) /\ UNCHANGED <<used, index>> /\ HistoriesKept /\ Groups(proc'[c])
         /\ proc[c].pc = "unlink" /\ proc'[c].pc = "unlink" /\ Keeps(proc'[c], proc[c])
         /\ proc'[c].canon = proc[c].canon /\ proc'[c].moving = proc[c].moving
         /\ \E i \in proc[c].todo :
              /\ disk'[i] = NoFile /\ proc'[c].todo = proc[c].todo \ {i} /\ i \in Id
              /\ \A j \in Id \ {i} : disk'[j] = disk[j]
<1> DEFINE s == proc[c]
           i == Least(s.todo)
<1>1. c \in Thread /\ s \in ProcState /\ PlaysRole(c, s) /\ OnUsed(s, used) /\ s.todo \in SUBSET Id /\ Threads
  BY DEF Sound, Threads, Fits, ProcState, Thread
<1>2. /\ s.pc = "unlink" /\ s.todo # {} /\ UNCHANGED <<used, index>> /\ HistoriesKept
      /\ disk' = [disk EXCEPT ![i] = NoFile] /\ Took(c, {})
  BY DEF Unlink, At, HistoriesKept
<1>3. i \in s.todo /\ i \in Id
  BY <1>1, <1>2, LeastIsOne
<1>4. /\ disk' \in [Id -> File \cup {NoFile, Torn}] /\ disk'[i] = NoFile
      /\ \A j \in Id \ {i} : disk'[j] = disk[j]
  BY <1>2, <1>3 DEF Sound, Files
<1>5. Files' /\ Histories' /\ used' = used
  BY <1>2, <1>4, KeptSound DEF Sound, Files
<1>6. /\ Threads' /\ Others(c) /\ proc'[c].pc = s.pc /\ Keeps(proc'[c], s)
      /\ proc'[c].todo = s.todo \ {i} /\ proc'[c].got = s.got \cup {} /\ proc'[c].canon = s.canon
      /\ proc'[c].moving = s.moving
  BY <1>1, <1>2, <1>5, TookMoves
<1>7. proc'[c].got = s.got /\ proc'[c].kinds = s.kinds
  BY <1>6 DEF Keeps
<1>8. Groups(s)
  BY DEF Grouping
<1>9. Groups(proc'[c])
  BY <1>6, <1>7, <1>8 DEF Groups
<1> QED
  BY <1>2, <1>3, <1>4, <1>5, <1>6, <1>9 DEF Sound

\* The canonical file is opened for writing, which truncates it.
LEMMA TruncateStep ==
  ASSUME Sound, Grouping, NEW c \in Tidier, Truncate(c)
  PROVE  /\ Sound' /\ Others(c) /\ UNCHANGED <<used, index>> /\ HistoriesKept /\ Groups(proc'[c])
         /\ proc[c].pc = "unlink" /\ proc[c].todo = {} /\ proc'[c].pc = "rewrite" /\ Keeps(proc'[c], proc[c])
         /\ proc[c].canon \in Id
         /\ proc'[c].canon = proc[c].canon /\ proc'[c].moving = proc[c].moving /\ proc'[c].todo = {}
         /\ disk'[proc[c].canon] = Torn /\ \A j \in Id \ {proc[c].canon} : disk'[j] = disk[j]
<1> DEFINE s == proc[c]
           r == [s EXCEPT !.pc = "rewrite"]
<1>1. c \in Thread /\ s \in ProcState /\ PlaysRole(c, s) /\ OnUsed(s, used) /\ Threads
  BY DEF Sound, Threads, Fits, Thread
<1>2. /\ s.pc = "unlink" /\ s.todo = {} /\ UNCHANGED <<used, index>> /\ HistoriesKept
      /\ disk' = [disk EXCEPT ![s.canon] = Torn] /\ Set(c, r)
  BY DEF Truncate, At, HistoriesKept
<1>3. s.canon \in Id /\ s.canon \in used
  BY <1>1, <1>2 DEF ProcState, OnUsed
<1>4. /\ disk' \in [Id -> File \cup {NoFile, Torn}] /\ disk'[s.canon] = Torn
      /\ \A j \in Id \ {s.canon} : disk'[j] = disk[j]
  BY <1>2, <1>3 DEF Sound, Files
<1>5. Files' /\ Histories' /\ used' = used
  BY <1>2, <1>3, <1>4, KeptSound DEF Sound, Files
<1>6. Groups(s)
  BY DEF Grouping
<1> HIDE DEF s
<1>7. /\ r \in ProcState /\ r.pc = "rewrite" /\ r.todo = s.todo /\ r.got = s.got /\ r.moving = s.moving
      /\ r.canon = s.canon /\ r.kinds = s.kinds /\ Keeps(r, s)
  BY <1>1 DEF ProcState, Keeps, Label, TidierLabel
<1> HIDE DEF r
<1>8. OnUsed(r, used') /\ r.job = s.job
  BY <1>1, <1>2, <1>5, <1>7 DEF OnUsed, Keeps
<1>9. Threads' /\ proc'[c] = r /\ Others(c)
  BY <1>1, <1>2, <1>5, <1>7, <1>8, GoesOn, StoreAssumption DEF TidierLabel, s
<1>10. Groups(r)
  BY <1>2, <1>6, <1>7 DEF Groups
<1> QED
  BY <1>2, <1>3, <1>4, <1>5, <1>7, <1>9, <1>10 DEF Sound, s

\* Its text is written, with the keys of the whole group.
LEMMA RewriteStep ==
  ASSUME Sound, Grouping, NEW c \in Tidier, Rewrite(c)
  PROVE  /\ Sound' /\ Others(c) /\ UNCHANGED <<used, index>> /\ HistoriesKept /\ Groups(proc'[c])
         /\ proc[c].pc = "rewrite" /\ proc'[c].pc = "merge" /\ proc[c].canon \in Id
         /\ proc'[c].moving = {} /\ proc'[c].end = proc[c].end /\ proc'[c].alone = proc[c].alone
         /\ disk'[proc[c].canon] \in File /\ disk'[proc[c].canon].keys = proc[c].moving
         /\ \A j \in Id \ {proc[c].canon} : disk'[j] = disk[j]
<1> DEFINE s == proc[c]
           kind == CHOOSE k \in s.kinds : s.canon \in Members(c, k)
           file == [keys |-> s.moving, kind |-> kind]
           kinds == s.kinds \ {kind}
           r == [s EXCEPT !.pc = "merge", !.kinds = kinds, !.moving = {}]
<1>1. c \in Thread /\ s \in ProcState /\ PlaysRole(c, s) /\ OnUsed(s, used) /\ Threads
  BY DEF Sound, Threads, Fits, Thread
<1>2. /\ s.pc = "rewrite" /\ UNCHANGED <<used, index>> /\ HistoriesKept
      /\ disk' = [disk EXCEPT ![s.canon] = file] /\ Set(c, r)
  BY DEF Rewrite, At, HistoriesKept
<1>3. s.canon \in Id /\ s.canon \in used
  BY <1>1, <1>2 DEF ProcState, OnUsed
<1>4. Groups(s)
  BY DEF Grouping
<1>5. kind \in Kind
  <2>1. \E k \in s.kinds : s.canon \in Members(c, k)
    BY <1>1, <1>2, <1>4, MembersAre DEF Groups
  <2>2. kind \in s.kinds
    BY <2>1
  <2> QED
    BY <1>1, <2>2 DEF ProcState
<1> HIDE DEF kind
<1>6. file \in File /\ file.keys = s.moving
  BY <1>1, <1>5 DEF File, ProcState
<1> HIDE DEF file
<1>7. /\ disk' \in [Id -> File \cup {NoFile, Torn}] /\ disk'[s.canon] = file
      /\ \A j \in Id \ {s.canon} : disk'[j] = disk[j]
  BY <1>2, <1>3, <1>6 DEF Sound, Files
<1>8. Files' /\ Histories' /\ used' = used
  BY <1>2, <1>3, <1>7, KeptSound DEF Sound, Files
<1>9. kinds \subseteq s.kinds /\ kinds \subseteq Kind
  BY <1>1 DEF ProcState
<1> HIDE DEF s, kinds
<1>10. /\ r \in ProcState /\ r.pc = "merge" /\ r.todo = s.todo /\ r.got = s.got /\ r.moving = {}
       /\ r.canon = s.canon /\ r.kinds = kinds /\ r.job = s.job /\ r.end = s.end
       /\ r.alone = s.alone
  BY <1>1, <1>9 DEF ProcState, Label, TidierLabel
<1> HIDE DEF r
<1>11. OnUsed(r, used')
  BY <1>1, <1>2, <1>8, <1>10 DEF OnUsed
<1>12. Threads' /\ proc'[c] = r /\ Others(c)
  BY <1>1, <1>2, <1>8, <1>10, <1>11, GoesOn, StoreAssumption DEF TidierLabel, s
<1>13. Groups(r)
  BY <1>2, <1>4, <1>9, <1>10 DEF Groups
<1> QED
  BY <1>2, <1>3, <1>6, <1>7, <1>8, <1>10, <1>12, <1>13 DEF Sound, s

\* No group is left: the index is to be rebuilt.
LEMMA MergedStep ==
  ASSUME Sound, NEW c \in Tidier, Merged(c)
  PROVE  /\ Sound' /\ Others(c) /\ FilesKept /\ HistoriesKept
         /\ proc[c].pc = "merge" /\ proc'[c].pc = "list" /\ Keeps(proc'[c], proc[c])
         /\ proc[c].moving = {} /\ proc'[c].moving = {}
<1> DEFINE s == proc[c]
           r == [s EXCEPT !.pc = "list"]
<1>1. c \in Thread /\ s \in ProcState /\ PlaysRole(c, s) /\ OnUsed(s, used) /\ Threads
  BY DEF Sound, Threads, Fits, Thread
<1>2. s.pc = "merge" /\ FilesKept /\ HistoriesKept /\ Set(c, r)
  BY DEF Merged, At, FilesKept, HistoriesKept
<1>3. s.moving = {}
  BY <1>1, <1>2 DEF PlaysRole
<1>4. Files' /\ Histories' /\ used' = used
  BY <1>2, KeptSound DEF FilesKept
<1> HIDE DEF s
<1>5. /\ r \in ProcState /\ r.pc = "list" /\ r.todo = s.todo /\ r.got = s.got /\ r.moving = s.moving
      /\ r.canon = s.canon /\ Keeps(r, s)
  BY <1>1 DEF ProcState, Keeps, Label, TidierLabel
<1> HIDE DEF r
<1>6. OnUsed(r, used') /\ r.job = s.job
  BY <1>1, <1>2, <1>4, <1>5 DEF OnUsed, Keeps
<1>7. Threads' /\ proc'[c] = r /\ Others(c)
  BY <1>1, <1>2, <1>3, <1>4, <1>5, <1>6, GoesOn, StoreAssumption DEF TidierLabel, s
<1> QED
  BY <1>2, <1>3, <1>4, <1>5, <1>7 DEF Sound, s

\* A thread dies.
LEMMA DieStep ==
  ASSUME Sound, NEW p \in Writer \cup Tidier, Die(p)
  PROVE  /\ Sound' /\ Others(p) /\ FilesKept /\ UNCHANGED <<finished, learned, raced>>
         /\ proc[p].pc # "idle" /\ lost' = lost \cup {k \in proc[p].moving : ~Named(k)}
         /\ proc'[p].pc = "idle" /\ proc'[p].todo = {} /\ proc'[p].got = {} /\ proc'[p].moving = {}
         /\ proc'[p].end \in {"none", "died"} /\ (p \in Tidier => proc'[p].end = "died")
<1> DEFINE r == IF p \in Writer THEN Idle ELSE [Idle EXCEPT !.end = "died"]
<1>1. p \in Thread /\ Threads /\ proc[p] \in ProcState
  BY DEF Sound, Threads, Thread
<1>2. /\ deaths < MaxDeaths /\ deaths' = deaths + 1 /\ proc[p].pc # "idle" /\ Set(p, r)
      /\ lost' = lost \cup {k \in proc[p].moving : ~Named(k)}
      /\ UNCHANGED <<disk, used, index, finished, learned, raced, writes>>
  BY DEF Die, At
<1>3. Files' /\ used' = used /\ FilesKept
  BY <1>2, KeptSound DEF FilesKept
<1>4. lost' \subseteq Key
  BY <1>1, <1>2 DEF Sound, Histories, ProcState
<1>5. Histories'
  BY <1>2, <1>4, StoreAssumption DEF Sound, Histories
<1>6. /\ r \in ProcState /\ r.pc = "idle" /\ r.todo = {} /\ r.got = {} /\ r.moving = {} /\ r.canon = 0
      /\ r.end \in {"none", "died"} /\ (p \in Tidier => r.end = "died")
  BY StoreAssumption DEF Idle, ProcState, Label, WriterLabel
<1> HIDE DEF r
<1>7. Fits(p, r, used')
  BY <1>6 DEF Fits, PlaysRole, OnUsed, WriterLabel, TidierLabel
<1>8. Threads' /\ proc'[p] = r /\ Others(p)
  BY <1>1, <1>2, <1>3, <1>7, ThreadMoves, SetIs DEF Threads
<1> QED
  BY <1>2, <1>3, <1>5, <1>6, <1>8 DEF Sound, Threads

\* At the start every thread is idle, every file is real and has one key of its
\* own, and the index is exact.
LEMMA InitialStore ==
  ASSUME Init
  PROVE  /\ Sound /\ Grouping /\ \A p \in Thread : proc[p] = Idle
         /\ \A i \in Id : disk[i] # Torn
         /\ \A e \in index : e[2] \in Listed
         /\ \A i, j \in Id : Readable(i) /\ Readable(j) => \A k \in disk[i].keys \cap disk[j].keys : i = j
         /\ \A k \in learned : Named(k)
<1>1. PICK id \in [Known -> Id] :
        /\ \A k, l \in Known : id[k] = id[l] => k = l
        /\ used = {id[k] : k \in Known}
        /\ disk = [i \in Id |-> IF i \in used
                   THEN LET k == CHOOSE l \in Known : id[l] = i IN [keys |-> {k}, kind |-> KindOf[k]]
                   ELSE NoFile]
  BY DEF Init
<1>2. /\ index = Entries /\ proc = [p \in Thread |-> Idle]
      /\ finished = Known /\ learned = Known /\ raced = {} /\ lost = {} /\ writes = 0 /\ deaths = 0
  BY DEF Init
<1>3. used \subseteq Id /\ \A i \in used : \E k \in Known : id[k] = i
  BY <1>1
<1>4. ASSUME NEW i \in used
      PROVE  disk[i] \in File /\ \E k \in Known : id[k] = i /\ disk[i].keys = {k}
  <2> DEFINE k == CHOOSE l \in Known : id[l] = i
  <2>1. k \in Known /\ id[k] = i
    BY <1>3
  <2>2. disk[i] = [keys |-> {k}, kind |-> KindOf[k]]
    BY <1>1, <1>3
  <2> HIDE DEF k
  <2>3. k \in Key
    BY <2>1, StoreAssumption
  <2> QED
    BY <2>1, <2>2, <2>3, StoreAssumption DEF File
<1>5. \A i \in Id \ used : disk[i] = NoFile
  BY <1>1
<1>6. disk \in [Id -> File \cup {NoFile, Torn}]
  <2>1. \A i \in Id : disk[i] \in File \cup {NoFile, Torn}
    BY <1>4, <1>5
  <2>2. disk = [i \in Id |-> disk[i]]
    BY <1>1
  <2> QED
    BY <2>1, <2>2
<1>7. \A i \in Id : Readable(i) <=> i \in used
  BY <1>4, <1>5, FilesAreReal DEF Readable
<1>8. \A i \in Id : disk[i] # Torn
  BY <1>4, <1>5, FilesAreReal, StoreAssumption
<1>9. \A i \in used : disk[i].kind \in Kind
  BY <1>4, FilesAreReal
<1>10. index \subseteq Kind \X Id /\ \A e \in index : e[2] \in used
  BY <1>2, <1>3, <1>7, <1>9 DEF Entries
<1>11. Files
  BY <1>3, <1>5, <1>6, <1>10 DEF Files
<1>12. Histories
  BY <1>2, StoreAssumption DEF Histories
<1>13. \A p \in Thread : proc[p] = Idle
  BY <1>2
<1>14. Threads
  <2>1. \A p \in Thread : Fits(p, Idle, used)
    BY IdleFits
  <2>2. Idle \in ProcState
    BY DEF Idle, ProcState, Label, WriterLabel
  <2> QED
    BY <1>2, <1>13, <2>1, <2>2 DEF Threads
<1>15. Grouping
  BY <1>13 DEF Grouping, Groups, Idle, Thread
<1>16. \A e \in index : e[2] \in Listed
  BY <1>3, <1>4, <1>10, FilesAreReal DEF Listed
<1>17. ASSUME NEW i \in Id, NEW j \in Id, Readable(i), Readable(j), NEW k \in disk[i].keys \cap disk[j].keys
       PROVE  i = j
  BY <1>4, <1>7, <1>17
<1>18. ASSUME NEW k \in learned PROVE Named(k)
  <2>1. k \in Known /\ id[k] \in used /\ id[k] \in Id
    BY <1>1, <1>2
  <2>2. PICK l \in Known : id[l] = id[k] /\ disk[id[k]].keys = {l}
    BY <1>4, <2>1
  <2>3. l = k
    BY <1>1, <2>1, <2>2
  <2> QED
    BY <1>7, <2>1, <2>2, <2>3 DEF Named
<1> QED
  BY <1>8, <1>11, <1>12, <1>13, <1>14, <1>15, <1>16, <1>17, <1>18 DEF Sound

\* The groups of the other consolidations do not change.
LEMMA GroupingKept ==
  ASSUME Grouping, NEW p \in Thread, Others(p), Groups(proc'[p]) \/ proc'[p].pc \notin {"merge", "unlink", "rewrite"}
  PROVE  Grouping'
BY DEF Grouping, Groups, Others, Thread

\* The steps of a call that is under way.
Steps(p) ==
  \/ p \in Writer /\ (Look(p) \/ Save(p) \/ FinishEvent(p))
  \/ p \in Writer \cup Tidier /\ (List(p) \/ Scan(p) \/ WriteIndex(p))
  \/ p \in Tidier /\ (Group(p) \/ Gather(p) \/ Unlink(p) \/ Truncate(p) \/ Rewrite(p) \/ Merged(p))

\* A step within a call changes the record of its own thread only.
LEMMA StepsAlone ==
  ASSUME Sound, Grouping, NEW p \in Writer \cup Tidier, Steps(p)
  PROVE  Others(p)
<1>1. CASE p \in Writer /\ (Look(p) \/ Save(p) \/ FinishEvent(p))
  BY <1>1, LookStep, SaveStep, FinishStep
<1>2. CASE List(p) \/ Scan(p) \/ WriteIndex(p)
  BY <1>2, ListStep, ScanStep, WriteIndexStep
<1>3. CASE p \in Tidier /\ (Group(p) \/ Gather(p) \/ Merged(p))
  BY <1>3, GroupStep, GatherStep, MergedStep
<1>4. CASE p \in Tidier /\ (Unlink(p) \/ Truncate(p) \/ Rewrite(p))
  BY <1>4, UnlinkStep, TruncateStep, RewriteStep
<1> QED
  BY <1>1, <1>2, <1>3, <1>4 DEF Steps

\* It is a step of a call that is busy, or the end of an event.
LEMMA StepsBusy ==
  ASSUME NEW p \in Writer \cup Tidier, Steps(p)
  PROVE  Busy(p) \/ (p \in Writer /\ FinishEvent(p))
<1>1. CASE Look(p) \/ Save(p)
  BY <1>1 DEF Busy, At, Look, Save
<1>2. CASE List(p) \/ Scan(p) \/ WriteIndex(p)
  BY <1>2 DEF Busy, At, List, Scan, WriteIndex
<1>3. CASE Group(p) \/ Gather(p) \/ Merged(p)
  BY <1>3 DEF Busy, At, Group, Gather, Merged
<1>4. CASE Unlink(p) \/ Truncate(p) \/ Rewrite(p)
  BY <1>4 DEF Busy, At, Unlink, Truncate, Rewrite
<1> QED
  BY <1>1, <1>2, <1>3, <1>4 DEF Steps

\* A key is learned only when the index is written.
LEMMA StepsLearn ==
  ASSUME Sound, Grouping, NEW p \in Writer \cup Tidier, Steps(p)
  PROVE  learned' = learned \/ WriteIndex(p)
<1>1. CASE p \in Writer /\ (Look(p) \/ Save(p) \/ FinishEvent(p))
  BY <1>1, LookStep, SaveStep, FinishStep DEF HistoriesKept
<1>2. CASE List(p) \/ Scan(p)
  BY <1>2, ListStep, ScanStep DEF HistoriesKept
<1>3. CASE p \in Tidier /\ (Group(p) \/ Gather(p) \/ Merged(p))
  BY <1>3, GroupStep, GatherStep, MergedStep DEF HistoriesKept
<1>4. CASE p \in Tidier /\ (Unlink(p) \/ Truncate(p) \/ Rewrite(p))
  BY <1>4, UnlinkStep, TruncateStep, RewriteStep DEF HistoriesKept
<1> QED
  BY <1>1, <1>2, <1>3, <1>4 DEF Steps

\* Every step is a step of one thread.
LEMMA NextIs ==
  ASSUME Next
  PROVE  \/ \E p \in Writer \cup Tidier : Steps(p) \/ Starts(p) \/ Die(p)
         \/ \E r \in Reader : Reads(r)
<1>1. ASSUME NEW w \in Writer, Write(w) \/ Die(w) \/ \E k \in Key : StartWrite(w, k)
      PROVE  Steps(w) \/ Starts(w) \/ Die(w)
  BY <1>1 DEF Write, Steps, Starts
<1>2. ASSUME NEW c \in Tidier, Tidy(c) \/ Die(c) \/ \E apply \in BOOLEAN : StartTidy(c, apply)
      PROVE  Steps(c) \/ Starts(c) \/ Die(c)
  BY <1>2 DEF Tidy, Steps, Starts
<1>3. ASSUME NEW r \in Reader, Retrieve(r) \/ Rank(r) \/ \E q \in Kind \cup {Unknown} : StartRetrieve(r, q)
      PROVE  Reads(r)
  BY <1>3 DEF Reads
<1> QED
  BY <1>1, <1>2, <1>3 DEF Next

Whole == Sound /\ Grouping

\* Every step of a writer or consolidator preserves the invariant.
LEMMA StepWhole ==
  ASSUME Whole, NEW p \in Writer \cup Tidier, Steps(p)
  PROVE  Whole'
<1>1. Sound /\ Grouping /\ p \in Thread
  BY DEF Whole, Thread
<1>2. CASE p \in Writer /\ Look(p)
  BY <1>1, <1>2, LookStep, EndedIs, GroupingKept DEF Whole
<1>3. CASE p \in Writer /\ Save(p)
  BY <1>1, <1>3, SaveStep, GroupingKept DEF Whole
<1>4. CASE p \in Writer /\ FinishEvent(p)
  BY <1>1, <1>4, FinishStep, GroupingKept DEF Whole, Idle
<1>5. CASE List(p)
  BY <1>1, <1>5, ListStep, GroupingKept DEF Whole
<1>6. CASE Scan(p)
  BY <1>1, <1>6, ScanStep, EndedIs, GroupingKept DEF Whole
<1>7. CASE WriteIndex(p)
  BY <1>1, <1>7, WriteIndexStep, EndedIs, GroupingKept DEF Whole
<1>8. CASE p \in Tidier /\ Group(p)
  BY <1>1, <1>8, GroupStep, EndedIs, GroupingKept DEF Whole
<1>9. CASE p \in Tidier /\ Gather(p)
  BY <1>1, <1>9, GatherStep, EndedIs, GroupingKept DEF Whole
<1>10. CASE p \in Tidier /\ Unlink(p)
  BY <1>1, <1>10, UnlinkStep, GroupingKept DEF Whole
<1>11. CASE p \in Tidier /\ Truncate(p)
  BY <1>1, <1>11, TruncateStep, GroupingKept DEF Whole
<1>12. CASE p \in Tidier /\ Rewrite(p)
  BY <1>1, <1>12, RewriteStep, GroupingKept DEF Whole
<1>13. CASE p \in Tidier /\ Merged(p)
  BY <1>1, <1>13, MergedStep, GroupingKept DEF Whole
<1> QED
  BY <1>2, <1>3, <1>4, <1>5, <1>6, <1>7, <1>8, <1>9, <1>10, <1>11, <1>12, <1>13 DEF Steps

\* The files, the histories and the threads stay sound in every step.
LEMMA NextWhole ==
  ASSUME Whole, [Next]_vars
  PROVE  Whole'
<1>1. ASSUME NEW p \in Writer \cup Tidier, Starts(p) PROVE Whole'
  <2>1. /\ Sound' /\ p \in Thread
        /\ p \in Writer => proc'[p].pc = "find"
        /\ p \in Tidier => proc'[p].pc = "sign"
        /\ Joins(p)
    BY <1>1, StartStep DEF Whole, Thread
  <2>2. Grouping'
    BY <2>1 DEF Whole, Grouping, Groups, Thread, Joins
  <2> QED
    BY <2>1, <2>2 DEF Whole
<1>2. ASSUME NEW p \in Writer \cup Tidier, Die(p) PROVE Whole'
  BY <1>2, DieStep, GroupingKept DEF Whole, Thread
<1>3. ASSUME NEW r \in Reader, Reads(r) PROVE Whole'
  <2>1. Sound' /\ Others(r) /\ r \notin Tidier
    BY <1>3, ReaderStep, StoreAssumption DEF Whole
  <2>2. Grouping'
    BY <2>1 DEF Whole, Grouping, Groups, Others, Thread
  <2> QED
    BY <2>1, <2>2 DEF Whole
<1>4. CASE UNCHANGED vars
  <2>1. Files' /\ Histories'
    BY <1>4 DEF vars, Whole, Sound, Files, Histories
  <2>2. Threads' /\ Grouping'
    BY <1>4 DEF vars, Whole, Sound, Threads, Grouping
  <2> QED
    BY <2>1, <2>2 DEF Whole, Sound
<1> QED
  BY <1>1, <1>2, <1>3, <1>4, StepWhole, NextIs

\* Every thread does only what its role does and works on identifiers that were
\* given out; a group being merged has files, and every file that can be read
\* names keys and a kind.
THEOREM StoreIsWhole == Spec => []Whole
<1>1. Init => Whole
  BY InitialStore DEF Whole
<1> QED
  BY <1>1, NextWhole, PTL DEF Spec

\* Every variable of the store has its type, whatever the threads, their calls
\* and their deaths.
THEOREM StoreTypeCorrect == Spec => []TypeOK
<1>1. Whole => TypeOK
  <2> SUFFICES ASSUME Whole PROVE TypeOK
    OBVIOUS
  <2>1. Files /\ Histories /\ Threads
    BY DEF Whole, Sound
  <2>2. proc \in [Thread -> [
       pc : {"idle", "find", "list", "rebuild", "finish", "retrieve", "sign", "merge", "unlink", "rewrite"},
       job : Key \cup Kind \cup {Unknown} \cup BOOLEAN,
       todo : SUBSET Id, got : SUBSET (Kind \X Id), kinds : SUBSET Kind,
       canon : Id \cup {0}, moving : SUBSET Key, alone : BOOLEAN,
       end : {"none", "returned", "raised", "died"}]]
    <3>1. Label = {"idle", "find", "list", "rebuild", "finish", "retrieve", "sign", "merge", "unlink", "rewrite"}
      BY DEF Label, WriterLabel, TidierLabel
    <3> QED
      BY <2>1, <3>1 DEF Threads, ProcState
  <2> QED
    BY <2>1, <2>2 DEF TypeOK, Files, Histories
<1> QED
  BY <1>1, StoreIsWhole, PTL

-----------------------------------------------------------------------------
(* Without a consolidation *)

NoTidying == \A c \in Tidier : proc[c] = Idle

\* No file is truncated, and everything that is named is there: by the index,
\* and by the lists of the calls under way.
NothingMissing ==
  /\ \A i \in Id : disk[i] # Torn
  /\ \A e \in index : e[2] \in Listed
  /\ \A p \in Thread : /\ proc[p].todo \subseteq Listed /\ proc[p].end # "raised"
                       /\ \A e \in proc[p].got : e[2] \in Listed

Untidied == NoTidying => NothingMissing

\* A consolidator that has begun is never idle again as it was: each
\* consolidates once.
LEMMA OnlyOthersStep ==
  ASSUME Whole, NoTidying'
  PROVE  /\ \A p \in Writer \cup Tidier : Steps(p) \/ Starts(p) \/ Die(p) => p \notin Tidier /\ NoTidying
         /\ \A r \in Reader : Reads(r) => NoTidying
<1>1. Idle.pc = "idle" /\ Idle.end = "none"
  BY DEF Idle
<1>2. \A c \in Tidier : proc'[c].pc = "idle" /\ proc'[c].end = "none"
  BY <1>1 DEF NoTidying
<1>3. ASSUME NEW p \in Tidier, Steps(p) PROVE FALSE
  <2>1. p \in Thread /\ p \notin Writer /\ Sound /\ Grouping
    BY StoreAssumption DEF Thread, Whole
  <2>2. proc'[p].pc = "idle" /\ proc'[p].end = "none"
    BY <1>2
  <2>3. CASE List(p)
    BY <2>1, <2>2, <2>3, ListStep
  <2>4. CASE Scan(p)
    BY <2>1, <2>2, <2>4, ScanStep, EndedIs
  <2>5. CASE WriteIndex(p)
    BY <2>1, <2>2, <2>5, WriteIndexStep, EndedIs
  <2>6. CASE Group(p)
    BY <2>1, <2>2, <2>6, GroupStep, EndedIs
  <2>7. CASE Gather(p)
    BY <2>1, <2>2, <2>7, GatherStep, EndedIs
  <2>8. CASE Unlink(p)
    BY <2>1, <2>2, <2>8, UnlinkStep
  <2>9. CASE Truncate(p)
    BY <2>1, <2>2, <2>9, TruncateStep
  <2>10. CASE Rewrite(p)
    BY <2>1, <2>2, <2>10, RewriteStep
  <2>11. CASE Merged(p)
    BY <2>1, <2>2, <2>11, MergedStep
  <2> QED
    BY <1>3, <2>1, <2>3, <2>4, <2>5, <2>6, <2>7, <2>8, <2>9, <2>10, <2>11 DEF Steps
<1>4. ASSUME NEW p \in Tidier, Die(p) PROVE FALSE
  BY <1>2, <1>4, DieStep DEF Whole
<1>5. ASSUME NEW p \in Tidier, Starts(p) PROVE FALSE
  <2>1. proc'[p].pc = "sign"
    BY <1>5, StartStep DEF Whole
  <2> QED
    BY <1>2, <2>1
<1>6. ASSUME NEW p \in Thread \ Tidier, Others(p) PROVE NoTidying
  BY <1>6 DEF Others, NoTidying, Thread
<1>7. ASSUME NEW p \in Writer, Steps(p) PROVE NoTidying
  <2>1. p \in Thread \ Tidier /\ Sound
    BY StoreAssumption DEF Thread, Whole
  <2>2. Others(p)
    BY <1>7, StepsAlone DEF Whole
  <2> QED
    BY <1>6, <2>1, <2>2
<1>8. ASSUME NEW p \in Writer, Starts(p) PROVE NoTidying
  <2>1. Joins(p)
    BY <1>8, StartStep DEF Whole
  <2>2. \A c \in Tidier : c \in Thread \ {p}
    BY StoreAssumption DEF Thread
  <2>3. \A c \in Tidier : ~Busy(c)
    BY <1>2, <2>1, <2>2 DEF Busy, Joins
  <2> QED
    BY <2>1, <2>2, <2>3 DEF NoTidying, Joins
<1>9. ASSUME NEW p \in Writer, Die(p) PROVE NoTidying
  BY <1>6, <1>9, DieStep, StoreAssumption DEF Whole, Thread
<1>10. ASSUME NEW r \in Reader, Reads(r) PROVE NoTidying
  <2>1. Others(r) /\ r \in Thread \ Tidier
    BY <1>10, ReaderStep, StoreAssumption DEF Whole, Thread
  <2> QED
    BY <1>6, <2>1
<1> QED
  BY <1>3, <1>4, <1>5, <1>7, <1>8, <1>9, <1>10

\* The files stay there and one thread goes on with what is there.
LEMMA StillThere ==
  ASSUME Whole, NothingMissing, NEW p \in Thread, Others(p), FilesKept,
         proc'[p].todo \subseteq Listed, \A e \in proc'[p].got : e[2] \in Listed, proc'[p].end # "raised"
  PROVE  NothingMissing'
<1>1. Listed' = Listed
  BY DEF Listed, FilesKept
<1> QED
  BY <1>1 DEF NothingMissing, FilesKept, Others, Thread

\* Writers and retrievals leave no file torn or missing, and none of them raises.
LEMMA NothingGoesMissing ==
  ASSUME Whole, NothingMissing,
         (\E p \in Writer : Steps(p) \/ Starts(p) \/ Die(p)) \/ \E r \in Reader : Reads(r)
  PROVE  NothingMissing'
<1> USE DEF Whole
<1>1. \A i \in Listed : Readable(i)
  BY DEF Listed, Readable, NothingMissing
<1>2. \A p \in Thread : \A i \in proc[p].todo : i \in Listed
  BY DEF NothingMissing
<1>3. ASSUME NEW p \in Writer, Look(p) PROVE NothingMissing'
  <2>1. Least(proc[p].todo) \in Listed /\ p \in Thread
    BY <1>2, <1>3, LookStep DEF Thread
  <2>2. disk[Least(proc[p].todo)] # NoFile
    BY <2>1 DEF Listed
  <2>3. proc'[p].todo \subseteq Listed /\ proc'[p].got = proc[p].got /\ Keeps(proc'[p], proc[p])
        /\ Others(p) /\ FilesKept
    BY <1>2, <1>3, <2>1, <2>2, LookStep
  <2> QED
    BY <2>1, <2>3, StillThere DEF NothingMissing, Keeps
<1>4. ASSUME NEW p \in Writer, Save(p) PROVE NothingMissing'
  <2>1. PICK i \in Id \ used : /\ disk'[i] \in File /\ \A j \in Id \ {i} : disk'[j] = disk[j]
    BY <1>4, SaveStep
  <2>2. Others(p) /\ UNCHANGED index /\ Keeps(proc'[p], proc[p]) /\ proc'[p].todo = proc[p].todo
        /\ proc'[p].got = proc[p].got /\ p \in Thread
    BY <1>4, SaveStep DEF Thread
  <2>3. disk'[i] # Torn /\ disk'[i] # NoFile
    BY <2>1, FilesAreReal
  <2>4. \A j \in Id : disk'[j] # Torn
    BY <2>1, <2>3 DEF NothingMissing
  <2>5. \A j \in Listed : j \in Listed'
    BY <2>1, <2>3 DEF Listed
  <2>6. \A q \in Thread : proc'[q].todo = proc[q].todo /\ proc'[q].got = proc[q].got /\ proc'[q].end = proc[q].end
    BY <2>2 DEF Others, Keeps
  <2> QED
    BY <2>2, <2>4, <2>5, <2>6 DEF NothingMissing
<1>5. ASSUME NEW p \in Writer, FinishEvent(p) PROVE NothingMissing'
  BY <1>5, FinishStep, StillThere DEF Idle, Thread
<1>6. ASSUME NEW p \in Writer, List(p) PROVE NothingMissing'
  <2>1. /\ Others(p) /\ FilesKept /\ Keeps(proc'[p], proc[p]) /\ proc'[p].todo = Listed /\ proc'[p].got = {}
        /\ p \in Thread
    BY <1>6, ListStep DEF Thread
  <2> QED
    BY <2>1, StillThere DEF NothingMissing, Keeps
<1>7. ASSUME NEW p \in Writer, Scan(p) PROVE NothingMissing'
  <2> DEFINE i == Least(proc[p].todo)
  <2>1. i \in proc[p].todo /\ Others(p) /\ FilesKept /\ p \in Thread
    BY <1>7, ScanStep DEF Thread
  <2>2. Readable(i) /\ i \in Listed
    BY <1>1, <1>2, <2>1
  <2>3. /\ Keeps(proc'[p], proc[p]) /\ proc'[p].todo = proc[p].todo \ {i}
        /\ proc'[p].got = proc[p].got \cup {<<disk[i].kind, i>>}
    BY <1>7, <2>2, ScanStep
  <2> HIDE DEF i
  <2>4. proc'[p].todo \subseteq Listed /\ \A e \in proc'[p].got : e[2] \in Listed
    BY <2>1, <2>2, <2>3 DEF NothingMissing
  <2> QED
    BY <2>1, <2>3, <2>4, StillThere DEF NothingMissing, Keeps
<1>8. ASSUME NEW p \in Writer, WriteIndex(p) PROVE NothingMissing'
  <2>1. /\ Others(p) /\ disk' = disk /\ index' = proc[p].got /\ proc'[p] = Ended(p, "returned") /\ p \in Thread
    BY <1>8, WriteIndexStep DEF Thread
  <2>2. proc'[p].todo = {} /\ proc'[p].got = {} /\ proc'[p].end = "returned"
    BY <2>1, EndedIs
  <2>3. Listed' = Listed
    BY <2>1 DEF Listed
  <2>4. \A q \in Thread \ {p} : proc'[q] = proc[q]
    BY <2>1 DEF Others
  <2> QED
    BY <2>1, <2>2, <2>3, <2>4 DEF NothingMissing
<1>9. ASSUME NEW p \in Writer, Starts(p) PROVE NothingMissing'
  <2>1. /\ FilesKept /\ proc'[p].todo = Listed /\ proc'[p].got = {} /\ proc'[p].end = "none"
        /\ Joins(p)
    BY <1>9, StartStep
  <2>2. Listed' = Listed
    BY <2>1 DEF Listed, FilesKept
  <2> QED
    BY <2>1, <2>2 DEF NothingMissing, FilesKept, Joins
<1>10. ASSUME NEW p \in Writer, Die(p) PROVE NothingMissing'
  BY <1>10, DieStep, StillThere DEF Thread
<1>11. ASSUME NEW r \in Reader, Reads(r) PROVE NothingMissing'
  <2>1. r \in Thread /\ Others(r) /\ FilesKept
    BY <1>11, ReaderStep DEF Thread
  <2>2. /\ proc'[r].todo \subseteq Listed /\ \A e \in proc'[r].got : e[2] \in Listed
        /\ proc'[r].end # "raised"
    <3>1. CASE /\ proc'[r].end = "none" /\ proc'[r].got = {}
               /\ \A i \in proc'[r].todo : i \in Listed \/ \E e \in index : e[2] = i
      BY <3>1 DEF NothingMissing
    <3>2. CASE /\ proc[r].todo # {} /\ Readable(Least(proc[r].todo)) /\ proc'[r].end = proc[r].end
               /\ proc'[r].todo \subseteq proc[r].todo
               /\ \A e \in proc'[r].got : e \in proc[r].got \/ e[2] = Least(proc[r].todo)
      <4>1. Least(proc[r].todo) \in Listed
        <5>1. proc[r].todo \in SUBSET Id
          BY <2>1 DEF Sound, Threads, ProcState
        <5> QED
          BY <1>2, <2>1, <3>2, <5>1, LeastIsOne
      <4> QED
        BY <1>2, <2>1, <3>2, <4>1 DEF NothingMissing
    <3>3. CASE \E e \in proc[r].got : e[2] \notin Listed
      BY <2>1, <3>3 DEF NothingMissing
    <3>4. CASE proc'[r] = Ended(r, "returned")
      BY <2>1, <3>4, EndedIs
    <3>5. ~(Least(proc[r].todo) \in proc[r].todo /\ ~Readable(Least(proc[r].todo)))
      BY <1>1, <1>2, <2>1
    <3> QED
      BY <1>11, <3>1, <3>2, <3>3, <3>4, <3>5, ReaderStep
  <2> QED
    BY <2>1, <2>2, StillThere
<1> QED
  BY <1>3, <1>4, <1>5, <1>6, <1>7, <1>8, <1>9, <1>10, <1>11, StoreAssumption DEF Steps

\* Whatever writers, their deaths and retrievals interleave: as long as nothing
\* consolidates, no call raises.
THEOREM NothingRaises == Spec => []OnlyTidyingRaises
<1>1. Init => Untidied
  <2> SUFFICES ASSUME Init PROVE Untidied
    OBVIOUS
  <2> QED
    BY InitialStore DEF Untidied, NothingMissing, Idle
<1>2. Untidied => OnlyTidyingRaises
  BY DEF Untidied, NoTidying, NothingMissing, OnlyTidyingRaises
<1>3. Whole /\ Untidied /\ [Next]_vars => Untidied'
  <2> SUFFICES ASSUME Whole, Untidied, [Next]_vars, NoTidying' PROVE NothingMissing'
    BY DEF Untidied
  <2>1. CASE UNCHANGED vars
    BY <2>1 DEF vars, Untidied, NoTidying, NothingMissing, Listed
  <2>2. CASE Next
    <3>1. NoTidying /\ ((\E p \in Writer : Steps(p) \/ Starts(p) \/ Die(p)) \/ \E r \in Reader : Reads(r))
      BY <2>2, NextIs, OnlyOthersStep
    <3> QED
      BY <3>1, NothingGoesMissing DEF Untidied
  <2> QED
    BY <2>1, <2>2
<1> QED
  BY <1>1, <1>2, <1>3, StoreIsWhole, PTL DEF Spec

-----------------------------------------------------------------------------
(* A call that meets no other *)

\* No other call that changes the store is under way, and what the call has read
\* of the files to index is what they are.
Unmet(p) == \A q \in (Writer \cup Tidier) \ {p} : ~Busy(q)

Exact(p) ==
  /\ proc[p].todo \subseteq Listed
  /\ \A i \in Listed \ proc[p].todo : Readable(i)
  /\ proc[p].got = {<<disk[i].kind, i>> : i \in Listed \ proc[p].todo}

Lone(p) == Busy(p) /\ proc[p].alone => Unmet(p) /\ (At(p, "rebuild") => Exact(p))

EachLone == \A p \in Writer \cup Tidier : Lone(p)

\* A step of another thread leaves it alone, unless a call begins.
LEMMA OtherLone ==
  ASSUME Whole, NEW p \in Writer \cup Tidier, Lone(p), NEW q \in Thread \ {p},
         \/ q \in Writer \cup Tidier /\ (Steps(q) \/ Starts(q) \/ Die(q))
         \/ q \in Reader /\ Reads(q)
  PROVE  Lone(p)'
<1> SUFFICES ASSUME Busy(p)', proc'[p].alone PROVE Unmet(p)' /\ (At(p, "rebuild")' => Exact(p)')
  BY DEF Lone
<1>1. Sound /\ Grouping /\ p \in Thread
  BY DEF Whole, Thread
<1>2. CASE q \in Writer \cup Tidier /\ Starts(q)
  <2>1. Joins(q)
    BY <1>1, <1>2, StartStep
  <2> QED
    BY <1>1, <2>1 DEF Busy, Joins
<1>3. CASE ~(q \in Writer \cup Tidier /\ Starts(q))
  <2>1. Others(q)
    BY <1>1, <1>3, StepsAlone, DieStep, ReaderStep, StoreAssumption
  <2>2. proc'[p] = proc[p]
    BY <1>1, <2>1 DEF Others
  <2>3. Unmet(p) /\ (At(p, "rebuild") => Exact(p))
    BY <2>2 DEF Busy, Lone
  <2>4. q \in Writer \cup Tidier => proc[q].pc \in {"idle", "finish"}
    BY <2>3 DEF Unmet, Busy
  <2>5. /\ disk' = disk
        /\ q \in Writer \cup Tidier => ~Busy(q)'
    <3>1. CASE q \in Reader /\ Reads(q)
      BY <1>1, <3>1, ReaderStep, StoreAssumption DEF FilesKept
    <3>2. CASE q \in Writer \cup Tidier /\ Die(q)
      BY <1>1, <3>2, DieStep DEF Busy, FilesKept
    <3>3. CASE q \in Writer \cup Tidier /\ Steps(q)
      <4>1. q \in Writer /\ FinishEvent(q)
        BY <1>1, <2>4, <3>3, StepsBusy DEF Busy
      <4> QED
        BY <1>1, <4>1, FinishStep DEF FilesKept, Busy, Idle
    <3> QED
      BY <1>3, <3>1, <3>2, <3>3
  <2>6. \A s \in (Writer \cup Tidier) \ {p} : ~Busy(s)'
    BY <2>1, <2>3, <2>5 DEF Unmet, Busy, Others, Thread
  <2> QED
    BY <2>2, <2>3, <2>5, <2>6 DEF Unmet, At, Exact, Listed, Readable
<1> QED
  BY <1>2, <1>3

\* Its own step leaves it alone and keeps what it has read exact.
LEMMA OwnLone ==
  ASSUME Whole, NEW p \in Writer \cup Tidier, Lone(p), Steps(p) \/ Starts(p) \/ Die(p)
  PROVE  Lone(p)'
<1> SUFFICES ASSUME Busy(p)', proc'[p].alone PROVE Unmet(p)' /\ (At(p, "rebuild")' => Exact(p)')
  BY DEF Lone
<1>1. Sound /\ Grouping /\ p \in Thread
  BY DEF Whole, Thread
<1>2. CASE Starts(p)
  <2>1. /\ proc'[p].pc \in {"find", "sign"} /\ \A q \in Writer \cup Tidier : ~Busy(q)
        /\ Joins(p)
    BY <1>1, <1>2, StartStep
  <2> QED
    BY <2>1 DEF Unmet, Busy, At, Thread, Joins
<1>3. CASE Die(p)
  BY <1>1, <1>3, DieStep DEF Busy
<1>4. CASE Steps(p)
  <2>1. Others(p)
    BY <1>1, <1>4, StepsAlone
  <2>2. ASSUME Busy(p), proc[p].alone PROVE Unmet(p)'
    <3>1. Unmet(p)
      BY <2>2 DEF Lone
    <3> QED
      BY <2>1, <3>1 DEF Unmet, Busy, Others, Thread
  <2>3. CASE p \in Writer /\ Look(p)
    <3>1. proc[p].pc = "find" /\ proc'[p].pc \in {"find", "list"} /\ proc'[p].alone = proc[p].alone
      BY <1>1, <2>3, LookStep, EndedIs DEF Keeps, Busy
    <3> QED
      BY <2>2, <3>1 DEF Busy, At
  <2>4. CASE p \in Writer /\ Save(p)
    <3>1. proc[p].pc = "find" /\ proc'[p].pc = "list" /\ proc'[p].alone = proc[p].alone
      BY <1>1, <2>4, SaveStep DEF Keeps
    <3> QED
      BY <2>2, <3>1 DEF Busy, At
  <2>5. CASE p \in Writer /\ FinishEvent(p)
    BY <1>1, <2>5, FinishStep DEF Idle, Busy
  <2>6. CASE List(p)
    <3>1. /\ proc[p].pc = "list" /\ proc'[p].alone = proc[p].alone /\ proc'[p].todo = Listed
          /\ proc'[p].got = {} /\ disk' = disk
      BY <1>1, <2>6, ListStep DEF Keeps, FilesKept
    <3>2. Exact(p)'
      BY <3>1 DEF Exact, Listed
    <3> QED
      BY <2>2, <3>1, <3>2 DEF Busy
  <2>7. CASE Scan(p)
    <3> DEFINE i == Least(proc[p].todo)
    <3>1. /\ proc[p].pc \in {"rebuild", "sign"} /\ i \in proc[p].todo /\ disk' = disk
          /\ Readable(i) /\ proc'[p].pc = proc[p].pc /\ proc'[p].alone = proc[p].alone
          /\ proc'[p].todo = proc[p].todo \ {i} /\ proc'[p].got = proc[p].got \cup {<<disk[i].kind, i>>}
      BY <1>1, <2>7, ScanStep, EndedIs DEF Keeps, Busy, FilesKept
    <3> HIDE DEF i
    <3>2. ASSUME Exact(p) PROVE Exact(p)'
      <4>1. Listed' = Listed /\ proc'[p].todo \subseteq Listed
        BY <3>1, <3>2 DEF Exact, Listed
      <4>2. Listed \ (proc[p].todo \ {i}) = (Listed \ proc[p].todo) \cup {i}
        BY <3>1, <3>2 DEF Exact
      <4>3. \A j \in Listed' \ proc'[p].todo : Readable(j)'
        BY <3>1, <3>2, <4>1, <4>2 DEF Exact, Readable
      <4>4. proc'[p].got = {<<disk[j].kind, j>> : j \in (Listed \ proc[p].todo) \cup {i}}
        BY <3>1, <3>2 DEF Exact
      <4>5. proc'[p].got = {<<disk'[j].kind, j>> : j \in Listed' \ proc'[p].todo}
        BY <3>1, <4>1, <4>2, <4>4
      <4> QED
        BY <4>1, <4>3, <4>5 DEF Exact
    <3>3. Unmet(p)' /\ (At(p, "rebuild") => Exact(p))
      BY <2>2, <3>1 DEF Busy, Lone
    <3> QED
      BY <3>1, <3>2, <3>3 DEF At
  <2>8. CASE WriteIndex(p)
    BY <1>1, <2>8, WriteIndexStep, EndedIs DEF Busy
  <2>9. CASE p \in Tidier /\ Group(p)
    <3>1. proc[p].pc = "sign" /\ proc'[p].pc = "merge" /\ proc'[p].alone = proc[p].alone
      BY <1>1, <2>9, GroupStep, EndedIs DEF Busy
    <3> QED
      BY <2>2, <3>1 DEF Busy, At
  <2>10. CASE p \in Tidier /\ Gather(p)
    <3>1. proc[p].pc = "merge" /\ proc'[p].pc = "unlink" /\ proc'[p].alone = proc[p].alone
      BY <1>1, <2>10, GatherStep, EndedIs DEF Busy
    <3> QED
      BY <2>2, <3>1 DEF Busy, At
  <2>11. CASE p \in Tidier /\ (Unlink(p) \/ Truncate(p))
    <3>1. proc[p].pc = "unlink" /\ proc'[p].pc \in {"unlink", "rewrite"} /\ proc'[p].alone = proc[p].alone
      BY <1>1, <2>11, UnlinkStep, TruncateStep DEF Keeps
    <3> QED
      BY <2>2, <3>1 DEF Busy, At
  <2>12. CASE p \in Tidier /\ Rewrite(p)
    <3>1. proc[p].pc = "rewrite" /\ proc'[p].pc = "merge" /\ proc'[p].alone = proc[p].alone
      BY <1>1, <2>12, RewriteStep
    <3> QED
      BY <2>2, <3>1 DEF Busy, At
  <2>13. CASE p \in Tidier /\ Merged(p)
    <3>1. proc[p].pc = "merge" /\ proc'[p].pc = "list" /\ proc'[p].alone = proc[p].alone
      BY <1>1, <2>13, MergedStep DEF Keeps
    <3> QED
      BY <2>2, <3>1 DEF Busy, At
  <2> QED
    BY <1>4, <2>3, <2>4, <2>5, <2>6, <2>7, <2>8, <2>9, <2>10, <2>11, <2>12, <2>13 DEF Steps
<1> QED
  BY <1>2, <1>3, <1>4

\* A call returns by writing the index, a dry run by reporting the groups.
LEMMA ReturnsWhere ==
  ASSUME Whole, Next, NEW p \in Writer \cup Tidier, Busy(p), ~Busy(p)', proc'[p].end = "returned",
         proc[p].job # FALSE
  PROVE  WriteIndex(p)
<1>1. Sound /\ Grouping /\ p \in Thread
  BY DEF Whole, Thread
<1>2. proc[p].pc \notin {"idle", "finish"} /\ proc'[p].pc \in {"idle", "finish"} /\ proc'[p].pc # proc[p].pc
  BY DEF Busy
<1>3. ASSUME NEW q \in Thread \ {p}, Others(q) PROVE FALSE
  BY <1>1, <1>2, <1>3 DEF Others
<1>4. ASSUME NEW r \in Reader, Reads(r) PROVE FALSE
  <2>1. Others(r) /\ r # p /\ r \in Thread
    BY <1>1, <1>4, ReaderStep, StoreAssumption DEF Thread
  <2> QED
    BY <1>3, <2>1
<1>5. ASSUME NEW q \in Writer \cup Tidier, Starts(q) PROVE FALSE
  <2>1. proc'[q].pc \in {"find", "sign"} /\ Joins(q)
    BY <1>1, <1>5, StartStep
  <2> QED
    BY <1>1, <1>2, <2>1 DEF Joins
<1>6. ASSUME NEW q \in Writer \cup Tidier, Die(q) PROVE FALSE
  <2>1. Others(q) /\ proc'[q].end \in {"none", "died"} /\ q \in Thread
    BY <1>1, <1>6, DieStep DEF Thread
  <2> QED
    BY <1>3, <2>1
<1>7. ASSUME NEW q \in (Writer \cup Tidier) \ {p}, Steps(q) PROVE FALSE
  <2>1. Others(q) /\ q \in Thread
    BY <1>1, <1>7, StepsAlone DEF Thread
  <2> QED
    BY <1>3, <2>1
<1>8. CASE Steps(p)
  <2>1. CASE p \in Writer /\ Look(p)
    BY <1>1, <1>2, <2>1, LookStep, EndedIs
  <2>2. CASE p \in Writer /\ Save(p)
    BY <1>1, <1>2, <2>2, SaveStep
  <2>3. CASE p \in Writer /\ FinishEvent(p)
    BY <1>1, <1>2, <2>3, FinishStep
  <2>4. CASE List(p)
    BY <1>1, <1>2, <2>4, ListStep
  <2>5. CASE Scan(p)
    BY <1>1, <1>2, <2>5, ScanStep, EndedIs
  <2>6. CASE p \in Tidier /\ (Group(p) \/ Gather(p))
    BY <1>1, <1>2, <2>6, GroupStep, GatherStep, EndedIs
  <2>7. CASE p \in Tidier /\ (Unlink(p) \/ Truncate(p) \/ Rewrite(p) \/ Merged(p))
    BY <1>1, <1>2, <2>7, UnlinkStep, TruncateStep, RewriteStep, MergedStep
  <2> QED
    BY <1>8, <2>1, <2>2, <2>3, <2>4, <2>5, <2>6, <2>7 DEF Steps
<1> QED
  BY <1>4, <1>5, <1>6, <1>7, <1>8, NextIs

\* A call that meets no other and returns leaves an exact index.
THEOREM LoneCallsIndex == Spec => LoneCallIndexes
<1>1. Init => EachLone
  <2> SUFFICES ASSUME Init PROVE EachLone
    OBVIOUS
  <2>1. \A p \in Writer \cup Tidier : proc[p].pc = "idle"
    BY InitialStore DEF Idle, Thread
  <2> QED
    BY <2>1 DEF EachLone, Lone, Busy
<1>2. Whole /\ EachLone /\ [Next]_vars => EachLone'
  <2> SUFFICES ASSUME Whole, EachLone, [Next]_vars, NEW p \in Writer \cup Tidier PROVE Lone(p)'
    BY DEF EachLone
  <2>1. CASE UNCHANGED vars
    BY <2>1 DEF vars, EachLone, Lone, Busy, Unmet, At, Exact, Listed, Readable
  <2>2. CASE Next
    <3>1. Lone(p)
      BY DEF EachLone
    <3>2. ASSUME NEW q \in Writer \cup Tidier, Steps(q) \/ Starts(q) \/ Die(q) PROVE Lone(p)'
      <4>1. CASE q = p
        BY <3>1, <3>2, <4>1, OwnLone
      <4>2. CASE q # p
        BY <3>1, <3>2, <4>2, OtherLone DEF Thread
      <4> QED
        BY <4>1, <4>2
    <3>3. ASSUME NEW r \in Reader, Reads(r) PROVE Lone(p)'
      BY <3>1, <3>3, OtherLone, StoreAssumption DEF Thread
    <3> QED
      BY <2>2, <3>2, <3>3, NextIs
  <2> QED
    BY <2>1, <2>2
<1>3. Whole /\ EachLone /\ [Next]_vars =>
        [\A p \in Writer \cup Tidier :
           Busy(p) /\ ~Busy(p)' /\ proc'[p].end = "returned" /\ proc[p].alone /\ proc[p].job # FALSE
             => index' = Entries']_vars
  <2> SUFFICES ASSUME Whole, EachLone, Next, NEW p \in Writer \cup Tidier,
                      Busy(p), ~Busy(p)', proc'[p].end = "returned", proc[p].alone, proc[p].job # FALSE
               PROVE  index' = Entries'
    OBVIOUS
  <2>1. WriteIndex(p)
    BY ReturnsWhere
  <2>2. /\ disk' = disk /\ proc[p].pc = "rebuild" /\ proc[p].todo = {} /\ index' = proc[p].got
    BY <2>1, WriteIndexStep DEF Whole
  <2>3. Exact(p)
    BY <2>2 DEF EachLone, Lone, At
  <2>4. {j \in Id : Readable(j)} = Listed \ proc[p].todo
    BY <2>2, <2>3 DEF Exact, Listed, Readable
  <2>5. Entries' = Entries
    BY <2>2 DEF Entries, Readable
  <2> QED
    BY <2>2, <2>3, <2>4, <2>5 DEF Exact, Entries
<1> QED
  BY <1>1, <1>2, <1>3, StoreIsWhole, PTL DEF Spec, LoneCallIndexes

-----------------------------------------------------------------------------
(* One consolidation at a time *)

OneAtATime == \A c, d \in Tidier : Busy(c) /\ Busy(d) => c = d

\* A write whose key is not raced overlaps no consolidation and no other write
\* of its key.
RacesSeen ==
  \A w \in Writer : Busy(w) /\ proc[w].job \notin raced =>
    \A q \in Thread \ {w} : Busy(q) => q \notin Tidier /\ (q \in Writer => proc[q].job # proc[w].job)

\* What a write still has to search names its key, if anything does.
Found(w) ==
  At(w, "find") /\ proc[w].job \notin raced =>
    \A i \in Id : Readable(i) /\ proc[w].job \in disk[i].keys => i \in proc[w].todo

Bundle(c) == proc[c].todo \cup {proc[c].canon}

\* While a group is merged, the keys of its files are those that are carried
\* over, and no other file has one of them.
Moved(c) ==
  proc[c].pc \in {"unlink", "rewrite"} =>
    /\ proc[c].canon \in Id /\ proc[c].canon \notin proc[c].todo
    /\ At(c, "rewrite") => disk[proc[c].canon] = Torn /\ proc[c].todo = {}
    /\ \A i \in Bundle(c) : Readable(i) => disk[i].keys \subseteq proc[c].moving
    /\ \A i \in Id \ Bundle(c) : Readable(i) => disk[i].keys \cap proc[c].moving \subseteq raced

\* A key whose experience is to stay: it was learned, or its write has found or
\* saved the experience.
Wanted(k) == k \in learned \/ \E w \in Writer : proc[w].pc \in {"list", "rebuild"} /\ proc[w].job = k

Safe(k) == Named(k) \/ \E c \in Tidier : k \in proc[c].moving

AllKept == \A k \in Key \ lost : Wanted(k) => Safe(k)

Stock ==
  /\ RacesSeen /\ \A w \in Writer : Found(w)
  /\ OneExperiencePerKey /\ \A c \in Tidier : Moved(c)
  /\ AllKept

\* Except where a call begins, no call becomes one that is under way, and a
\* writer's key stays.
LEMMA CallsOnlyEnd ==
  ASSUME Whole, NEW p \in Thread,
         \/ p \in Writer \cup Tidier /\ (Steps(p) \/ Die(p))
         \/ p \in Reader /\ Reads(p)
  PROVE  /\ Others(p) /\ raced' = raced /\ lost \subseteq lost'
         /\ p \in Writer \cup Tidier /\ Busy(p)' => Busy(p) /\ (p \in Writer => proc'[p].job = proc[p].job)
<1>1. Sound /\ Grouping
  BY DEF Whole
<1>2. CASE p \in Reader /\ Reads(p)
  BY <1>1, <1>2, ReaderStep, StoreAssumption DEF HistoriesKept
<1>3. CASE p \in Writer \cup Tidier /\ Die(p)
  BY <1>1, <1>3, DieStep DEF Busy
<1>4. CASE p \in Writer /\ (Look(p) \/ Save(p) \/ FinishEvent(p))
  <2>1. CASE Look(p)
    BY <1>1, <1>4, <2>1, LookStep, EndedIs DEF Busy, Keeps, HistoriesKept
  <2>2. CASE Save(p)
    BY <1>1, <1>4, <2>2, SaveStep DEF Busy, Keeps, HistoriesKept
  <2>3. CASE FinishEvent(p)
    BY <1>1, <1>4, <2>3, FinishStep DEF Busy, Idle
  <2> QED
    BY <1>4, <2>1, <2>2, <2>3
<1>5. CASE p \in Writer \cup Tidier /\ (List(p) \/ Scan(p) \/ WriteIndex(p))
  <2>1. CASE List(p)
    BY <1>1, <1>5, <2>1, ListStep DEF Busy, Keeps, HistoriesKept
  <2>2. CASE Scan(p)
    BY <1>1, <1>5, <2>2, ScanStep, EndedIs DEF Busy, Keeps, HistoriesKept
  <2>3. CASE WriteIndex(p)
    BY <1>1, <1>5, <2>3, WriteIndexStep, EndedIs DEF Busy
  <2> QED
    BY <1>5, <2>1, <2>2, <2>3
<1>6. CASE p \in Tidier /\ (Group(p) \/ Gather(p) \/ Unlink(p) \/ Truncate(p) \/ Rewrite(p) \/ Merged(p))
  <2>1. p \notin Writer
    BY <1>6, StoreAssumption
  <2>2. CASE Group(p)
    BY <1>1, <1>6, <2>1, <2>2, GroupStep, EndedIs DEF Busy, HistoriesKept
  <2>3. CASE Gather(p)
    BY <1>1, <1>6, <2>1, <2>3, GatherStep, EndedIs DEF Busy, HistoriesKept
  <2>4. CASE Unlink(p)
    BY <1>1, <1>6, <2>1, <2>4, UnlinkStep DEF Busy, HistoriesKept
  <2>5. CASE Truncate(p)
    BY <1>1, <1>6, <2>1, <2>5, TruncateStep DEF Busy, HistoriesKept
  <2>6. CASE Rewrite(p)
    BY <1>1, <1>6, <2>1, <2>6, RewriteStep DEF Busy, HistoriesKept
  <2>7. CASE Merged(p)
    BY <1>1, <1>6, <2>1, <2>7, MergedStep DEF Busy, HistoriesKept
  <2> QED
    BY <1>6, <2>2, <2>3, <2>4, <2>5, <2>6, <2>7
<1> QED
  BY <1>2, <1>3, <1>4, <1>5, <1>6 DEF Steps

\* What has raced has raced: the history of overlaps only grows.
LEMMA NextRaces ==
  ASSUME Whole, RacesSeen, Next
  PROVE  RacesSeen' /\ raced \subseteq raced' /\ lost \subseteq lost'
<1>1. ASSUME NEW p \in Thread,
             \/ p \in Writer \cup Tidier /\ (Steps(p) \/ Die(p))
             \/ p \in Reader /\ Reads(p)
      PROVE  RacesSeen' /\ raced \subseteq raced' /\ lost \subseteq lost'
  <2>1. \A q \in Writer \cup Tidier : Busy(q)' => Busy(q) /\ (q \in Writer => proc'[q].job = proc[q].job)
    BY <1>1, CallsOnlyEnd DEF Others, Busy, Thread
  <2>2. raced' = raced /\ lost \subseteq lost'
    BY <1>1, CallsOnlyEnd
  <2>3. ASSUME NEW w \in Writer, Busy(w)', proc'[w].job \notin raced', NEW q \in Thread \ {w}, Busy(q)'
        PROVE  q \notin Tidier /\ (q \in Writer => proc'[q].job # proc'[w].job)
    BY <2>1, <2>2, <2>3 DEF RacesSeen
  <2> QED
    BY <2>2, <2>3 DEF RacesSeen
<1>2. ASSUME NEW p \in Writer \cup Tidier, Starts(p)
      PROVE  RacesSeen' /\ raced \subseteq raced' /\ lost \subseteq lost'
  <2>1. /\ raced \subseteq raced' /\ lost' = lost /\ p \in Thread
        /\ p \in Writer => proc'[p].job \in raced' \/ \A q \in Thread \ {p} : Busy(q) =>
                             q \notin Tidier /\ (q \in Writer => proc[q].job # proc'[p].job)
        /\ p \in Tidier => \A w \in Writer : Busy(w) => proc[w].job \in raced'
        /\ Joins(p)
    BY <1>2, StartStep DEF Whole, Thread
  <2>2. ASSUME NEW w \in Writer, Busy(w)', proc'[w].job \notin raced', NEW q \in Thread \ {w}, Busy(q)'
        PROVE  q \notin Tidier /\ (q \in Writer => proc'[q].job # proc'[w].job)
    <3>0. w \in Thread
      BY DEF Thread
    <3>1. CASE w = p
      BY <2>1, <2>2, <3>1 DEF Busy, Joins
    <3>2. CASE q = p
      BY <2>1, <2>2, <3>0, <3>2 DEF Busy, Joins
    <3>3. CASE w # p /\ q # p
      BY <2>1, <2>2, <3>0, <3>3 DEF Busy, Joins, RacesSeen
    <3> QED
      BY <3>1, <3>2, <3>3
  <2> QED
    BY <2>1, <2>2 DEF RacesSeen
<1> QED
  BY <1>1, <1>2, NextIs DEF Thread

\* Four steps change the files.
Changes(p) == \/ p \in Writer /\ Save(p)
              \/ p \in Tidier /\ (Unlink(p) \/ Truncate(p) \/ Rewrite(p))

\* Files change only by a save, an unlink, a truncation or a rewrite.
LEMMA QuietSteps ==
  ASSUME Whole, Next
  PROVE  disk' = disk \/ \E p \in Writer \cup Tidier : Changes(p)
<1>1. Sound /\ Grouping
  BY DEF Whole
<1>2. ASSUME NEW r \in Reader, Reads(r) PROVE disk' = disk
  BY <1>1, <1>2, ReaderStep DEF FilesKept
<1>3. ASSUME NEW p \in Writer \cup Tidier, Starts(p) \/ Die(p) PROVE disk' = disk
  BY <1>1, <1>3, StartStep, DieStep DEF FilesKept
<1>4. ASSUME NEW p \in Writer \cup Tidier, Steps(p) PROVE disk' = disk \/ Changes(p)
  <2>1. CASE p \in Writer /\ (Look(p) \/ FinishEvent(p))
    BY <1>1, <2>1, LookStep, FinishStep DEF FilesKept
  <2>2. CASE List(p) \/ Scan(p) \/ WriteIndex(p)
    BY <1>1, <2>2, ListStep, ScanStep, WriteIndexStep DEF FilesKept
  <2>3. CASE p \in Tidier /\ (Group(p) \/ Gather(p) \/ Merged(p))
    BY <1>1, <2>3, GroupStep, GatherStep, MergedStep DEF FilesKept
  <2> QED
    BY <1>4, <2>1, <2>2, <2>3 DEF Steps, Changes
<1> QED
  BY <1>2, <1>3, <1>4, NextIs

\* Who changes the files does so within a call and moves alone.
LEMMA ChangesBusy ==
  ASSUME Whole, NEW p \in Writer \cup Tidier, Changes(p)
  PROVE  Others(p) /\ HistoriesKept /\ Busy(p) /\ p \in Thread /\ (p \in Writer => proc[p].pc = "find")
         /\ proc'[p].pc \in {"list", "unlink", "rewrite", "merge"}
<1>1. Sound /\ Grouping /\ p \in Thread /\ (p \in Tidier => p \notin Writer)
  BY StoreAssumption DEF Whole, Thread
<1>2. CASE p \in Writer /\ Save(p)
  BY <1>1, <1>2, SaveStep DEF Busy
<1>3. CASE p \in Tidier /\ Unlink(p)
  BY <1>1, <1>3, UnlinkStep DEF Busy
<1>4. CASE p \in Tidier /\ Truncate(p)
  BY <1>1, <1>4, TruncateStep DEF Busy
<1>5. CASE p \in Tidier /\ Rewrite(p)
  BY <1>1, <1>5, RewriteStep DEF Busy
<1> QED
  BY <1>2, <1>3, <1>4, <1>5 DEF Changes

\* A thread that another one's step finds under way is still where it was.
LEMMA OthersStay ==
  ASSUME Whole, Next, NEW p \in Thread
  PROVE  \/ p \in Writer \cup Tidier /\ (Steps(p) \/ Starts(p) \/ Die(p))
         \/ p \in Reader
         \/ /\ proc'[p].pc = proc[p].pc /\ proc'[p].job = proc[p].job /\ proc'[p].todo = proc[p].todo
            /\ proc'[p].got = proc[p].got /\ proc'[p].canon = proc[p].canon /\ proc'[p].moving = proc[p].moving
<1>1. ASSUME NEW q \in Thread \ {p}, Others(q)
      PROVE  proc'[p] = proc[p]
  BY <1>1 DEF Others
<1>2. ASSUME NEW q \in Writer \cup Tidier, q # p, Steps(q) \/ Die(q)
      PROVE  proc'[p] = proc[p]
  BY <1>1, <1>2, CallsOnlyEnd DEF Thread
<1>3. ASSUME NEW r \in Reader, r # p, Reads(r)
      PROVE  proc'[p] = proc[p]
  BY <1>1, <1>3, CallsOnlyEnd DEF Thread
<1>4. ASSUME NEW q \in Writer \cup Tidier, q # p, Starts(q)
      PROVE  /\ proc'[p].pc = proc[p].pc /\ proc'[p].job = proc[p].job /\ proc'[p].todo = proc[p].todo
             /\ proc'[p].got = proc[p].got /\ proc'[p].canon = proc[p].canon /\ proc'[p].moving = proc[p].moving
  <2>1. Sound /\ Starts(q)
    BY <1>4 DEF Whole
  <2>2. Joins(q)
    BY <2>1, StartStep
  <2> QED
    BY <1>4, <2>2 DEF Joins
<1> QED
  BY <1>2, <1>3, <1>4, NextIs

\* What `find_by_logical_key` has read so far stays true of the files, unless a race is noted.
LEMMA NextFound ==
  ASSUME Whole, RacesSeen, Next, NEW w \in Writer, Found(w)
  PROVE  Found(w)'
<1> SUFFICES ASSUME At(w, "find")', proc'[w].job \notin raced',
                    NEW i \in Id, Readable(i)', proc'[w].job \in disk'[i].keys
             PROVE  i \in proc'[w].todo
  BY DEF Found
<1>1. Sound /\ Grouping /\ w \in Thread /\ w \notin Reader /\ w \notin Tidier /\ proc'[w].pc = "find"
  BY StoreAssumption DEF Whole, Thread, At
<1>2. raced \subseteq raced'
  BY NextRaces
<1>3. CASE Starts(w)
  <2>1. proc'[w].todo = Listed /\ disk' = disk
    BY <1>1, <1>3, StartStep DEF FilesKept
  <2> QED
    BY <2>1 DEF Listed, Readable
<1>4. CASE Steps(w)
  <2>1. Look(w)
    BY <1>1, <1>4, SaveStep, FinishStep, ListStep, ScanStep, WriteIndexStep, EndedIs DEF Steps, Idle
  <2>2. /\ proc[w].pc = "find" /\ disk' = disk /\ proc'[w].job = proc[w].job /\ raced' = raced
        /\ proc'[w].todo = proc[w].todo \ {Least(proc[w].todo)}
        /\ ~(Readable(Least(proc[w].todo)) /\ proc[w].job \in disk[Least(proc[w].todo)].keys)
    BY <1>1, <2>1, LookStep, EndedIs DEF Keeps, FilesKept, HistoriesKept
  <2>3. i \in proc[w].todo
    BY <2>2 DEF Found, At, Readable
  <2> QED
    BY <2>2, <2>3 DEF Readable
<1>5. CASE ~(Starts(w) \/ Steps(w))
  <2>1. ~Die(w)
    BY <1>1, DieStep
  <2>2. proc'[w].pc = proc[w].pc /\ proc'[w].job = proc[w].job /\ proc'[w].todo = proc[w].todo
    BY <1>1, <1>5, <2>1, OthersStay
  <2>3. Busy(w) /\ proc[w].job \notin raced /\ At(w, "find")
    BY <1>1, <1>2, <2>2 DEF Busy, At
  <2>4. CASE disk' = disk
    BY <2>2, <2>3, <2>4 DEF Found, Readable
  <2>5. ASSUME NEW p \in Writer \cup Tidier, Changes(p) PROVE i \in proc'[w].todo
    <3>1. Busy(p) /\ p \in Thread /\ p # w
      BY <1>1, <1>5, <2>5, ChangesBusy DEF Changes, Steps
    <3>2. p \notin Tidier /\ proc[p].job # proc[w].job
      BY <2>3, <2>5, <3>1 DEF RacesSeen
    <3>3. Save(p)
      BY <2>5, <3>2 DEF Changes
    <3>4. PICK j \in Id : disk'[j].keys = {proc[p].job} /\ \A l \in Id \ {j} : disk'[l] = disk[l]
      BY <1>1, <2>5, <3>2, <3>3, SaveStep
    <3>5. i # j
      BY <2>2, <3>2, <3>4
    <3> QED
      BY <2>2, <2>3, <3>4, <3>5 DEF Found, Readable
  <2> QED
    BY <2>4, <2>5, QuietSteps
<1> QED
  BY <1>3, <1>4, <1>5

\* No step makes a second experience of a key, unless its write raced.
LEMMA NextOnce ==
  ASSUME Whole, Stock, Next
  PROVE  OneExperiencePerKey'
<1> SUFFICES ASSUME NEW i \in Id, NEW j \in Id, Readable(i)', Readable(j)',
                    NEW k \in (disk'[i].keys \cap disk'[j].keys) \ raced', i # j
             PROVE  FALSE
  BY DEF OneExperiencePerKey
<1>1. Sound /\ Grouping /\ OneExperiencePerKey /\ RacesSeen
  BY DEF Whole, Stock
<1>2. k \notin raced
  BY <1>1, NextRaces
<1>3. \A a, b \in Id : Readable(a) /\ Readable(b) /\ k \in disk[a].keys /\ k \in disk[b].keys => a = b
  BY <1>1, <1>2 DEF OneExperiencePerKey
<1>4. CASE disk' = disk
  BY <1>3, <1>4 DEF Readable
<1>5. ASSUME NEW w \in Writer, Save(w) PROVE FALSE
  <2>1. PICK n \in Id \ used : disk'[n].keys = {proc[w].job} /\ \A l \in Id \ {n} : disk'[l] = disk[l]
    BY <1>1, <1>5, SaveStep
  <2>2. proc[w].pc = "find" /\ proc[w].todo = {}
    BY <1>1, <1>5, SaveStep
  <2>3. \A l \in Id : Readable(l) /\ proc[w].job \in disk[l].keys => proc[w].job \in raced
    BY <2>2 DEF Stock, Found, At
  <2>4. i = n \/ j = n
    BY <1>3, <2>1 DEF Readable
  <2>5. k = proc[w].job
    BY <2>1, <2>4
  <2> QED
    BY <1>2, <2>1, <2>3, <2>4, <2>5 DEF Readable
<1>6. ASSUME NEW c \in Tidier, Unlink(c) PROVE FALSE
  <2>1. PICK n \in Id : disk'[n] = NoFile /\ \A l \in Id \ {n} : disk'[l] = disk[l]
    BY <1>1, <1>6, UnlinkStep
  <2> QED
    BY <1>3, <2>1 DEF Readable
<1>7. ASSUME NEW c \in Tidier, Truncate(c) PROVE FALSE
  <2>1. PICK n \in Id : disk'[n] = Torn /\ \A l \in Id \ {n} : disk'[l] = disk[l]
    BY <1>1, <1>7, TruncateStep
  <2> QED
    BY <1>3, <2>1 DEF Readable
<1>8. ASSUME NEW c \in Tidier, Rewrite(c) PROVE FALSE
  <2> DEFINE n == proc[c].canon
  <2>1. /\ n \in Id /\ disk'[n].keys = proc[c].moving /\ proc[c].pc = "rewrite"
        /\ \A l \in Id \ {n} : disk'[l] = disk[l]
    BY <1>1, <1>8, RewriteStep
  <2>2. \A l \in Id \ {n} : Readable(l) => disk[l].keys \cap proc[c].moving \subseteq raced
    BY <2>1 DEF Stock, Moved, At, Bundle
  <2> HIDE DEF n
  <2>3. i = n \/ j = n
    BY <1>3, <2>1 DEF Readable
  <2> QED
    BY <1>2, <2>1, <2>2, <2>3 DEF Readable
<1> QED
  BY <1>4, <1>5, <1>6, <1>7, <1>8, QuietSteps DEF Changes

\* What a consolidation has unlinked, it still holds in memory.
LEMMA NextMoved ==
  ASSUME Whole, Stock, OneAtATime, Next, NEW c \in Tidier
  PROVE  Moved(c)'
<1> SUFFICES ASSUME proc'[c].pc \in {"unlink", "rewrite"} PROVE Moved(c)'
  BY DEF Moved
<1> DEFINE canon == proc'[c].canon
           todo == proc'[c].todo
           moving == proc'[c].moving
<1>1. Sound /\ Grouping /\ c \in Thread /\ c \notin Writer /\ c \notin Reader
  BY StoreAssumption DEF Whole, Thread
<1>2. raced \subseteq raced'
  BY NextRaces DEF Stock
<1>3. Moved(c)
  BY DEF Stock
\* What Moved(c)' says, with the next values named.
<1>4. SUFFICES /\ canon \in Id /\ canon \notin todo
               /\ proc'[c].pc = "rewrite" => disk'[canon] = Torn /\ todo = {}
               /\ \A i \in todo \cup {canon} : Readable(i)' => disk'[i].keys \subseteq moving
               /\ \A i \in Id \ (todo \cup {canon}) : Readable(i)' => disk'[i].keys \cap moving \subseteq raced'
  BY DEF Moved, At, Bundle
<1>5. CASE Steps(c)
  <2>1. Gather(c) \/ Unlink(c) \/ Truncate(c)
    BY <1>1, <1>5, ListStep, ScanStep, WriteIndexStep, GroupStep, RewriteStep, MergedStep,
           EndedIs DEF Steps
  <2>2. CASE Gather(c)
    <3>1. /\ proc'[c].pc = "unlink" /\ canon \in Id /\ canon \notin todo /\ disk' = disk
          /\ \A k \in Key : k \in moving <=> \E i \in todo \cup {canon} : Readable(i) /\ k \in disk[i].keys
      BY <1>1, <2>2, GatherStep, EndedIs DEF FilesKept
    <3>2. todo \cup {canon} \subseteq Id
      <4>1. proc' \in [Thread -> ProcState]
        BY <1>1, <2>2, GatherStep DEF Sound, Threads
      <4> QED
        BY <1>1, <3>1, <4>1 DEF ProcState
    <3>3. \A i \in Id : Readable(i) => disk[i].keys \subseteq Key
      BY <1>1, ReadableFiles, FilesAreReal DEF Sound, Files
    <3> HIDE DEF canon, todo, moving
    <3>4. \A i \in todo \cup {canon} : Readable(i) => disk[i].keys \subseteq moving
      BY <3>1, <3>2, <3>3
    <3>5. ASSUME NEW i \in Id \ (todo \cup {canon}), Readable(i), NEW k \in disk[i].keys \cap moving
          PROVE  k \in raced
      <4>1. k \in Key
        BY <3>3, <3>5
      <4>2. PICK j \in todo \cup {canon} : Readable(j) /\ k \in disk[j].keys
        BY <3>1, <4>1
      <4>3. j \in Id /\ j # i
        BY <3>2
      <4> QED
        BY <3>5, <4>2, <4>3 DEF Stock, OneExperiencePerKey
    <3> QED
      BY <1>2, <3>1, <3>4, <3>5 DEF Readable
  <2>3. CASE Unlink(c)
    <3>1. /\ proc[c].pc = "unlink" /\ proc'[c].pc = "unlink" /\ canon = proc[c].canon /\ moving = proc[c].moving
      BY <1>1, <2>3, UnlinkStep
    <3>2. PICK n \in proc[c].todo : /\ n \in Id /\ disk'[n] = NoFile /\ todo = proc[c].todo \ {n}
                                    /\ \A j \in Id \ {n} : disk'[j] = disk[j]
      BY <1>1, <2>3, UnlinkStep
    <3>3. proc[c].todo \subseteq Id
      BY <1>1 DEF Sound, Threads, ProcState
    <3>4. /\ canon \in Id /\ canon \notin proc[c].todo
          /\ \A i \in proc[c].todo \cup {canon} : Readable(i) => disk[i].keys \subseteq moving
          /\ \A i \in Id \ (proc[c].todo \cup {canon}) : Readable(i) => disk[i].keys \cap moving \subseteq raced
      BY <1>3, <3>1 DEF Moved, Bundle
    <3> HIDE DEF canon, todo, moving
    <3>5. \A i \in Id : Readable(i)' => i # n /\ Readable(i) /\ disk'[i] = disk[i]
      BY <3>2 DEF Readable
    <3>6. \A i \in todo \cup {canon} : Readable(i)' => disk'[i].keys \subseteq moving
      BY <3>2, <3>3, <3>4, <3>5
    <3>7. \A i \in Id \ (todo \cup {canon}) : Readable(i)' => disk'[i].keys \cap moving \subseteq raced'
      BY <1>2, <3>2, <3>4, <3>5
    <3> QED
      BY <3>1, <3>2, <3>4, <3>6, <3>7
  <2>4. CASE Truncate(c)
    <3>1. /\ proc[c].pc = "unlink" /\ proc[c].todo = {} /\ canon = proc[c].canon /\ moving = proc[c].moving
          /\ todo = {} /\ canon \in Id
          /\ disk'[canon] = Torn /\ \A j \in Id \ {canon} : disk'[j] = disk[j]
      BY <1>1, <2>4, TruncateStep
    <3>2. \A i \in Id \ {canon} : Readable(i) => disk[i].keys \cap moving \subseteq raced
      BY <1>3, <3>1 DEF Moved, Bundle
    <3> HIDE DEF canon, todo, moving
    <3>3. \A i \in Id : Readable(i)' => i # canon /\ Readable(i) /\ disk'[i] = disk[i]
      BY <3>1 DEF Readable
    <3> QED
      BY <1>2, <3>1, <3>2, <3>3
  <2> QED
    BY <2>1, <2>2, <2>3, <2>4
<1>6. CASE ~Steps(c)
  <2>1. ~Starts(c) /\ ~Die(c)
    BY <1>1, StartStep, DieStep
  <2>2. /\ proc'[c].pc = proc[c].pc /\ canon = proc[c].canon /\ todo = proc[c].todo /\ moving = proc[c].moving
    BY <1>1, <1>6, <2>1, OthersStay
  <2>3. Busy(c)
    BY <2>2 DEF Busy
  <2>4. /\ canon \in Id /\ canon \notin todo
        /\ proc[c].pc = "rewrite" => disk[canon] = Torn /\ todo = {}
        /\ \A i \in todo \cup {canon} : Readable(i) => disk[i].keys \subseteq moving
        /\ \A i \in Id \ (todo \cup {canon}) : Readable(i) => disk[i].keys \cap moving \subseteq raced
    BY <1>3, <2>2 DEF Moved, Bundle, At
  <2>5. canon \in used /\ todo \subseteq used /\ todo \subseteq Id
    <3>1. OnUsed(proc[c], used) /\ proc[c] \in ProcState
      BY <1>1 DEF Sound, Threads, Fits
    <3> QED
      BY <2>2, <2>4, <3>1 DEF OnUsed, ProcState, Id
  <2> HIDE DEF canon, todo, moving
  <2>6. CASE disk' = disk
    BY <1>2, <2>2, <2>4, <2>6 DEF Readable
  <2>7. ASSUME NEW p \in Writer \cup Tidier, Changes(p)
        PROVE  /\ proc'[c].pc = "rewrite" => disk'[canon] = Torn
               /\ \A i \in todo \cup {canon} : Readable(i)' => disk'[i].keys \subseteq moving
               /\ \A i \in Id \ (todo \cup {canon}) : Readable(i)' => disk'[i].keys \cap moving \subseteq raced'
    <3>1. Busy(p) /\ p \in Thread /\ p # c
      BY <1>6, <2>7, ChangesBusy DEF Changes, Steps
    <3>2. p \in Writer /\ p \notin Tidier /\ Save(p)
      BY <2>3, <2>7, <3>1 DEF OneAtATime, Changes
    <3>3. PICK n \in Id \ used : disk'[n].keys = {proc[p].job} /\ \A l \in Id \ {n} : disk'[l] = disk[l]
      BY <1>1, <3>2, SaveStep
    <3>4. proc[p].job \in raced
      BY <1>1, <2>3, <3>1, <3>2 DEF Stock, RacesSeen
    <3>5. canon # n /\ n \notin todo
      BY <2>5, <3>3
    <3>6. \A i \in Id \ {n} : Readable(i)' = Readable(i)
      BY <3>3 DEF Readable
    <3> QED
      BY <1>2, <2>2, <2>4, <2>5, <3>3, <3>4, <3>5, <3>6
  <2> QED
    BY <2>2, <2>4, <2>6, <2>7, QuietSteps
<1> QED
  BY <1>5, <1>6

\* A key becomes one to be kept only when an experience names it.
LEMMA WantedNamed ==
  ASSUME Whole, Next, NEW k \in Key, Wanted(k)', ~Wanted(k)
  PROVE  Named(k)'
<1>1. Sound /\ Grouping
  BY DEF Whole
<1>2. ASSUME NEW w \in Writer, Look(w), proc'[w].pc \in {"list", "rebuild"}, proc'[w].job = k PROVE Named(k)'
  <2>1. /\ Least(proc[w].todo) \in Id /\ disk' = disk /\ proc'[w].job = proc[w].job
        /\ Readable(Least(proc[w].todo)) /\ proc[w].job \in disk[Least(proc[w].todo)].keys
    <3>1. proc[w].todo \subseteq Id
      BY <1>1 DEF Sound, Threads, ProcState, Thread
    <3> QED
      BY <1>1, <1>2, <3>1, LookStep, EndedIs DEF Keeps, FilesKept, Thread
  <2> QED
    BY <1>2, <2>1 DEF Named, Readable
<1>3. ASSUME NEW w \in Writer, Save(w), proc'[w].job = k PROVE Named(k)'
  <2>1. proc'[w].job = proc[w].job
    BY <1>1, <1>3, SaveStep DEF Keeps
  <2>2. PICK n \in Id : disk'[n] \in File /\ disk'[n].keys = {proc[w].job}
    BY <1>1, <1>3, SaveStep
  <2> QED
    BY <1>3, <2>1, <2>2, FilesAreReal DEF Named, Readable
<1>4. CASE k \in learned'
  <2>1. PICK w \in Writer : WriteIndex(w) /\ proc[w].job = k
    <3>1. k \notin learned
      BY DEF Wanted
    <3>2. ASSUME NEW p \in Writer \cup Tidier, Steps(p) PROVE \E w \in Writer : WriteIndex(w) /\ proc[w].job = k
      <4>1. WriteIndex(p)
        BY <1>1, <1>4, <3>1, <3>2, StepsLearn
      <4> QED
        BY <1>1, <1>4, <3>1, <4>1, WriteIndexStep
    <3>3. ASSUME NEW p \in Writer \cup Tidier, Starts(p) \/ Die(p) PROVE FALSE
      BY <1>1, <1>4, <3>1, <3>3, StartStep, DieStep
    <3>4. ASSUME NEW r \in Reader, Reads(r) PROVE FALSE
      BY <1>1, <1>4, <3>1, <3>4, ReaderStep DEF HistoriesKept
    <3> QED
      BY <3>2, <3>3, <3>4, NextIs
  <2>2. proc[w].pc = "rebuild"
    BY <1>1, <2>1, WriteIndexStep
  <2> QED
    BY <2>1, <2>2 DEF Wanted
<1>5. ASSUME NEW w \in Writer, proc'[w].pc \in {"list", "rebuild"}, proc'[w].job = k PROVE Named(k)'
  <2>1. w \in Thread /\ w \notin Reader /\ w \notin Tidier
    BY StoreAssumption DEF Thread
  <2>2. ~(proc[w].pc \in {"list", "rebuild"} /\ proc[w].job = k)
    BY DEF Wanted
  <2>3. Steps(w)
    <3>1. ~Starts(w) /\ ~Die(w)
      BY <1>1, <1>5, <2>1, StartStep, DieStep
    <3> QED
      BY <1>5, <2>1, <2>2, <3>1, OthersStay
  <2>4. ~FinishEvent(w) /\ ~List(w) /\ ~Scan(w) /\ ~WriteIndex(w)
    BY <1>1, <1>5, <2>1, <2>2, FinishStep, ListStep, ScanStep, WriteIndexStep, EndedIs DEF Keeps,
           Idle
  <2> QED
    BY <1>2, <1>3, <1>5, <2>1, <2>3, <2>4 DEF Steps
<1> QED
  BY <1>4, <1>5 DEF Wanted

\* A key that is named or carried over stays so, unless the consolidator that
\* carries it dies.
LEMMA StaysSafe ==
  ASSUME Whole, Stock, Next, NEW k \in Key, Safe(k), k \notin lost'
  PROVE  Safe(k)'
<1>1. Sound /\ Grouping
  BY DEF Whole
<1>2. ASSUME Named(k) PROVE Safe(k)'
  <2>1. PICK i \in Id : Readable(i) /\ k \in disk[i].keys
    BY <1>2 DEF Named
  <2>2. CASE disk' = disk
    BY <2>1, <2>2 DEF Safe, Named, Readable
  <2>3. ASSUME NEW w \in Writer, Save(w) PROVE Safe(k)'
    <3>1. PICK n \in Id \ used : disk[n] = NoFile /\ \A l \in Id \ {n} : disk'[l] = disk[l]
      BY <1>1, <2>3, SaveStep
    <3>2. i # n
      BY <2>1, <3>1 DEF Readable
    <3> QED
      BY <2>1, <3>1, <3>2 DEF Safe, Named, Readable
  <2>4. ASSUME NEW c \in Tidier, Unlink(c) PROVE Safe(k)'
    <3>1. PICK n \in proc[c].todo : \A l \in Id \ {n} : disk'[l] = disk[l]
      BY <1>1, <2>4, UnlinkStep
    <3>2. proc[c].pc = "unlink" /\ proc'[c].moving = proc[c].moving
      BY <1>1, <2>4, UnlinkStep
    <3>3. CASE i = n
      BY <2>1, <3>1, <3>2, <3>3 DEF Stock, Moved, Bundle, Safe
    <3>4. CASE i # n
      BY <2>1, <3>1, <3>4 DEF Safe, Named, Readable
    <3> QED
      BY <3>3, <3>4
  <2>5. ASSUME NEW c \in Tidier, Truncate(c) PROVE Safe(k)'
    <3>1. /\ proc[c].pc = "unlink" /\ proc'[c].moving = proc[c].moving
          /\ \A l \in Id \ {proc[c].canon} : disk'[l] = disk[l]
      BY <1>1, <2>5, TruncateStep
    <3>2. CASE i = proc[c].canon
      BY <2>1, <3>1, <3>2 DEF Stock, Moved, Bundle, Safe
    <3>3. CASE i # proc[c].canon
      BY <2>1, <3>1, <3>3 DEF Safe, Named, Readable
    <3> QED
      BY <3>2, <3>3
  <2>6. ASSUME NEW c \in Tidier, Rewrite(c) PROVE Safe(k)'
    <3>1. proc[c].pc = "rewrite" /\ \A l \in Id \ {proc[c].canon} : disk'[l] = disk[l]
      BY <1>1, <2>6, RewriteStep
    <3>2. disk[proc[c].canon] = Torn
      BY <3>1 DEF Stock, Moved, At
    <3>3. i # proc[c].canon
      BY <2>1, <3>2 DEF Readable
    <3> QED
      BY <2>1, <3>1, <3>3 DEF Safe, Named, Readable
  <2> QED
    BY <2>2, <2>3, <2>4, <2>5, <2>6, QuietSteps DEF Changes
<1>3. ASSUME NEW c \in Tidier, k \in proc[c].moving PROVE Safe(k)'
  <2>1. c \in Thread /\ c \notin Reader /\ c \notin Writer /\ proc[c].pc \in {"unlink", "rewrite"}
    <3>1. c \in Thread /\ c \notin Reader /\ c \notin Writer
      BY StoreAssumption DEF Thread
    <3> QED
      BY <1>1, <1>3, <3>1 DEF Sound, Threads, Fits, PlaysRole
  <2>2. CASE proc'[c].moving = proc[c].moving
    BY <1>3, <2>2 DEF Safe
  <2>3. CASE Die(c)
    <3>1. lost' = lost \cup {l \in proc[c].moving : ~Named(l)}
      BY <1>1, <2>3, DieStep
    <3>2. Named(k)
      BY <1>3, <3>1
    <3> QED
      BY <1>2, <3>2
  <2>4. CASE Steps(c)
    <3>1. CASE Rewrite(c)
      <4>1. proc[c].canon \in Id /\ disk'[proc[c].canon] \in File /\ disk'[proc[c].canon].keys = proc[c].moving
        BY <1>1, <3>1, RewriteStep
      <4> QED
        BY <1>3, <4>1, FilesAreReal DEF Safe, Named, Readable
    <3>2. CASE ~Rewrite(c)
      <4>1. Unlink(c) \/ Truncate(c)
        BY <1>1, <2>1, <2>4, <3>2, ListStep, ScanStep, WriteIndexStep, GroupStep, GatherStep,
               MergedStep DEF Steps
      <4> QED
        BY <1>1, <2>2, <4>1, UnlinkStep, TruncateStep
    <3> QED
      BY <3>1, <3>2
  <2>5. ~Starts(c)
    BY <1>1, <2>1, StartStep
  <2> QED
    BY <2>1, <2>2, <2>3, <2>4, <2>5, OthersStay
<1> QED
  BY <1>2, <1>3 DEF Safe

\* Every step preserves the invariant, while consolidations do not overlap.
LEMMA NextStock ==
  ASSUME Whole, Stock, OneAtATime, [Next]_vars
  PROVE  Stock'
<1>1. CASE UNCHANGED vars
  <2> USE <1>1 DEF vars
  <2>1. RacesSeen'
    BY DEF Stock, RacesSeen, Busy
  <2>2. \A w \in Writer : Found(w)'
    BY DEF Stock, Found, At, Readable
  <2>3. OneExperiencePerKey'
    BY DEF Stock, OneExperiencePerKey, Readable
  <2>4. \A c \in Tidier : Moved(c)'
    BY DEF Stock, Moved, Bundle, At, Readable
  <2>5. AllKept'
    BY DEF Stock, AllKept, Wanted, Safe, Named, Readable
  <2> QED
    BY <2>1, <2>2, <2>3, <2>4, <2>5 DEF Stock
<1>2. CASE Next
  <2>1. RacesSeen' /\ lost \subseteq lost'
    BY <1>2, NextRaces DEF Stock
  <2>2. \A w \in Writer : Found(w)'
    BY <1>2, NextFound DEF Stock
  <2>3. OneExperiencePerKey'
    BY <1>2, NextOnce
  <2>4. \A c \in Tidier : Moved(c)'
    BY <1>2, NextMoved
  <2>5. ASSUME NEW k \in Key, k \notin lost', Wanted(k)' PROVE Safe(k)'
    <3>1. CASE Wanted(k)
      <4>1. Safe(k)
        BY <2>1, <2>5, <3>1 DEF Stock, AllKept
      <4> QED
        BY <1>2, <2>5, <4>1, StaysSafe
    <3>2. CASE ~Wanted(k)
      BY <1>2, <2>5, <3>2, WantedNamed DEF Safe
    <3> QED
      BY <3>1, <3>2
  <2>6. AllKept'
    BY <2>5 DEF AllKept
  <2> QED
    BY <2>1, <2>2, <2>3, <2>4, <2>6 DEF Stock
<1> QED
  BY <1>1, <1>2

\* The directory the program starts with satisfies it.
LEMMA InitStock == Init => Stock
<1> SUFFICES ASSUME Init PROVE Stock
  OBVIOUS
<1>1. \A p \in Thread : proc[p].pc = "idle"
  BY InitialStore DEF Idle
<1>2. RacesSeen /\ \A w \in Writer : Found(w)
  BY <1>1 DEF RacesSeen, Found, Busy, At, Thread
<1>3. \A c \in Tidier : Moved(c)
  BY <1>1 DEF Moved, Thread
<1>4. OneExperiencePerKey
  BY InitialStore DEF OneExperiencePerKey
<1>5. \A k : Wanted(k) => k \in learned
  BY <1>1 DEF Wanted, Thread
<1>6. AllKept
  BY <1>5, InitialStore DEF AllKept, Safe
<1> QED
  BY <1>2, <1>3, <1>4, <1>6 DEF Stock

\* While consolidations do not overlap each other, the invariant above holds,
\* whatever else overlaps and dies.
LEMMA StockHolds == Spec /\ []OneAtATime => []Stock
  BY StoreIsWhole, InitStock, NextStock, PTL DEF Spec

\* An attempt is learned once: while consolidations do not overlap each other,
\* two files name a key only if two writes of the key overlapped or one
\* overlapped a consolidation.
THEOREM LearnedOnce == Spec /\ []OneAtATime => []OneExperiencePerKey
<1>1. Stock => OneExperiencePerKey
  BY DEF Stock
<1> QED
  BY <1>1, StockHolds, PTL

\* What was learned stays learned: while consolidations do not overlap each
\* other, only one that dies between removing files and rewriting the one it
\* keeps loses keys.
THEOREM NothingIsForgotten == Spec /\ []OneAtATime => []LearnedKept
<1>1. Whole /\ Stock => LearnedKept
  BY DEF Whole, Sound, Histories, Stock, AllKept, Wanted, Safe, LearnedKept
<1> QED
  BY <1>1, StoreIsWhole, StockHolds, PTL
=============================================================================
