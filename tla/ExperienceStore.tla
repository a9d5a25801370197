------------------------------ MODULE ExperienceStore ------------------------------
(***************************************************************************)
(* The store of confirmed experiences: one Markdown file per experience    *)
(* and a keyword index that is rebuilt from all of them.  SUCCESS events   *)
(* write experiences, repair runs retrieve them, and the command line      *)
(* merges equivalent ones.  Nothing locks the directory, so the listing,   *)
(* every read and every write of a call are steps of their own.            *)
(*                                                                         *)
(* A file is what the calls tell apart: the logical keys it names and its  *)
(* kind, that is its keywords together with the shape of its modification. *)
(***************************************************************************)
EXTENDS Naturals, FiniteSets

CONSTANTS
  Writer, Reader, Tidier,   \* threads that write, that retrieve, and runs of the consolidator
  Key,         \* logical keys: session_id:attempt_id
  Kind, KindOf,   \* kinds of experience, and the kind of each key's experience
  Unknown,     \* the keyword whose retrieval scans every file
  NoFile, Torn,   \* no such file; a file that is truncated and not yet rewritten
  Known,       \* keys whose experience is there from the start
  MaxFiles, MaxWrites, MaxDeaths   \* bounds: identifiers, writes begun, deaths

ASSUME StoreAssumption ==
  /\ Writer \cap (Reader \cup Tidier) = {} /\ Reader \cap Tidier = {}
  /\ KindOf \in [Key -> Kind] /\ Unknown \notin Kind
  /\ {MaxFiles, MaxWrites, MaxDeaths} \subseteq Nat
  /\ Known \subseteq Key /\ Cardinality(Known) + MaxWrites <= MaxFiles
  /\ {NoFile, Torn} \cap [keys : SUBSET Key, kind : Kind] = {} /\ NoFile # Torn

VARIABLES
  disk,        \* the experience files, by identifier
  used,        \* identifiers that were given out: a uuid does not come again
  index,       \* keyword_index.json
  proc,        \* what each thread is doing
  finished,    \* keys whose SUCCESS event is finished: it will not write again
  learned,     \* history: keys a write has returned for
  raced,       \* history: keys whose write met another write of the key, or a consolidation
  lost,        \* history: keys a consolidator had removed and not rewritten when it died
  writes, deaths   \* writes begun, threads that died

vars == <<disk, used, index, proc, finished, learned, raced, lost, writes, deaths>>

Id == 1..MaxFiles
Thread == Writer \cup Reader \cup Tidier
File == [keys : SUBSET Key, kind : Kind]

\* Identifiers sort by name; a uuid may sort anywhere among them.
Least(S) == CHOOSE i \in S : \A j \in S : i <= j

\* list_experience_ids
Listed == {i \in Id : disk[i] # NoFile}

Readable(i) == disk[i] \notin {NoFile, Torn}

\* What an index built from the files as they are would say.
Entries == {<<disk[i].kind, i>> : i \in {j \in Id : Readable(j)}}

Idle == [pc |-> "idle", job |-> Unknown, todo |-> {}, got |-> {}, kinds |-> {},
         canon |-> 0, moving |-> {}, alone |-> TRUE, end |-> "none"]

At(p, pc) == proc[p].pc = pc
Busy(p) == proc[p].pc \notin {"idle", "finish"}

\* An earlier process has written the known experiences and the index.
Init ==
  /\ \E id \in [Known -> Id] :
       /\ \A k, l \in Known : id[k] = id[l] => k = l
       /\ used = {id[k] : k \in Known}
       /\ disk = [i \in Id |-> IF i \in used
                  THEN LET k == CHOOSE l \in Known : id[l] = i IN [keys |-> {k}, kind |-> KindOf[k]]
                  ELSE NoFile]
  /\ index = Entries
  /\ proc = [p \in Thread |-> Idle]
  /\ finished = Known /\ learned = Known /\ raced = {} /\ lost = {}
  /\ writes = 0 /\ deaths = 0

Set(p, r) == proc' = [proc EXCEPT ![p] = r]

\* A call that changes the store begins: it is alone if no other such call runs,
\* and those that do are no longer alone.
Begin(p, pc, job) ==
  LET others == {q \in Writer \cup Tidier : Busy(q)}
  IN  /\ At(p, "idle")
      /\ proc' = [q \in Thread |->
           IF q = p THEN [Idle EXCEPT !.pc = pc, !.job = job, !.todo = Listed, !.alone = others = {}]
           ELSE IF q \in others THEN [proc[q] EXCEPT !.alone = FALSE]
           ELSE proc[q]]

\* The call of p ends; a writer's caller still has to finish the event.
End(p, how) ==
  Set(p, IF p \in Writer THEN [Idle EXCEPT !.pc = "finish", !.job = proc[p].job, !.end = how]
         ELSE IF p \in Reader /\ how = "returned" THEN Idle ELSE [Idle EXCEPT !.end = how])

\* One more of the files in todo was read.
Took(p, entries) ==
  Set(p, [proc[p] EXCEPT !.todo = @ \ {Least(@)}, !.got = @ \cup entries])

-----------------------------------------------------------------------------
(* MemoryWriter.write_confirmed_experience *)

\* A SUCCESS that is not finished, new or sent again, lists the files.
StartWrite(w, k) ==
  /\ k \notin finished
  /\ writes < MaxWrites /\ writes' = writes + 1
  /\ Begin(w, "find", k)
  /\ raced' = IF \E p \in (Writer \cup Tidier) \ {w} : Busy(p) /\ (p \in Writer => proc[p].job = k)
              THEN raced \cup {k} ELSE raced
  /\ UNCHANGED <<disk, used, index, finished, learned, lost, deaths>>

\* Mutant of Look: only the first file is searched.
LookAtFirst(w) ==
  /\ At(w, "find") /\ proc[w].todo # {}
  /\ LET i == Least(proc[w].todo)
     IN  Set(w, IF Readable(i) /\ proc[w].job \in disk[i].keys
                THEN [proc[w] EXCEPT !.pc = "list", !.todo = {}]
                ELSE [proc[w] EXCEPT !.todo = {}])
  /\ UNCHANGED <<disk, used, index, finished, learned, raced, lost, writes, deaths>>

\* Mutant of Look: an experience that is found is returned at once.
LookAndReturn(w) ==
  /\ At(w, "find") /\ proc[w].todo # {}
  /\ LET i == Least(proc[w].todo)
     IN  IF disk[i] = NoFile THEN End(w, "raised") /\ UNCHANGED learned
         ELSE IF Readable(i) /\ proc[w].job \in disk[i].keys
         THEN End(w, "returned") /\ learned' = learned \cup {proc[w].job}
         ELSE Took(w, {}) /\ UNCHANGED learned
  /\ UNCHANGED <<disk, used, index, finished, raced, lost, writes, deaths>>

\* find_by_logical_key reads the next file.  A file that has gone is an
\* exception, a truncated one has no body.
Look(w) ==
  /\ At(w, "find") /\ proc[w].todo # {}
  /\ LET i == Least(proc[w].todo)
     IN  IF disk[i] = NoFile THEN End(w, "raised")
         ELSE IF Readable(i) /\ proc[w].job \in disk[i].keys
         THEN Set(w, [proc[w] EXCEPT !.pc = "list", !.todo = {}])
         ELSE Took(w, {})
  /\ UNCHANGED <<disk, used, index, finished, learned, raced, lost, writes, deaths>>

\* Mutant of Save: the file is opened and written in place.
SaveInPlace(w) ==
  /\ At(w, "find") /\ proc[w].todo = {}
  /\ IF proc[w].canon = 0
     THEN \E i \in Id \ used :
            /\ disk' = [disk EXCEPT ![i] = Torn]
            /\ used' = used \cup {i}
            /\ Set(w, [proc[w] EXCEPT !.canon = i])
     ELSE /\ disk' = [disk EXCEPT ![proc[w].canon] = [keys |-> {proc[w].job}, kind |-> KindOf[proc[w].job]]]
          /\ Set(w, [proc[w] EXCEPT !.pc = "list"])
          /\ UNCHANGED used
  /\ UNCHANGED <<index, finished, learned, raced, lost, writes, deaths>>

\* No file names the key: write_text_atomic puts a new one in place.
Save(w) ==
  /\ At(w, "find") /\ proc[w].todo = {}
  /\ \E i \in Id \ used :
       /\ disk' = [disk EXCEPT ![i] = [keys |-> {proc[w].job}, kind |-> KindOf[proc[w].job]]]
       /\ used' = used \cup {i}
  /\ Set(w, [proc[w] EXCEPT !.pc = "list"])
  /\ UNCHANGED <<index, finished, learned, raced, lost, writes, deaths>>

\* The service finishes the SUCCESS event, also when the write raised
\* (MEMORY_WRITE_DEGRADED).
FinishEvent(w) ==
  /\ At(w, "finish")
  /\ finished' = finished \cup {proc[w].job}
  /\ Set(w, Idle)
  /\ UNCHANGED <<disk, used, index, learned, raced, lost, writes, deaths>>

-----------------------------------------------------------------------------
(* MemoryStore.rebuild_index, for a writer and for the consolidator *)

List(p) ==
  /\ At(p, "list")
  /\ Set(p, [proc[p] EXCEPT !.pc = "rebuild", !.todo = Listed, !.got = {}])
  /\ UNCHANGED <<disk, used, index, finished, learned, raced, lost, writes, deaths>>

\* read_frontmatter of the next file: it must be there and have one.
Scan(p) ==
  /\ proc[p].pc \in {"rebuild", "sign"} /\ proc[p].todo # {}
  /\ LET i == Least(proc[p].todo)
     IN  IF Readable(i) THEN Took(p, {<<disk[i].kind, i>>}) ELSE End(p, "raised")
  /\ UNCHANGED <<disk, used, index, finished, learned, raced, lost, writes, deaths>>

WriteIndex(p) ==
  /\ At(p, "rebuild") /\ proc[p].todo = {}
  /\ index' = proc[p].got
  /\ learned' = IF p \in Writer THEN learned \cup {proc[p].job} ELSE learned
  /\ End(p, "returned")
  /\ UNCHANGED <<disk, used, finished, raced, lost, writes, deaths>>

-----------------------------------------------------------------------------
(* MemoryRetriever.retrieve_keywords *)

\* The index names the candidates; "unknown" takes every file.
StartRetrieve(r, q) ==
  /\ At(r, "idle")
  /\ Set(r, [Idle EXCEPT !.pc = "retrieve", !.job = q,
               !.todo = IF q = Unknown THEN Listed ELSE {i \in Id : <<q, i>> \in index}])
  /\ UNCHANGED <<disk, used, index, finished, learned, raced, lost, writes, deaths>>

\* A candidate is read and kept if its keywords are relevant; for "unknown" any
\* text may be, and the more is kept the more Rank needs.
Retrieve(r) ==
  /\ At(r, "retrieve") /\ proc[r].todo # {}
  /\ LET i == Least(proc[r].todo)
         hit == {<<disk[i].kind, i>>}
     IN  IF ~Readable(i) THEN End(r, "raised")
         ELSE Took(r, IF proc[r].job \in {Unknown, disk[i].kind} THEN hit ELSE {})
  /\ UNCHANGED <<disk, used, index, finished, learned, raced, lost, writes, deaths>>

\* The hits are ranked by the time of their files, which have to be there.
Rank(r) ==
  /\ At(r, "retrieve") /\ proc[r].todo = {}
  /\ End(r, IF \A hit \in proc[r].got : hit[2] \in Listed THEN "returned" ELSE "raised")
  /\ UNCHANGED <<disk, used, index, finished, learned, raced, lost, writes, deaths>>

-----------------------------------------------------------------------------
(* MemoryConsolidator.consolidate: Scan takes the signatures *)

\* The job of a consolidation is whether it is to be applied; each tidier
\* consolidates once.
StartTidy(c, apply) ==
  /\ proc[c] = Idle
  /\ Begin(c, "sign", apply)
  /\ raced' = raced \cup {proc[w].job : w \in {v \in Writer : Busy(v)}}
  /\ UNCHANGED <<disk, used, index, finished, learned, lost, writes, deaths>>

Members(c, kind) == {entry[2] : entry \in {e \in proc[c].got : e[1] = kind}}

\* The groups of more than one file; a dry run only reports them.
Group(c) ==
  /\ At(c, "sign") /\ proc[c].todo = {}
  /\ IF proc[c].job
     THEN Set(c, [proc[c] EXCEPT !.pc = "merge",
                    !.kinds = {kind \in Kind : Cardinality(Members(c, kind)) > 1}])
     ELSE End(c, "returned")
  /\ UNCHANGED <<disk, used, index, finished, learned, raced, lost, writes, deaths>>

\* Mutant of Gather: only the canonical file's keys are collected.
GatherCanonical(c) ==
  /\ At(c, "merge") /\ proc[c].kinds # {}
  /\ LET canon == Least(UNION {Members(c, kind) : kind \in proc[c].kinds})
         kind == CHOOSE k \in proc[c].kinds : canon \in Members(c, k)
     IN  Set(c, [proc[c] EXCEPT !.pc = "unlink", !.canon = canon,
                   !.todo = Members(c, kind) \ {canon}, !.moving = disk[canon].keys])
  /\ UNCHANGED <<disk, used, index, finished, learned, raced, lost, writes, deaths>>

\* The first group: its canonical file is the first, and the logical keys of
\* all its files are collected.
Gather(c) ==
  /\ At(c, "merge") /\ proc[c].kinds # {}
  /\ LET canon == Least(UNION {Members(c, kind) : kind \in proc[c].kinds})
         kind == CHOOSE k \in proc[c].kinds : canon \in Members(c, k)
         members == Members(c, kind)
     IN  IF members \subseteq Listed
         THEN Set(c, [proc[c] EXCEPT !.pc = "unlink", !.canon = canon, !.todo = members \ {canon},
                        !.moving = UNION {disk[i].keys : i \in {m \in members : Readable(m)}}])
         ELSE End(c, "raised")
  /\ UNCHANGED <<disk, used, index, finished, learned, raced, lost, writes, deaths>>

Unlink(c) ==
  /\ At(c, "unlink") /\ proc[c].todo # {}
  /\ disk' = [disk EXCEPT ![Least(proc[c].todo)] = NoFile]
  /\ Took(c, {})
  /\ UNCHANGED <<used, index, finished, learned, raced, lost, writes, deaths>>

\* write_text opens the canonical file, which truncates it ...
Truncate(c) ==
  /\ At(c, "unlink") /\ proc[c].todo = {}
  /\ disk' = [disk EXCEPT ![proc[c].canon] = Torn]
  /\ Set(c, [proc[c] EXCEPT !.pc = "rewrite"])
  /\ UNCHANGED <<used, index, finished, learned, raced, lost, writes, deaths>>

\* ... and writes its text with the keys of the whole group.
Rewrite(c) ==
  LET kind == CHOOSE k \in proc[c].kinds : proc[c].canon \in Members(c, k)
  IN  /\ At(c, "rewrite")
      /\ disk' = [disk EXCEPT ![proc[c].canon] = [keys |-> proc[c].moving, kind |-> kind]]
      /\ Set(c, [proc[c] EXCEPT !.pc = "merge", !.kinds = @ \ {kind}, !.moving = {}])
      /\ UNCHANGED <<used, index, finished, learned, raced, lost, writes, deaths>>

\* No group is left: the index is rebuilt.
Merged(c) ==
  /\ At(c, "merge") /\ proc[c].kinds = {}
  /\ Set(c, [proc[c] EXCEPT !.pc = "list"])
  /\ UNCHANGED <<disk, used, index, finished, learned, raced, lost, writes, deaths>>

-----------------------------------------------------------------------------
Named(k) == \E i \in Id : Readable(i) /\ k \in disk[i].keys

\* A thread dies: what it has written stays, what it was about to write is gone.
Die(p) ==
  /\ deaths < MaxDeaths /\ deaths' = deaths + 1
  /\ ~At(p, "idle")
  /\ Set(p, IF p \in Writer THEN Idle ELSE [Idle EXCEPT !.end = "died"])
  /\ lost' = lost \cup {k \in proc[p].moving : ~Named(k)}
  /\ UNCHANGED <<disk, used, index, finished, learned, raced, writes>>

Write(w) == Look(w) \/ Save(w) \/ FinishEvent(w) \/ List(w) \/ Scan(w) \/ WriteIndex(w)

Tidy(c) ==
  \/ Scan(c) \/ Group(c) \/ Gather(c) \/ Unlink(c) \/ Truncate(c) \/ Rewrite(c) \/ Merged(c)
  \/ List(c) \/ WriteIndex(c)

Next ==
  \/ \E w \in Writer : Write(w) \/ Die(w) \/ \E k \in Key : StartWrite(w, k)
  \/ \E r \in Reader : Retrieve(r) \/ Rank(r) \/ \E q \in Kind \cup {Unknown} : StartRetrieve(r, q)
  \/ \E c \in Tidier : Tidy(c) \/ Die(c) \/ \E apply \in BOOLEAN : StartTidy(c, apply)

Spec == Init /\ [][Next]_vars

-----------------------------------------------------------------------------
(* Properties *)

TypeOK ==
  /\ disk \in [Id -> File \cup {NoFile, Torn}]
  /\ used \subseteq Id /\ index \subseteq Kind \X Id
  /\ proc \in [Thread -> [
       pc : {"idle", "find", "list", "rebuild", "finish", "retrieve", "sign", "merge", "unlink", "rewrite"},
       job : Key \cup Kind \cup {Unknown} \cup BOOLEAN,
       todo : SUBSET Id, got : SUBSET (Kind \X Id), kinds : SUBSET Kind,
       canon : Id \cup {0}, moving : SUBSET Key, alone : BOOLEAN,
       end : {"none", "returned", "raised", "died"}]]
  /\ {finished, learned, raced, lost} \subseteq SUBSET Key
  /\ writes \in 0..MaxWrites /\ deaths \in 0..MaxDeaths

\* An attempt is learned once: whatever dies and is sent again, two files name
\* the same key only if two writes of the key overlapped, or a write overlapped
\* a consolidation (memory_writer.py looks first and writes later).
OneExperiencePerKey ==
  \A i, j \in Id : Readable(i) /\ Readable(j) =>
    \A k \in (disk[i].keys \cap disk[j].keys) \ raced : i = j

\* What was learned stays learned: consolidation carries every logical key over
\* to the file it keeps.  Only one that dies between removing the files and
\* writing that file loses them (memory_consolidator.py is not atomic there).
LearnedKept ==
  \A k \in learned \ lost : Named(k) \/ \E c \in Tidier : k \in proc[c].moving

\* Without a consolidation no call raises, in whatever order writers, their
\* deaths and retrievals interleave: the index never names a file that is not
\* there yet, and no file is ever seen half written.
OnlyTidyingRaises ==
  (\A c \in Tidier : proc[c] = Idle) => \A p \in Thread : proc[p].end # "raised"

\* A call that meets no other and returns leaves an exact index, whatever
\* deaths and overlaps came before it: the next write repairs the index, also
\* when it is a repeated SUCCESS whose experience is already there.
LoneCallIndexes ==
  [][\A p \in Writer \cup Tidier :
       Busy(p) /\ ~Busy(p)' /\ proc'[p].end = "returned" /\ proc[p].alone /\ proc[p].job # FALSE
         => index' = Entries']_vars
=============================================================================
