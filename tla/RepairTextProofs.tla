----------------------------- MODULE RepairTextProofs -----------------------------
(***************************************************************************)
(* What is delivered, and what the checks let pass, for every vocabulary,  *)
(* every similarity of names, every metadata and whatever a model answers. *)
(***************************************************************************)
EXTENDS RepairText, FiniteSetTheorems, SequenceTheorems, WellFoundedInduction, TLAPS

-----------------------------------------------------------------------------
(* Planning *)

\* Every nonempty set of natural numbers has a least one.
LEMMA LeastNumber ==
  ASSUME NEW S \in SUBSET Nat, S # {}
  PROVE  \E n \in S : \A m \in S : n <= m
<1>1. PICK n \in S : \A m \in S : <<m, n>> \notin OpToRel(<, Nat)
  <2> HIDE DEF OpToRel
  <2> QED BY NatLessThanWellFounded, WFMin
<1>2. \A m \in S : ~(m < n)
  BY <1>1 DEF OpToRel
<1> QED
  BY <1>2

\* What a list of columns is.
LEMMA Listed ==
  ASSUME NEW columns \in Snapshot
  PROVE  /\ DOMAIN columns \subseteq Nat
         /\ columns # <<>> => DOMAIN columns # {}
         /\ \A i \in DOMAIN columns : columns[i].column \in Column \cup {Entity}
         /\ \A i \in DOMAIN columns : Score[columns[i].column] \in 0..100
<1> DEFINE T == [column : Column \cup {Entity}, typed : BOOLEAN]
<1>1. columns \in Seq(T)
  BY TextAssumption
<1>2. /\ Len(columns) \in Nat /\ DOMAIN columns = 1..Len(columns)
      /\ \A i \in 1..Len(columns) : columns[i] \in T
  <2> HIDE DEF T
  <2> QED BY <1>1, LenProperties, ElementOfSeq
<1>3. columns # <<>> => Len(columns) # 0
  <2> HIDE DEF T
  <2> QED BY <1>1, EmptySeq
<1>4. \A i \in DOMAIN columns : columns[i].column \in Column \cup {Entity}
  BY <1>2
<1>5. \A c \in Column \cup {Entity} : Score[c] \in 0..100
  BY TextAssumption
<1> QED
  BY <1>2, <1>3, <1>4, <1>5

\* A list of columns that is not empty has a best one: none is more similar,
\* and none before it is as similar.
LEMMA BestExists ==
  ASSUME NEW columns \in Snapshot, columns # <<>>
  PROVE  /\ Best(columns) \in DOMAIN columns
         /\ \A j \in DOMAIN columns :
              \/ Score[columns[j].column] < Score[columns[Best(columns)].column]
              \/ Score[columns[j].column] = Score[columns[Best(columns)].column] /\ Best(columns) <= j
<1> DEFINE sc(i) == Score[columns[i].column]
           Gap == {100 - sc(i) : i \in DOMAIN columns}
<1>1. /\ DOMAIN columns \subseteq Nat /\ DOMAIN columns # {}
      /\ \A i \in DOMAIN columns : sc(i) \in 0..100
  BY Listed
<1> HIDE DEF sc
<1>3. Gap \in SUBSET Nat /\ Gap # {}
  <2>1. ASSUME NEW x \in 0..100 PROVE 100 - x \in Nat
    OBVIOUS
  <2> QED
    BY <1>1, <2>1
<1>4. PICK gap \in Gap : \A m \in Gap : gap <= m
  BY <1>3, LeastNumber
<1> DEFINE Nearest == {i \in DOMAIN columns : 100 - sc(i) = gap}
<1>5. Nearest \in SUBSET Nat /\ Nearest # {}
  BY <1>1
<1>6. PICK i \in Nearest : \A j \in Nearest : i <= j
  BY <1>5, LeastNumber
<1>7. i \in DOMAIN columns /\ sc(i) \in 0..100 /\ gap = 100 - sc(i)
  BY <1>1, <1>6
<1>8. ASSUME NEW j \in DOMAIN columns
      PROVE  \/ sc(j) < sc(i)
             \/ sc(j) = sc(i) /\ i <= j
  <2>1. sc(j) \in 0..100 /\ gap <= 100 - sc(j)
    BY <1>1, <1>4
  <2>2. sc(j) = sc(i) => j \in Nearest
    BY <1>7
  <2>3. sc(j) = sc(i) => i <= j
    BY <1>6, <2>2
  <2>4. \A x, y \in 0..100 : 100 - y <= 100 - x => x < y \/ x = y
    OBVIOUS
  <2>5. sc(j) < sc(i) \/ sc(j) = sc(i)
    BY <1>7, <2>1, <2>4
  <2> QED
    BY <2>3, <2>5
<1> USE DEF sc
<1> QED
  BY <1>7, <1>8 DEF Best

\* Whatever the diagnosis is, what is planned is grounded in the columns.
Grounded(d, columns, a) ==
  /\ d.repairable /\ a.new \in {columns[i].column : i \in DOMAIN columns}
  /\ a.type = "REPLACE_COLUMN" =>
       /\ Cardinality({i \in DOMAIN columns : columns[i].column = a.new}) = 1
       /\ \A c \in {columns[i].column : i \in DOMAIN columns} \ {a.new} : Score[c] + 5 <= Score[a.new]

\* A plan is only made of a repairable diagnosis, from columns the tables have
\* and, for a replacement, from the only one that is clearly the most similar.
LEMMA PlanIsGrounded ==
  ASSUME NEW d \in Diagnosis, NEW columns \in Snapshot, Planned(d, columns) # NoAction
  PROVE  Grounded(d, columns, Planned(d, columns))
<1> DEFINE a == Planned(d, columns)
<1> SUFFICES Grounded(d, columns, a)
  OBVIOUS
<1>1. CASE d.repairable /\ d.entity # "absent" /\ d.type = "TYPE_MISMATCH" /\ TypeKnown(columns)
  <2>1. a = [type |-> "ADD_CAST", spelled |-> d.entity, new |-> Entity]
    BY <1>1 DEF Planned
  <2> QED
    BY <1>1, <2>1 DEF Grounded, TypeKnown
<1>2. CASE d.repairable /\ d.entity # "absent" /\ d.type = "COLUMN_NOT_FOUND" /\ ClearlyBest(columns)
  <2> DEFINE best == Best(columns)
             sc(i) == Score[columns[i].column]
  <2>1. a = [type |-> "REPLACE_COLUMN", spelled |-> d.entity, new |-> columns[best].column]
    BY <1>2 DEF Planned
  <2>2. best \in DOMAIN columns
    BY <1>2, BestExists DEF ClearlyBest
  <2>3. \A j \in DOMAIN columns : sc(j) \in 0..100
    BY Listed
  <2>4. \A j \in (DOMAIN columns) \ {best} : sc(best) - sc(j) >= 5
    BY <1>2 DEF ClearlyBest
  <2> HIDE DEF best, sc
  <2>5. \A j \in (DOMAIN columns) \ {best} : sc(j) + 5 <= sc(best) /\ sc(j) # sc(best)
    BY <2>2, <2>3, <2>4
  <2> USE DEF sc
  <2>6. {i \in DOMAIN columns : columns[i].column = columns[best].column} = {best}
    BY <2>2, <2>5
  <2>7. Cardinality({i \in DOMAIN columns : columns[i].column = columns[best].column}) = 1
    BY <2>6, FS_Singleton
  <2>8. \A c \in {columns[i].column : i \in DOMAIN columns} \ {columns[best].column} :
          Score[c] + 5 <= Score[columns[best].column]
    BY <2>5
  <2>9. a.type = "REPLACE_COLUMN" /\ a.new = columns[best].column
    BY <2>1 DEF best
  <2> HIDE DEF a
  <2> QED
    BY <1>2, <2>2, <2>7, <2>8, <2>9 DEF Grounded
<1> QED
  BY <1>1, <1>2 DEF Planned

\* A plan is one action, or none.
LEMMA PlanIsAction ==
  ASSUME NEW d \in Diagnosis, NEW columns \in Snapshot
  PROVE  Planned(d, columns) \in Action \cup {NoAction}
<1>1. d.entity # "absent" => d.entity \in {"lower", "upper"}
  BY DEF Diagnosis, Spelling
<1>2. ClearlyBest(columns) => columns[Best(columns)].column \in Column \cup {Entity}
  <2>1. ClearlyBest(columns) => Best(columns) \in DOMAIN columns
    BY BestExists DEF ClearlyBest
  <2> QED
    BY <2>1, Listed
<1> QED
  BY <1>1, <1>2 DEF Planned, Action

-----------------------------------------------------------------------------
(* Texts *)

\* The fields of an action.
LEMMA ActionType ==
  ASSUME NEW a \in Action
  PROVE  /\ a # NoAction /\ a.type \in {"REPLACE_COLUMN", "ADD_CAST"} /\ a.new \in Column \cup {Entity}
BY DEF Action, NoAction

\* An action makes a word of a word, and leaves a missing WHERE missing.
LEMMA ReplacedIsWord ==
  ASSUME NEW a \in Action, NEW w \in Word \cup {NoWord}
  PROVE  /\ Replaced(a, w) \in Word \cup {NoWord}
         /\ (Replaced(a, w) = NoWord <=> w = NoWord)
<1>1. a.type \in {"REPLACE_COLUMN", "ADD_CAST"} /\ a.new \in Column \cup {Entity}
  BY ActionType
<1>2. CASE w = NoWord
  BY <1>2 DEF Replaced, Touches
<1>3. CASE w \in Word
  <2>1. NoWord \notin Word
    BY TextAssumption
  <2>2. [w EXCEPT !.edit = "cast"] \in Word
    BY <1>3 DEF Word
  <2>3. [name |-> a.new, upper |-> FALSE, edit |-> "none"] \in Word
    BY <1>1 DEF Word, Name
  <2>4. [w EXCEPT !.edit = a.new] \in Word
    BY <1>1, <1>3 DEF Word
  <2> QED
    BY <1>3, <2>1, <2>2, <2>3, <2>4 DEF Replaced
<1> QED
  BY <1>2, <1>3

\* Applying an action, if it can be applied, changes one word and nothing else.
LEMMA AppliedShape ==
  ASSUME NEW a \in Action \cup {NoAction}, NEW s \in Text, Applied(a, s) # NoText
  PROVE  /\ a \in Action
         /\ Applied(a, s) = [verb |-> s.verb, item |-> Replaced(a, s.item),
                             where |-> Replaced(a, s.where), odd |-> s.odd]
         /\ Applied(a, s) \in Text
         /\ \/ Touches(a, s.item) /\ ~Touches(a, s.where) /\ Applied(a, s).where = s.where
            \/ Touches(a, s.where) /\ ~Touches(a, s.item) /\ Applied(a, s).item = s.item
<1>1. a \in Action /\ Unique(a, s)
  BY DEF Applied
<1>2. /\ s.verb \in Verb /\ s.item \in Word /\ s.where \in Word \cup {NoWord} /\ s.odd \in BOOLEAN
      /\ s = [verb |-> s.verb, item |-> s.item, where |-> s.where, odd |-> s.odd]
  BY DEF Text
<1>3. Applied(a, s) = [verb |-> s.verb, item |-> Replaced(a, s.item),
                       where |-> Replaced(a, s.where), odd |-> s.odd]
  <2>1. a # NoAction
    BY <1>1, ActionType
  <2>2. Applied(a, s) = [s EXCEPT !.item = Replaced(a, s.item), !.where = Replaced(a, s.where)]
    BY <1>1, <2>1 DEF Applied
  <2> QED
    BY <1>2, <2>2
<1>4. Replaced(a, s.item) \in Word /\ Replaced(a, s.where) \in Word \cup {NoWord}
  BY <1>1, <1>2, ReplacedIsWord, TextAssumption
<1>5. Applied(a, s) \in Text
  BY <1>2, <1>3, <1>4 DEF Text
<1>6. \A w : ~Touches(a, w) => Replaced(a, w) = w
  BY DEF Replaced
<1>7. Touches(a, s.item) # Touches(a, s.where)
  BY <1>1 DEF Unique
<1>8. Touches(a, s.item) \in BOOLEAN /\ Touches(a, s.where) \in BOOLEAN
  BY DEF Touches
<1> QED
  BY <1>1, <1>3, <1>5, <1>6, <1>7, <1>8

\* A text with both words rewritten, field by field.
LEMMA RewrittenShape ==
  ASSUME NEW s \in Text, NEW x, NEW y, NEW r, r = [s EXCEPT !.item = x, !.where = y]
  PROVE  r = [verb |-> s.verb, item |-> x, where |-> y, odd |-> s.odd]
<1>1. s = [verb |-> s.verb, item |-> s.item, where |-> s.where, odd |-> s.odd]
  BY DEF Text
<1> QED
  BY <1>1

\* A word with another case, field by field.
LEMMA UpperField ==
  ASSUME NEW y \in Word, NEW v, NEW r, r = [y EXCEPT !.upper = v]
  PROVE  r = [name |-> y.name, upper |-> v, edit |-> y.edit]
<1>1. y = [name |-> y.name, upper |-> y.upper, edit |-> y.edit]
  BY DEF Word
<1> QED
  BY <1>1

\* Lowering keeps name and edit, and lowering again changes nothing.
LEMMA LoweredOnce ==
  ASSUME NEW y \in Word, NEW z, z = [y EXCEPT !.upper = FALSE]
  PROVE  /\ z \in Word /\ z.name = y.name /\ z.edit = y.edit
         /\ z = [z EXCEPT !.upper = FALSE]
<1>1. z = [name |-> y.name, upper |-> FALSE, edit |-> y.edit]
  BY UpperField
<1>2. z \in Word
  BY <1>1 DEF Word
<1>3. PICK q : q = [z EXCEPT !.upper = FALSE]
  OBVIOUS
<1>4. q = [name |-> z.name, upper |-> FALSE, edit |-> z.edit]
  BY <1>2, <1>3, UpperField
<1>5. z.name = y.name /\ z.edit = y.edit
  BY <1>1
<1>6. q = z
  BY <1>1, <1>4, <1>5
<1> QED
  BY <1>2, <1>3, <1>5, <1>6

\* Words alike when lowered, or canonical, have the same name and edit, and
\* canonical literals are the same word.
LEMMA LoweredWord ==
  ASSUME NEW w \in Word \cup {NoWord}, NEW x \in Word \cup {NoWord}
  PROVE  /\ Lowered(w) = Lowered(x) => (w = NoWord <=> x = NoWord)
         /\ Lowered(w) = Lowered(x) /\ w # NoWord => w.name = x.name /\ w.edit = x.edit
         /\ Canonical(w) = Canonical(x) => Lowered(w) = Lowered(x)
         /\ Canonical(w) = Canonical(x) /\ w # NoWord /\ w.name \in Quoting => w = x
<1>1. \A y \in Word \cup {NoWord} : y # NoWord => /\ Lowered(y) \in Word /\ Lowered(y).name = y.name
                                                 /\ Lowered(y).edit = y.edit
                                                 /\ Lowered(Lowered(y)) = Lowered(y)
  <2> SUFFICES ASSUME NEW y \in Word
               PROVE  /\ Lowered(y) \in Word /\ Lowered(y).name = y.name
                      /\ Lowered(y).edit = y.edit
                      /\ Lowered(Lowered(y)) = Lowered(y)
    OBVIOUS
  <2>1. PICK z : z = [y EXCEPT !.upper = FALSE]
    OBVIOUS
  <2>2. z \in Word /\ z.name = y.name /\ z.edit = y.edit /\ z = [z EXCEPT !.upper = FALSE]
    BY <2>1, LoweredOnce
  <2>3. Lowered(y) = z /\ Lowered(z) = z
    BY <2>1, <2>2, TextAssumption DEF Lowered
  <2> QED
    BY <2>2, <2>3
<1>2. Lowered(NoWord) = NoWord /\ Canonical(NoWord) = NoWord /\ NoWord \notin Word
  BY TextAssumption DEF Lowered, Canonical
<1>3. Lowered(w) = Lowered(x) => (w = NoWord <=> x = NoWord)
  BY <1>1, <1>2
<1>4. Lowered(w) = Lowered(x) /\ w # NoWord => w.name = x.name /\ w.edit = x.edit
  BY <1>1, <1>2, <1>3
<1>5. \A y \in Word \cup {NoWord} : Canonical(y) = IF y # NoWord /\ y.name \in Quoting THEN y ELSE Lowered(y)
  BY DEF Canonical
<1>6. Canonical(w) = Canonical(x) => Lowered(w) = Lowered(x)
  BY <1>1, <1>2, <1>5
<1>7. Canonical(w) = Canonical(x) /\ w # NoWord /\ w.name \in Quoting => w = x
  BY <1>1, <1>2, <1>5
<1> QED
  BY <1>3, <1>4, <1>6, <1>7

-----------------------------------------------------------------------------
(* A text that matches the plan *)

\* Texts that are alike but for case parse alike.
LEMMA AlikeParse ==
  ASSUME NEW s \in Text, NEW t \in Text, s.odd = t.odd, Lowered(s.where) = Lowered(t.where)
  PROVE  Parses(s) <=> Parses(t)
<1>1. s.where \in Word \cup {NoWord} /\ t.where \in Word \cup {NoWord}
  BY DEF Text
<1>2. /\ s.where = NoWord <=> t.where = NoWord
      /\ s.where # NoWord => s.where.name = t.where.name /\ s.where.edit = t.where.edit
  BY <1>1, LoweredWord
<1>3. s # NoText /\ t # NoText
  BY TextAssumption
<1> QED
  BY <1>2, <1>3 DEF Parses

\* Equivalent texts differ in the case of words only, and in that of identifiers
\* only if the second can be parsed (sql_equivalent).
LEMMA EquivalentTexts ==
  ASSUME NEW s \in Text, NEW t \in Text, Equivalent(s, t)
  PROVE  /\ s.verb = t.verb /\ s.odd = t.odd
         /\ Lowered(s.item) = Lowered(t.item) /\ Lowered(s.where) = Lowered(t.where)
         /\ Parses(t) => Canonical(s.item) = Canonical(t.item) /\ Canonical(s.where) = Canonical(t.where)
<1>1. /\ s.item \in Word \cup {NoWord} /\ t.item \in Word \cup {NoWord}
      /\ s.where \in Word \cup {NoWord} /\ t.where \in Word \cup {NoWord}
  BY DEF Text
<1>2. CASE Parses(s) /\ Parses(t)
  <2>1. PICK r : /\ r = [s EXCEPT !.item = Canonical(s.item), !.where = Canonical(s.where)]
                 /\ r = [t EXCEPT !.item = Canonical(t.item), !.where = Canonical(t.where)]
    BY <1>2 DEF Equivalent, Rewritten
  <2>2. /\ r = [verb |-> s.verb, item |-> Canonical(s.item), where |-> Canonical(s.where), odd |-> s.odd]
        /\ r = [verb |-> t.verb, item |-> Canonical(t.item), where |-> Canonical(t.where), odd |-> t.odd]
    BY <2>1, RewrittenShape
  <2>3. /\ s.verb = t.verb /\ s.odd = t.odd
        /\ Canonical(s.item) = Canonical(t.item) /\ Canonical(s.where) = Canonical(t.where)
    BY <2>2
  <2> QED
    BY <1>1, <2>3, LoweredWord
<1>3. CASE ~(Parses(s) /\ Parses(t))
  <2>1. PICK r : /\ r = [s EXCEPT !.item = Lowered(s.item), !.where = Lowered(s.where)]
                 /\ r = [t EXCEPT !.item = Lowered(t.item), !.where = Lowered(t.where)]
    BY <1>3 DEF Equivalent, Rewritten
  <2>2. /\ r = [verb |-> s.verb, item |-> Lowered(s.item), where |-> Lowered(s.where), odd |-> s.odd]
        /\ r = [verb |-> t.verb, item |-> Lowered(t.item), where |-> Lowered(t.where), odd |-> t.odd]
    BY <2>1, RewrittenShape
  <2>3. /\ s.verb = t.verb /\ s.odd = t.odd
        /\ Lowered(s.item) = Lowered(t.item) /\ Lowered(s.where) = Lowered(t.where)
    BY <2>2
  <2>4. ~Parses(t)
    BY <1>3, <2>3, AlikeParse
  <2> QED
    BY <2>3, <2>4
<1> QED
  BY <1>2, <1>3

\* A word that looks like what the plan makes of a word it touches is mended.
LEMMA TouchedIsMended ==
  ASSUME plan \in Action, NEW w \in Word \cup {NoWord}, NEW x \in Word \cup {NoWord},
         Touches(plan, w), Lowered(Replaced(plan, w)) = Lowered(x)
  PROVE  Mended(w, x)
<1>1. w # NoWord /\ w \in Word
  BY DEF Touches
<1>2. /\ Replaced(plan, w) # NoWord /\ Replaced(plan, w) \in Word \cup {NoWord}
  BY <1>1, ReplacedIsWord
<1>3. x # NoWord /\ x.name = Replaced(plan, w).name /\ x.edit = Replaced(plan, w).edit
  BY <1>2, LoweredWord
<1>4. plan.type \in {"REPLACE_COLUMN", "ADD_CAST"} /\ plan.new \in Column \cup {Entity}
  BY ActionType
<1>5. w.name \in {Entity} \cup Quoting \/ plan.type = "ADD_CAST"
  BY <1>4 DEF Touches
<1>6. CASE plan.type = "ADD_CAST"
  <2>1. Replaced(plan, w) = [w EXCEPT !.edit = "cast"]
    BY <1>6 DEF Replaced
  <2>2. Replaced(plan, w).name = w.name /\ Replaced(plan, w).edit = "cast"
    BY <1>1, <2>1 DEF Word
  <2> QED
    BY <1>1, <1>3, <1>6, <2>2 DEF Mended
<1>7. CASE plan.type = "REPLACE_COLUMN" /\ w.name = Entity
  <2>1. Replaced(plan, w) = [name |-> plan.new, upper |-> FALSE, edit |-> "none"]
    BY <1>7 DEF Replaced
  <2> QED
    BY <1>1, <1>3, <1>7, <2>1 DEF Mended
<1>8. CASE plan.type = "REPLACE_COLUMN" /\ w.name # Entity
  <2>1. Replaced(plan, w) = [w EXCEPT !.edit = plan.new]
    BY <1>8 DEF Replaced
  <2>2. Replaced(plan, w).name = w.name /\ Replaced(plan, w).edit = plan.new
    BY <1>1, <2>1 DEF Word
  <2>3. w.name \in Quoting
    BY <1>5, <1>8
  <2> QED
    BY <1>1, <1>3, <1>8, <2>2, <2>3 DEF Mended
<1> QED
  BY <1>4, <1>6, <1>7, <1>8

\* A candidate that matches the plan is the failed SQL with one word mended:
\* this is what DeliveredIsThePlan says of delivered ones.
LEMMA MatchIsThePlan ==
  ASSUME failed \in Text, candidate \in Text, plan \in Action \cup {NoAction},
         MatchesPlan(failed, candidate, plan)
  PROVE  DeliveredIsThePlan
<1> DEFINE k == Applied(plan, failed)
           Kept(w, x) ==
             /\ Lowered(x) = Lowered(w)
             /\ w # NoWord =>
                  /\ plan.type = "REPLACE_COLUMN" => w.name \notin {Entity} \cup Quoting
                  /\ w.name \in Quoting /\ Parses(candidate) => x = w
<1>1. k # NoText /\ Equivalent(k, candidate)
  BY DEF MatchesPlan
<1>2. /\ plan \in Action /\ k \in Text
      /\ k = [verb |-> failed.verb, item |-> Replaced(plan, failed.item),
              where |-> Replaced(plan, failed.where), odd |-> failed.odd]
      /\ \/ Touches(plan, failed.item) /\ ~Touches(plan, failed.where) /\ k.where = failed.where
         \/ Touches(plan, failed.where) /\ ~Touches(plan, failed.item) /\ k.item = failed.item
  BY <1>1, AppliedShape
<1>3. /\ failed.item \in Word \cup {NoWord} /\ failed.where \in Word \cup {NoWord}
      /\ candidate.item \in Word \cup {NoWord} /\ candidate.where \in Word \cup {NoWord}
  BY DEF Text
<1> HIDE DEF k
<1>4. /\ k.verb = candidate.verb /\ k.odd = candidate.odd
      /\ Lowered(k.item) = Lowered(candidate.item) /\ Lowered(k.where) = Lowered(candidate.where)
      /\ Parses(candidate) => /\ Canonical(k.item) = Canonical(candidate.item)
                              /\ Canonical(k.where) = Canonical(candidate.where)
  BY <1>1, <1>2, EquivalentTexts
<1>5. candidate.verb = failed.verb /\ candidate.odd = failed.odd
  BY <1>2, <1>4
<1>6. k.item = Replaced(plan, failed.item) /\ k.where = Replaced(plan, failed.where)
  BY <1>2
<1>7. ASSUME NEW w \in Word \cup {NoWord}, NEW x \in Word \cup {NoWord},
             ~Touches(plan, w), Lowered(w) = Lowered(x), Parses(candidate) => Canonical(w) = Canonical(x)
      PROVE  Kept(w, x)
  <2>1. w # NoWord /\ plan.type = "REPLACE_COLUMN" => w.name \notin {Entity} \cup Quoting
    BY <1>7 DEF Touches
  <2>2. w # NoWord /\ w.name \in Quoting /\ Parses(candidate) => x = w
    BY <1>7, LoweredWord
  <2> QED
    BY <1>7, <2>1, <2>2
<1>8. CASE Touches(plan, failed.item) /\ ~Touches(plan, failed.where) /\ k.where = failed.where
  <2>1. Mended(failed.item, candidate.item)
    BY <1>2, <1>3, <1>4, <1>6, <1>8, TouchedIsMended
  <2>2. Kept(failed.where, candidate.where)
    BY <1>3, <1>4, <1>7, <1>8
  <2>3. "item" # "where"
    OBVIOUS
  <2> QED
    BY <1>5, <2>1, <2>2, <2>3 DEF DeliveredIsThePlan
<1>9. CASE Touches(plan, failed.where) /\ ~Touches(plan, failed.item) /\ k.item = failed.item
  <2>1. Mended(failed.where, candidate.where)
    BY <1>2, <1>3, <1>4, <1>6, <1>9, TouchedIsMended
  <2>2. Kept(failed.item, candidate.item)
    BY <1>3, <1>4, <1>7, <1>9
  <2>3. "where" # "item"
    OBVIOUS
  <2> QED
    BY <1>5, <2>1, <2>2, <2>3 DEF DeliveredIsThePlan
<1> QED
  BY <1>2, <1>8, <1>9

-----------------------------------------------------------------------------
(* The checks and the generator's own repair *)

\* A candidate the static gate lets pass matches the plan.
LEMMA ValidMatches ==
  ASSUME Valid
  PROVE  ~Issues(failed, candidate, plan) /\ MatchesPlan(failed, candidate, plan)
<1>1. ~Issues(failed, candidate, plan)
  BY DEF Valid, FindingOf, Gates!Rejecting, Gates!StaticGate, Gates!StaticDecision,
         Gates!ValidationRisk, Gates!Result
<1> QED
  BY <1>1 DEF Issues

\* What an action makes of a text differs from it as planned, and validation
\* finds nothing that was not there before.
LEMMA OwnIsClean ==
  ASSUME NEW s \in Text, NEW a \in Action \cup {NoAction}, NEW t, t = Applied(a, s), t # NoText
  PROVE  /\ Diff(s, t, a).count = 1 /\ ~Diff(s, t, a).where /\ ~Diff(s, t, a).target
         /\ Issues(s, t, a) => s.verb \in {"drop", "update"} \/ (Inserts(s) /\ ~Parses(t))
<1>1. /\ a \in Action /\ t \in Text
      /\ t = [verb |-> s.verb, item |-> Replaced(a, s.item), where |-> Replaced(a, s.where), odd |-> s.odd]
  BY AppliedShape
<1>2. t.verb = s.verb /\ t.odd = s.odd /\ t.where = Replaced(a, s.where)
  BY <1>1
<1>3. Equivalent(t, t)
  BY DEF Equivalent
<1>4. MatchesPlan(s, t, a)
  BY <1>3 DEF MatchesPlan
<1>5. Protected(s, a) = t
  BY DEF Protected
\* The action does not mend what could not be parsed.
<1>6. Parses(t) => Parses(s)
  <2>1. s # NoText /\ s.where \in Word \cup {NoWord}
    BY TextAssumption DEF Text
  <2>2. s.where # NoWord => t.where # NoWord
    BY <1>1, <1>2, <2>1, ReplacedIsWord
  <2>3. s.where # NoWord /\ s.where.name \in Longer /\ s.where.edit = "cast"
          => t.where.name \in Longer /\ t.where.edit = "cast"
    <3>1. ASSUME s.where # NoWord, s.where.name \in Longer, s.where.edit = "cast", Touches(a, s.where)
          PROVE  a.type = "ADD_CAST"
      <4>1. s.where.name \notin {Entity} \cup Quoting
        BY <3>1, TextAssumption
      <4> QED
        BY <1>1, <3>1, <4>1, ActionType DEF Touches
    <3>2. \A w \in Word : [w EXCEPT !.edit = "cast"].name = w.name /\ [w EXCEPT !.edit = "cast"].edit = "cast"
      BY DEF Word
    <3> QED
      BY <1>2, <2>1, <3>1, <3>2 DEF Replaced
  <2> QED
    BY <1>2, <2>1, <2>2, <2>3 DEF Parses
<1>7. Diff(s, t, a).count = 1
  BY <1>4 DEF Diff
<1>8. ~Diff(s, t, a).where /\ ~Diff(s, t, a).target
  BY <1>5 DEF Diff
<1>9. Parses(t) => Diff(s, t, a).parsed
  BY <1>5, <1>6 DEF Diff
<1>10. (Writes(t) <=> Writes(s)) /\ (Inserts(t) <=> Inserts(s))
  BY <1>2 DEF Writes, Inserts
<1>11. Issues(s, t, a) => s.verb \in {"drop", "update"} \/ (Inserts(s) /\ ~Parses(t))
  <2>1. Writes(s) /\ ~Inserts(s) => s.verb = "update"
    BY DEF Writes, Inserts
  <2> QED
    BY <1>2, <1>4, <1>7, <1>8, <1>9, <1>10, <2>1 DEF Issues
<1> QED
  BY <1>7, <1>8, <1>11

\* The static gate refuses such a repair only for an issue or its medium risk.
LEMMA OwnInvalid ==
  ASSUME ~Valid, plan \in Action
  PROVE  Issues(failed, candidate, plan) \/ (plan.type = "ADD_CAST" /\ ~AllowMedium)
<1> SUFFICES ASSUME ~Issues(failed, candidate, plan), ~(plan.type = "ADD_CAST" /\ ~AllowMedium)
             PROVE  FALSE
  OBVIOUS
<1> DEFINE f == FindingOf(failed, candidate, plan)
<1>1. /\ f.built /\ ~f.issues
      /\ f.action = IF plan.type = "ADD_CAST" THEN "MEDIUM" ELSE "LOW"
  BY DEF FindingOf
<1>2. Gates!Rejecting(Gates!StaticGate(f, candidate))
  BY DEF Valid
<1> HIDE DEF f
<1>3. Gates!ValidationRisk(f) = f.action
  BY <1>1 DEF Gates!ValidationRisk
<1>4. Gates!StaticDecision(f) \in {"REJECT", "HUMAN_REQUIRED"}
  BY <1>1, <1>2 DEF Gates!Rejecting, Gates!StaticGate, Gates!Result
<1>5. CASE f.action = "LOW"
  BY <1>1, <1>3, <1>4, <1>5 DEF Gates!StaticDecision, Gates!AllowReturn
<1>6. CASE f.action = "MEDIUM" /\ AllowMedium
  BY <1>1, <1>3, <1>4, <1>6 DEF Gates!StaticDecision, Gates!AllowReturn
<1> QED
  BY <1>1, <1>5, <1>6

\* With the verdict of the rules the gates accept what the static gate lets pass.
LEMMA OwnAccepted ==
  ASSUME failed \in Text, plan \in Action, candidate = Applied(plan, failed), candidate # NoText, Valid
  PROVE  Gates!Accepted(Gates!RunRequest(FindingOf(failed, candidate, plan),
                                         RuleVerdict(failed, candidate, plan), candidate))
<1> DEFINE f == FindingOf(failed, candidate, plan)
           v == RuleVerdict(failed, candidate, plan)
           static == Gates!StaticGate(f, candidate)
           semantic == Gates!SemanticGate(v, candidate)
           output == Gates!OutputGate(candidate, {static, semantic})
           risk == Gates!ValidationRisk(f)
<1>1. ~Issues(failed, candidate, plan)
  BY ValidMatches
<1>2. f.built /\ ~f.issues /\ f.action \in {"LOW", "MEDIUM"}
  BY <1>1 DEF FindingOf
<1>3. v.decision = "RETURN_SQL" /\ v.sound /\ v.risk = risk
  <2>1. Diff(failed, candidate, plan).count = 1 /\ ~Diff(failed, candidate, plan).where
        /\ ~Diff(failed, candidate, plan).target
    BY OwnIsClean
  <2> QED
    BY <2>1 DEF RuleVerdict
<1>4. ~Gates!Rejecting(static)
  BY DEF Valid
<1> HIDE DEF f, v
<1>5. risk = f.action
  BY <1>2 DEF Gates!ValidationRisk
<1>6. risk \in {"LOW", "MEDIUM"} /\ (risk = "MEDIUM" => AllowMedium)
  BY <1>2, <1>4, <1>5 DEF Gates!StaticGate, Gates!StaticDecision, Gates!Rejecting, Gates!Result
<1>7. /\ static.decision = IF risk = "LOW" THEN "PASS" ELSE "PASS_WITH_WARNING"
      /\ static.risk = risk /\ static.sql = candidate
  <2>1. Gates!StaticDecision(f) = IF risk = "LOW" THEN "PASS" ELSE "PASS_WITH_WARNING"
    BY <1>2, <1>5, <1>6 DEF Gates!StaticDecision, Gates!AllowReturn
  <2> QED
    BY <1>2, <2>1 DEF Gates!StaticGate, Gates!Result
<1>8. /\ semantic.decision = IF risk = "LOW" THEN "PASS" ELSE "PASS_WITH_WARNING"
      /\ semantic.risk = risk /\ semantic.sql = candidate
  <2>1. Gates!Consistent(v) = "RETURN_SQL"
    BY <1>3, <1>6 DEF Gates!Consistent
  <2>2. Gates!SemanticDecision(v) = IF risk = "LOW" THEN "PASS" ELSE "PASS_WITH_WARNING"
    BY <1>3, <1>6, <2>1 DEF Gates!SemanticDecision
  <2> QED
    BY <1>3, <2>2 DEF Gates!SemanticGate, Gates!Result
<1> HIDE DEF static, semantic, risk
<1>9. output.decision = "PASS" /\ output.risk = "LOW"
  <2>1. \A r \in {static, semantic} :
          /\ ~Gates!Rejecting(r) /\ r.risk \notin {"HIGH", "BLOCKED"}
          /\ ~(r.risk = "MEDIUM" /\ ~AllowMedium) /\ r.sql = candidate
    BY <1>6, <1>7, <1>8 DEF Gates!Rejecting
  <2> QED
    BY <2>1 DEF Gates!OutputGate, Gates!Result
<1> HIDE DEF output
<1>10. Gates!HighestRisk({static, semantic, output}) = risk
  <2> DEFINE S == {static, semantic, output}
  <2>1. {r.risk : r \in S} = {risk, "LOW"}
    BY <1>7, <1>8, <1>9
  <2>2. Gates!RiskOrder["LOW"] = 0 /\ Gates!RiskOrder["MEDIUM"] = 1
    BY DEF Gates!RiskOrder
  <2>3. \A r \in S : Gates!RiskOrder[r.risk] <= Gates!RiskOrder[risk]
    BY <1>6, <1>7, <1>8, <1>9, <2>2
  <2>4. \A x \in {r.risk : r \in S} :
          (\A r \in S : Gates!RiskOrder[r.risk] <= Gates!RiskOrder[x]) => x = risk
    BY <1>6, <1>7, <2>1, <2>2
  <2> HIDE DEF S
  <2>5. Gates!HighestRisk(S) = risk
    BY <2>1, <2>3, <2>4 DEF Gates!HighestRisk
  <2> QED
    BY <2>5 DEF S
<1>11. Gates!AggregateDecision({static, semantic, output}) =
         IF risk = "LOW" THEN "PASS" ELSE "PASS_WITH_WARNING"
  <2> DEFINE D == {r.decision : r \in {static, semantic, output}}
  <2>1. D = {IF risk = "LOW" THEN "PASS" ELSE "PASS_WITH_WARNING", "PASS"}
    BY <1>7, <1>8, <1>9
  <2> HIDE DEF D
  <2>2. /\ "REJECT" \notin D /\ "HUMAN_REQUIRED" \notin D /\ D \subseteq {"PASS", "PASS_WITH_WARNING"}
        /\ risk = "LOW" => "PASS_WITH_WARNING" \notin D
    BY <2>1
  <2> QED
    BY <1>6, <1>10, <2>2 DEF Gates!AggregateDecision, D
<1>12. ~Gates!Rejecting(semantic)
  BY <1>8 DEF Gates!Rejecting
<1>13. Gates!RunRequest(f, v, candidate) = Gates!Aggregate({static, semantic, output}, candidate)
  BY <1>4, <1>12 DEF Gates!RunRequest, static, semantic, output
<1>14. Gates!RunRequest(f, v, candidate).decision = IF risk = "LOW" THEN "PASS" ELSE "PASS_WITH_WARNING"
  BY <1>11, <1>13 DEF Gates!Aggregate, Gates!Result
<1> QED
  BY <1>6, <1>14 DEF Gates!Accepted, f, v

-----------------------------------------------------------------------------
(* The pipeline *)

\* Every plan comes from the diagnosis and the columns, every delivered SQL
\* matches it, and without a model the candidate is the generator's own and is
\* judged once.
PipelineInv ==
  /\ plan # NoAction => phase \notin {"diagnose", "plan"} /\ plan = Planned(diagnosis, known)
  /\ phase # "done" => outcome = "none"
  /\ AtGates => candidate # NoText /\ plan # NoAction
  /\ phase = "regenerate" => plan # NoAction
  /\ outcome = "delivered" =>
       /\ phase = "done" /\ candidate # NoText /\ plan # NoAction
       /\ MatchesPlan(failed, candidate, plan)
  /\ ~llm => /\ phase \notin {"regenerate", "gate again"}
             /\ phase = "gate" => candidate = Applied(plan, failed)

TextInv == TypeOK /\ PipelineInv /\ OwnRepairPasses

\* The invariant holds initially.
LEMMA TextInit == Init => TextInv
<1>1. Init => TypeOK
  BY DEF Init, TypeOK, Diagnosis, ErrorType, Spelling
<1>2. Init => PipelineInv
  BY DEF Init, PipelineInv, AtGates
<1>3. Init => OwnRepairPasses
  BY DEF Init, OwnRepairPasses
<1> QED
  BY <1>1, <1>2, <1>3 DEF TextInv

\* What the rules classify has one of the error types.
LEMMA ClassifiedType ==
  ASSUME NEW category \in ErrorType \cup {"no match"}, NEW phrase \in ErrorType \cup {"no evidence"}
  PROVE  Classified(category, phrase).type \in ErrorType
BY DEF Classified, ErrorType

\* What the rules, or the rules and the LLM, conclude is a diagnosis.
LEMMA DiagnosisType ==
  ASSUME NEW rule, rule.type \in ErrorType, NEW entity \in Spelling
  PROVE  /\ ByRule(rule, entity) \in Diagnosis
         /\ \A opinion \in Opinion, yes \in BOOLEAN : Fused(rule, opinion, entity, yes) \in Diagnosis
<1>1. ByRule(rule, entity) \in Diagnosis
  BY DEF ByRule, Diagnosis
<1>2. ASSUME NEW opinion \in Opinion, NEW yes \in BOOLEAN
      PROVE  Fused(rule, opinion, entity, yes) \in Diagnosis
  <2>1. opinion.type \in ErrorType
    BY DEF Opinion
  <2>2. [type |-> opinion.type, repairable |-> yes, entity |-> entity] \in Diagnosis
    BY <2>1 DEF Diagnosis
  <2> QED
    BY <1>1, <2>2 DEF Fused
<1> QED
  BY <1>1, <1>2

\* What a generation produces is a text, and without a model the one planned.
LEMMA GeneratedTexts ==
  ASSUME TypeOK, NEW t \in Generations
  PROVE  t \in Text \cup {NoText} /\ (~llm => t = Applied(plan, failed))
<1>1. failed \in Text /\ plan \in Action \cup {NoAction}
  BY TextAssumption DEF TypeOK
<1>2. \A a \in Action \cup {NoAction} : Applied(a, failed) \in Text \cup {NoText}
  BY <1>1, AppliedShape
<1>3. ASSUME NEW x \in Text \cup {NoText}, NEW says, NEW unsafe, NEW a \in Action \cup {NoAction}
      PROVE  LlmGenerates(x, says, unsafe, a) \in Text \cup {NoText}
  BY <1>2 DEF LlmGenerates
<1>4. Written \subseteq Text
  BY TextAssumption
<1>5. CASE ~llm
  BY <1>1, <1>2, <1>5 DEF Generations
<1>6. CASE llm
  <2> DEFINE own     == {LlmGenerates(x, TRUE, TRUE, NoAction) : x \in Written \cup {NoText}}
             offered == {LlmGenerates(NoText, o.says, o.unsafe, o.fragment) : o \in Offer}
  <2>1. \A x \in own : x \in Text \cup {NoText}
    BY <1>3, <1>4
  <2>2. \A x \in offered : x \in Text \cup {NoText}
    <3>1. \A o \in Offer : o.fragment \in Action \cup {NoAction}
      BY DEF Offer
    <3> QED
      BY <1>3, <3>1
  <2>3. Generations = own \cup offered
    BY <1>6 DEF Generations
  <2> HIDE DEF own, offered
  <2> QED
    BY <1>6, <2>1, <2>2, <2>3
<1> QED
  BY <1>5, <1>6 DEF TypeOK

\* Every step of the pipeline keeps the invariant.
LEMMA TextStep ==
  ASSUME TextInv, [Next]_vars
  PROVE  TextInv'
<1> USE DEF TextInv
<1>0. /\ failed \in Text /\ plan \in Action \cup {NoAction} /\ known \in Snapshot
      /\ candidate \in Text \cup {NoText} /\ llm \in BOOLEAN /\ NoAction \notin Action
  BY TextAssumption, ActionType DEF TypeOK
<1>1. CASE Diagnose
  <2>1. diagnosis' \in Diagnosis
    <3>1. PICK category \in ErrorType \cup {"no match"}, phrase \in ErrorType \cup {"no evidence"},
               entity \in Spelling :
            \/ diagnosis' = ByRule(Classified(category, phrase), entity)
            \/ \E opinion \in Opinion, yes \in BOOLEAN :
                 diagnosis' = Fused(Classified(category, phrase), opinion, entity, yes)
      BY <1>1 DEF Diagnose
    <3> DEFINE rule == Classified(category, phrase)
    <3>2. rule.type \in ErrorType
      BY ClassifiedType
    <3> HIDE DEF rule
    <3>3. /\ ByRule(rule, entity) \in Diagnosis
          /\ \A opinion \in Opinion, yes \in BOOLEAN : Fused(rule, opinion, entity, yes) \in Diagnosis
      BY <3>2, DiagnosisType
    <3> QED
      BY <3>1, <3>3 DEF rule
  <2>2. plan = NoAction /\ phase' = "plan" /\ outcome' = "none"
    BY <1>1 DEF Diagnose, PipelineInv
  <2>3. TypeOK'
    BY <1>1, <2>1 DEF Diagnose, TypeOK
  <2>4. PipelineInv'
    BY <1>1, <2>2 DEF Diagnose, PipelineInv, AtGates
  <2> QED
    BY <1>1, <2>2, <2>3, <2>4 DEF OwnRepairPasses
<1>2. CASE Plan
  <2>1. plan' \in Action \cup {NoAction}
    BY <1>2, PlanIsAction DEF Plan, TypeOK
  <2>2. outcome' = "none" /\ phase' = "generate"
    BY <1>2 DEF Plan, PipelineInv
  <2>3. TypeOK'
    BY <1>2, <2>1 DEF Plan, TypeOK
  <2>4. PipelineInv'
    BY <1>2, <2>2 DEF Plan, PipelineInv, AtGates
  <2> QED
    BY <2>2, <2>3, <2>4 DEF OwnRepairPasses
<1>3. CASE Generate
  <2>1. PICK t \in IF plan = NoAction THEN {NoText} ELSE Generations :
          /\ candidate' = t
          /\ phase' = IF t = NoText THEN "done" ELSE "gate"
          /\ outcome' = IF t = NoText THEN "nothing generated" ELSE outcome
    BY <1>3 DEF Generate
  <2>2. outcome = "none" /\ UNCHANGED <<llm, failed, known, diagnosis, plan>> /\ phase = "generate"
    BY <1>3 DEF Generate, PipelineInv
  <2>3. t \in Text \cup {NoText} /\ (~llm /\ t # NoText => t = Applied(plan, failed))
        /\ (t # NoText => plan # NoAction)
    BY <2>1, GeneratedTexts
  <2>4. TypeOK'
    BY <2>1, <2>2, <2>3 DEF TypeOK
  <2>5. PipelineInv'
    BY <2>1, <2>2, <2>3 DEF PipelineInv, AtGates
  <2>6. OwnRepairPasses'
    BY <2>1, <2>2 DEF OwnRepairPasses
  <2> QED
    BY <2>4, <2>5, <2>6
\* A refusal is a text that cannot pass: the generator's own only if it was not
\* acceptable from the start.
<1>4. ASSUME Refuse, UNCHANGED <<llm, failed, known, diagnosis, plan>>, OwnRepairPasses'
      PROVE  TextInv'
  <2>1. TypeOK'
    BY <1>4 DEF Refuse, TypeOK
  <2>2. PipelineInv'
    BY <1>4 DEF Refuse, PipelineInv, AtGates
  <2> QED
    BY <1>4, <2>1, <2>2
<1>5. CASE Invalid
  <2>1. OwnRepairPasses'
    <3> SUFFICES ASSUME ~llm
                 PROVE  \/ failed.verb \in {"drop", "update"}
                        \/ Inserts(failed) /\ ~Parses(Applied(plan, failed))
                        \/ plan.type = "ADD_CAST" /\ ~AllowMedium
      BY <1>5 DEF OwnRepairPasses, Invalid
    <3>1. candidate = Applied(plan, failed) /\ candidate # NoText /\ plan \in Action
      BY <1>0, <1>5 DEF Invalid, AtGates, PipelineInv
    <3> QED
      BY <1>0, <1>5, <3>1, OwnInvalid, OwnIsClean DEF Invalid
  <2> QED
    BY <1>4, <1>5, <2>1 DEF Invalid
<1>6. ASSUME AtGates, Valid, NEW v \in Verdicts(failed, candidate, plan), Judge(v)
      PROVE  TextInv'
  <2> DEFINE r == Gates!RunRequest(FindingOf(failed, candidate, plan), v, candidate)
  <2>1. UNCHANGED <<llm, failed, known, diagnosis, plan>> /\ phase = "gate" /\ outcome = "none"
    BY <1>6 DEF Judge, PipelineInv
  <2>2. candidate # NoText /\ plan \in Action
    BY <1>0, <1>6 DEF PipelineInv
  <2>3. ~llm => Gates!Accepted(r)
    <3>1. ~llm => v = RuleVerdict(failed, candidate, plan) /\ candidate = Applied(plan, failed)
      BY <1>6, <2>1 DEF Verdicts, PipelineInv
    <3> QED
      BY <1>0, <1>6, <2>2, <3>1, OwnAccepted
  <2> HIDE DEF r
  <2>4. CASE Gates!Accepted(r)
    <3>1. phase' = "done" /\ outcome' = "delivered" /\ candidate' = candidate
      BY <1>6, <2>4 DEF Judge, r
    <3>2. MatchesPlan(failed, candidate, plan)
      BY <1>6, ValidMatches
    <3>3. TypeOK'
      BY <2>1, <3>1 DEF TypeOK
    <3>4. PipelineInv'
      BY <1>0, <2>1, <2>2, <3>1, <3>2 DEF PipelineInv, AtGates
    <3> QED
      BY <3>1, <3>3, <3>4 DEF OwnRepairPasses
  <2>5. CASE ~Gates!Accepted(r) /\ r.regenerate
    <3>1. phase' = "regenerate" /\ candidate' = NoText /\ outcome' = outcome /\ llm
      BY <1>0, <1>6, <2>3, <2>5 DEF Judge, r
    <3>2. TypeOK'
      BY <2>1, <3>1 DEF TypeOK
    <3>3. PipelineInv'
      BY <1>0, <2>1, <2>2, <3>1 DEF PipelineInv, AtGates
    <3> QED
      BY <2>1, <3>1, <3>2, <3>3 DEF OwnRepairPasses
  <2>6. CASE ~Gates!Accepted(r) /\ ~r.regenerate
    <3>1. Refuse /\ llm
      BY <1>0, <1>6, <2>3, <2>6 DEF Judge, r
    <3> QED
      BY <1>4, <2>1, <3>1 DEF OwnRepairPasses
  <2> QED
    BY <2>4, <2>5, <2>6
<1>7. CASE Regenerate
  <2>1. llm /\ phase = "regenerate" /\ outcome = "none" /\ plan # NoAction
    BY <1>0, <1>7 DEF Regenerate, PipelineInv
  <2>2. UNCHANGED <<llm, failed, known, diagnosis, plan>>
    BY <1>7 DEF Regenerate
  <2>3. PICK t \in Generations :
          IF t = NoText THEN Refuse
          ELSE phase' = "gate again" /\ candidate' = t /\ UNCHANGED outcome
    BY <1>7 DEF Regenerate
  <2>4. CASE t = NoText
    BY <1>4, <2>1, <2>2, <2>3, <2>4 DEF OwnRepairPasses
  <2>5. CASE t # NoText
    <3>1. t \in Text
      BY <2>5, GeneratedTexts
    <3>2. phase' = "gate again" /\ candidate' = t /\ outcome' = "none"
      BY <2>1, <2>3, <2>5
    <3>3. TypeOK'
      BY <2>2, <3>1, <3>2 DEF TypeOK
    <3>4. PipelineInv'
      BY <2>1, <2>2, <2>5, <3>2 DEF PipelineInv, AtGates
    <3> QED
      BY <3>2, <3>3, <3>4 DEF OwnRepairPasses
  <2> QED
    BY <2>4, <2>5
<1>8. ASSUME AtGates, Valid, NEW v \in Verdicts(failed, candidate, plan), JudgeAgain(v)
      PROVE  TextInv'
  <2> DEFINE r == Gates!RunRequest(FindingOf(failed, candidate, plan), v, candidate)
  <2>1. /\ UNCHANGED <<llm, failed, known, diagnosis, plan>> /\ phase = "gate again" /\ llm
        /\ candidate # NoText /\ plan # NoAction
    BY <1>0, <1>8 DEF JudgeAgain, PipelineInv
  <2> HIDE DEF r
  <2>2. CASE r.decision = "PASS"
    <3>1. phase' = "done" /\ outcome' = "delivered" /\ candidate' = candidate
      BY <1>8, <2>2 DEF JudgeAgain, r
    <3>2. MatchesPlan(failed, candidate, plan)
      BY <1>8, ValidMatches
    <3>3. TypeOK'
      BY <2>1, <3>1 DEF TypeOK
    <3>4. PipelineInv'
      BY <2>1, <3>1, <3>2 DEF PipelineInv, AtGates
    <3> QED
      BY <3>1, <3>3, <3>4 DEF OwnRepairPasses
  <2>3. CASE r.decision # "PASS"
    <3>1. Refuse
      BY <1>8, <2>3 DEF JudgeAgain, r
    <3> QED
      BY <1>4, <2>1, <3>1 DEF OwnRepairPasses
  <2> QED
    BY <2>2, <2>3
<1>9. CASE UNCHANGED vars
  <2>1. TypeOK'
    BY <1>9 DEF vars, TypeOK
  <2>2. PipelineInv'
    BY <1>9 DEF vars, PipelineInv, AtGates
  <2>3. OwnRepairPasses'
    BY <1>9 DEF vars, OwnRepairPasses
  <2> QED
    BY <2>1, <2>2, <2>3
<1> QED
  BY <1>1, <1>2, <1>3, <1>5, <1>6, <1>7, <1>8, <1>9 DEF Next

\* The pipeline keeps TextInv: types, where plan and candidate come from, and
\* that the generator's own repair is not refused (build_repair_plan,
\* generate_sql_candidate, OnlineGateAdapter.run).
THEOREM TextInvariant == Spec => []TextInv
<1>1. Init => TextInv
  BY TextInit
<1>2. TextInv /\ [Next]_vars => TextInv'
  BY TextStep
<1> QED
  BY <1>1, <1>2, PTL DEF Spec

\* Whatever the failed SQL, the metadata and the answers of a model are, a
\* delivered SQL is the failed one with the planned action applied to one word
\* (generate_sql_candidate, candidate_matches_plan, Validator.validate).
THEOREM DeliveredAsPlanned == Spec => []DeliveredIsThePlan
<1>1. TextInv => DeliveredIsThePlan
  <2> SUFFICES ASSUME TextInv, outcome = "delivered" PROVE DeliveredIsThePlan
    BY DEF DeliveredIsThePlan
  <2>1. failed \in Text /\ candidate \in Text /\ plan \in Action \cup {NoAction}
    BY TextAssumption DEF TextInv, TypeOK, PipelineInv
  <2> QED
    BY <2>1, MatchIsThePlan DEF TextInv, PipelineInv
<1> QED
  BY <1>1, TextInvariant, PTL

\* The order of the metadata never chooses a repair: the column a delivered SQL
\* puts in is in one table and clearly the most similar (RepairPlanner.plan,
\* find_column_candidates).
THEOREM DeliveredFromMetadata == Spec => []DeliveredIsGrounded
<1>1. TextInv => DeliveredIsGrounded
  <2> SUFFICES ASSUME TextInv, outcome = "delivered" PROVE DeliveredIsGrounded
    BY DEF DeliveredIsGrounded
  <2>1. Grounded(diagnosis, known, plan)
    BY PlanIsGrounded DEF TextInv, TypeOK, PipelineInv
  <2> QED
    BY <2>1 DEF Grounded, DeliveredIsGrounded, Columns
<1> QED
  BY <1>1, TextInvariant, PTL

\* Diff, validator, evaluator and gates accept every repair the deterministic
\* generator makes, but for what the failed SQL was before and for its risk.
THEOREM OwnRepairAccepted == Spec => []OwnRepairPasses
BY TextInvariant, PTL DEF TextInv
=============================================================================
