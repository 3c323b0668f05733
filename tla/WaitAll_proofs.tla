--------------------------- MODULE WaitAll_proofs ---------------------------
(***************************************************************************)
(* Groups for any number of threads, tasks, groups, buffers and mark       *)
(* records: JoinInv is inductive. Its parts take the variables as          *)
(* parameters, so that one step may be argued in several.                  *)
(***************************************************************************)
EXTENDS WaitAll, FiniteSetTheorems, TLAPS

Owner == Task \cup Join \cup {None}
Mark == [obj : Object \cup {None}, gen : Nat, owner : Owner, write : BOOLEAN]

Has(q, m) == \E i \in 1 .. Len(q) : q[i] = m
Once(q) == \A i, j \in 1 .. Len(q) : q[i] = q[j] => i = j

\* Records with their free list f: it has each free record once.
MarksOK(r, f) ==
    /\ r \in [Record -> Mark]
    /\ \A m \in Record : r[m].obj = None => r[m].owner = None /\ ~r[m].write
    /\ f \in Seq(Record)
    /\ Once(f)
    /\ \A m \in Record : Has(f, m) <=> r[m].obj = None

\* A group that owns a mark has been made.
OwnersOK(r, st) == \A m \in Record : r[m].owner \in Join => st[r[m].owner] # "new"

\* An entry is of the present or of a past life of its record.
PastOK(r, sn) == \A j \in Join : \A e \in sn[j] : e.gen =< r[e.mark].gen

\* The snapshot of a running group tells what is outstanding.
SnapsOK(r, st, sn, out) ==
    \A j \in Join :
        /\ st[j] = "running" =>
              /\ sn[j] # {}
              /\ \A m \in Record :
                    m \in out[j] <=> \E e \in sn[j] : /\ e.mark = m
                                                      /\ r[m].obj # None
                                                      /\ r[m].gen = e.gen
        /\ st[j] # "running" => out[j] = {}

(* A poll of a group that is running has its snapshot. One that has found  *)
(* nothing pending is right for good, and one that has completed the group *)
(* may drop the snapshot.                                                  *)
FrameOK(f, st, sn, out) ==
    /\ st[f.join] # "new"
    /\ f.at \in {"head", "ask"} /\ st[f.join] = "running" => f.s = sn[f.join]
    /\ f.at = "complete" => out[f.join] = {}
    /\ f.at = "clear" => st[f.join] = "done"

FramesOK(k, st, sn, out) ==
    /\ k \in [Thread -> Seq(Frame)]
    /\ \A th \in Thread : \A i \in 1 .. Len(k[th]) : FrameOK(k[th][i], st, sn, out)

(* What state, snap and outstanding range over. *)
JoinTypes ==
    /\ state \in [Task \cup Join -> {"new", "running", "done"}]
    /\ snap \in [Join -> SUBSET Entry]
    /\ outstanding \in [Join -> SUBSET Record]

JoinInv ==
    /\ JoinTypes
    /\ MarksOK(rec, free)
    /\ OwnersOK(rec, state)
    /\ PastOK(rec, snap)
    /\ SnapsOK(rec, state, snap, outstanding)
    /\ FramesOK(stack, state, snap, outstanding)

-----------------------------------------------------------------------------
(* Free lists. *)

(* Marks are freed in some order, each once. *)
LEMMA Permuted ==
    ASSUME NEW M \in SUBSET Record, NEW s \in SetToSeqs(M)
    PROVE  s \in Seq(Record) /\ Once(s) /\ \A m : Has(s, m) <=> m \in M
<1>1. IsFiniteSet(M) /\ Cardinality(M) \in Nat
  BY RecordsFinite, FS_Subset, FS_CardinalityType
<1>2. PICK n \in Nat : n = Cardinality(M)
  BY <1>1
<1>3. s \in [1 .. n -> M] /\ \A i, j \in 1 .. n : i # j => s[i] # s[j]
  BY <1>2 DEF SetToSeqs
<1>4. s \in Seq(Record) /\ Len(s) = n
  BY <1>3
<1>5. s \in Injection(1 .. n, M)
  BY <1>3 DEF Injection, IsInjective
<1>6. IsFiniteSet(1 .. n) /\ Cardinality(1 .. n) = n
  BY FS_Interval
<1>7. s \in Surjection(1 .. n, M)
  BY <1>1, <1>2, <1>5, <1>6, FS_Injection
<1>8. \A m \in M : \E i \in 1 .. n : s[i] = m
  BY <1>7 DEF Surjection
<1> QED
  BY <1>3, <1>4, <1>8 DEF Once, Has

LEMMA Prepended ==
    ASSUME NEW s \in Seq(Record), NEW f \in Seq(Record), Once(s), Once(f),
           \A m \in Record : ~(Has(s, m) /\ Has(f, m)), NEW q, q = s \o f
    PROVE  q \in Seq(Record) /\ Once(q) /\ \A m : Has(q, m) <=> Has(s, m) \/ Has(f, m)
<1>1. /\ Len(s) \in Nat /\ Len(f) \in Nat /\ q \in Seq(Record) /\ Len(q) = Len(s) + Len(f)
      /\ \A i \in 1 .. Len(q) : q[i] = IF i =< Len(s) THEN s[i] ELSE f[i - Len(s)]
      /\ \A i \in 1 .. Len(s) : s[i] \in Record
      /\ \A i \in 1 .. Len(f) : f[i] \in Record
  OBVIOUS
<1>2. \A i \in 1 .. Len(q) : i =< Len(s) => i \in 1 .. Len(s) /\ q[i] = s[i]
  BY <1>1
<1>3. \A i \in 1 .. Len(q) : ~(i =< Len(s)) => i - Len(s) \in 1 .. Len(f) /\ q[i] = f[i - Len(s)]
  BY <1>1
<1>4. \A i \in 1 .. Len(s) : i \in 1 .. Len(q) /\ q[i] = s[i]
  BY <1>1
<1>5. \A i \in 1 .. Len(f) : Len(s) + i \in 1 .. Len(q) /\ q[Len(s) + i] = f[i]
  BY <1>1
<1>6. Once(q)
  <2> SUFFICES ASSUME NEW i \in 1 .. Len(q), NEW j \in 1 .. Len(q), q[i] = q[j]
               PROVE  i = j
    BY DEF Once
  <2>1. CASE i =< Len(s) /\ j =< Len(s)
    BY <1>2, <2>1 DEF Once
  <2>2. CASE ~(i =< Len(s)) /\ ~(j =< Len(s))
    <3>1. i - Len(s) = j - Len(s)
      BY <1>3, <2>2 DEF Once
    <3> QED
      BY <1>1, <3>1
  <2>3. ASSUME NEW k \in 1 .. Len(q), NEW l \in 1 .. Len(q), k =< Len(s), ~(l =< Len(s)), q[k] = q[l]
        PROVE  FALSE
    <3>1. Has(s, q[k])
      BY <1>2, <2>3 DEF Has
    <3>2. Has(f, q[l])
      BY <1>3, <2>3 DEF Has
    <3>3. q[k] \in Record
      BY <1>1, <1>2, <2>3
    <3> QED
      BY <2>3, <3>1, <3>2, <3>3
  <2> QED
    BY <2>1, <2>2, <2>3
<1>7. ASSUME NEW m
      PROVE  Has(q, m) <=> Has(s, m) \/ Has(f, m)
  <2>1. ASSUME Has(q, m)
        PROVE  Has(s, m) \/ Has(f, m)
    <3>1. PICK i \in 1 .. Len(q) : q[i] = m
      BY <2>1 DEF Has
    <3>2. CASE i =< Len(s)
      BY <1>2, <3>1, <3>2 DEF Has
    <3>3. CASE ~(i =< Len(s))
      BY <1>3, <3>1, <3>3 DEF Has
    <3> QED
      BY <3>2, <3>3
  <2>2. Has(s, m) => Has(q, m)
    BY <1>4 DEF Has
  <2>3. Has(f, m) => Has(q, m)
    BY <1>5 DEF Has
  <2> QED
    BY <2>1, <2>2, <2>3
<1> QED
  BY <1>1, <1>6, <1>7

LEMMA Popped ==
    ASSUME NEW f \in Seq(Record), Once(f), f # <<>>
    PROVE  /\ Head(f) \in Record /\ Has(f, Head(f))
           /\ Tail(f) \in Seq(Record) /\ Once(Tail(f))
           /\ \A m : Has(Tail(f), m) <=> Has(f, m) /\ m # Head(f)
<1>1. /\ Len(f) \in Nat \ {0} /\ Head(f) = f[1] /\ f[1] \in Record
      /\ Tail(f) \in Seq(Record) /\ Len(Tail(f)) = Len(f) - 1
      /\ \A i \in 1 .. Len(f) - 1 : Tail(f)[i] = f[i + 1]
  OBVIOUS
<1>2. PICK q, h : q = Tail(f) /\ h = Head(f)
  OBVIOUS
<1>3. \A i \in 1 .. Len(f) - 1 : q[i] = f[i + 1] /\ i + 1 \in 1 .. Len(f) /\ i + 1 # 1
  BY <1>1, <1>2
<1>4. 1 \in 1 .. Len(f) /\ Len(q) = Len(f) - 1 /\ h = f[1]
  BY <1>1, <1>2
<1>5. Once(q)
  <2> SUFFICES ASSUME NEW i \in 1 .. Len(f) - 1, NEW j \in 1 .. Len(f) - 1, q[i] = q[j]
               PROVE  i = j
    BY <1>4 DEF Once
  <2>1. i + 1 = j + 1
    BY <1>3 DEF Once
  <2> QED
    BY <2>1
<1>6. ASSUME NEW m
      PROVE  Has(q, m) <=> Has(f, m) /\ m # h
  <2>1. ASSUME NEW i \in 1 .. Len(f) - 1, q[i] = m
        PROVE  Has(f, m) /\ m # h
    BY <1>3, <1>4, <2>1 DEF Has, Once
  <2>2. ASSUME NEW i \in 1 .. Len(f), f[i] = m, m # h
        PROVE  Has(q, m)
    <3>1. i - 1 \in 1 .. Len(f) - 1 /\ (i - 1) + 1 = i
      BY <1>1, <1>4, <2>2
    <3> QED
      BY <1>3, <1>4, <2>2, <3>1 DEF Has
  <2> QED
    BY <1>4, <2>1, <2>2 DEF Has
<1> QED
  BY <1>1, <1>2, <1>4, <1>5, <1>6 DEF Has

-----------------------------------------------------------------------------
(* Records. *)

\* From r to r2 the marks of M go, and records that are free are renewed.
Moves(r, r2, M) ==
    \A m \in Record :
        \/ m \notin M /\ r2[m].gen = r[m].gen /\ (r2[m].obj = None <=> r[m].obj = None)
        \/ m \in M /\ r2[m].gen = r[m].gen /\ r2[m].obj = None
        \/ (m \in M \/ r[m].obj = None) /\ r2[m].gen = r[m].gen + 1

Without(out, M) == [j \in Join |-> out[j] \ M]

LEMMA MarkFields ==
    ASSUME NEW x \in Mark
    PROVE  /\ x.obj \in Object \cup {None} /\ x.gen \in Nat /\ x.owner \in Owner
           /\ x.write \in BOOLEAN
  BY DEF Mark

LEMMA NoneIsNoObject == None \notin Object /\ None \notin Join /\ None \notin Task
  BY NoneIsNot DEF Object

\* r2 is r with the records of M blank.
Blanked(r, r2, M) ==
    /\ r2 \in [Record -> Mark]
    /\ \A m \in Record : m \notin M => r2[m] = r[m]
    /\ \A m \in Record : m \in M => /\ r2[m].obj = None /\ r2[m].owner = None
                                    /\ r2[m].write = FALSE /\ r2[m].gen = r[m].gen

(* mark_remove *)
LEMMA RemovedFacts ==
    ASSUME NEW r \in [Record -> Mark], NEW M, NEW r2, r2 = Removed(r, M)
    PROVE  Blanked(r, r2, M)
<1>1. \A m \in Record : m \notin M => r2[m] = r[m]
  BY DEF Removed
<1>2. ASSUME NEW m \in Record, m \in M
      PROVE  /\ r2[m].obj = None /\ r2[m].owner = None
             /\ r2[m].write = FALSE /\ r2[m].gen = r[m].gen /\ r2[m] \in Mark
  <2>1. r[m] \in Mark
    OBVIOUS
  <2>2. r2[m] = [r[m] EXCEPT !.obj = None, !.owner = None, !.write = FALSE]
    BY <1>2 DEF Removed
  <2> QED
    BY <2>1, <2>2 DEF Mark, Owner
<1>3. r2 \in [Record -> Mark]
  <2>1. \A m \in Record : r2[m] \in Mark
    BY <1>1, <1>2
  <2>2. r2 = [m \in Record |-> r2[m]]
    BY DEF Removed
  <2> QED
    BY <2>1, <2>2
<1> QED
  BY <1>1, <1>2, <1>3 DEF Blanked

LEMMA RemovedOK ==
    ASSUME NEW r, NEW f, MarksOK(r, f), NEW M \in SUBSET Record, \A m \in M : r[m].obj # None,
           NEW r2, r2 = Removed(r, M), NEW s \in SetToSeqs(M), NEW q, q = s \o f
    PROVE  MarksOK(r2, q) /\ Moves(r, r2, M) /\ Blanked(r, r2, M)
<1>1. r \in [Record -> Mark] /\ f \in Seq(Record) /\ Once(f)
  BY DEF MarksOK
<1>2. /\ r2 \in [Record -> Mark]
      /\ \A m \in Record : m \notin M => r2[m] = r[m]
      /\ \A m \in Record : m \in M => /\ r2[m].obj = None /\ r2[m].owner = None
                                      /\ r2[m].write = FALSE /\ r2[m].gen = r[m].gen
  <2>1. Blanked(r, r2, M)
    BY <1>1, RemovedFacts
  <2> QED
    BY <2>1 DEF Blanked
<1>3. s \in Seq(Record) /\ Once(s) /\ \A m : Has(s, m) <=> m \in M
  BY Permuted
<1>4. \A m \in Record : ~(Has(s, m) /\ Has(f, m))
  BY <1>3 DEF MarksOK
<1>5. q \in Seq(Record) /\ Once(q) /\ \A m : Has(q, m) <=> Has(s, m) \/ Has(f, m)
  BY <1>1, <1>3, <1>4, Prepended
<1>6. \A m \in Record : Has(q, m) <=> r2[m].obj = None
  BY <1>2, <1>3, <1>5 DEF MarksOK
<1>7. \A m \in Record : r2[m].obj = None => r2[m].owner = None /\ ~r2[m].write
  BY <1>2 DEF MarksOK
<1>8. MarksOK(r2, q)
  BY <1>2, <1>5, <1>6, <1>7 DEF MarksOK
<1>9. Moves(r, r2, M)
  BY <1>2 DEF Moves
<1> QED
  BY <1>1, <1>8, <1>9, RemovedFacts

\* h was free in r, and is now a mark of t on o.
Renewed(r, h, o, t) ==
    /\ r[h].obj = None /\ rec'[h].gen = r[h].gen + 1
    /\ rec'[h].obj = o /\ rec'[h].owner = t
    /\ \A m \in Record : m # h => rec'[m] = r[m]

(* mark_add *)
LEMMA AddedOK ==
    ASSUME NEW r, NEW f, MarksOK(r, f), NEW o \in Object, NEW t \in Owner, NEW w \in BOOLEAN,
           Added(r, f, o, t, w)
    PROVE  /\ MarksOK(rec', free')
           /\ \E h \in Record : Renewed(r, h, o, t)
<1>1. r \in [Record -> Mark] /\ f \in Seq(Record) /\ Once(f) /\ f # <<>>
  BY DEF MarksOK, Added
<1>2. PICK h \in Record : h = Head(f)
  BY <1>1, Popped
<1>3. /\ Has(f, h) /\ free' \in Seq(Record) /\ Once(free')
      /\ \A m : Has(free', m) <=> Has(f, m) /\ m # h
  BY <1>1, <1>2, Popped DEF Added
<1>4. r[h] \in Mark /\ r[h].gen \in Nat
  BY <1>1, MarkFields
<1>5. /\ rec'[h] = [obj |-> o, gen |-> r[h].gen + 1, owner |-> t, write |-> w]
      /\ \A m \in Record : m # h => rec'[m] = r[m]
      /\ rec' = [m \in Record |-> rec'[m]]
  BY <1>1, <1>2 DEF Added
<1>6. rec'[h] \in Mark /\ rec'[h].obj = o /\ rec'[h].gen = r[h].gen + 1 /\ rec'[h].owner = t
  BY <1>4, <1>5 DEF Mark
<1>7. rec' \in [Record -> Mark]
  BY <1>1, <1>5, <1>6
<1>8. r[h].obj = None /\ o # None
  BY <1>3, NoneIsNoObject DEF MarksOK
<1>9. \A m \in Record : Has(free', m) <=> rec'[m].obj = None
  BY <1>3, <1>5, <1>6, <1>8 DEF MarksOK
<1>10. \A m \in Record : rec'[m].obj = None => rec'[m].owner = None /\ ~rec'[m].write
  BY <1>5, <1>6, <1>8 DEF MarksOK
<1>11. MarksOK(rec', free')
  BY <1>3, <1>7, <1>9, <1>10 DEF MarksOK
<1> QED
  BY <1>5, <1>6, <1>8, <1>11 DEF Renewed

-----------------------------------------------------------------------------
(* The three ways marks change keep records, owners and snapshots right.   *)

\* What is right of the marks after a step that removed those of M.
MarksStep(M) ==
    /\ MarksOK(rec', free')
    /\ Moves(rec, rec', M)
    /\ outstanding' = Without(outstanding, M)
    /\ \A m \in Record : rec'[m].owner \in Join => rec'[m].owner = rec[m].owner

LEMMA RemoveMarksOK ==
    ASSUME MarksOK(rec, free), NEW M \in SUBSET Record, \A m \in M : rec[m].obj # None, RemoveMarks(M)
    PROVE  MarksStep(M)
<1>1. PICK s \in SetToSeqs(M) : free' = s \o free
  BY DEF RemoveMarks
<1>2. rec' = Removed(rec, M) /\ outstanding' = Without(outstanding, M)
  BY DEF RemoveMarks, Without
<1>3. MarksOK(rec', free') /\ Moves(rec, rec', M) /\ Blanked(rec, rec', M)
  BY <1>1, <1>2, RemovedOK
<1> QED
  BY <1>2, <1>3, NoneIsNoObject DEF MarksStep, Blanked

LEMMA ReplaceOK ==
    ASSUME MarksOK(rec, free), NEW M \in SUBSET Record, \A m \in M : rec[m].obj # None,
           NEW o \in Object, NEW t \in Task \cup {None}, NEW w \in BOOLEAN, Replace(M, o, t, w)
    PROVE  MarksStep(M)
<1>1. PICK s \in SetToSeqs(M) : Added(Removed(rec, M), s \o free, o, t, w)
  BY DEF Replace
<1>2. PICK r, f : r = Removed(rec, M) /\ f = s \o free
  OBVIOUS
<1>3. MarksOK(r, f) /\ Moves(rec, r, M) /\ Blanked(rec, r, M)
  BY <1>2, RemovedOK
<1>4. t \in Owner /\ t \notin Join
  BY NoneIsNoObject, JoinsAreNotTasks DEF Owner
<1>5. Added(r, f, o, t, w)
  BY <1>1, <1>2
<1>6. MarksOK(rec', free')
  BY <1>3, <1>4, <1>5, AddedOK
<1>7. PICK h \in Record : Renewed(r, h, o, t)
  BY <1>3, <1>4, <1>5, AddedOK
<1>8. \A m \in Record : m # h => rec'[m] = r[m]
  BY <1>7 DEF Renewed
<1>9. Moves(rec, rec', M)
  <2> SUFFICES ASSUME NEW m \in Record
               PROVE  \/ m \notin M /\ rec'[m].gen = rec[m].gen /\ (rec'[m].obj = None <=> rec[m].obj = None)
                      \/ m \in M /\ rec'[m].gen = rec[m].gen /\ rec'[m].obj = None
                      \/ (m \in M \/ rec[m].obj = None) /\ rec'[m].gen = rec[m].gen + 1
    BY DEF Moves
  <2>1. CASE m # h
    BY <1>3, <1>8, <2>1 DEF Blanked
  <2>2. CASE m = h
    BY <1>3, <1>7, <2>2 DEF Blanked, Renewed
  <2> QED
    BY <2>1, <2>2
<1>10. \A m \in Record : rec'[m].owner \in Join => rec'[m].owner = rec[m].owner
  BY <1>3, <1>4, <1>7, NoneIsNoObject DEF Blanked, Renewed
<1> QED
  BY <1>6, <1>9, <1>10 DEF MarksStep, Replace, Without

LEMMA UpgradeOK ==
    ASSUME MarksOK(rec, free), NEW M \in SUBSET Record, \A m \in M : rec[m].obj # None,
           NEW own \in SUBSET Record, own \cap M = {}, \A m \in own : rec[m].obj # None,
           Upgrade(M, own)
    PROVE  MarksStep(M)
<1>1. PICK s \in SetToSeqs(M) : free' = s \o free
  BY DEF Upgrade
<1>2. PICK r : r = Removed(rec, M)
  OBVIOUS
<1>3. MarksOK(r, free') /\ Moves(rec, r, M) /\ Blanked(rec, r, M)
  BY <1>1, <1>2, RemovedOK
<1>4. rec' = [m \in Record |-> IF m \in own THEN [rec[m] EXCEPT !.write = TRUE] ELSE r[m]]
  BY <1>2 DEF Upgrade
<1>5. rec \in [Record -> Mark] /\ r \in [Record -> Mark]
  BY <1>3 DEF MarksOK
<1>6. ASSUME NEW m \in own
      PROVE  /\ rec'[m] \in Mark /\ rec'[m].obj = rec[m].obj /\ rec'[m].gen = rec[m].gen
             /\ rec'[m].owner = rec[m].owner /\ r[m] = rec[m]
  <2>1. rec[m] \in Mark /\ rec'[m] = [rec[m] EXCEPT !.write = TRUE]
    BY <1>4, <1>5
  <2> QED
    BY <1>3, <2>1 DEF Mark, Blanked
<1>7. \A m \in Record : m \notin own => rec'[m] = r[m]
  BY <1>4
<1>8. rec' \in [Record -> Mark]
  <2>1. \A m \in Record : rec'[m] \in Mark
    BY <1>5, <1>6, <1>7
  <2> QED
    BY <1>4, <2>1
<1>9. MarksOK(rec', free')
  BY <1>3, <1>6, <1>7, <1>8 DEF MarksOK
<1>10. Moves(rec, rec', M)
  <2>1. \A m \in own : m \notin M
    OBVIOUS
  <2> QED
    BY <1>3, <1>6, <1>7, <2>1 DEF Moves
<1>11. \A m \in Record : rec'[m].owner \in Join => rec'[m].owner = rec[m].owner
  BY <1>3, <1>6, <1>7, NoneIsNoObject DEF Blanked
<1> QED
  BY <1>9, <1>10, <1>11 DEF MarksStep, Upgrade, Without

(* A snapshot tells what is outstanding after marks have gone and others   *)
(* come, in the same records too.                                          *)
LEMMA SnapsMove ==
    ASSUME NEW r, r \in [Record -> Mark], NEW r2, NEW M, Moves(r, r2, M), NEW st,
           NEW sn \in [Join -> SUBSET Entry], PastOK(r, sn),
           NEW out \in [Join -> SUBSET Record], SnapsOK(r, st, sn, out),
           NEW out2, out2 = Without(out, M)
    PROVE  PastOK(r2, sn) /\ SnapsOK(r2, st, sn, out2) /\ out2 \in [Join -> SUBSET Record]
<1>1. \A m \in Record : r[m].gen \in Nat
  BY MarkFields
<1>2. \A j \in Join : \A e \in sn[j] : e.mark \in Record /\ e.gen \in Nat /\ e.gen =< r[e.mark].gen
  BY DEF PastOK, Entry
<1>3. \A m \in Record : r2[m].gen = r[m].gen \/ r2[m].gen = r[m].gen + 1
  BY DEF Moves
<1>4. PastOK(r2, sn)
  BY <1>1, <1>2, <1>3 DEF PastOK
<1>5. \A j \in Join : out2[j] = out[j] \ M
  BY DEF Without
<1>6. out2 \in [Join -> SUBSET Record]
  BY DEF Without
<1>7. ASSUME NEW j \in Join, st[j] = "running", NEW m \in Record
      PROVE  m \in out2[j] <=> \E e \in sn[j] : e.mark = m /\ r2[m].obj # None /\ r2[m].gen = e.gen
  <2>1. m \in out[j] <=> \E e \in sn[j] : e.mark = m /\ r[m].obj # None /\ r[m].gen = e.gen
    BY <1>7 DEF SnapsOK
  <2>2. CASE m \notin M /\ r2[m].gen = r[m].gen /\ (r2[m].obj = None <=> r[m].obj = None)
    BY <1>5, <2>1, <2>2
  <2>3. CASE m \in M /\ r2[m].gen = r[m].gen /\ r2[m].obj = None
    BY <1>5, <2>3
  <2>4. CASE (m \in M \/ r[m].obj = None) /\ r2[m].gen = r[m].gen + 1
    <3>1. m \notin out2[j]
      BY <1>5, <2>1, <2>4
    <3>2. ASSUME NEW e \in sn[j], e.mark = m
          PROVE  r2[m].gen # e.gen
      BY <1>1, <1>2, <2>4, <3>2
    <3> QED
      BY <3>1, <3>2
  <2> QED
    BY <2>2, <2>3, <2>4 DEF Moves
<1>8. SnapsOK(r2, st, sn, out2)
  BY <1>5, <1>7 DEF SnapsOK
<1> QED
  BY <1>4, <1>6, <1>8

-----------------------------------------------------------------------------
(* Frames. *)

LEMMA FrameFields ==
    ASSUME NEW f \in Frame
    PROVE  /\ f.at \in {"called", "head", "ask", "complete", "clear"}
           /\ f.join \in Join /\ f.mode \in Mode /\ f.s \in SUBSET Entry /\ f.todo \in SUBSET Entry
  BY DEF Frame

\* What the groups may come to without hurting the polls under way.
FramesStay(st, sn, out, st2, sn2, out2) ==
    \A j \in Join : st[j] # "new" =>
        /\ st2[j] # "new"
        /\ st2[j] = "running" => st[j] = "running" /\ sn2[j] = sn[j]
        /\ st[j] = "done" => st2[j] = "done"
        /\ out2[j] \subseteq out[j]

LEMMA FramesKept ==
    ASSUME NEW k, NEW st, NEW sn, NEW out, FramesOK(k, st, sn, out),
           NEW st2, NEW sn2, NEW out2, FramesStay(st, sn, out, st2, sn2, out2)
    PROVE  FramesOK(k, st2, sn2, out2)
<1>1. k \in [Thread -> Seq(Frame)]
  BY DEF FramesOK
<1>2. ASSUME NEW th \in Thread, NEW i \in 1 .. Len(k[th])
      PROVE  FrameOK(k[th][i], st2, sn2, out2)
  <2>1. PICK f \in Frame : f = k[th][i]
    BY <1>1
  <2>2. FrameOK(f, st, sn, out) /\ f.join \in Join
    BY <2>1, FrameFields DEF FramesOK
  <2>3. FrameOK(f, st2, sn2, out2)
    BY <2>2 DEF FrameOK, FramesStay
  <2> QED
    BY <2>1, <2>3
<1> QED
  BY <1>1, <1>2 DEF FramesOK

\* One thread's frames are those it had, but for those of S.
Grown(q, p, S) ==
    /\ p \in Seq(Frame)
    /\ \A i \in 1 .. Len(p) : p[i] \in S \/ \E l \in 1 .. Len(q) : p[i] = q[l]

LEMMA FramesChange ==
    ASSUME NEW k, NEW st, NEW sn, NEW out, FramesOK(k, st, sn, out), NEW th \in Thread,
           NEW p, NEW S, Grown(k[th], p, S), \A f \in S : FrameOK(f, st, sn, out),
           NEW k2, k2 = [k EXCEPT ![th] = p]
    PROVE  FramesOK(k2, st, sn, out)
<1>1. k \in [Thread -> Seq(Frame)] /\ p \in Seq(Frame)
  BY DEF FramesOK, Grown
<1>2. k2 \in [Thread -> Seq(Frame)] /\ k2[th] = p /\ \A x \in Thread : x # th => k2[x] = k[x]
  BY <1>1
<1>3. \A i \in 1 .. Len(p) : FrameOK(p[i], st, sn, out)
  BY DEF Grown, FramesOK
<1>4. \A x \in Thread : \A i \in 1 .. Len(k2[x]) : FrameOK(k2[x][i], st, sn, out)
  BY <1>2, <1>3 DEF FramesOK
<1> QED
  BY <1>2, <1>4 DEF FramesOK

LEMMA TopReplaced ==
    ASSUME NEW q \in Seq(Frame), q # <<>>, NEW f \in Frame, NEW p, p = [q EXCEPT ![1] = f]
    PROVE  Grown(q, p, {f})
<1>1. /\ p \in Seq(Frame) /\ Len(p) = Len(q)
      /\ \A i \in 1 .. Len(q) : p[i] = IF i = 1 THEN f ELSE q[i]
  OBVIOUS
<1> QED
  BY <1>1 DEF Grown

LEMMA TopPopped ==
    ASSUME NEW q \in Seq(Frame), q # <<>>, NEW p, p = Tail(q)
    PROVE  Grown(q, p, {})
<1>1. /\ Len(q) \in Nat \ {0} /\ p \in Seq(Frame) /\ Len(p) = Len(q) - 1
      /\ \A i \in 1 .. Len(q) - 1 : p[i] = q[i + 1] /\ i + 1 \in 1 .. Len(q)
  OBVIOUS
<1> QED
  BY <1>1 DEF Grown

LEMMA TopPushed ==
    ASSUME NEW q \in Seq(Frame), q # <<>>, NEW f \in Frame, NEW g \in Frame,
           NEW p, p = <<f>> \o Tail(q) \/ p = <<g>> \o (<<f>> \o Tail(q))
    PROVE  Grown(q, p, {f, g})
<1>1. PICK b : b = Tail(q)
  OBVIOUS
<1>2. b \in Seq(Frame) /\ Len(b) \in Nat /\ \A i \in 1 .. Len(b) : \E l \in 1 .. Len(q) : b[i] = q[l]
  BY <1>1, TopPopped DEF Grown
<1>3. PICK c : c = <<f>> \o b
  OBVIOUS
<1>4. /\ c \in Seq(Frame) /\ Len(c) = Len(b) + 1 /\ c[1] = f
      /\ \A i \in 1 .. Len(c) : i # 1 => i - 1 \in 1 .. Len(b) /\ c[i] = b[i - 1]
  BY <1>2, <1>3
<1>5. Grown(q, c, {f, g})
  <2> SUFFICES ASSUME NEW i \in 1 .. Len(c)
               PROVE  c[i] \in {f, g} \/ \E l \in 1 .. Len(q) : c[i] = q[l]
    BY <1>4 DEF Grown
  <2>1. CASE i = 1
    BY <1>4, <2>1
  <2>2. CASE i # 1
    BY <1>2, <1>4, <2>2
  <2> QED
    BY <2>1, <2>2
<1>6. PICK d : d = <<g>> \o c
  OBVIOUS
<1>7. /\ d \in Seq(Frame) /\ Len(d) = Len(c) + 1 /\ d[1] = g /\ Len(c) \in Nat
      /\ \A i \in 1 .. Len(d) : i # 1 => i - 1 \in 1 .. Len(c) /\ d[i] = c[i - 1]
  BY <1>4, <1>6
<1>8. Grown(q, d, {f, g})
  <2> SUFFICES ASSUME NEW i \in 1 .. Len(d)
               PROVE  d[i] \in {f, g} \/ \E l \in 1 .. Len(q) : d[i] = q[l]
    BY <1>7 DEF Grown
  <2>1. CASE i = 1
    BY <1>7, <2>1
  <2>2. CASE i # 1
    BY <1>5, <1>7, <2>2 DEF Grown
  <2> QED
    BY <2>1, <2>2
<1> QED
  BY <1>1, <1>3, <1>5, <1>6, <1>8

-----------------------------------------------------------------------------
(* Steps that change marks, and states of tasks. *)

LEMMA MarksKeep ==
    ASSUME JoinInv, NEW M, MarksStep(M), UNCHANGED <<snap, stack>>,
           state' \in [Task \cup Join -> {"new", "running", "done"}],
           \A j \in Join : state'[j] = state[j]
    PROVE  JoinInv'
<1>1. /\ rec \in [Record -> Mark] /\ snap \in [Join -> SUBSET Entry] /\ PastOK(rec, snap)
      /\ outstanding \in [Join -> SUBSET Record] /\ SnapsOK(rec, state, snap, outstanding)
  BY DEF JoinInv, JoinTypes, MarksOK
<1>2. MarksOK(rec', free') /\ Moves(rec, rec', M) /\ outstanding' = Without(outstanding, M)
  BY DEF MarksStep
<1>3. /\ PastOK(rec', snap) /\ SnapsOK(rec', state, snap, outstanding')
      /\ outstanding' \in [Join -> SUBSET Record]
  BY <1>1, <1>2, SnapsMove
<1>4. PastOK(rec', snap') /\ SnapsOK(rec', state', snap', outstanding')
  BY <1>3 DEF SnapsOK
<1>5. OwnersOK(rec', state')
  BY DEF OwnersOK, JoinInv, MarksStep
<1>6. FramesStay(state, snap, outstanding, state', snap', outstanding')
  BY <1>2 DEF FramesStay, Without
<1>7. FramesOK(stack', state', snap', outstanding')
  <2>1. FramesOK(stack, state, snap, outstanding)
    BY DEF JoinInv
  <2>2. FramesOK(stack, state', snap', outstanding')
    BY <1>6, <2>1, FramesKept
  <2> QED
    BY <2>2
<1> QED
  BY <1>2, <1>3, <1>4, <1>5, <1>7 DEF JoinInv, JoinTypes

\* A step that leaves the marks alone removes none.
LEMMA NoMarks ==
    ASSUME JoinInv, UNCHANGED markVars
    PROVE  MarksStep({})
<1>1. MarksOK(rec', free') /\ outstanding \in [Join -> SUBSET Record]
  BY DEF JoinInv, JoinTypes, markVars
<1>2. outstanding' = Without(outstanding, {})
  BY <1>1 DEF Without, markVars
<1> QED
  BY <1>1, <1>2 DEF MarksStep, Moves, markVars

LEMMA StateTypes ==
    ASSUME JoinInv
    PROVE  /\ state \in [Task \cup Join -> {"new", "running", "done"}]
           /\ MarksOK(rec, free)
           /\ \A m \in Record : rec[m].owner # None => rec[m].obj # None
  BY DEF JoinInv, JoinTypes, MarksOK

LEMMA BeginInv ==
    ASSUME JoinInv, NEW t \in Task, Begin(t)
    PROVE  JoinInv'
<1>1. state' = [state EXCEPT ![t] = "running"] /\ UNCHANGED <<markVars, snap, stack>>
  BY DEF Begin
<1>2. /\ state' \in [Task \cup Join -> {"new", "running", "done"}]
      /\ \A j \in Join : state'[j] = state[j]
  BY <1>1, StateTypes, JoinsAreNotTasks
<1> QED
  BY <1>1, <1>2, NoMarks, MarksKeep

LEMMA TaskCompletesInv ==
    ASSUME JoinInv, NEW t \in Task, TaskCompletes(t)
    PROVE  JoinInv'
<1>1. PICK M : M = {m \in Record : rec[m].owner = t}
  OBVIOUS
<1>2. /\ state' = [state EXCEPT ![t] = "done"] /\ UNCHANGED <<snap, stack>> /\ RemoveMarks(M)
  BY <1>1 DEF TaskCompletes, Complete
<1>3. M \in SUBSET Record /\ \A m \in M : rec[m].obj # None
  BY <1>1, StateTypes, NoneIsNoObject
<1>4. MarksStep(M)
  BY <1>2, <1>3, RemoveMarksOK, StateTypes
<1>5. /\ state' \in [Task \cup Join -> {"new", "running", "done"}]
      /\ \A j \in Join : state'[j] = state[j]
  BY <1>2, StateTypes, JoinsAreNotTasks
<1> QED
  BY <1>2, <1>4, <1>5, MarksKeep

LEMMA MarkPendingInv ==
    ASSUME JoinInv, NEW t \in Task \cup {None}, NEW o \in Object, MarkPending(t, o)
    PROVE  JoinInv'
<1>1. PICK M, own : M = Owned(o, None) /\ own = IF t = None THEN {} ELSE Owned(o, t)
  OBVIOUS
<1>2. /\ M \in SUBSET Record /\ own \in SUBSET Record /\ own \cap M = {}
      /\ \A m \in M : rec[m].obj # None
      /\ \A m \in own : rec[m].obj # None
  BY <1>1, NoneIsNoObject DEF Owned, Marks
<1>3. UNCHANGED <<state, snap, stack>>
  BY DEF MarkPending
<1>4. CASE Replace(M, o, t, TRUE)
  BY <1>2, <1>3, <1>4, ReplaceOK, MarksKeep, StateTypes
<1>5. CASE Upgrade(M, own)
  BY <1>2, <1>3, <1>5, UpgradeOK, MarksKeep, StateTypes
<1> QED
  BY <1>1, <1>4, <1>5 DEF MarkPending

LEMMA MarkSharedInv ==
    ASSUME JoinInv, NEW t \in Task, NEW o \in Object, MarkShared(t, o)
    PROVE  JoinInv'
<1>1. PICK own : own = Owned(o, t)
  OBVIOUS
<1>2. own \in SUBSET Record /\ \A m \in own : rec[m].obj # None
  BY <1>1, NoneIsNoObject DEF Owned, Marks
<1>3. UNCHANGED <<state, snap, stack>>
  BY DEF MarkShared
<1>4. CASE Replace({}, o, t, TRUE)
  BY <1>3, <1>4, ReplaceOK, MarksKeep, StateTypes
<1>5. CASE Upgrade({}, own)
  BY <1>2, <1>3, <1>5, UpgradeOK, MarksKeep, StateTypes
<1> QED
  BY <1>1, <1>4, <1>5 DEF MarkShared

LEMMA MarkInputInv ==
    ASSUME JoinInv, NEW t \in Task, NEW o \in Object, MarkInput(t, o)
    PROVE  JoinInv'
<1>1. UNCHANGED <<state, snap, stack>> /\ Replace({}, o, t, FALSE)
  BY DEF MarkInput
<1> QED
  BY <1>1, ReplaceOK, MarksKeep, StateTypes

LEMMA MarkResolvedInv ==
    ASSUME JoinInv, NEW o \in Object, MarkResolved(o)
    PROVE  JoinInv'
<1>1. PICK m \in Writes(o) : RemoveMarks({m})
  BY DEF MarkResolved
<1>2. {m} \in SUBSET Record /\ \A x \in {m} : rec[x].obj # None
  BY NoneIsNoObject DEF Writes, Marks
<1>3. UNCHANGED <<state, snap, stack>>
  BY DEF MarkResolved
<1> QED
  BY <1>1, <1>2, <1>3, RemoveMarksOK, MarksKeep, StateTypes

LEMMA ResolveBufferInv ==
    ASSUME JoinInv, NEW t \in Task, NEW o \in Object, ResolveBuffer(t, o)
    PROVE  JoinInv'
<1>1. PICK M : M = Owned(o, t)
  OBVIOUS
<1>2. M \in SUBSET Record /\ \A x \in M : rec[x].obj # None
  BY <1>1, NoneIsNoObject DEF Owned, Marks
<1>3. UNCHANGED <<state, snap, stack>> /\ RemoveMarks(M)
  BY <1>1 DEF ResolveBuffer
<1> QED
  BY <1>2, <1>3, RemoveMarksOK, MarksKeep, StateTypes

-----------------------------------------------------------------------------
(* Making a group. *)

LEMMA EmptyGroupInv ==
    ASSUME JoinInv, NEW j \in Join, state[j] = "new", state' = [state EXCEPT ![j] = "done"],
           UNCHANGED <<markVars, snap, stack>>
    PROVE  JoinInv'
<1>1. /\ state'[j] = "done" /\ \A x \in Join : x # j => state'[x] = state[x]
      /\ state' \in [Task \cup Join -> {"new", "running", "done"}]
  BY StateTypes
<1>2. FramesStay(state, snap, outstanding, state', snap', outstanding')
  BY <1>1 DEF FramesStay, markVars
<1>3. FramesOK(stack', state', snap', outstanding')
  <2>1. FramesOK(stack, state, snap, outstanding)
    BY DEF JoinInv
  <2>2. FramesOK(stack, state', snap', outstanding')
    BY <1>2, <2>1, FramesKept
  <2> QED
    BY <2>2
<1>4. SnapsOK(rec', state', snap', outstanding')
  BY <1>1 DEF SnapsOK, JoinInv, markVars
<1>5. OwnersOK(rec', state') /\ PastOK(rec', snap') /\ MarksOK(rec', free')
  BY <1>1 DEF JoinInv, OwnersOK, markVars
<1> QED
  BY <1>1, <1>3, <1>4, <1>5 DEF JoinInv, JoinTypes, markVars

LEMMA FullGroupInv ==
    ASSUME JoinInv, NEW j \in Join, state[j] = "new", NEW O \in SUBSET Object,
           NEW M, M = Captured(O), M # {}, Added(rec, free, j, j, TRUE),
           state' = [state EXCEPT ![j] = "running"],
           snap' = [snap EXCEPT ![j] = {[mark |-> m, gen |-> rec[m].gen] : m \in M}],
           outstanding' = [outstanding EXCEPT ![j] = M], UNCHANGED stack
    PROVE  JoinInv'
<1>1. /\ rec \in [Record -> Mark] /\ snap \in [Join -> SUBSET Entry] /\ PastOK(rec, snap)
      /\ outstanding \in [Join -> SUBSET Record] /\ SnapsOK(rec, state, snap, outstanding)
      /\ OwnersOK(rec, state)
  BY DEF JoinInv, JoinTypes, MarksOK
<1>2. /\ state'[j] = "running" /\ \A x \in Join : x # j => state'[x] = state[x]
      /\ state' \in [Task \cup Join -> {"new", "running", "done"}]
  BY StateTypes
<1>3. j \in Object /\ j \in Owner /\ TRUE \in BOOLEAN
  BY DEF Object, Owner
<1>4. MarksOK(rec', free')
  BY <1>3, AddedOK, StateTypes
<1>5. PICK h \in Record : Renewed(rec, h, j, j)
  BY <1>3, AddedOK, StateTypes
<1>6. Moves(rec, rec', {})
  BY <1>5 DEF Moves, Renewed
<1>7. outstanding = Without(outstanding, {})
  BY <1>1 DEF Without
<1>8. PastOK(rec', snap) /\ SnapsOK(rec', state, snap, outstanding)
  BY <1>1, <1>6, <1>7, SnapsMove
<1>9. M \in SUBSET Record /\ \A m \in M : rec[m].obj # None /\ rec'[m] = rec[m] /\ rec[m].gen \in Nat
  <2>1. M \in SUBSET Record /\ \A m \in M : rec[m].obj # None
    BY NoneIsNoObject DEF Captured
  <2> QED
    BY <1>1, <1>5, <2>1, MarkFields DEF Renewed
<1>10. PICK E : E = {[mark |-> m, gen |-> rec[m].gen] : m \in M}
  OBVIOUS
<1>11. ASSUME NEW m \in M
       PROVE  \E e \in E : e.mark = m
  <2>1. PICK e : e = [mark |-> m, gen |-> rec[m].gen]
    OBVIOUS
  <2> QED
    BY <1>10, <2>1
<1>12. ASSUME NEW e \in E
       PROVE  e \in Entry /\ e.mark \in M /\ e.gen = rec'[e.mark].gen /\ e.gen \in Nat
  <2>1. PICK m \in M : e = [mark |-> m, gen |-> rec[m].gen]
    BY <1>10
  <2> QED
    BY <1>9, <2>1 DEF Entry
<1>13. E \in SUBSET Entry /\ E # {}
  BY <1>11, <1>12
<1>14. /\ snap' \in [Join -> SUBSET Entry] /\ snap'[j] = E
       /\ \A x \in Join : x # j => snap'[x] = snap[x]
  BY <1>1, <1>10, <1>13
<1>15. /\ outstanding' \in [Join -> SUBSET Record] /\ outstanding'[j] = M
       /\ \A x \in Join : x # j => outstanding'[x] = outstanding[x]
  BY <1>1, <1>9
<1>16. PastOK(rec', snap')
  BY <1>8, <1>12, <1>14 DEF PastOK
<1>17. SnapsOK(rec', state', snap', outstanding')
  <2>1. ASSUME NEW m \in Record
        PROVE  m \in M <=> \E e \in E : e.mark = m /\ rec'[m].obj # None /\ rec'[m].gen = e.gen
    BY <1>9, <1>11, <1>12
  <2>2. ASSUME NEW x \in Join, x # j, state'[x] = "running"
        PROVE  /\ snap'[x] # {}
               /\ \A m \in Record : m \in outstanding'[x] <=>
                     \E e \in snap'[x] : e.mark = m /\ rec'[m].obj # None /\ rec'[m].gen = e.gen
    BY <1>2, <1>8, <1>14, <1>15, <2>2 DEF SnapsOK
  <2>3. ASSUME NEW x \in Join, state'[x] # "running"
        PROVE  outstanding'[x] = {}
    BY <1>1, <1>2, <1>15, <2>3 DEF SnapsOK
  <2> QED
    BY <1>13, <1>14, <1>15, <2>1, <2>2, <2>3 DEF SnapsOK
<1>18. OwnersOK(rec', state')
  BY <1>1, <1>2, <1>5 DEF OwnersOK, Renewed
<1>19. FramesStay(state, snap, outstanding, state', snap', outstanding')
  BY <1>2, <1>14, <1>15 DEF FramesStay
<1>20. FramesOK(stack', state', snap', outstanding')
  <2>1. FramesOK(stack, state, snap, outstanding)
    BY DEF JoinInv
  <2>2. FramesOK(stack, state', snap', outstanding')
    BY <1>19, <2>1, FramesKept
  <2> QED
    BY <2>2
<1> QED
  BY <1>2, <1>4, <1>14, <1>15, <1>16, <1>17, <1>18, <1>20 DEF JoinInv, JoinTypes

LEMMA MakeGroupInv ==
    ASSUME JoinInv, NEW j \in Join, NEW O \in SUBSET Object, MakeGroup(j, O)
    PROVE  JoinInv'
<1>1. PICK M : M = Captured(O)
  OBVIOUS
<1>2. CASE M = {}
  BY <1>1, <1>2, EmptyGroupInv DEF MakeGroup
<1>3. CASE M # {}
  <2>1. /\ state[j] = "new" /\ Added(rec, free, j, j, TRUE)
        /\ state' = [state EXCEPT ![j] = "running"]
        /\ snap' = [snap EXCEPT ![j] = {[mark |-> m, gen |-> rec[m].gen] : m \in M}]
        /\ outstanding' = [outstanding EXCEPT ![j] = M] /\ UNCHANGED stack
    BY <1>1, <1>3 DEF MakeGroup
  <2> QED
    BY <1>1, <1>3, <2>1, FullGroupInv
<1> QED
  BY <1>2, <1>3

-----------------------------------------------------------------------------
(* Polling. *)

LEMMA StackTypes ==
    ASSUME JoinInv, NEW th \in Thread, stack[th] # <<>>
    PROVE  /\ stack \in [Thread -> Seq(Frame)] /\ stack[th] \in Seq(Frame)
           /\ Top(th) \in Frame /\ Top(th).join \in Join
           /\ FrameOK(Top(th), state, snap, outstanding)
<1>1. stack \in [Thread -> Seq(Frame)] /\ stack[th] \in Seq(Frame)
  BY DEF JoinInv, FramesOK
<1>2. 1 \in 1 .. Len(stack[th])
  BY <1>1
<1>3. stack[th][1] \in Frame /\ FrameOK(stack[th][1], state, snap, outstanding)
  BY <1>1, <1>2 DEF JoinInv, FramesOK
<1> QED
  BY <1>1, <1>3, FrameFields DEF Top

\* A step that changes nothing but a thread's frames.
LEMMA PollKeeps ==
    ASSUME JoinInv, NEW th \in Thread, NEW p, NEW S, Grown(stack[th], p, S),
           \A f \in S : FrameOK(f, state, snap, outstanding),
           stack' = [stack EXCEPT ![th] = p], UNCHANGED <<markVars, state, snap>>
    PROVE  JoinInv'
<1>1. FramesOK(stack, state, snap, outstanding)
  BY DEF JoinInv
<1>2. FramesOK(stack', state, snap, outstanding)
  BY <1>1, FramesChange
<1> QED
  BY <1>2 DEF JoinInv, JoinTypes, markVars

LEMMA ReturnInv ==
    ASSUME JoinInv, NEW th \in Thread, stack[th] # <<>>, Return(th), UNCHANGED <<markVars, state, snap>>
    PROVE  JoinInv'
<1>1. PICK p, S : p = Tail(stack[th]) /\ S = {}
  OBVIOUS
<1>2. Grown(stack[th], p, S)
  BY <1>1, TopPopped, StackTypes
<1>3. stack' = [stack EXCEPT ![th] = p] /\ \A f \in S : FrameOK(f, state, snap, outstanding)
  BY <1>1 DEF Return
<1> QED
  BY <1>2, <1>3, PollKeeps

\* The topmost poll goes on to g.
LEMMA BecomesInv ==
    ASSUME JoinInv, NEW th \in Thread, stack[th] # <<>>, NEW g \in Frame,
           FrameOK(g, state, snap, outstanding), Becomes(th, g), UNCHANGED <<markVars, state, snap>>
    PROVE  JoinInv'
<1>1. PICK p : p = [stack[th] EXCEPT ![1] = g]
  OBVIOUS
<1>2. Grown(stack[th], p, {g})
  BY <1>1, TopReplaced, StackTypes
<1>3. stack' = [stack EXCEPT ![th] = p]
  BY <1>1, StackTypes DEF Becomes
<1> QED
  BY <1>2, <1>3, PollKeeps

LEMMA NewFrameOK ==
    ASSUME NEW j \in Join, NEW mode \in Mode, state[j] # "new"
    PROVE  NewFrame(j, mode) \in Frame /\ FrameOK(NewFrame(j, mode), state, snap, outstanding)
  BY DEF NewFrame, Frame, FrameOK

LEMMA PollCalledInv ==
    ASSUME JoinInv, NEW th \in Thread, NEW j \in Join, NEW mode \in Mode, PollCalled(th, j, mode)
    PROVE  JoinInv'
<1>1. PICK f, p : f = NewFrame(j, mode) /\ p = <<f>>
  OBVIOUS
<1>2. f \in Frame /\ FrameOK(f, state, snap, outstanding)
  BY <1>1, NewFrameOK DEF PollCalled
<1>3. Grown(stack[th], p, {f})
  BY <1>1, <1>2 DEF Grown
<1>4. stack' = [stack EXCEPT ![th] = p] /\ UNCHANGED <<markVars, state, snap>>
  BY <1>1 DEF PollCalled
<1> QED
  BY <1>2, <1>3, <1>4, PollKeeps

LEMMA ReadsSnapshotInv ==
    ASSUME JoinInv, NEW th \in Thread, ReadsSnapshot(th)
    PROVE  JoinInv'
<1>1. stack[th] # <<>> /\ UNCHANGED <<markVars, state, snap>>
  BY DEF ReadsSnapshot, At
<1>2. PICK f \in Frame : f = Top(th) /\ f.join \in Join /\ FrameOK(f, state, snap, outstanding)
  BY <1>1, StackTypes
<1>3. PICK g : g = [f EXCEPT !.at = "head", !.s = snap[f.join]]
  OBVIOUS
<1>4. snap[f.join] \in SUBSET Entry
  BY <1>2 DEF JoinInv, JoinTypes
<1>5. g \in Frame /\ g.at = "head" /\ g.s = snap[f.join] /\ g.join = f.join
  BY <1>3, <1>4 DEF Frame
<1>6. FrameOK(g, state, snap, outstanding)
  BY <1>2, <1>5 DEF FrameOK
<1>7. Becomes(th, g)
  BY <1>2, <1>3 DEF ReadsSnapshot
<1> QED
  BY <1>1, <1>5, <1>6, <1>7, BecomesInv

LEMMA AsksInv ==
    ASSUME JoinInv, NEW th \in Thread, stack[th] # <<>>, NEW f, f = Top(th), f.at \in {"head", "ask"},
           NEW S \in SUBSET Entry, Asks(th, f, S), UNCHANGED <<markVars, state, snap>>
    PROVE  JoinInv'
<1>1. f \in Frame /\ f.join \in Join /\ FrameOK(f, state, snap, outstanding)
  BY StackTypes
<1>2. PICK e \in Askable(S) :
        stack' = [stack EXCEPT ![th] =
            IF rec[e.mark].owner \in Join
            THEN <<NewFrame(rec[e.mark].owner, IF f.mode = "CHECK" THEN "CHECK" ELSE "PROGRESS")>>
                   \o (<<[f EXCEPT !.at = "ask", !.todo = S \ {e}]>> \o Tail(stack[th]))
            ELSE <<[f EXCEPT !.at = "ask", !.todo = S \ {e}]>> \o Tail(stack[th])]
  BY DEF Asks
<1>3. PICK g : g = [f EXCEPT !.at = "ask", !.todo = S \ {e}]
  OBVIOUS
<1>4. g \in Frame /\ g.at = "ask" /\ g.join = f.join /\ g.s = f.s
  BY <1>1, <1>3 DEF Frame
<1>5. FrameOK(g, state, snap, outstanding)
  BY <1>1, <1>4 DEF FrameOK
<1>6. PICK o, mode : o = rec[e.mark].owner /\ mode = IF f.mode = "CHECK" THEN "CHECK" ELSE "PROGRESS"
  OBVIOUS
<1>7. o \in Join => state[o] # "new"
  <2>1. e.mark \in Record
    BY DEF Askable, Entry
  <2> QED
    BY <1>6, <2>1 DEF JoinInv, OwnersOK
<1>8. PICK n : n = IF o \in Join THEN NewFrame(o, mode) ELSE g
  OBVIOUS
<1>9. n \in Frame /\ FrameOK(n, state, snap, outstanding)
  <2>1. mode \in Mode
    BY <1>6 DEF Mode
  <2> QED
    BY <1>4, <1>5, <1>7, <1>8, <2>1, NewFrameOK
<1>10. PICK p : p = IF o \in Join THEN <<n>> \o (<<g>> \o Tail(stack[th])) ELSE <<g>> \o Tail(stack[th])
  OBVIOUS
<1>11. Grown(stack[th], p, {g, n})
  <2>1. p = <<g>> \o Tail(stack[th]) \/ p = <<n>> \o (<<g>> \o Tail(stack[th]))
    BY <1>10
  <2> QED
    BY <1>4, <1>9, <2>1, TopPushed, StackTypes
<1>12. stack' = [stack EXCEPT ![th] = p]
  BY <1>2, <1>3, <1>6, <1>8, <1>10
<1>13. PICK F : F = {g, n}
  OBVIOUS
<1>14. Grown(stack[th], p, F) /\ \A x \in F : FrameOK(x, state, snap, outstanding)
  BY <1>5, <1>9, <1>11, <1>13
<1> QED
  BY <1>12, <1>14, PollKeeps

(* A poll that finds none of its entries pending is right that nothing is  *)
(* outstanding.                                                            *)
LEMMA NothingPending ==
    ASSUME JoinInv, NEW f \in Frame, FrameOK(f, state, snap, outstanding), f.at \in {"head", "ask"},
           \A e \in f.s : ~join_entry_pending(e)
    PROVE  outstanding[f.join] = {}
<1>1. f.join \in Join
  BY FrameFields
<1>2. CASE state[f.join] # "running"
  BY <1>1, <1>2 DEF JoinInv, SnapsOK
<1>3. CASE state[f.join] = "running"
  <2>1. f.s = snap[f.join]
    BY <1>3 DEF FrameOK
  <2>2. \A m \in Record : m \in outstanding[f.join] =>
           \E e \in snap[f.join] : e.mark = m /\ rec[m].obj # None /\ rec[m].gen = e.gen
    BY <1>1, <1>3 DEF JoinInv, SnapsOK
  <2>3. outstanding[f.join] \subseteq Record
    BY <1>1 DEF JoinInv, JoinTypes
  <2> QED
    BY <2>1, <2>2, <2>3 DEF join_entry_pending
<1> QED
  BY <1>2, <1>3

LEMMA LooksInv ==
    ASSUME JoinInv, NEW th \in Thread, stack[th] # <<>>, NEW f, f = Top(th), f.at \in {"head", "ask"},
           NEW S, Looks(th, f, S), UNCHANGED <<markVars, state>>
    PROVE  JoinInv'
<1>0. UNCHANGED <<markVars, state, snap>>
  BY DEF Looks
<1>1. f \in Frame /\ f.join \in Join /\ FrameOK(f, state, snap, outstanding)
  BY StackTypes
<1>2. CASE (\A e \in f.s : ~join_entry_pending(e)) /\ Becomes(th, [f EXCEPT !.at = "complete", !.todo = {}])
  <2>1. PICK g : g = [f EXCEPT !.at = "complete", !.todo = {}]
    OBVIOUS
  <2>2. g \in Frame /\ g.at = "complete" /\ g.join = f.join
    BY <1>1, <2>1 DEF Frame
  <2>3. outstanding[f.join] = {}
    BY <1>1, <1>2, NothingPending
  <2>4. FrameOK(g, state, snap, outstanding)
    BY <1>1, <2>2, <2>3 DEF FrameOK
  <2> QED
    BY <1>0, <1>2, <2>1, <2>2, <2>4, BecomesInv
<1>3. CASE Becomes(th, [f EXCEPT !.at = "head", !.todo = {}])
  <2>1. PICK g : g = [f EXCEPT !.at = "head", !.todo = {}]
    OBVIOUS
  <2>2. g \in Frame /\ g.at = "head" /\ g.join = f.join /\ g.s = f.s
    BY <1>1, <2>1 DEF Frame
  <2>3. FrameOK(g, state, snap, outstanding)
    BY <1>1, <2>2 DEF FrameOK
  <2> QED
    BY <1>0, <1>3, <2>1, <2>2, <2>3, BecomesInv
<1>4. CASE Return(th)
  BY <1>0, <1>4, ReturnInv
<1> QED
  BY <1>2, <1>3, <1>4 DEF Looks

LEMMA LoopInv ==
    ASSUME JoinInv, NEW th \in Thread, LoopHead(th) \/ LoopGoesOn(th)
    PROVE  JoinInv'
<1>1. stack[th] # <<>> /\ UNCHANGED <<markVars, state>>
  BY DEF LoopHead, LoopGoesOn, At
<1>2. PICK f \in Frame : f = Top(th)
  BY <1>1, StackTypes
<1>3. f.s \in SUBSET Entry /\ f.todo \in SUBSET Entry
  BY FrameFields
<1>4. f.at \in {"head", "ask"}
  BY <1>2 DEF LoopHead, LoopGoesOn, At
<1>5. CASE Return(th) /\ UNCHANGED snap
  BY <1>1, <1>5, ReturnInv
<1>6. ASSUME NEW S \in {f.s, f.todo}, Asks(th, f, S), UNCHANGED snap
      PROVE  JoinInv'
  BY <1>1, <1>2, <1>3, <1>4, <1>6, AsksInv
<1>7. ASSUME NEW S \in {f.s, f.todo}, Looks(th, f, S)
      PROVE  JoinInv'
  BY <1>1, <1>2, <1>4, <1>7, LooksInv
<1> QED
  BY <1>2, <1>5, <1>6, <1>7 DEF LoopHead, LoopGoesOn

LEMMA CompletesGroupInv ==
    ASSUME JoinInv, NEW th \in Thread, CompletesGroup(th)
    PROVE  JoinInv'
<1>1. stack[th] # <<>> /\ Top(th).at = "complete" /\ UNCHANGED snap
  BY DEF CompletesGroup, At
<1>2. PICK f \in Frame : f = Top(th) /\ f.join \in Join /\ FrameOK(f, state, snap, outstanding)
  BY <1>1, StackTypes
<1>3. PICK j \in Join : j = f.join
  BY <1>2
<1>4. state[j] # "new" /\ outstanding[j] = {}
  BY <1>1, <1>2, <1>3 DEF FrameOK
<1>5. PICK g : g = [f EXCEPT !.at = "clear"]
  OBVIOUS
<1>6. g \in Frame /\ g.at = "clear" /\ g.join = j
  BY <1>3, <1>5 DEF Frame
<1>7. Becomes(th, g) /\ Complete(j)
  BY <1>2, <1>3, <1>5 DEF CompletesGroup
<1>8. CASE state[j] # "running"
  <2>1. UNCHANGED <<markVars, state, snap>>
    BY <1>1, <1>7, <1>8 DEF Complete
  <2>2. state[j] = "done"
    BY <1>4, <1>8, StateTypes
  <2>3. FrameOK(g, state, snap, outstanding)
    BY <1>6, <2>2 DEF FrameOK
  <2> QED
    BY <1>1, <1>6, <1>7, <2>1, <2>3, BecomesInv
<1>9. CASE state[j] = "running"
  <2>1. PICK M : M = {m \in Record : rec[m].owner = j}
    OBVIOUS
  <2>2. state' = [state EXCEPT ![j] = "done"] /\ RemoveMarks(M)
    BY <1>7, <1>9, <2>1 DEF Complete
  <2>3. M \in SUBSET Record /\ \A m \in M : rec[m].obj # None
    BY <2>1, StateTypes, NoneIsNoObject
  <2>4. MarksStep(M)
    BY <2>2, <2>3, RemoveMarksOK, StateTypes
  <2>5. /\ state' \in [Task \cup Join -> {"new", "running", "done"}] /\ state'[j] = "done"
        /\ \A x \in Join : x # j => state'[x] = state[x]
    BY <2>2, StateTypes
  <2>6. MarksOK(rec', free') /\ Moves(rec, rec', M) /\ outstanding' = Without(outstanding, M)
    BY <2>4 DEF MarksStep
  <2>7. /\ PastOK(rec', snap) /\ SnapsOK(rec', state, snap, outstanding')
        /\ outstanding' \in [Join -> SUBSET Record]
    <3>1. /\ rec \in [Record -> Mark] /\ snap \in [Join -> SUBSET Entry] /\ PastOK(rec, snap)
          /\ outstanding \in [Join -> SUBSET Record] /\ SnapsOK(rec, state, snap, outstanding)
      BY DEF JoinInv, JoinTypes, MarksOK
    <3> QED
      BY <2>6, <3>1, SnapsMove
  <2>8. \A x \in Join : outstanding'[x] \subseteq outstanding[x]
    BY <2>6 DEF Without
  <2>9. SnapsOK(rec', state', snap', outstanding')
    BY <1>1, <1>4, <2>5, <2>7, <2>8 DEF SnapsOK
  <2>10. OwnersOK(rec', state')
    BY <2>4, <2>5 DEF OwnersOK, JoinInv, MarksStep
  <2>11. FramesStay(state, snap, outstanding, state', snap', outstanding')
    BY <1>1, <2>5, <2>8 DEF FramesStay
  <2>12. FramesOK(stack, state', snap', outstanding')
    BY <2>11, FramesKept DEF JoinInv
  <2>13. FrameOK(g, state', snap', outstanding')
    BY <1>6, <2>5 DEF FrameOK
  <2>14. PICK p : p = [stack[th] EXCEPT ![1] = g]
    OBVIOUS
  <2>15. Grown(stack[th], p, {g})
    BY <1>1, <1>6, <2>14, TopReplaced, StackTypes
  <2>16. stack' = [stack EXCEPT ![th] = p]
    BY <1>1, <1>7, <2>14, StackTypes DEF Becomes
  <2>17. FramesOK(stack', state', snap', outstanding')
    <3>1. PICK S : S = {g}
      OBVIOUS
    <3>2. Grown(stack[th], p, S) /\ \A x \in S : FrameOK(x, state', snap', outstanding')
      BY <2>13, <2>15, <3>1
    <3> QED
      BY <2>12, <2>16, <3>2, FramesChange
  <2> QED
    BY <1>1, <2>5, <2>6, <2>7, <2>9, <2>10, <2>17 DEF JoinInv, JoinTypes
<1> QED
  BY <1>8, <1>9

LEMMA DropsSnapshotInv ==
    ASSUME JoinInv, NEW th \in Thread, DropsSnapshot(th)
    PROVE  JoinInv'
<1>1. stack[th] # <<>> /\ Top(th).at = "clear" /\ UNCHANGED <<markVars, state>> /\ Return(th)
  BY DEF DropsSnapshot, At
<1>2. PICK j \in Join : j = Top(th).join /\ state[j] = "done"
  BY <1>1, StackTypes DEF FrameOK
<1>3. snap' = [snap EXCEPT ![j] = {}]
  BY <1>2 DEF DropsSnapshot
<1>4. /\ snap' \in [Join -> SUBSET Entry] /\ snap'[j] = {}
      /\ \A x \in Join : x # j => snap'[x] = snap[x]
  BY <1>3 DEF JoinInv, JoinTypes
<1>5. PastOK(rec', snap')
  BY <1>1, <1>4 DEF PastOK, JoinInv, markVars
<1>6. SnapsOK(rec', state', snap', outstanding')
  BY <1>1, <1>2, <1>4 DEF SnapsOK, JoinInv, markVars
<1>7. FramesStay(state, snap, outstanding, state', snap', outstanding')
  BY <1>1, <1>2, <1>4 DEF FramesStay, markVars
<1>8. FramesOK(stack, state', snap', outstanding')
  BY <1>7, FramesKept DEF JoinInv
<1>9. PICK p, S : p = Tail(stack[th]) /\ S = {}
  OBVIOUS
<1>10. Grown(stack[th], p, S)
  BY <1>1, <1>9, TopPopped, StackTypes
<1>11. stack' = [stack EXCEPT ![th] = p] /\ \A f \in S : FrameOK(f, state', snap', outstanding')
  BY <1>1, <1>9 DEF Return
<1>12. FramesOK(stack', state', snap', outstanding')
  BY <1>8, <1>10, <1>11, FramesChange
<1> QED
  BY <1>1, <1>4, <1>5, <1>6, <1>12 DEF JoinInv, JoinTypes, markVars

-----------------------------------------------------------------------------
LEMMA JoinInit ==
    ASSUME Init
    PROVE  JoinInv
<1> USE DEF Init
<1>1. free \in SetToSeqs(Record)
  <2>1. Cardinality(Record) \in Nat /\ ExistsBijection(1 .. Cardinality(Record), Record)
    BY RecordsFinite, FS_CardinalityType
  <2>2. \E f \in [1 .. Cardinality(Record) -> Record] : IsInjective(f)
    BY <2>1 DEF ExistsBijection, Bijection, Injection
  <2>3. free \in [1 .. Cardinality(Record) -> Record] /\ IsInjective(free)
    BY <2>2 DEF SetToSeq
  <2> QED
    BY <2>3 DEF IsInjective, SetToSeqs
<1>2. free \in Seq(Record) /\ Once(free) /\ \A m : Has(free, m) <=> m \in Record
  BY <1>1, Permuted
<1>3. /\ rec \in [Record -> Mark]
      /\ \A m \in Record : rec[m].obj = None /\ rec[m].owner = None /\ ~rec[m].write /\ rec[m].gen = 0
  BY DEF Mark, Owner
<1>4. MarksOK(rec, free)
  BY <1>2, <1>3 DEF MarksOK
<1>5. OwnersOK(rec, state)
  BY <1>3, NoneIsNoObject DEF OwnersOK
<1>6. PastOK(rec, snap) /\ SnapsOK(rec, state, snap, outstanding)
  BY DEF PastOK, SnapsOK
<1>7. FramesOK(stack, state, snap, outstanding)
  BY DEF FramesOK
<1>8. JoinTypes
  BY DEF JoinTypes
<1> QED
  BY <1>4, <1>5, <1>6, <1>7, <1>8 DEF JoinInv

LEMMA JoinStep ==
    ASSUME JoinInv, Next
    PROVE  JoinInv'
<1>1. Known \subseteq Object
  BY DEF Known, Object
<1>2. CASE \E t \in Task : Begin(t) \/ TaskCompletes(t)
  BY <1>2, BeginInv, TaskCompletesInv
<1>3. CASE \E t \in Task \cup {None}, o \in Known : MarkPending(t, o)
  BY <1>1, <1>3, MarkPendingInv
<1>4. CASE \E t \in Task, o \in Known : MarkShared(t, o) \/ MarkInput(t, o) \/ ResolveBuffer(t, o)
  BY <1>1, <1>4, MarkSharedInv, MarkInputInv, ResolveBufferInv
<1>5. CASE \E o \in Known : MarkResolved(o)
  BY <1>1, <1>5, MarkResolvedInv
<1>6. CASE \E j \in Join, O \in SUBSET Known : MakeGroup(j, O)
  BY <1>1, <1>6, MakeGroupInv
<1>7. CASE \E th \in Thread, j \in Join, mode \in Mode : PollCalled(th, j, mode)
  BY <1>7, PollCalledInv
<1>8. CASE \E th \in Thread : Polls(th)
  BY <1>8, ReadsSnapshotInv, LoopInv, CompletesGroupInv, DropsSnapshotInv DEF Polls
<1> QED
  BY <1>2, <1>3, <1>4, <1>5, <1>6, <1>7, <1>8 DEF Next

(* What JoinInv says of marks, groups and polls always holds. *)
THEOREM JoinInvariant == Spec => []JoinInv
<1>1. Init => JoinInv
  BY JoinInit
<1>2. JoinInv /\ UNCHANGED vars => JoinInv'
  BY DEF vars, markVars, JoinInv, JoinTypes
<1>3. JoinInv /\ [Next]_vars => JoinInv'
  BY <1>2, JoinStep
<1> QED
  BY <1>1, <1>3, PTL DEF Spec

(* The snapshot of a group (filc_async_wait_all) says exactly which of the *)
(* marks it captured are still there, however records are reused, and the  *)
(* group is not over before the last of them, for any number of threads,   *)
(* groups, groups of groups and records.                                   *)
THEOREM GroupsAreExact == Spec => []GroupExact
<1>1. JoinInv => GroupExact
  <2> SUFFICES ASSUME JoinInv
               PROVE  GroupExact
    OBVIOUS
  <2>1. /\ rec \in [Record -> Mark] /\ free \in Seq(Record)
        /\ \A m \in Record : rec[m].obj = None => rec[m].owner = None /\ ~rec[m].write
        /\ \A m \in Record : Has(free, m) <=> rec[m].obj = None
    BY DEF JoinInv, MarksOK
  <2>2. ToSet(free) = {m \in Record : rec[m].obj = None}
    <3>1. DOMAIN free = 1 .. Len(free) /\ \A i \in 1 .. Len(free) : free[i] \in Record
      BY <2>1
    <3> QED
      BY <2>1, <3>1 DEF ToSet, Has
  <2>3. \A th \in Thread : \A i \in DOMAIN stack[th] : stack[th][i] \in Frame
    BY DEF JoinInv, FramesOK
  <2>4. JoinTypeOK
    BY <2>1, <2>2, <2>3 DEF JoinTypeOK, JoinInv, JoinTypes, Mark, Owner
  <2>5. ASSUME NEW j \in Join, state[j] = "running"
        PROVE  {e.mark : e \in {x \in snap[j] : join_entry_pending(x)}} = outstanding[j]
    <3>1. \A m \in Record : m \in outstanding[j] <=>
             \E e \in snap[j] : e.mark = m /\ rec[m].obj # None /\ rec[m].gen = e.gen
      BY <2>5 DEF JoinInv, SnapsOK
    <3>2. outstanding[j] \subseteq Record /\ \A e \in snap[j] : e.mark \in Record
      BY DEF JoinInv, JoinTypes, Entry
    <3> QED
      BY <3>1, <3>2 DEF join_entry_pending
  <2>6. ASSUME NEW j \in Join, state[j] = "done"
        PROVE  outstanding[j] = {}
    BY <2>6 DEF JoinInv, SnapsOK
  <2> QED
    BY <2>4, <2>5, <2>6 DEF GroupExact
<1> QED
  BY <1>1, JoinInvariant, PTL

(* A poll that finds its group running (join_poll, with g_lock) has the    *)
(* group's snapshot, though it read it before it had the lock and others   *)
(* drop it.                                                                *)
THEOREM SnapshotsAreThere == Spec => []SnapshotThere
<1>1. JoinInv => SnapshotThere
  <2> SUFFICES ASSUME JoinInv, NEW th \in Thread, NEW i \in DOMAIN stack[th],
                      NEW f, f = stack[th][i], f.at \in {"head", "ask"}, state[f.join] = "running"
               PROVE  f.s # {}
    BY DEF SnapshotThere
  <2>1. f \in Frame /\ FrameOK(f, state, snap, outstanding)
    BY DEF JoinInv, FramesOK
  <2>2. f.join \in Join /\ f.s = snap[f.join]
    BY <2>1, FrameFields DEF FrameOK
  <2> QED
    BY <2>2 DEF JoinInv, SnapsOK
<1> QED
  BY <1>1, JoinInvariant, PTL

=============================================================================
