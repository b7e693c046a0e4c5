----------------------------- MODULE UndoProofs -----------------------------
(* Safety of the undo, for any series, files and contents, whatever the     *)
(* series, the operator, crashes and failing writes do.                     *)
EXTENDS Undo, Integers, SequenceTheorems, FiniteSetTheorems, TLAPS

-----------------------------------------------------------------------------
(* The invariant.                                                           *)

UndoTypes ==
    /\ hidden \subseteq Files
    /\ project \in Projects
    /\ phase \in [Series -> Phases]
    /\ stack \in Seq(Series)
    /\ before \in [Series -> Projects]
    /\ made \in [Series -> SUBSET Files]
    /\ recorded \subseteq Series
    /\ mixed \subseteq Series
    /\ clean \in BOOLEAN

\* A series has one snapshot.
Distinct == \A i, j \in 1 .. Len(stack) : stack[i] = stack[j] => i = j

\* One that has not begun has nothing.
Unbegun == \A s \in Series : phase[s] = "idle" =>
    made[s] = {} /\ \A i \in 1 .. Len(stack) : stack[i] # s

\* A series that is open while a later one has its snapshot was open when it
\* was taken.
OpenBelow == \A i, j \in 1 .. Len(stack) : i < j /\ phase[stack[i]] = "open" => stack[j] \in mixed

\* Of the series that are kept and over, the sidecars miss nothing.
OnRecord == \A i \in 1 .. Len(stack) :
    phase[stack[i]] = "closed" => stack[i] \in recorded \/ made[stack[i]] = {}

\* Files that no snapshot sees are as they were.
HiddenKept == \A i \in 1 .. Len(stack) : \A f \in hidden :
    before[stack[i]][f] # Absent => project[f] = before[stack[i]][f]

\* One of them that is new was not there for any snapshot so far.
HiddenMade == \A j \in 1 .. Len(stack) : \A i \in 1 .. j : \A f \in hidden :
    f \in made[stack[j]] => before[stack[i]][f] = Absent

\* The project when the k-th snapshot was taken; after the last one, as it is.
Level(k) == IF k > Len(stack) THEN project ELSE before[stack[k]]

\* A file that appeared between two of them is on record with a series in
\* between, or with one that was open beside the first.
Accounted == \A k \in 1 .. Len(stack) + 1 : \A i \in 1 .. k - 1 : \A f \in Files :
    Level(k)[f] # Absent /\ Level(i)[f] = Absent =>
        \E j \in 1 .. k - 1 : f \in made[stack[j]] /\ (j >= i \/ stack[i] \in mixed)

Complete == OnRecord /\ HiddenKept /\ HiddenMade /\ Accounted

UndoInv == UndoTypes /\ Distinct /\ Unbegun /\ OpenBelow /\ (clean => Complete)

-----------------------------------------------------------------------------
(* The stack.                                                               *)

LEMMA InRange ==
    ASSUME NEW q \in Seq(Series), NEW s
    PROVE  s \in Range(q) <=> \E i \in 1 .. Len(q) : q[i] = s
<1>1. DOMAIN q = 1 .. Len(q)
  BY LenProperties
<1> QED
  BY <1>1 DEF Range

LEMMA StackedAt ==
    ASSUME stack \in Seq(Series), NEW s
    PROVE  Stacked(s) <=> \E i \in 1 .. Len(stack) : stack[i] = s
  BY InRange DEF Stacked

LEMMA Top ==
    ASSUME stack \in Seq(Series), stack # <<>>
    PROVE  /\ Len(stack) \in Nat \ {0} /\ Len(stack) \in 1 .. Len(stack)
           /\ stack[Len(stack)] \in Series /\ Stacked(stack[Len(stack)])
           /\ Head(stack) = stack[1] /\ stack[1] \in Series /\ Stacked(stack[1])
<1>1. Len(stack) \in Nat \ {0}
  BY EmptySeq
<1>2. Len(stack) \in 1 .. Len(stack) /\ 1 \in 1 .. Len(stack)
  BY <1>1
<1>3. \A i \in 1 .. Len(stack) : stack[i] \in Series
  BY ElementOfSeq
<1>4. Stacked(stack[Len(stack)]) /\ Stacked(stack[1])
  BY <1>2, StackedAt
<1>5. Head(stack) = stack[1]
  OBVIOUS
<1> QED
  BY <1>1, <1>2, <1>3, <1>4, <1>5

\* What a snapshot adds to the stack.
LEMMA Pushed ==
    ASSUME stack \in Seq(Series), NEW s \in Series, stack' = Append(stack, s)
    PROVE  /\ stack' \in Seq(Series) /\ Len(stack) \in Nat /\ Len(stack') = Len(stack) + 1
           /\ \A i \in 1 .. Len(stack) : stack'[i] = stack[i] /\ stack[i] \in Series
           /\ stack'[Len(stack) + 1] = s
<1>1. Len(stack) \in Nat
  BY LenProperties
<1>2. \A i \in 1 .. Len(stack) : stack[i] \in Series
  BY ElementOfSeq
<1> QED
  BY <1>1, <1>2, AppendProperties

\* What is left when the last one is dropped.
LEMMA Popped ==
    ASSUME stack \in Seq(Series), stack # <<>>, stack' = SubSeq(stack, 1, Len(stack) - 1)
    PROVE  /\ stack' \in Seq(Series) /\ Len(stack') = Len(stack) - 1
           /\ \A i \in 1 .. Len(stack) - 1 : stack'[i] = stack[i]
<1>1. Len(stack) \in Nat \ {0}
  BY EmptySeq
<1> DEFINE n == Len(stack) - 1
<1>2. n \in Int /\ 1 \in Int /\ \A i \in 1 .. n : stack[i] \in Series
  BY <1>1, ElementOfSeq
<1> HIDE DEF n
<1>3. /\ SubSeq(stack, 1, n) \in Seq(Series)
      /\ Len(SubSeq(stack, 1, n)) = IF 1 <= n THEN n - 1 + 1 ELSE 0
      /\ \A i \in 1 .. n - 1 + 1 : SubSeq(stack, 1, n)[i] = stack[1 + i - 1]
  BY <1>2, SubSeqProperties
<1>4. stack' = SubSeq(stack, 1, n)
  BY DEF n
<1>5. n = Len(stack) - 1 /\ n \in Nat
  BY <1>1 DEF n
<1>6. Len(stack') = n
  BY <1>3, <1>4, <1>5
<1>7. ASSUME NEW i \in 1 .. n PROVE stack'[i] = stack[i]
  <2>1. i \in 1 .. n - 1 + 1 /\ 1 + i - 1 = i
    BY <1>5
  <2> QED
    BY <1>3, <1>4, <2>1
<1> QED
  BY <1>3, <1>4, <1>5, <1>6, <1>7

-----------------------------------------------------------------------------
(* What the steps do to the files.                                          *)

\* A series that is kept creates a file.
LEMMA FileCreated ==
    ASSUME UndoInv, clean, NEW s \in Series, NEW f \in Files,
           phase[s] = "open", Stacked(s), project[f] = Absent,
           hidden' = hidden, stack' = stack, before' = before, mixed' = mixed,
           made' = [made EXCEPT ![s] = @ \cup {f}],
           \A g \in Files : g # f /\ project'[g] # Absent => project[g] # Absent,
           \A g \in hidden : g # f /\ project[g] # Absent => project'[g] = project[g]
    PROVE  HiddenKept' /\ HiddenMade' /\ Accounted'
<1> USE DEF UndoInv, UndoTypes, Complete
<1>1. PICK m \in 1 .. Len(stack) : stack[m] = s
  BY StackedAt
<1>2. /\ Len(stack) \in Nat
      /\ \A i \in 1 .. Len(stack) : stack[i] \in Series
  BY LenProperties, ElementOfSeq
<1>3. \A i \in 1 .. Len(stack) : made[stack[i]] \subseteq made'[stack[i]]
  BY <1>2
<1>4. f \in made'[stack[m]]
  BY <1>1
<1>5. \A i \in 1 .. Len(stack) : i # m => made'[stack[i]] = made[stack[i]]
  BY <1>1, <1>2 DEF Distinct
<1>6. HiddenKept'
  BY DEF HiddenKept
<1>7. HiddenMade'
  <2> SUFFICES ASSUME NEW j \in 1 .. Len(stack), NEW i \in 1 .. j, NEW g \in hidden,
                      g \in made'[stack[j]]
               PROVE  before[stack[i]][g] = Absent
    BY DEF HiddenMade
  <2>1. CASE g \in made[stack[j]]
    BY <2>1 DEF HiddenMade
  <2>2. CASE g \notin made[stack[j]]
    <3>1. g = f
      BY <1>2, <2>2
    <3>2. i \in 1 .. Len(stack)
      BY <1>2
    <3> QED
      BY <3>1, <3>2 DEF HiddenKept
  <2> QED
    BY <2>1, <2>2
<1>8. Accounted'
  <2> SUFFICES ASSUME NEW k \in 1 .. Len(stack) + 1, NEW i \in 1 .. k - 1, NEW g \in Files,
                      Level(k)'[g] # Absent, Level(i)'[g] = Absent
               PROVE  \E j \in 1 .. k - 1 : g \in made'[stack[j]] /\ (j >= i \/ stack[i] \in mixed)
    BY DEF Accounted
  <2>1. i <= Len(stack) /\ Level(i)' = Level(i)
    BY <1>2 DEF Level
  <2>2. CASE Level(k)[g] # Absent
    <3>1. PICK j \in 1 .. k - 1 : g \in made[stack[j]] /\ (j >= i \/ stack[i] \in mixed)
      BY <2>1, <2>2 DEF Accounted
    <3>2. j \in 1 .. Len(stack)
      BY <1>2
    <3> QED
      BY <3>1, <3>2, <1>3
  <2>3. CASE Level(k)[g] = Absent
    <3>1. k = Len(stack) + 1
      BY <1>2, <2>3 DEF Level
    <3>2. g = f
      BY <1>2, <2>3, <3>1 DEF Level
    <3>3. m >= i \/ stack[i] \in mixed
      BY <1>1, <1>2, <2>1 DEF OpenBelow
    <3>4. m \in 1 .. k - 1
      BY <1>2, <3>1
    <3> QED
      BY <3>2, <3>3, <3>4, <1>4
  <2> QED
    BY <2>2, <2>3
<1> QED
  BY <1>6, <1>7, <1>8

\* A step that leaves stack and records alone, creates no file and does not
\* touch the hidden ones.
LEMMA NoFileCreated ==
    ASSUME UndoInv, clean,
           hidden' = hidden, stack' = stack, before' = before, mixed' = mixed, made' = made,
           \A g \in Files : project'[g] # Absent => project[g] # Absent,
           \A g \in hidden : project[g] # Absent => project'[g] = project[g]
    PROVE  HiddenKept' /\ HiddenMade' /\ Accounted'
<1> USE DEF UndoInv, UndoTypes, Complete
<1>1. Len(stack) \in Nat
  BY LenProperties
<1>2. HiddenKept'
  BY DEF HiddenKept
<1>3. HiddenMade'
  BY DEF HiddenMade
<1>4. Accounted'
  <2> SUFFICES ASSUME NEW k \in 1 .. Len(stack) + 1, NEW i \in 1 .. k - 1, NEW g \in Files,
                      Level(k)'[g] # Absent, Level(i)'[g] = Absent
               PROVE  \E j \in 1 .. k - 1 : g \in made[stack[j]] /\ (j >= i \/ stack[i] \in mixed)
    BY DEF Accounted
  <2>1. Level(i)' = Level(i)
    BY <1>1 DEF Level
  <2>2. Level(k)[g] # Absent
    BY DEF Level
  <2> QED
    BY <2>1, <2>2 DEF Accounted
<1> QED
  BY <1>2, <1>3, <1>4

-----------------------------------------------------------------------------
(* What an undo of the last snapshot does.                                  *)

\* Of a series with a snapshot whose record is complete, the undo knows all
\* the files it created.
LEMMA CreatedIsMade ==
    ASSUME UndoInv, clean, NEW i \in 1 .. Len(stack),
           phase[stack[i]] = "open" => made[stack[i]] = {}
    PROVE  Created(stack[i]) = made[stack[i]]
<1> USE DEF UndoInv, UndoTypes, Complete
<1>1. stack[i] \in Series
  BY ElementOfSeq
<1>2. phase[stack[i]] \in {"open", "closed"}
  BY <1>1 DEF Unbegun, Phases
<1> QED
  BY <1>2 DEF OnRecord, Created

\* A restore writes and deletes nothing but what the snapshot and the record
\* of its series say.
LEMMA RestoredWithin ==
    ASSUME UndoTypes, NEW t \in Series, NEW locked, NEW f \in Files,
           project' = Restored(t, locked)
    PROVE  /\ project'[f] # Absent => project[f] # Absent \/ before[t][f] # Absent
           /\ f \in hidden /\ f \notin made[t] => project'[f] = project[f]
<1> USE DEF UndoTypes, Projects
<1>1. project'[f] = IF f \in Writable(t, locked) THEN Snap(t)[f] ELSE
                    IF f \in Extra(t) \ locked THEN Absent ELSE project[f]
  BY DEF Restored
<1>2. Snap(t)[f] = IF f \in hidden THEN Absent ELSE before[t][f]
  BY DEF Snap
<1>3. f \in Writable(t, locked) => Snap(t)[f] # Absent
  BY DEF Writable, Stale
<1>4. f \in Extra(t) => f \in made[t]
  BY DEF Extra, Created
<1> QED
  BY <1>1, <1>2, <1>3, <1>4

\* A verified one has done all that they say.
LEMMA RestoredAll ==
    ASSUME UndoTypes, NEW t \in Series, NEW locked, Verified(t, locked), NEW f \in Files,
           project' = Restored(t, locked)
    PROVE  /\ Snap(t)[f] # Absent => project'[f] = Snap(t)[f]
           /\ Snap(t)[f] = Absent => project'[f] = IF f \in Created(t) THEN Absent ELSE project[f]
<1> USE DEF UndoTypes, Projects
<1>1. project'[f] = IF f \in Writable(t, locked) THEN Snap(t)[f] ELSE
                    IF f \in Extra(t) \ locked THEN Absent ELSE project[f]
  BY DEF Restored
<1>2. f \in Writable(t, locked) <=> Snap(t)[f] # Absent /\ project[f] # Snap(t)[f]
  BY DEF Verified, Stale
<1>3. f \in Extra(t) \ locked <=> f \in Created(t) /\ Snap(t)[f] = Absent /\ project[f] # Absent
  <2>1. Created(t) \subseteq Files
    BY DEF Created
  <2>2. f \in Extra(t) => f \notin locked
    BY DEF Verified
  <2> QED
    BY <2>2 DEF Extra, Exists
<1> QED
  BY <1>1, <1>2, <1>3

\* Dropped, it leaves what the records of the others account for.
LEMMA LastDropped ==
    ASSUME UndoInv, clean, stack # <<>>, NEW locked,
           Verified(stack[Len(stack)], locked),
           phase[stack[Len(stack)]] = "open" => made[stack[Len(stack)]] = {},
           project' = Restored(stack[Len(stack)], locked),
           stack' = SubSeq(stack, 1, Len(stack) - 1),
           \A i \in 1 .. Len(stack) - 1 : before'[stack[i]] = before[stack[i]],
           UNCHANGED <<hidden, phase, made, recorded, mixed>>
    PROVE  Complete'
<1> USE DEF UndoInv, UndoTypes, Complete
<1> DEFINE n == Len(stack)
           t == stack[n]
<1>1. /\ n \in Nat \ {0} /\ n \in 1 .. n /\ t \in Series
      /\ Len(stack') = n - 1 /\ \A i \in 1 .. n - 1 : stack'[i] = stack[i]
  BY Top, Popped
<1>2. Created(t) = made[t]
  BY <1>1, CreatedIsMade
<1>3. ASSUME NEW f \in Files, project'[f] # Absent
      PROVE  before[t][f] # Absent \/ (f \notin made[t] /\ project[f] # Absent)
  BY <1>1, <1>2, <1>3, RestoredAll DEF Snap
<1>4. ASSUME NEW f \in hidden, f \notin made[t] PROVE project'[f] = project[f]
  BY <1>1, <1>4, RestoredWithin
<1> HIDE DEF n
<1>5. OnRecord'
  BY <1>1 DEF OnRecord, n
<1>6. HiddenKept'
  <2> SUFFICES ASSUME NEW i \in 1 .. n - 1, NEW f \in hidden, before[stack[i]][f] # Absent
               PROVE  project'[f] = before[stack[i]][f]
    BY <1>1 DEF HiddenKept, n
  <2>1. i \in 1 .. n /\ f \notin made[t]
    BY <1>1 DEF HiddenMade, n
  <2> QED
    BY <2>1, <1>4 DEF HiddenKept, n
<1>7. HiddenMade'
  <2> SUFFICES ASSUME NEW j \in 1 .. n - 1, NEW i \in 1 .. j, NEW f \in hidden, f \in made[stack[j]]
               PROVE  before[stack[i]][f] = Absent
    BY <1>1 DEF HiddenMade, n
  <2>1. j \in 1 .. n
    BY <1>1
  <2> QED
    BY <2>1 DEF HiddenMade, n
<1>8. Accounted'
  <2> SUFFICES ASSUME NEW k \in 1 .. n, NEW i \in 1 .. k - 1, NEW f \in Files,
                      Level(k)'[f] # Absent, Level(i)'[f] = Absent
               PROVE  \E j \in 1 .. k - 1 : f \in made[stack[j]] /\ (j >= i \/ stack[i] \in mixed)
    BY <1>1 DEF Accounted, n
  <2>1. k \in 1 .. n + 1 /\ n + 1 \in 1 .. n + 1 /\ i \in 1 .. (n + 1) - 1 /\ Level(i)[f] = Absent
    BY <1>1 DEF Level, n
  <2>2. CASE Level(k)[f] # Absent
    BY <2>1, <2>2 DEF Accounted, n
  <2>3. CASE Level(k)[f] = Absent
    <3>1. k = n /\ project'[f] # Absent /\ before[t][f] = Absent
      BY <1>1, <2>3 DEF Level, n
    <3>2. f \notin made[t] /\ project[f] # Absent
      BY <3>1, <1>3
    <3>3. Level(n + 1)[f] # Absent
      BY <3>2, <1>1 DEF Level, n
    <3>4. PICK j \in 1 .. (n + 1) - 1 : f \in made[stack[j]] /\ (j >= i \/ stack[i] \in mixed)
      BY <2>1, <3>3 DEF Accounted, n
    <3>5. j # n /\ j \in 1 .. n - 1
      BY <3>2, <3>4, <1>1
    <3> QED
      BY <3>1, <3>4, <3>5
  <2> QED
    BY <2>2, <2>3
<1> QED
  BY <1>5, <1>6, <1>7, <1>8

\* Kept for another attempt, neither.
LEMMA LastKept ==
    ASSUME UndoInv, clean, stack # <<>>, NEW locked,
           project' = Restored(stack[Len(stack)], locked), stack' = stack,
           \A i \in 1 .. Len(stack) : before'[stack[i]] = before[stack[i]],
           UNCHANGED <<hidden, phase, made, recorded, mixed>>
    PROVE  Complete'
<1> USE DEF UndoInv, UndoTypes, Complete
<1> DEFINE n == Len(stack)
           t == stack[n]
<1>1. n \in Nat \ {0} /\ n \in 1 .. n /\ t \in Series
  BY Top
<1>2. ASSUME NEW f \in Files, project'[f] # Absent
      PROVE  before[t][f] # Absent \/ project[f] # Absent
  BY <1>1, <1>2, RestoredWithin
<1>3. ASSUME NEW f \in hidden, f \notin made[t] PROVE project'[f] = project[f]
  BY <1>1, <1>3, RestoredWithin
<1> HIDE DEF n
<1>5. OnRecord'
  BY DEF OnRecord
<1>6. HiddenKept'
  <2> SUFFICES ASSUME NEW i \in 1 .. n, NEW f \in hidden, before[stack[i]][f] # Absent
               PROVE  project'[f] = before[stack[i]][f]
    BY <1>1 DEF HiddenKept, n
  <2>1. f \notin made[t]
    BY <1>1 DEF HiddenMade, n
  <2> QED
    BY <2>1, <1>3 DEF HiddenKept, n
<1>7. HiddenMade'
  <2> SUFFICES ASSUME NEW j \in 1 .. n, NEW i \in 1 .. j, NEW f \in hidden, f \in made[stack[j]]
               PROVE  before'[stack[i]][f] = Absent
    BY <1>1 DEF HiddenMade, n
  <2>1. i \in 1 .. n
    BY <1>1
  <2> QED
    BY <2>1 DEF HiddenMade, n
<1>8. Accounted'
  <2> SUFFICES ASSUME NEW k \in 1 .. n + 1, NEW i \in 1 .. k - 1, NEW f \in Files,
                      Level(k)'[f] # Absent, Level(i)'[f] = Absent
               PROVE  \E j \in 1 .. k - 1 : f \in made[stack[j]] /\ (j >= i \/ stack[i] \in mixed)
    BY <1>1 DEF Accounted, n
  <2>1. Level(i)[f] = Absent
    BY <1>1 DEF Level, n
  <2>2. CASE Level(k)[f] # Absent
    BY <2>1, <2>2 DEF Accounted, n
  <2>3. CASE Level(k)[f] = Absent
    <3>1. k = n + 1 /\ project'[f] # Absent /\ project[f] = Absent
      BY <1>1, <2>3 DEF Level, n
    <3>2. Level(n)[f] # Absent /\ i # n /\ i \in 1 .. n - 1
      BY <3>1, <1>1, <1>2, <2>1 DEF Level, n
    <3>3. PICK j \in 1 .. n - 1 : f \in made[stack[j]] /\ (j >= i \/ stack[i] \in mixed)
      BY <2>1, <3>2, <1>1 DEF Accounted, n
    <3>4. j \in 1 .. k - 1
      BY <1>1, <3>1, <3>3
    <3> QED
      BY <3>3, <3>4
  <2> QED
    BY <2>2, <2>3
<1> QED
  BY <1>5, <1>6, <1>7, <1>8

\* And one that was alone, or is the only one left, leaves the project as it
\* found it.
LEMMA LastExact ==
    ASSUME UndoInv, clean, stack # <<>>, NEW locked,
           Verified(stack[Len(stack)], locked),
           phase[stack[Len(stack)]] = "open" => made[stack[Len(stack)]] = {},
           project' = Restored(stack[Len(stack)], locked),
           Len(stack) = 1 \/ stack[Len(stack)] \notin mixed
    PROVE  project' = before[stack[Len(stack)]]
<1> USE DEF UndoInv, UndoTypes, Complete
<1> DEFINE n == Len(stack)
           t == stack[n]
<1>1. n \in Nat \ {0} /\ n \in 1 .. n /\ t \in Series
  BY Top
<1>2. Created(t) = made[t]
  BY <1>1, CreatedIsMade
<1>3. project' \in [Files -> Contents \cup {Absent}] /\ before[t] \in [Files -> Contents \cup {Absent}]
  <2>1. project' = [f \in Files |-> project'[f]]
    BY DEF Restored
  <2>2. ASSUME NEW f \in Files PROVE project'[f] \in Contents \cup {Absent}
    BY <1>1, RestoredAll DEF Snap, Projects
  <2> QED
    BY <1>1, <2>1, <2>2 DEF Projects
<1>4. ASSUME NEW f \in Files PROVE project'[f] = before[t][f]
  <2>1. /\ Snap(t)[f] = IF f \in hidden THEN Absent ELSE before[t][f]
        /\ Snap(t)[f] # Absent => project'[f] = Snap(t)[f]
        /\ Snap(t)[f] = Absent => project'[f] = IF f \in made[t] THEN Absent ELSE project[f]
    BY <1>1, <1>2, RestoredAll DEF Snap
  <2>2. CASE f \in hidden /\ before[t][f] # Absent
    <3>1. project[f] = before[t][f] /\ f \notin made[t]
      BY <1>1, <2>2 DEF HiddenKept, HiddenMade
    <3> QED
      BY <2>1, <2>2, <3>1
  <2>3. CASE before[t][f] = Absent /\ f \notin made[t]
    <3> SUFFICES ASSUME project[f] # Absent PROVE FALSE
      BY <2>1, <2>3
    <3>1. Level(n + 1)[f] # Absent /\ Level(n)[f] = Absent
      BY <1>1, <2>3 DEF Level
    <3>2. n + 1 \in 1 .. n + 1 /\ n \in 1 .. (n + 1) - 1
      BY <1>1
    <3>3. PICK j \in 1 .. (n + 1) - 1 : f \in made[stack[j]] /\ (j >= n \/ t \in mixed)
      BY <3>1, <3>2 DEF Accounted
    <3>4. j = n
      BY <1>1, <3>3
    <3> QED
      BY <3>3, <3>4, <2>3
  <2>4. CASE f \notin hidden /\ before[t][f] # Absent
    BY <2>1, <2>4
  <2>5. CASE before[t][f] = Absent /\ f \in made[t]
    BY <2>1, <2>5
  <2> QED
    BY <2>2, <2>3, <2>4, <2>5
<1> QED
  BY <1>3, <1>4

-----------------------------------------------------------------------------
(* The invariant holds.                                                     *)

\* A step that leaves the stack and its copies alone, creates no file and goes
\* on with the record as it was keeps what is said of them.
LEMMA StackLeft ==
    ASSUME UndoInv, stack' = stack, mixed' = mixed,
           \A s \in Series : phase'[s] = "idle" => phase[s] = "idle" /\ made'[s] = made[s],
           \A s \in Series : phase'[s] = "open" => phase[s] = "open"
    PROVE  Distinct' /\ Unbegun' /\ OpenBelow'
<1> USE DEF UndoInv, UndoTypes
<1>1. \A i \in 1 .. Len(stack) : stack[i] \in Series
  BY ElementOfSeq
<1>2. Distinct' /\ Unbegun'
  BY DEF Distinct, Unbegun
<1>3. OpenBelow'
  BY <1>1 DEF OpenBelow
<1> QED
  BY <1>2, <1>3

LEMMA CheckpointStep ==
    ASSUME UndoInv, NEW s \in Series, Checkpoint(s)
    PROVE  UndoInv'
<1> USE DEF UndoInv, UndoTypes, Checkpoint, Fresh, Complete
<1> DEFINE n == Len(stack)
<1>1. /\ n \in Nat /\ stack' \in Seq(Series) /\ Len(stack') = n + 1
      /\ \A i \in 1 .. n : stack'[i] = stack[i] /\ stack[i] \in Series
      /\ stack'[n + 1] = s
  BY Pushed
<1>2. made[s] = {} /\ \A i \in 1 .. n : stack[i] # s
  BY DEF Unbegun
<1> HIDE DEF n
<1>3. UndoTypes'
  BY <1>1 DEF Phases
<1>4. Distinct'
  BY <1>1, <1>2 DEF Distinct, n
<1>5. Unbegun'
  BY <1>1, <1>2 DEF Unbegun, n
<1>6. OpenBelow'
  <2> SUFFICES ASSUME NEW i \in 1 .. n + 1, NEW j \in 1 .. n + 1, i < j, phase'[stack'[i]] = "open"
               PROVE  stack'[j] \in mixed'
    BY <1>1 DEF OpenBelow, n
  <2>1. i \in 1 .. n /\ stack'[i] = stack[i] /\ stack[i] \in Series /\ stack[i] # s
    BY <1>1, <1>2
  <2>2. phase[stack[i]] = "open"
    BY <2>1
  <2>3. CASE j = n + 1
    BY <1>1, <2>1, <2>2, <2>3
  <2>4. CASE j \in 1 .. n
    BY <1>1, <2>1, <2>2, <2>4 DEF OpenBelow, n
  <2> QED
    BY <2>3, <2>4, <1>1
<1>7. ASSUME clean' PROVE Complete'
  <2>1. n = 0 \/ Complete
    <3>1. clean \/ stack = <<>>
      BY <1>7
    <3> QED
      BY <3>1, EmptySeq DEF n
  <2>2. /\ \A i \in 1 .. n : before'[stack[i]] = before[stack[i]] /\ phase'[stack[i]] = phase[stack[i]]
        /\ before'[s] = project
    BY <1>1, <1>2
  <2>3. OnRecord'
    BY <1>1, <1>2, <2>1, <2>2 DEF OnRecord, n
  <2>4. HiddenKept'
    BY <1>1, <1>2, <2>1, <2>2 DEF HiddenKept, n
  <2>5. HiddenMade'
    <3> SUFFICES ASSUME NEW j \in 1 .. n + 1, NEW i \in 1 .. j, NEW f \in hidden, f \in made[stack'[j]]
                 PROVE  before'[stack'[i]][f] = Absent
      BY <1>1 DEF HiddenMade, n
    <3>1. j \in 1 .. n /\ i \in 1 .. n
      BY <1>1, <1>2
    <3> QED
      BY <1>1, <2>1, <2>2, <3>1 DEF HiddenMade, n
  <2>6. Accounted'
    <3> SUFFICES ASSUME NEW k \in 1 .. n + 2, NEW i \in 1 .. k - 1, NEW f \in Files,
                        Level(k)'[f] # Absent, Level(i)'[f] = Absent
                 PROVE  \E j \in 1 .. k - 1 :
                            f \in made[stack'[j]] /\ (j >= i \/ stack'[i] \in mixed')
      BY <1>1 DEF Accounted, n
    <3> DEFINE h == IF k = n + 2 THEN n + 1 ELSE k
    <3>1. h \in 1 .. n + 1 /\ Level(k)' = Level(h)
      BY <1>1, <2>2 DEF Level, n
    <3>2. i # n + 1 /\ i \in 1 .. n /\ i \in 1 .. h - 1
      <4>1. i = n + 1 => Level(i)' = project /\ Level(k)' = project
        BY <1>1, <2>2 DEF Level, n
      <4> QED
        BY <1>1, <4>1
    <3>3. Level(i)' = Level(i)
      BY <1>1, <2>2, <3>2 DEF Level, n
    <3> HIDE DEF h
    <3>4. PICK j \in 1 .. h - 1 : f \in made[stack[j]] /\ (j >= i \/ stack[i] \in mixed)
      BY <3>1, <3>2, <3>3, <2>1 DEF Accounted, n
    <3>5. j \in 1 .. k - 1 /\ j \in 1 .. n
      BY <1>1, <3>1, <3>4 DEF h
    <3> QED
      BY <1>1, <3>2, <3>4, <3>5
  <2> QED
    BY <2>3, <2>4, <2>5, <2>6
<1> QED
  BY <1>3, <1>4, <1>5, <1>6, <1>7

LEMMA ToolStep ==
    ASSUME UndoInv, NEW s \in Series, Tool(s)
    PROVE  UndoInv'
<1> USE DEF UndoInv, UndoTypes
<1>1. ASSUME NEW f \in Files, NEW c \in Contents, Create(s, f, c) PROVE UndoInv'
  <2> USE <1>1 DEF Create, Note, Exists
  <2>1. UndoTypes'
    BY DEF Projects
  <2>2. Distinct' /\ Unbegun' /\ OpenBelow'
    BY StackLeft
  <2>3. ASSUME clean' PROVE Complete'
    <3>1. clean /\ Stacked(s)
      BY <2>3
    <3>2. HiddenKept' /\ HiddenMade' /\ Accounted'
      BY <3>1, FileCreated DEF Projects
    <3>3. OnRecord'
      BY <3>1, ElementOfSeq DEF Complete, OnRecord
    <3> QED
      BY <3>2, <3>3 DEF Complete
  <2> QED
    BY <2>1, <2>2, <2>3
<1>2. ASSUME NEW f \in Files, NEW c \in Contents, BreakPatch(s, f, c) PROVE UndoInv'
  <2> USE <1>2 DEF BreakPatch
  <2>1. UndoTypes' /\ ~clean'
    BY DEF Projects
  <2>2. Distinct' /\ Unbegun' /\ OpenBelow'
    BY StackLeft
  <2> QED
    BY <2>1, <2>2
<1>3. ASSUME NEW f \in Files, NEW v \in Contents \cup {Absent}, Change(s, f, v) PROVE UndoInv'
  <2> USE <1>3 DEF Change, Exists
  <2>1. UndoTypes'
    BY DEF Projects
  <2>2. Distinct' /\ Unbegun' /\ OpenBelow'
    BY StackLeft
  <2>3. ASSUME clean' PROVE Complete'
    <3>1. clean /\ f \notin hidden
      BY <2>3
    <3>2. HiddenKept' /\ HiddenMade' /\ Accounted'
      BY <3>1, NoFileCreated DEF Projects
    <3>3. OnRecord'
      BY <3>1 DEF Complete, OnRecord
    <3> QED
      BY <3>2, <3>3 DEF Complete
  <2> QED
    BY <2>1, <2>2, <2>3
<1>4. ASSUME NEW f \in Files, NEW g \in Files, Rename(s, f, g) PROVE UndoInv'
  <2> USE <1>4 DEF Rename, Note, Exists
  <2>1. UndoTypes'
    BY DEF Projects
  <2>2. Distinct' /\ Unbegun' /\ OpenBelow'
    BY StackLeft
  <2>3. ASSUME clean' PROVE Complete'
    <3>1. clean /\ Stacked(s) /\ f \notin hidden
      BY <2>3
    <3>2. HiddenKept' /\ HiddenMade' /\ Accounted'
      BY <3>1, FileCreated DEF Projects
    <3>3. OnRecord'
      BY <3>1, ElementOfSeq DEF Complete, OnRecord
    <3> QED
      BY <3>2, <3>3 DEF Complete
  <2> QED
    BY <2>1, <2>2, <2>3
<1> QED
  BY <1>1, <1>2, <1>3, <1>4 DEF Tool

\* The ends of a series, and what happens outside.
LEMMA OtherStep ==
    ASSUME UndoInv,
           \/ \E s \in Series : Finish(s) \/ Abort(s)
           \/ Crash
           \/ \E f \in Files, v \in Contents \cup {Absent} : Outside(f, v)
    PROVE  UndoInv'
<1> USE DEF UndoInv, UndoTypes
<1>1. ASSUME NEW s \in Series, Finish(s) PROVE UndoInv'
  <2> USE <1>1 DEF Finish
  <2>1. UndoTypes'
    BY DEF Phases
  <2>2. Distinct' /\ Unbegun' /\ OpenBelow'
    BY StackLeft
  <2>3. ASSUME clean PROVE Complete'
    <3>1. HiddenKept' /\ HiddenMade' /\ Accounted'
      BY <2>3, NoFileCreated
    <3>2. OnRecord'
      BY <2>3, ElementOfSeq DEF Complete, OnRecord
    <3> QED
      BY <3>1, <3>2 DEF Complete
  <2> QED
    BY <2>1, <2>2, <2>3
<1>2. ASSUME NEW s \in Series, Abort(s) PROVE UndoInv'
  <2> USE <1>2 DEF Abort
  <2>1. UndoTypes'
    BY DEF Phases
  <2>2. Distinct' /\ Unbegun' /\ OpenBelow'
    BY StackLeft
  <2>3. ASSUME clean' PROVE Complete'
    <3>1. clean /\ (Stacked(s) => made[s] = {})
      BY <2>3
    <3>2. HiddenKept' /\ HiddenMade' /\ Accounted'
      BY <3>1, NoFileCreated
    <3>3. OnRecord'
      BY <3>1, StackedAt, ElementOfSeq DEF Complete, OnRecord
    <3> QED
      BY <3>2, <3>3 DEF Complete
  <2> QED
    BY <2>1, <2>2, <2>3
<1>3. CASE Crash
  <2> USE <1>3 DEF Crash
  <2>1. UndoTypes'
    BY DEF Phases
  <2>2. Distinct' /\ Unbegun' /\ OpenBelow'
    BY StackLeft
  <2>3. ASSUME clean' PROVE Complete'
    <3>1. clean /\ \A s \in Range(stack) : phase[s] = "open" => made[s] = {}
      BY <2>3
    <3>2. HiddenKept' /\ HiddenMade' /\ Accounted'
      BY <3>1, NoFileCreated
    <3>3. OnRecord'
      BY <3>1, InRange, ElementOfSeq DEF Complete, OnRecord
    <3> QED
      BY <3>2, <3>3 DEF Complete
  <2> QED
    BY <2>1, <2>2, <2>3
<1>4. ASSUME NEW f \in Files, NEW v \in Contents \cup {Absent}, Outside(f, v) PROVE UndoInv'
  <2> USE <1>4 DEF Outside, Exists
  <2>1. UndoTypes'
    BY DEF Projects
  <2>2. Distinct' /\ Unbegun' /\ OpenBelow'
    BY StackLeft
  <2>3. ASSUME clean' PROVE Complete'
    <3>1. clean /\ project[f] # Absent /\ f \notin hidden
      BY <2>3
    <3>2. HiddenKept' /\ HiddenMade' /\ Accounted'
      BY <3>1, NoFileCreated DEF Projects
    <3>3. OnRecord'
      BY <3>1 DEF Complete, OnRecord
    <3> QED
      BY <3>2, <3>3 DEF Complete
  <2> QED
    BY <2>1, <2>2, <2>3
<1> QED
  BY <1>1, <1>2, <1>3, <1>4

\* The three outcomes of an undo.
LEMMA UndoOutcomes ==
    ASSUME UndoTypes, NEW scope \in {"last", "session"}, NEW locked \in SUBSET Files, Undo(scope, locked)
    PROVE  /\ stack # <<>> /\ Len(stack) \in Nat \ {0}
           /\ Target(scope) \in {stack[1], stack[Len(stack)]} /\ Target(scope) \in Series
           /\ project' = Restored(Target(scope), locked)
           /\ clean' => clean /\ (phase[Target(scope)] = "open" => made[Target(scope)] = {})
           /\ \/ Verified(Target(scope), locked) /\ stack' = <<>>
              \/ /\ Verified(Target(scope), locked) /\ Target(scope) = stack[Len(stack)]
                 /\ stack' = SubSeq(stack, 1, Len(stack) - 1)
              \/ stack' = stack /\ (clean' => Target(scope) = stack[Len(stack)])
           /\ stack' = <<>> => Len(stack) = 1 \/ scope = "session"
<1> USE DEF UndoTypes, Undo, Target, Rest
<1>1. /\ Len(stack) \in Nat \ {0} /\ stack[Len(stack)] \in Series
      /\ Head(stack) = stack[1] /\ stack[1] \in Series
  BY Top
<1>2. Target(scope) \in {stack[1], stack[Len(stack)]} /\ Target(scope) \in Series
  BY <1>1
<1>3. /\ project' = Restored(Target(scope), locked)
      /\ stack' = IF Verified(Target(scope), locked) THEN Rest(scope) ELSE stack
      /\ stack # <<>>
  OBVIOUS
<1>4. clean' => /\ clean /\ (phase[Target(scope)] = "open" => made[Target(scope)] = {})
                /\ Verified(Target(scope), locked) \/ Target(scope) = stack[Len(stack)]
  OBVIOUS
<1>5. CASE ~Verified(Target(scope), locked)
  BY <1>1, <1>2, <1>3, <1>4, <1>5
<1>6. CASE Verified(Target(scope), locked) /\ scope = "session"
  BY <1>1, <1>2, <1>3, <1>4, <1>6
<1>7. CASE Verified(Target(scope), locked) /\ scope = "last"
  <2>1. stack' = SubSeq(stack, 1, Len(stack) - 1) /\ Target(scope) = stack[Len(stack)]
    BY <1>3, <1>7
  <2>2. stack' = <<>> => Len(stack) = 1
    <3>1. Len(stack') = Len(stack) - 1
      BY <2>1, <1>3, Popped
    <3>2. stack' = <<>> => Len(stack') = 0
      OBVIOUS
    <3> QED
      BY <1>1, <3>1, <3>2
  <2> QED
    BY <1>1, <1>2, <1>3, <1>4, <1>7, <2>1, <2>2
<1> QED
  BY <1>5, <1>6, <1>7

LEMMA UndoStep ==
    ASSUME UndoInv, NEW scope \in {"last", "session"}, NEW locked \in SUBSET Files, Undo(scope, locked)
    PROVE  UndoInv'
<1> USE DEF UndoInv
<1> DEFINE t == Target(scope)
           n == Len(stack)
<1>1. /\ stack # <<>> /\ n \in Nat \ {0}
      /\ t \in {stack[1], stack[n]} /\ t \in Series
      /\ project' = Restored(t, locked)
      /\ clean' => clean /\ (phase[t] = "open" => made[t] = {})
      /\ \/ Verified(t, locked) /\ stack' = <<>>
         \/ /\ Verified(t, locked) /\ t = stack[n]
            /\ stack' = SubSeq(stack, 1, n - 1)
         \/ stack' = stack /\ (clean' => t = stack[n])
  BY UndoOutcomes
<1>2. /\ UNCHANGED <<hidden, phase, made, recorded, mixed>>
      /\ before' = [s \in Series |-> IF s \in Range(stack') THEN before[s] ELSE Nowhere]
      /\ clean' \in BOOLEAN
  BY DEF Undo
<1> HIDE DEF t
<1>3. project' \in Projects
  <2>1. ASSUME NEW f \in Files PROVE Restored(t, locked)[f] \in Contents \cup {Absent}
    BY <1>1 DEF UndoTypes, Restored, Snap, Projects
  <2> QED
    BY <1>1, <2>1 DEF Restored, Projects
<1>4. before' \in [Series -> Projects]
  BY <1>2 DEF UndoTypes, Nowhere, Projects
<1>5. stack' \in Seq(Series) =>
          /\ UndoTypes'
          /\ \A i \in 1 .. Len(stack') : stack'[i] \in Series /\ before'[stack'[i]] = before[stack'[i]]
  <2> SUFFICES ASSUME stack' \in Seq(Series)
               PROVE  /\ UndoTypes'
                      /\ \A i \in 1 .. Len(stack') :
                             stack'[i] \in Series /\ before'[stack'[i]] = before[stack'[i]]
    OBVIOUS
  <2>1. UndoTypes'
    BY <1>2, <1>3, <1>4 DEF UndoTypes
  <2>2. ASSUME NEW i \in 1 .. Len(stack')
        PROVE  stack'[i] \in Series /\ before'[stack'[i]] = before[stack'[i]]
    <3>1. stack'[i] \in Series
      BY ElementOfSeq
    <3>2. stack'[i] \in Range(stack')
      BY InRange
    <3> QED
      BY <3>1, <3>2, <1>2
  <2> QED
    BY <2>1, <2>2
<1>6. CASE stack' = <<>>
  <2>1. stack' \in Seq(Series) /\ Len(stack') = 0
    BY <1>6
  <2>2. Distinct' /\ OpenBelow' /\ OnRecord' /\ HiddenKept' /\ HiddenMade'
    BY <2>1 DEF Distinct, OpenBelow, OnRecord, HiddenKept, HiddenMade
  <2>3. Accounted'
    BY <2>1 DEF Accounted
  <2>4. Unbegun'
    BY <2>1, <1>2 DEF Unbegun
  <2> QED
    BY <1>5, <2>1, <2>2, <2>3, <2>4 DEF Complete
<1>7. CASE Verified(t, locked) /\ t = stack[n] /\ stack' = SubSeq(stack, 1, n - 1)
  <2>1. /\ stack' \in Seq(Series) /\ Len(stack') = n - 1
        /\ \A i \in 1 .. n - 1 : stack'[i] = stack[i]
    BY <1>1, <1>7, Popped DEF UndoTypes
  <2> HIDE DEF n
  <2>2. Distinct'
    BY <2>1, <1>1 DEF Distinct, n
  <2>3. Unbegun'
    BY <2>1, <1>1, <1>2 DEF Unbegun, n
  <2>4. OpenBelow'
    BY <2>1, <1>1, <1>2 DEF OpenBelow, n
  <2>5. ASSUME clean' PROVE Complete'
    <3>1. \A i \in 1 .. n - 1 : before'[stack[i]] = before[stack[i]]
      BY <2>1, <1>5
    <3> QED
      BY <1>1, <1>2, <1>7, <2>5, <3>1, LastDropped DEF n
  <2> QED
    BY <1>5, <2>1, <2>2, <2>3, <2>4, <2>5
<1>8. CASE stack' = stack /\ (clean' => t = stack[n])
  <2>1. stack' \in Seq(Series)
    BY <1>8 DEF UndoTypes
  <2>2. Distinct' /\ Unbegun' /\ OpenBelow'
    BY <1>2, <1>8, StackLeft
  <2>3. ASSUME clean' PROVE Complete'
    <3>1. \A i \in 1 .. Len(stack) : before'[stack[i]] = before[stack[i]]
      BY <2>1, <1>5, <1>8
    <3> QED
      BY <1>1, <1>2, <1>8, <2>3, <3>1, LastKept
  <2> QED
    BY <1>5, <2>1, <2>2, <2>3
<1> QED
  BY <1>1, <1>6, <1>7, <1>8

THEOREM UndoInductive == Spec => []UndoInv
<1>1. Init => UndoInv
  <2> SUFFICES ASSUME Init PROVE UndoInv
    OBVIOUS
  <2> USE DEF Init
  <2>1. UndoTypes
    BY DEF UndoTypes, Projects, Phases, Nowhere
  <2>2. Len(stack) = 0
    OBVIOUS
  <2>3. Distinct /\ OpenBelow /\ OnRecord /\ HiddenKept /\ HiddenMade
    BY <2>2 DEF Distinct, OpenBelow, OnRecord, HiddenKept, HiddenMade
  <2>4. Accounted
    BY <2>2 DEF Accounted
  <2>5. Unbegun
    BY <2>2 DEF Unbegun
  <2> QED
    BY <2>1, <2>3, <2>4, <2>5 DEF UndoInv, Complete
<1>2. UndoInv /\ [Next]_vars => UndoInv'
  <2> SUFFICES ASSUME UndoInv, [Next]_vars PROVE UndoInv'
    OBVIOUS
  <2>1. CASE Next
    BY <2>1, CheckpointStep, ToolStep, OtherStep, UndoStep DEF Next
  <2>2. CASE UNCHANGED vars
    BY <2>2 DEF vars, UndoInv, UndoTypes, Distinct, Unbegun, OpenBelow, Complete, OnRecord,
                HiddenKept, HiddenMade, Accounted, Level
  <2> QED
    BY <2>1, <2>2
<1> QED
  BY <1>1, <1>2, PTL DEF Spec

-----------------------------------------------------------------------------
(* The theorems.                                                            *)

\* No run leaves the state's types: TypeOK, with no more snapshots than there
\* are series.
THEOREM UndoTyped == Spec => []TypeOK
<1>1. UndoInv => TypeOK
  <2> SUFFICES ASSUME UndoInv PROVE TypeOK
    OBVIOUS
  <2> USE DEF UndoInv, UndoTypes
  <2>1. Len(stack) \in Nat
    BY LenProperties
  <2>2. stack \in Injection(1 .. Len(stack), Series)
    <3>1. stack \in [1 .. Len(stack) -> Series]
      BY LenProperties, ElementOfSeq
    <3>2. \A i, j \in 1 .. Len(stack) : stack[i] = stack[j] => i = j
      BY DEF Distinct
    <3> QED
      BY <3>1, <3>2 DEF Injection, IsInjective
  <2>3. Cardinality(1 .. Len(stack)) = Len(stack)
    <3>1. 1 \in Int /\ Len(stack) \in Int
      BY <2>1
    <3>2. Cardinality(1 .. Len(stack)) = IF 1 > Len(stack) THEN 0 ELSE Len(stack) - 1 + 1
      BY <3>1, FS_Interval
    <3> QED
      BY <2>1, <3>2
  <2>4. Len(stack) <= Cardinality(Series)
    BY <2>2, <2>3, FS_Injection, SeriesAssumption
  <2> QED
    BY <2>4 DEF TypeOK
<1> QED
  BY <1>1, UndoInductive, PTL

\* A step that shortens the stack is an undo.
LEMMA OnlyUndoDrops ==
    ASSUME UndoInv, [Next]_vars, stack # <<>>,
           \/ stack' = <<>> \/ stack' = SubSeq(stack, 1, Len(stack) - 1)
           \/ \E s \in Range(stack) : s \notin Range(stack')
    PROVE  \E scope \in {"last", "session"}, locked \in SUBSET Files : Undo(scope, locked)
<1>1. stack \in Seq(Series) /\ Len(stack) \in Nat \ {0}
  BY EmptySeq DEF UndoInv, UndoTypes
<1>2. stack' # stack
  <2>1. stack' = SubSeq(stack, 1, Len(stack) - 1) => Len(stack') = Len(stack) - 1
    BY <1>1, Popped
  <2> QED
    BY <1>1, <2>1
<1>3. ASSUME NEW s \in Series, Checkpoint(s) PROVE FALSE
  <2>1. /\ Len(stack') = Len(stack) + 1 /\ stack' \in Seq(Series)
        /\ \A i \in 1 .. Len(stack) : stack'[i] = stack[i]
    BY <1>1, <1>3, Pushed DEF Checkpoint
  <2>2. stack' # <<>> /\ stack' # SubSeq(stack, 1, Len(stack) - 1)
    BY <1>1, <2>1, Popped
  <2>3. PICK r \in Range(stack) : r \notin Range(stack')
    BY <2>2
  <2>4. PICK i \in 1 .. Len(stack) : stack[i] = r
    BY <1>1, <2>3, InRange
  <2>5. i \in 1 .. Len(stack') /\ stack'[i] = r
    BY <1>1, <2>1, <2>4
  <2> QED
    BY <2>1, <2>3, <2>5, InRange
<1>4. ASSUME \/ \E s \in Series : Tool(s) \/ Finish(s) \/ Abort(s)
             \/ \E f \in Files, v \in Contents \cup {Absent} : Outside(f, v)
             \/ Crash \/ UNCHANGED vars
      PROVE  stack' = stack
  BY <1>4 DEF Tool, Create, BreakPatch, Change, Rename, Finish, Abort, Outside, Crash, vars
<1> QED
  BY <1>2, <1>3, <1>4 DEF Next

\* One undo of the last series gives back the project as it was when that
\* series began, whatever was done since and wherever the process died.
THEOREM LastUndone == Spec => UndoLastRestores
<1>1. UndoInv /\ [Next]_vars => (\A s \in Series :
        /\ stack # <<>> /\ s = stack[Len(stack)] /\ s \notin mixed
        /\ stack' = SubSeq(stack, 1, Len(stack) - 1) /\ clean'
        => project' = before[s])
  <2> SUFFICES ASSUME UndoInv, [Next]_vars, stack # <<>>, stack[Len(stack)] \notin mixed,
                      stack' = SubSeq(stack, 1, Len(stack) - 1), clean'
               PROVE  project' = before[stack[Len(stack)]]
    OBVIOUS
  <2>1. PICK scope \in {"last", "session"}, locked \in SUBSET Files : Undo(scope, locked)
    BY OnlyUndoDrops
  <2>2. /\ Len(stack) \in Nat \ {0}
        /\ Target(scope) \in {stack[1], stack[Len(stack)]}
        /\ project' = Restored(Target(scope), locked)
        /\ clean /\ (phase[Target(scope)] = "open" => made[Target(scope)] = {})
        /\ \/ Verified(Target(scope), locked) /\ stack' = <<>>
           \/ Verified(Target(scope), locked) /\ Target(scope) = stack[Len(stack)]
           \/ stack' = stack
    BY <2>1, UndoOutcomes DEF UndoInv
  <2>3. Len(stack') = Len(stack) - 1
    BY Popped DEF UndoInv, UndoTypes
  <2>4. Verified(Target(scope), locked) /\ Target(scope) = stack[Len(stack)]
    <3>0. Len(stack) \in Nat \ {0}
      BY <2>2
    <3>1. stack' = <<>> => Len(stack) = 1
      <4>1. stack' = <<>> => Len(stack') = 0
        OBVIOUS
      <4> QED
        BY <2>3, <3>0, <4>1
    <3>2. stack' # stack
      BY <2>3, <3>0
    <3> QED
      BY <2>2, <3>1, <3>2
  <2> QED
    BY <2>2, <2>4, LastExact
<1> QED
  BY <1>1, UndoInductive, PTL DEF Spec, UndoLastRestores

\* Undone one by one, the series give back the project the session found, also
\* when some of them ran side by side.
THEOREM AllUndone == Spec => UndoneToFirstRestores
<1>1. UndoInv /\ [Next]_vars =>
        (Len(stack) = 1 /\ stack' = <<>> /\ clean' => project' = before[stack[1]])
  <2> SUFFICES ASSUME UndoInv, [Next]_vars, Len(stack) = 1, stack' = <<>>, clean'
               PROVE  project' = before[stack[1]]
    OBVIOUS
  <2>0. stack # <<>>
    OBVIOUS
  <2>1. PICK scope \in {"last", "session"}, locked \in SUBSET Files : Undo(scope, locked)
    BY <2>0, OnlyUndoDrops
  <2>2. /\ Target(scope) \in {stack[1], stack[Len(stack)]}
        /\ project' = Restored(Target(scope), locked)
        /\ clean /\ (phase[Target(scope)] = "open" => made[Target(scope)] = {})
        /\ \/ Verified(Target(scope), locked) /\ stack' = <<>>
           \/ Verified(Target(scope), locked) /\ Target(scope) = stack[Len(stack)]
           \/ stack' = stack
    BY <2>1, UndoOutcomes DEF UndoInv
  <2>3. Verified(Target(scope), locked) /\ Target(scope) = stack[Len(stack)]
    BY <2>0, <2>2
  <2> QED
    BY <2>0, <2>2, <2>3, LastExact
<1> QED
  BY <1>1, UndoInductive, PTL DEF Spec, UndoneToFirstRestores

\* An undo drops no history before every file of a snapshot it drops is back.
THEOREM HistoryKept == Spec => HistoryKeptUntilRestored
<1>1. UndoInv /\ [Next]_vars => (\A s \in Series :
        Stacked(s) /\ s \notin Range(stack') =>
            \E t \in Range(stack) : /\ t \notin Range(stack')
                                    /\ \A f \in Files : Snap(t)[f] # Absent => project'[f] = Snap(t)[f])
  <2> SUFFICES ASSUME UndoInv, [Next]_vars, NEW s \in Series, Stacked(s), s \notin Range(stack')
               PROVE  \E t \in Range(stack) :
                          /\ t \notin Range(stack')
                          /\ \A f \in Files : Snap(t)[f] # Absent => project'[f] = Snap(t)[f]
    OBVIOUS
  <2> USE DEF UndoInv
  <2>0. stack \in Seq(Series) /\ stack # <<>>
    <3>1. stack \in Seq(Series)
      BY DEF UndoTypes
    <3>2. \E i \in 1 .. Len(stack) : stack[i] = s
      BY <3>1, StackedAt
    <3> QED
      BY <3>1, <3>2
  <2>1. PICK scope \in {"last", "session"}, locked \in SUBSET Files : Undo(scope, locked)
    BY <2>0, OnlyUndoDrops DEF Stacked
  <2> DEFINE t == Target(scope)
  <2>2. /\ t \in {stack[1], stack[Len(stack)]} /\ t \in Series
        /\ project' = Restored(t, locked)
        /\ \/ Verified(t, locked) /\ stack' = <<>>
           \/ /\ Verified(t, locked) /\ t = stack[Len(stack)]
              /\ stack' = SubSeq(stack, 1, Len(stack) - 1)
           \/ stack' = stack
    BY <2>1, UndoOutcomes
  <2> HIDE DEF t
  <2>3. t \in Range(stack)
    BY <2>0, <2>2, Top DEF Stacked
  <2>4. Verified(t, locked) /\ t \notin Range(stack')
    <3>1. stack' # stack
      BY DEF Stacked
    <3>2. CASE stack' = <<>>
      <4>1. stack' \in Seq(Series) /\ Len(stack') = 0
        BY <3>2
      <4>2. t \notin Range(stack')
        <5>1. 1 .. Len(stack') = {}
          BY <4>1
        <5> QED
          BY <4>1, <5>1, InRange
      <4>3. Verified(t, locked)
        BY <2>2, <3>1
      <4> QED
        BY <4>2, <4>3
    <3>3. CASE t = stack[Len(stack)] /\ stack' = SubSeq(stack, 1, Len(stack) - 1) /\ Verified(t, locked)
      <4>1. /\ stack' \in Seq(Series) /\ Len(stack') = Len(stack) - 1
            /\ \A i \in 1 .. Len(stack) - 1 : stack'[i] = stack[i]
        BY <2>0, <3>3, Popped
      <4>2. ASSUME NEW i \in 1 .. Len(stack'), stack'[i] = t PROVE FALSE
        <5>1. Len(stack) \in Nat \ {0}
          BY <2>0, EmptySeq
        <5>2. i \in 1 .. Len(stack) /\ i # Len(stack) /\ Len(stack) \in 1 .. Len(stack)
          BY <4>1, <5>1
        <5>3. stack[i] = stack[Len(stack)]
          BY <4>1, <4>2, <3>3
        <5> QED
          BY <5>2, <5>3 DEF Distinct
      <4> QED
        BY <3>3, <4>1, <4>2, InRange
    <3> QED
      BY <2>2, <3>1, <3>2, <3>3
  <2>5. \A f \in Files : Snap(t)[f] # Absent => project'[f] = Snap(t)[f]
    BY <2>2, <2>4, RestoredAll
  <2> QED
    BY <2>3, <2>4, <2>5
<1> QED
  BY <1>1, UndoInductive, PTL DEF Spec, HistoryKeptUntilRestored

=============================================================================
