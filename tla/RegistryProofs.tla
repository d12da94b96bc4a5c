--------------------------- MODULE RegistryProofs ---------------------------
(***************************************************************************)
(* The memory registry keeps what he said.  Every property of Registry is  *)
(* proved for all slots, values and bounds, under the faults its own       *)
(* hypothesis allows.  The rows the store stands for are those in the file *)
(* or, while remember() has the file open for writing, the ones it holds.  *)
(* Then the door to it, for packaging of any depth, and the entry test of  *)
(* an axis, for every map of it.                                           *)
(***************************************************************************)
EXTENDS Registry, Admission, Invariance, SequenceTheorems, FiniteSetTheorems, TLAPS

Hand == {"he", "she", "reflection"}
Row == [name : Nat, text : Fact, speaker : {"user", "self"},
        status : {"observed", "inferred"}, by : Nat, npos : BOOLEAN, mentions : Nat]
Writing == [pc : {"append", "open", "retire"}, hand : Hand, rows : Seq(Row),
            out : SUBSET Nat, line : Row]
Minting == [pc : {"save"}, name : Nat, rows : Seq(Row)]

\* The store as it is seen from outside a write.
Held == IF job.pc = "retire" THEN job.rows ELSE file

\* Each variable has its type in every state of a run, whatever the faults.
RegistryTypeOK ==
    /\ file \in Seq(Row) /\ job \in {NoJob} \cup Writing /\ mint \in {NoMint} \cup Minting
    /\ todo \in SUBSET Nat /\ born \in Nat /\ told \in [Attr -> Fact \cup {NoFact}]
    /\ kept \in SUBSET Nat /\ quarantine \in SUBSET Nat

-----------------------------------------------------------------------------
(* The parts of the inductive invariant.                                   *)

\* Rows bear names that were given out, and a mint only of their own.
Known(rows) == \A i \in DOMAIN rows :
    rows[i].name \in 1..born /\ (rows[i].npos => rows[i].name \notin todo)

\* A line is written as remember() made it: of a hand's kind, live and not minted.
LineMade ==
    /\ job.line.name \in 1..born /\ ~job.line.npos /\ Live(job.line)
    /\ job.line.speaker = Speaker(job.hand) /\ job.line.status = Status(job.hand)

NamesKnown ==
    /\ born <= MaxRows /\ todo \subseteq 1..born
    /\ Known(file)
    /\ job # NoJob => Known(job.rows) /\ LineMade
    /\ mint # NoMint => Known(mint.rows) /\ mint.name \in 1..born /\ mint.name \notin todo

\* Without "overlap", remember() and the mint worker take turns, what the worker loaded
\* is what is on disk, and a file that is open for writing stays empty.
TakeTurns == "overlap" \notin rfaults =>
    /\ job # NoJob => mint = NoMint
    /\ mint # NoMint => mint.rows = file
    /\ job.pc = "retire" => file = <<>>

\* Two rows of one voice on one thing.
SameVoice(r, q) ==
    Live(r) /\ Live(q) /\ r.text.slot \in Attr /\ r.text.slot = q.text.slot
    /\ r.speaker = q.speaker /\ r.status = q.status

\* The line that comes will be the only one of its voice.
VoiceInv == rfaults \cap {"fold", "overlap"} = {} =>
    /\ \A i, j \in DOMAIN Held : SameVoice(Held[i], Held[j]) => i = j
    /\ job # NoJob => \A i \in DOMAIN Held :
          SameVoice(Held[i], job.line) => job.pc # "append" /\ Held[i].name \in job.out

\* What was promised is there, in the middle of a write too.
KeptInv == rfaults \cap {"crash", "overlap"} = {} => kept \subseteq Names(Held) \cup quarantine

\* A name belongs to one row.
UniqueInv == rfaults = {} =>
    /\ \A i, j \in DOMAIN Held : Held[i].name = Held[j].name => i = j
    /\ job # NoJob => job.line.name \notin Names(Held)

\* Row q took the place of row r.
Succeeds(q, r) == /\ q.name = r.by /\ q.text # r.text
                  /\ q.text.slot = r.text.slot /\ q.speaker = r.speaker

\* Every retired row has a successor in the store, or it is the line that comes; the
\* rows about to be retired are live and of the line's slot and lane.
TrailInv == rfaults = {} =>
    /\ \A i \in DOMAIN Held : Held[i].by \in 1..MaxRows =>
          \/ \E j \in DOMAIN Held : Succeeds(Held[j], Held[i])
          \/ job.pc = "append" /\ Succeeds(job.line, Held[i])
    /\ job # NoJob => \A i \in DOMAIN Held :
          job.pc # "append" /\ Held[i].name \in job.out =>
             /\ Live(Held[i]) /\ job.line.text # Held[i].text
             /\ job.line.text.slot = Held[i].text.slot /\ job.line.speaker = Held[i].speaker

\* Row r holds his word w on slot s.
Witness(r, s, w) == /\ Live(r) /\ r.speaker = "user" /\ r.status = "observed"
                    /\ r.text = w /\ r.text.slot = s

\* His word on a slot has a row that is not about to be retired, unless it is he who is
\* changing it.
ToldInv == rfaults = {} => \A s \in Attr : told[s] # NoFact =>
    \/ job # NoJob /\ job.hand = "he" /\ job.line.text.slot = s
    \/ \E i \in DOMAIN Held : /\ Witness(Held[i], s, told[s])
                              /\ job # NoJob /\ job.pc # "append" => Held[i].name \notin job.out

RegistryInv ==
    /\ RegistryTypeOK /\ NamesKnown /\ TakeTurns /\ VoiceInv /\ KeptInv
    /\ UniqueInv /\ TrailInv /\ ToldInv

-----------------------------------------------------------------------------
(* What the operators on rows return.                                      *)

(* Every non-empty set of positions has a first one. *)
LEMMA FirstIn ==
    ASSUME NEW S \in SUBSET Nat, S # {}
    PROVE  First(S) \in S /\ \A j \in S : First(S) <= j
<1> DEFINE R == OpToRel(<, Nat)
<1>1. \E x \in S : \A y \in S : <<y, x>> \notin R
  <2>1. IsWellFoundedOn(R, Nat)
    BY NatLessThanWellFounded
  <2> HIDE DEF R
  <2> QED
    BY <2>1, WFMin
<1>2. \A x, y \in S : <<y, x>> \notin R => x <= y
  BY DEF OpToRel
<1>3. \E x \in S : \A y \in S : x <= y
  BY <1>1, <1>2
<1> QED
  BY <1>3 DEF First

(* The rows after a change of some of their fields: as many as before, each with its *)
(* name, text, speaker and status. *)
Touched(rows, new) ==
    /\ new \in Seq(Row) /\ DOMAIN new = DOMAIN rows
    /\ \A i \in DOMAIN rows : /\ new[i].name = rows[i].name /\ new[i].text = rows[i].text
                              /\ new[i].speaker = rows[i].speaker
                              /\ new[i].status = rows[i].status

LEMMA RowFields ==
    ASSUME NEW rows \in Seq(Row), NEW i \in DOMAIN rows
    PROVE  rows[i] \in Row
  OBVIOUS

(* A function on the positions of some rows that gives rows is rows. *)
LEMMA Rewritten ==
    ASSUME NEW rows \in Seq(Row), NEW new, new = [i \in DOMAIN rows |-> new[i]],
           \A i \in DOMAIN rows : new[i] \in Row
    PROVE  new \in Seq(Row) /\ DOMAIN new = DOMAIN rows
<1>1. Len(rows) \in Nat /\ DOMAIN rows = 1..Len(rows)
  OBVIOUS
<1>2. new \in [1..Len(rows) -> Row]
  BY <1>1
<1> QED
  BY <1>1, <1>2, SeqDef

LEMMA ReinforcedRows ==
    ASSUME NEW rows \in Seq(Row), NEW i
    PROVE  LET new == Reinforced(rows, i) IN
           /\ Touched(rows, new)
           /\ \A k \in DOMAIN rows : new[k].by = rows[k].by /\ new[k].npos = rows[k].npos
<1> DEFINE new == Reinforced(rows, i)
<1>1. new = [k \in DOMAIN rows |-> new[k]]
  BY DEF Reinforced
<1>2. ASSUME NEW k \in DOMAIN rows
      PROVE  /\ new[k] \in Row /\ new[k].name = rows[k].name /\ new[k].text = rows[k].text
             /\ new[k].speaker = rows[k].speaker /\ new[k].status = rows[k].status
             /\ new[k].by = rows[k].by /\ new[k].npos = rows[k].npos
  <2>1. rows[k] \in Row
    BY RowFields
  <2>2. CASE k = i
    <3>1. new[k] = [rows[k] EXCEPT !.mentions = IF @ < MaxMentions THEN @ + 1 ELSE @]
      BY <2>2 DEF Reinforced
    <3>2. \E m \in Nat : new[k] = [rows[k] EXCEPT !.mentions = m]
      <4> rows[k].mentions \in Nat /\ rows[k].mentions + 1 \in Nat
        BY <2>1 DEF Row
      <4> QED
        BY <3>1
    <3> HIDE DEF new
    <3> QED
      BY <2>1, <3>2 DEF Row
  <2>3. CASE k # i
    BY <2>1, <2>3 DEF Reinforced
  <2> QED
    BY <2>2, <2>3
<1> QED
  BY <1>1, <1>2, Rewritten DEF Touched

LEMMA RetiredRows ==
    ASSUME NEW rows \in Seq(Row), NEW out, NEW name \in Nat
    PROVE  LET new == Retired(rows, out, name) IN
           /\ Touched(rows, new)
           /\ \A k \in DOMAIN rows : /\ new[k].npos = rows[k].npos
                                     /\ new[k].by = IF rows[k].name \in out THEN name ELSE rows[k].by
<1> DEFINE new == Retired(rows, out, name)
<1>1. new = [k \in DOMAIN rows |-> new[k]]
  BY DEF Retired
<1>2. ASSUME NEW k \in DOMAIN rows
      PROVE  /\ new[k] \in Row /\ new[k].name = rows[k].name /\ new[k].text = rows[k].text
             /\ new[k].speaker = rows[k].speaker /\ new[k].status = rows[k].status
             /\ new[k].npos = rows[k].npos
             /\ new[k].by = IF rows[k].name \in out THEN name ELSE rows[k].by
  <2>1. rows[k] \in Row
    BY RowFields
  <2>2. new[k] = IF rows[k].name \in out THEN [rows[k] EXCEPT !.by = name] ELSE rows[k]
    BY DEF Retired
  <2> QED
    BY <2>1, <2>2 DEF Row
<1> QED
  BY <1>1, <1>2, Rewritten DEF Touched

LEMMA TombstonedRows ==
    ASSUME NEW rows \in Seq(Row), NEW i \in DOMAIN rows
    PROVE  LET new == Tombstoned(rows, i) IN
           /\ Touched(rows, new)
           /\ \A k \in DOMAIN rows : /\ new[k].npos = rows[k].npos
                                     /\ new[k].by = IF k = i THEN Forgotten ELSE rows[k].by
<1> DEFINE new == Tombstoned(rows, i)
<1>1. new = [k \in DOMAIN rows |-> new[k]]
  BY DEF Tombstoned
<1>2. ASSUME NEW k \in DOMAIN rows
      PROVE  /\ new[k] \in Row /\ new[k].name = rows[k].name /\ new[k].text = rows[k].text
             /\ new[k].speaker = rows[k].speaker /\ new[k].status = rows[k].status
             /\ new[k].npos = rows[k].npos
             /\ new[k].by = IF k = i THEN Forgotten ELSE rows[k].by
  <2>1. rows[k] \in Row /\ Forgotten \in Nat
    BY RowFields, RegistryShape DEF Forgotten
  <2>2. new[k] = IF k = i THEN [rows[k] EXCEPT !.by = Forgotten] ELSE rows[k]
    BY DEF Tombstoned
  <2> QED
    BY <2>1, <2>2 DEF Row
<1> QED
  BY <1>1, <1>2, Rewritten DEF Touched

LEMMA MintedRows ==
    ASSUME NEW rows \in Seq(Row), NEW n
    PROVE  LET new == Minted(rows, n) IN
           /\ Touched(rows, new)
           /\ \A k \in DOMAIN rows : /\ new[k].by = rows[k].by
                                     /\ new[k].npos => rows[k].npos \/ rows[k].name = n
<1> DEFINE new == Minted(rows, n)
<1>1. new = [k \in DOMAIN rows |-> new[k]]
  BY DEF Minted
<1>2. ASSUME NEW k \in DOMAIN rows
      PROVE  /\ new[k] \in Row /\ new[k].name = rows[k].name /\ new[k].text = rows[k].text
             /\ new[k].speaker = rows[k].speaker /\ new[k].status = rows[k].status
             /\ new[k].by = rows[k].by
             /\ new[k].npos => rows[k].npos \/ rows[k].name = n
  <2>1. rows[k] \in Row
    BY RowFields
  <2>2. new[k] = IF rows[k].name = n THEN [rows[k] EXCEPT !.npos = TRUE] ELSE rows[k]
    BY DEF Minted
  <2> QED
    BY <2>1, <2>2 DEF Row
<1> QED
  BY <1>1, <1>2, Rewritten DEF Touched

LEMMA FoldedRows ==
    ASSUME NEW rows \in Seq(Row)
    PROVE  LET new == Folded(rows) IN
           Touched(rows, new) /\ \A k \in DOMAIN rows : new[k].npos = rows[k].npos
<1> DEFINE new == Folded(rows)
<1>1. new = [k \in DOMAIN rows |-> new[k]]
  BY DEF Folded
<1>2. ASSUME NEW k \in DOMAIN rows
      PROVE  /\ new[k] \in Row /\ new[k].name = rows[k].name /\ new[k].text = rows[k].text
             /\ new[k].speaker = rows[k].speaker /\ new[k].status = rows[k].status
             /\ new[k].npos = rows[k].npos
  <2>1. rows[k] \in Row /\ Len(rows) \in Nat /\ DOMAIN rows = 1..Len(rows)
    BY RowFields
  <2>2. Doubles(rows, k) \subseteq DOMAIN rows /\ Outbids(rows, k) \subseteq DOMAIN rows
    BY <2>1 DEF Doubles, Outbids
  <2>3. Doubles(rows, k) # {} => rows[First(Doubles(rows, k))].name \in Nat
    <3>1. SUFFICES ASSUME Doubles(rows, k) # {} PROVE First(Doubles(rows, k)) \in DOMAIN rows
      BY RowFields DEF Row
    <3> QED
      BY <2>1, <2>2, <3>1, FirstIn
  <2>4. Outbids(rows, k) # {} => rows[First(Outbids(rows, k))].name \in Nat
    <3>1. SUFFICES ASSUME Outbids(rows, k) # {} PROVE First(Outbids(rows, k)) \in DOMAIN rows
      BY RowFields DEF Row
    <3> QED
      BY <2>1, <2>2, <3>1, FirstIn
  <2>5. \/ \E m \in Nat : new[k] = [rows[k] EXCEPT !.by = m]
        \/ new[k] = rows[k]
    BY <2>3, <2>4 DEF Folded
  <2> QED
    BY <2>1, <2>5 DEF Row
<1> QED
  BY <1>1, <1>2, Rewritten DEF Touched

(* Some of the rows, each once and unchanged. *)
Picked(rows, new) ==
    /\ new \in Seq(Row)
    /\ \E g \in [DOMAIN new -> DOMAIN rows] :
          /\ \A k \in DOMAIN new : new[k] = rows[g[k]]
          /\ \A k, l \in DOMAIN new : g[k] = g[l] => k = l

LEMMA RemovedRows ==
    ASSUME NEW rows \in Seq(Row), NEW i \in DOMAIN rows
    PROVE  /\ Picked(rows, RemoveAt(rows, i))
           /\ Names(rows) \subseteq Names(RemoveAt(rows, i)) \cup {rows[i].name}
<1> DEFINE new == RemoveAt(rows, i)
           n == Len(rows)
           g == [k \in 1..(n - 1) |-> IF k < i THEN k ELSE k + 1]
<1>1. n \in Nat /\ DOMAIN rows = 1..n /\ i \in 1..n
  OBVIOUS
<1>2. new \in Seq(Row) /\ Len(new) = n - 1 /\ \A k \in 1..(n - 1) : new[k] = rows[g[k]]
  <2> DEFINE a == SubSeq(rows, 1, i - 1)
             b == SubSeq(rows, i + 1, n)
  <2>1. a \in Seq(Row) /\ Len(a) = i - 1 /\ \A k \in 1..(i - 1) : a[k] = rows[k]
    BY <1>1, RowFields, SubSeqProperties
  <2>2. b \in Seq(Row) /\ Len(b) = n - i /\ \A k \in 1..(n - i) : b[k] = rows[k + i]
    BY <1>1, RowFields, SubSeqProperties
  <2>3. new = a \o b
    BY DEF RemoveAt
  <2> HIDE DEF a, b, new
  <2>4. /\ a \o b \in Seq(Row) /\ Len(a \o b) = Len(a) + Len(b)
        /\ \A k \in 1..(Len(a) + Len(b)) :
              (a \o b)[k] = IF k <= Len(a) THEN a[k] ELSE b[k - Len(a)]
    BY <2>1, <2>2, ConcatProperties
  <2>5. new \in Seq(Row) /\ Len(new) = n - 1
    BY <1>1, <2>1, <2>2, <2>3, <2>4
  <2>6. ASSUME NEW k \in 1..(n - 1)
        PROVE  new[k] = rows[g[k]]
    <3>1. new[k] = IF k <= i - 1 THEN a[k] ELSE b[k - (i - 1)]
      <4>1. Len(a) + Len(b) = n - 1 /\ Len(a) = i - 1
        BY <1>1, <2>1, <2>2
      <4>2. new[k] = IF k <= Len(a) THEN a[k] ELSE b[k - Len(a)]
        BY <2>3, <2>4, <4>1
      <4> QED
        BY <4>1, <4>2
    <3>2. CASE k < i
      <4>1. k \in 1..(i - 1) /\ g[k] = k
        BY <1>1, <3>2
      <4> QED
        BY <1>1, <2>1, <3>1, <4>1
    <3>3. CASE ~(k < i)
      <4>1. k - (i - 1) \in 1..(n - i) /\ g[k] = k + 1 /\ (k - (i - 1)) + i = k + 1
        BY <1>1, <3>3
      <4> QED
        BY <1>1, <2>2, <3>1, <3>3, <4>1
    <3> QED
      BY <3>2, <3>3
  <2> QED
    BY <2>5, <2>6
<1>3. DOMAIN new = 1..(n - 1)
  BY <1>2
<1>4. g \in [1..(n - 1) -> DOMAIN rows] /\ \A k, l \in 1..(n - 1) : g[k] = g[l] => k = l
  BY <1>1
<1>5. Picked(rows, new)
  <2> HIDE DEF g, new
  <2> QED
    BY <1>2, <1>3, <1>4 DEF Picked
<1>6. ASSUME NEW k \in DOMAIN rows, k # i
      PROVE  \E l \in DOMAIN new : new[l] = rows[k]
  <2>1. CASE k < i
    <3>1. k \in 1..(n - 1) /\ g[k] = k
      BY <1>1, <2>1
    <3> QED
      BY <1>2, <1>3, <3>1
  <2>2. CASE k > i
    <3>1. k - 1 \in 1..(n - 1) /\ g[k - 1] = k
      BY <1>1, <2>2
    <3> QED
      BY <1>2, <1>3, <3>1
  <2> QED
    BY <1>1, <1>6, <2>1, <2>2
<1>7. Names(rows) \subseteq Names(new) \cup {rows[i].name}
  <2> HIDE DEF new
  <2> QED
    BY <1>6 DEF Names
<1> QED
  BY <1>5, <1>7

(* The k-th of the rows that stay is there for every k up to their number. *)
LEMMA CompactedRows ==
    ASSUME NEW rows \in Seq(Row)
    PROVE  Picked(rows, Compacted(rows))
<1> DEFINE F == Firsts(rows)
           upto(i) == {j \in F : j <= i}
           rank == [i \in F |-> Cardinality(upto(i))]
           n == Cardinality(F)
           g == [k \in 1..n |-> CHOOSE i \in F : Cardinality(upto(i)) = k]
<1>1. Len(rows) \in Nat /\ DOMAIN rows = 1..Len(rows) /\ F \subseteq DOMAIN rows /\ F \subseteq Nat
  BY DEF Firsts
<1> HIDE DEF F
<1>2. IsFiniteSet(F)
  <2>1. IsFiniteSet(DOMAIN rows)
    BY <1>1, FS_Interval
  <2> QED
    BY <1>1, <2>1, FS_Subset
<1>3. n \in Nat
  BY <1>2, FS_CardinalityType
<1>4. ASSUME NEW i \in F
      PROVE  IsFiniteSet(upto(i)) /\ Cardinality(upto(i)) \in 1..n
  <2>1. upto(i) \subseteq F /\ i \in upto(i)
    BY <1>1
  <2>2. IsFiniteSet(upto(i)) /\ Cardinality(upto(i)) <= n
    BY <1>2, <2>1, FS_Subset
  <2>3. Cardinality(upto(i)) \in Nat /\ Cardinality(upto(i)) # 0
    BY <2>1, <2>2, FS_CardinalityType, FS_EmptySet
  <2> QED
    BY <1>3, <2>2, <2>3
<1>5. ASSUME NEW i \in F, NEW j \in F, i < j
      PROVE  Cardinality(upto(i)) # Cardinality(upto(j))
  <2>1. upto(i) \in SUBSET upto(j) /\ j \in upto(j) /\ j \notin upto(i)
    BY <1>1, <1>5
  <2> QED
    BY <1>4, <2>1, FS_Subset
<1>6. \A i, j \in F : rank[i] = rank[j] => i = j
  <2>1. \A i \in F : rank[i] = Cardinality(upto(i))
    OBVIOUS
  <2> HIDE DEF rank, upto
  <2>2. \A i, j \in F : rank[i] = rank[j] => ~(i < j) /\ ~(j < i)
    BY <1>5, <2>1
  <2> QED
    BY <1>1, <2>2
<1>7. rank \in Injection(F, 1..n)
  <2>1. rank \in [F -> 1..n]
    BY <1>4
  <2> HIDE DEF rank
  <2> QED
    BY <1>6, <2>1 DEF Injection, IsInjective
<1>8. rank \in Surjection(F, 1..n)
  <2>1. IsFiniteSet(1..n) /\ Cardinality(1..n) = n
    BY <1>3, FS_Interval
  <2> QED
    BY <1>7, <2>1, FS_Injection
<1>9. \A k \in 1..n : \E i \in F : rank[i] = k
  BY <1>8 DEF Surjection
<1>10. \A k \in 1..n : g[k] \in F /\ rank[g[k]] = k
  BY <1>9
<1>11. Compacted(rows) = [k \in 1..n |-> rows[g[k]]]
  BY DEF Compacted, F
<1> HIDE DEF g, n, rank
<1>12. \A k \in 1..n : rows[g[k]] \in Row
  BY <1>1, <1>10, RowFields
<1>13. Compacted(rows) \in Seq(Row) /\ DOMAIN Compacted(rows) = 1..n
  BY <1>3, <1>11, <1>12, SeqDef
<1>14. g \in [1..n -> DOMAIN rows]
  BY <1>1, <1>10 DEF g
<1>15. \A k, l \in 1..n : g[k] = g[l] => k = l
  BY <1>10
<1>16. \A k \in 1..n : Compacted(rows)[k] = rows[g[k]]
  BY <1>11
<1> HIDE DEF F
<1> QED
  BY <1>13, <1>14, <1>15, <1>16 DEF Picked

-----------------------------------------------------------------------------
(* Reading the variables.                                                  *)

LEMMA JobCases ==
    ASSUME RegistryTypeOK
    PROVE  /\ job = NoJob <=> job.pc = "none"
           /\ job # NoJob => job \in Writing /\ job.pc \in {"append", "open", "retire"}
           /\ job.pc # "retire" => Held = file
           /\ job.pc = "retire" => Held = job.rows
           /\ Held \in Seq(Row)
  BY DEF RegistryTypeOK, Writing, NoJob, Held

LEMMA MintCases ==
    ASSUME RegistryTypeOK
    PROVE  /\ mint = NoMint <=> mint.pc = "none"
           /\ mint # NoMint => mint \in Minting /\ mint.pc = "save"
  BY DEF RegistryTypeOK, Minting, NoMint

LEMMA NoJobHeld ==
    ASSUME job' = NoJob
    PROVE  Held' = file' /\ job'.pc = "none"
  BY DEF Held, NoJob

(* What a row is made of. *)
LEMMA TouchedFields ==
    ASSUME NEW rows \in Seq(Row), NEW new, Touched(rows, new)
    PROVE  Names(new) = Names(rows)
  BY DEF Touched, Names

LEMMA PickedFields ==
    ASSUME NEW rows \in Seq(Row), NEW new, Picked(rows, new)
    PROVE  Names(new) \subseteq Names(rows)
  BY DEF Picked, Names

(* Rows that are a choice from known rows are known. *)
LEMMA PickedKnown ==
    ASSUME NEW rows \in Seq(Row), NEW new, Picked(rows, new), Known(rows)
    PROVE  Known(new)
  BY DEF Picked, Known

(* Known rows stay known while names are given out and captures leave the queue. *)
LEMMA KnownLater ==
    ASSUME RegistryTypeOK, NEW rows \in Seq(Row), Known(rows), born' \in Nat, born <= born',
           \A n \in todo' : n \in todo \/ n > born
    PROVE  Known(rows)'
<1> SUFFICES ASSUME NEW i \in DOMAIN rows
             PROVE  rows[i].name \in 1..born' /\ (rows[i].npos => rows[i].name \notin todo')
  BY DEF Known
<1>1. rows[i].name \in 1..born /\ (rows[i].npos => rows[i].name \notin todo)
  BY DEF Known
<1> QED
  BY <1>1 DEF RegistryTypeOK

LEMMA InitInv == RegistryInit => RegistryInv
<1> SUFFICES ASSUME RegistryInit PROVE RegistryInv
  OBVIOUS
<1> USE DEF RegistryInit
<1>1. Held = <<>> /\ DOMAIN Held = {} /\ <<>> \in Seq(Row)
  BY DEF Held, NoJob
<1>2. RegistryTypeOK
  BY <1>1 DEF RegistryTypeOK
<1>3. NamesKnown
  BY RegistryShape DEF NamesKnown, Known
<1>4. TakeTurns /\ VoiceInv /\ UniqueInv /\ KeptInv
  BY <1>1 DEF NoJob, TakeTurns, VoiceInv, UniqueInv, KeptInv
<1>5. TrailInv /\ ToldInv
  BY <1>1 DEF TrailInv, ToldInv
<1> QED
  BY <1>2, <1>3, <1>4, <1>5 DEF RegistryInv

(* While nothing is being written, a change that leaves names, texts, voices and         *)
(* successors as they were keeps everything that is not about types or what he said.     *)
LEMMA SameRows ==
    ASSUME RegistryInv, job = NoJob, job' = job, kept' = kept, quarantine' = quarantine,
           rfaults' = rfaults, Touched(file, file'), \A k \in DOMAIN file : file'[k].by = file[k].by
    PROVE  VoiceInv' /\ KeptInv' /\ UniqueInv' /\ TrailInv'
<1>1. Held = file /\ Held' = file' /\ job'.pc = "none" /\ DOMAIN file' = DOMAIN file
  BY JobCases, NoJobHeld DEF RegistryInv, Touched
<1>2. Names(file') = Names(file)
  BY TouchedFields DEF RegistryInv, RegistryTypeOK
<1>3. \A k \in DOMAIN file : /\ file'[k].name = file[k].name /\ file'[k].text = file[k].text
                             /\ file'[k].speaker = file[k].speaker
                             /\ file'[k].status = file[k].status /\ file'[k].by = file[k].by
  BY DEF Touched
<1>4. VoiceInv'
  BY <1>1, <1>3 DEF RegistryInv, VoiceInv, SameVoice, Live
<1>5. KeptInv'
  BY <1>1, <1>2 DEF RegistryInv, KeptInv
<1>6. UniqueInv'
  BY <1>1, <1>3 DEF RegistryInv, UniqueInv
<1>7. TrailInv'
  BY <1>1, <1>3 DEF RegistryInv, TrailInv, Succeeds, NoJob
<1> QED
  BY <1>4, <1>5, <1>6, <1>7

-----------------------------------------------------------------------------
(* The steps, one by one.                                                  *)

(* remember() of what a live row already says. *)
LEMMA RepeatStep ==
    ASSUME RegistryInv, NEW f \in Fact, NEW hand \in Hand, Remember(f, hand),
           Repeats(f, file) # {}
    PROVE  RegistryInv'
<1>1. /\ job = NoJob /\ file' = Reinforced(file, First(Repeats(f, file))) /\ Heard(f, hand)
      /\ UNCHANGED <<job, todo, born, kept, mint, quarantine, rfaults>>
      /\ mint.pc # "none" => "overlap" \in rfaults
      /\ Echoes(f, hand) => "echo" \in rfaults
  BY DEF Remember
<1>2. RegistryTypeOK
  BY DEF RegistryInv
<1>3. file \in Seq(Row)
  BY <1>2 DEF RegistryTypeOK
<1>4. /\ Touched(file, file')
      /\ \A k \in DOMAIN file : file'[k].by = file[k].by /\ file'[k].npos = file[k].npos
  BY <1>1, <1>3, ReinforcedRows
<1>5. VoiceInv' /\ KeptInv' /\ UniqueInv' /\ TrailInv'
  BY <1>1, <1>4, SameRows
<1>6. f.slot # NoSlot => f.slot \in Attr /\ f # NoFact
  BY DEF Fact, NoFact
<1>7. told' \in [Attr -> Fact \cup {NoFact}]
  BY <1>1, <1>2, <1>6 DEF Heard, RegistryTypeOK
<1>8. RegistryTypeOK'
  BY <1>1, <1>2, <1>4, <1>7 DEF RegistryTypeOK, Touched
<1>9. NamesKnown'
  <2>1. Known(file)'
    BY <1>1, <1>4 DEF RegistryInv, NamesKnown, Known, Touched
  <2> QED
    BY <1>1, <2>1 DEF RegistryInv, NamesKnown, Known, LineMade
<1>10. TakeTurns'
  BY <1>1, <1>2, MintCases, NoJobHeld DEF RegistryInv, TakeTurns
<1>11. ToldInv'
  <2>1. SUFFICES ASSUME rfaults = {}, NEW s \in Attr, told'[s] # NoFact
                 PROVE  \E i \in DOMAIN file' : Witness(file'[i], s, told'[s])
    BY <1>1, NoJobHeld DEF ToldInv
  <2>2. CASE told'[s] = told[s]
    <3>1. PICK i \in DOMAIN file : Witness(file[i], s, told[s])
      BY <1>1, <1>2, <2>1, <2>2, JobCases DEF RegistryInv, ToldInv
    <3> QED
      BY <1>4, <2>2, <3>1 DEF Witness, Touched, Live
  <2>3. CASE told'[s] # told[s]
    <3>1. hand = "he" /\ f.slot = s /\ told'[s] = f
      BY <1>1, <1>2, <2>3 DEF Heard, RegistryTypeOK
    <3>2. PICK i \in Repeats(f, file) : TRUE
      OBVIOUS
    <3>3. i \in DOMAIN file /\ Live(file[i]) /\ file[i].text = f
      BY <3>2 DEF Repeats
    <3>4. file[i].speaker = "user" /\ file[i].status = "observed"
      BY <1>1, <2>1, <3>1, <3>2 DEF Echoes, Speaker, Status
    <3> QED
      BY <1>4, <3>1, <3>3, <3>4 DEF Witness, Touched, Live
  <2> QED
    BY <2>2, <2>3
<1> QED
  BY <1>5, <1>8, <1>9, <1>10, <1>11 DEF RegistryInv

(* remember() of something new, up to its first write. *)
LEMMA NewStep ==
    ASSUME RegistryInv, NEW f \in Fact, NEW hand \in Hand, Remember(f, hand),
           Repeats(f, file) = {}
    PROVE  RegistryInv'
<1> DEFINE line == [name |-> born + 1, text |-> f, speaker |-> Speaker(hand),
                    status |-> Status(hand), by |-> Alive, npos |-> FALSE, mentions |-> 1]
           out == {file[i].name : i \in Superseded(f, hand, file)}
           pc == IF Superseded(f, hand, file) = {} THEN "append" ELSE "open"
<1>1. /\ job = NoJob /\ born < MaxRows /\ born' = born + 1 /\ todo' = todo \cup {born + 1}
      /\ job' = [pc |-> pc, hand |-> hand, rows |-> file, out |-> out, line |-> line]
      /\ UNCHANGED <<file, told, kept, mint, quarantine, rfaults>>
      /\ mint.pc # "none" => "overlap" \in rfaults
  BY DEF Remember
<1>2. RegistryTypeOK
  BY DEF RegistryInv
<1>3. file \in Seq(Row) /\ born \in Nat /\ born + 1 \in Nat
  BY <1>2 DEF RegistryTypeOK
<1>4. Superseded(f, hand, file) \subseteq DOMAIN file /\ out \subseteq Nat
  BY <1>3, RowFields DEF Superseded, Row
<1>5. line \in Row
  BY <1>3 DEF Row, Speaker, Status, Alive
<1>6. /\ job'.pc = pc /\ job'.hand = hand /\ job'.rows = file /\ job'.out = out
      /\ job'.line = line /\ pc \in {"append", "open"} /\ job' \in Writing /\ job' # NoJob
  <2>1. /\ job'.pc = pc /\ job'.hand = hand /\ job'.rows = file /\ job'.out = out
        /\ job'.line = line /\ pc \in {"append", "open"}
    BY <1>1
  <2>2. job' \in Writing
    <3> HIDE DEF pc, out, line
    <3> QED
      BY <1>1, <1>3, <1>4, <1>5, <2>1 DEF Writing
  <2>3. job' # NoJob
    BY <2>1 DEF NoJob
  <2> QED
    BY <2>1, <2>2, <2>3
<1>7. line.name = born + 1 /\ line.text = f /\ line.speaker = Speaker(hand)
      /\ line.status = Status(hand) /\ line.by = Alive /\ line.npos = FALSE
  OBVIOUS
<1> HIDE DEF line, out, pc
<1>8. Held = file /\ Held' = file
  BY <1>1, <1>2, <1>6, JobCases DEF Held
<1>9. RegistryTypeOK'
  BY <1>1, <1>2, <1>3, <1>6 DEF RegistryTypeOK
<1>10. NamesKnown'
  <2>1. Known(file)' /\ Known(file)
    <3>1. Known(file)
      BY DEF RegistryInv, NamesKnown
    <3>2. \A i \in DOMAIN file : file[i].name \in 1..born
      BY <3>1 DEF Known
    <3> QED
      BY <1>1, <1>3, <3>1, <3>2 DEF Known
  <2>2. LineMade'
    BY <1>3, <1>6, <1>7, <1>1 DEF LineMade, Live
  <2>3. born' <= MaxRows /\ todo' \subseteq 1..born'
    BY <1>1, <1>3, RegistryShape DEF RegistryInv, NamesKnown
  <2>4. ASSUME mint # NoMint
        PROVE  Known(mint.rows)' /\ mint'.name \in 1..born' /\ mint'.name \notin todo'
    <3>1. mint' = mint /\ mint.rows \in Seq(Row) /\ Known(mint.rows)
          /\ mint.name \in 1..born /\ mint.name \notin todo
      BY <1>1, <1>2, <2>4, MintCases DEF RegistryInv, NamesKnown, Minting
    <3>2. \A i \in DOMAIN mint.rows : mint.rows[i].name \in 1..born
      BY <3>1 DEF Known
    <3> QED
      BY <1>1, <1>3, <3>1, <3>2 DEF Known
  <2>5. Known(job.rows)'
    BY <1>1, <1>6, <2>1 DEF Known
  <2> QED
    BY <1>1, <2>1, <2>2, <2>3, <2>4, <2>5 DEF NamesKnown
<1>11. TakeTurns'
  BY <1>1, <1>2, <1>6, MintCases DEF TakeTurns
<1>12. VoiceInv'
  <2>1. SUFFICES ASSUME rfaults \cap {"fold", "overlap"} = {}
                 PROVE  /\ \A i, j \in DOMAIN file : SameVoice(file[i], file[j]) => i = j
                        /\ \A i \in DOMAIN file : SameVoice(file[i], line) =>
                              pc # "append" /\ file[i].name \in out
    BY <1>1, <1>6, <1>8 DEF VoiceInv, SameVoice
  <2>2. \A i, j \in DOMAIN file : SameVoice(file[i], file[j]) => i = j
    BY <1>8, <2>1 DEF RegistryInv, VoiceInv
  <2>3. ASSUME NEW i \in DOMAIN file, SameVoice(file[i], line)
        PROVE  i \in Superseded(f, hand, file)
    <3>1. Live(file[i]) /\ file[i].text # f
      BY <2>3 DEF SameVoice, Repeats
    <3>2. f.slot # NoSlot
      BY <1>7, <2>3, RegistryShape DEF SameVoice
    <3>3. file[i].speaker = Speaker(hand) /\ file[i].text.slot = f.slot
          /\ file[i].status = Status(hand)
      BY <1>7, <2>3 DEF SameVoice
    <3>4. MaySupersede(Status(hand), file[i].status)
      BY <3>3 DEF MaySupersede, Status
    <3> QED
      BY <3>1, <3>2, <3>3, <3>4 DEF Superseded
  <2> QED
    BY <2>2, <2>3 DEF pc, out
<1>13. KeptInv'
  BY <1>1, <1>8 DEF RegistryInv, KeptInv
<1>14. UniqueInv'
  <2>1. born + 1 \notin Names(file)
    BY <1>3 DEF RegistryInv, NamesKnown, Known, Names
  <2> QED
    BY <1>1, <1>6, <1>7, <1>8, <2>1 DEF RegistryInv, UniqueInv
<1>15. ASSUME rfaults = {}, NEW i \in DOMAIN file, file[i].name \in out
       PROVE  i \in Superseded(f, hand, file)
  <2>1. PICK k \in Superseded(f, hand, file) : file[i].name = file[k].name
    BY <1>15 DEF out
  <2> QED
    BY <1>4, <1>8, <1>15, <2>1 DEF RegistryInv, UniqueInv
<1>16. TrailInv'
  <2>1. ASSUME rfaults = {}, NEW i \in DOMAIN file, file[i].name \in out
        PROVE  /\ Live(file[i]) /\ line.text # file[i].text
               /\ line.text.slot = file[i].text.slot /\ line.speaker = file[i].speaker
    BY <1>7, <1>15, <2>1 DEF Superseded
  <2>2. ASSUME rfaults = {}, NEW i \in DOMAIN file, file[i].by \in 1..MaxRows
        PROVE  \E j \in DOMAIN file : Succeeds(file[j], file[i])
    BY <1>1, <1>2, <1>8, <2>2, JobCases DEF RegistryInv, TrailInv, NoJob
  <2> QED
    BY <1>1, <1>6, <1>8, <2>1, <2>2 DEF TrailInv
<1>17. ToldInv'
  <2>1. SUFFICES ASSUME rfaults = {}, NEW s \in Attr, told[s] # NoFact,
                        ~(hand = "he" /\ f.slot = s)
                 PROVE  \E i \in DOMAIN file : Witness(file[i], s, told[s]) /\ file[i].name \notin out
    BY <1>1, <1>6, <1>7, <1>8 DEF ToldInv, Witness
  <2>2. PICK i \in DOMAIN file : Witness(file[i], s, told[s])
    BY <1>1, <1>8, <2>1 DEF RegistryInv, ToldInv
  <2>3. ASSUME i \in Superseded(f, hand, file)
        PROVE  FALSE
    <3>1. /\ file[i].speaker = Speaker(hand) /\ file[i].text.slot = f.slot
          /\ MaySupersede(Status(hand), file[i].status)
      BY <2>3 DEF Superseded
    <3>2. file[i].speaker = "user" /\ file[i].status = "observed" /\ file[i].text.slot = s
      BY <2>2 DEF Witness
    <3> QED
      BY <2>1, <3>1, <3>2 DEF MaySupersede, Speaker, Status, Hand
  <2> QED
    BY <1>15, <2>1, <2>2, <2>3
<1> QED
  BY <1>9, <1>10, <1>11, <1>12, <1>13, <1>14, <1>16, <1>17 DEF RegistryInv

(* The file is opened for writing: the rows are in remember()'s hands. *)
LEMMA OpenStep ==
    ASSUME RegistryInv, OpenForWrite
    PROVE  RegistryInv'
<1>1. /\ job.pc = "open" /\ job' = [job EXCEPT !.pc = "retire", !.rows = file] /\ file' = <<>>
      /\ UNCHANGED <<mint, todo, born, told, kept, quarantine, rfaults>>
  BY DEF OpenForWrite
<1>2. RegistryTypeOK
  BY DEF RegistryInv
<1>3. job \in Writing /\ job # NoJob /\ Held = file /\ file \in Seq(Row)
  BY <1>1, <1>2, JobCases DEF RegistryTypeOK
<1>4. /\ job'.pc = "retire" /\ job'.rows = file /\ job'.out = job.out /\ job'.line = job.line
      /\ job'.hand = job.hand /\ job' \in Writing
  BY <1>1, <1>3 DEF Writing
<1>5. job' # NoJob /\ Held' = Held
  BY <1>3, <1>4 DEF NoJob, Held
<1>6. RegistryTypeOK'
  BY <1>1, <1>2, <1>4 DEF RegistryTypeOK
<1>7. NamesKnown'
  <2>1. Known(file)' /\ Known(job.rows)'
    BY <1>1, <1>4 DEF RegistryInv, NamesKnown, Known
  <2>2. LineMade'
    BY <1>1, <1>3, <1>4 DEF RegistryInv, NamesKnown, LineMade
  <2>3. mint' # NoMint => Known(mint.rows)' /\ mint'.name \in 1..born' /\ mint'.name \notin todo'
    BY <1>1 DEF RegistryInv, NamesKnown, Known
  <2> QED
    BY <1>1, <2>1, <2>2, <2>3 DEF RegistryInv, NamesKnown
<1>8. TakeTurns'
  BY <1>1, <1>3 DEF RegistryInv, TakeTurns
<1>9. VoiceInv'
  BY <1>1, <1>3, <1>4, <1>5 DEF RegistryInv, VoiceInv
<1>10. KeptInv' /\ UniqueInv'
  BY <1>1, <1>3, <1>4, <1>5 DEF RegistryInv, KeptInv, UniqueInv
<1>11. TrailInv'
  BY <1>1, <1>3, <1>4, <1>5 DEF RegistryInv, TrailInv
<1>12. ToldInv'
  BY <1>1, <1>3, <1>4, <1>5 DEF RegistryInv, ToldInv
<1> QED
  BY <1>6, <1>7, <1>8, <1>9, <1>10, <1>11, <1>12 DEF RegistryInv

(* The rows go back, the ones the fact replaces retired against it. *)
LEMMA RetireStep ==
    ASSUME RegistryInv, Retire
    PROVE  RegistryInv'
<1>1. /\ job.pc = "retire" /\ file' = Retired(job.rows, job.out, job.line.name)
      /\ job' = [job EXCEPT !.pc = "append"]
      /\ UNCHANGED <<mint, todo, born, told, kept, quarantine, rfaults>>
  BY DEF Retire
<1>2. RegistryTypeOK
  BY DEF RegistryInv
<1>3. job \in Writing /\ job # NoJob /\ Held = job.rows /\ Held \in Seq(Row)
  BY <1>1, <1>2, JobCases
<1>4. /\ job'.pc = "append" /\ job'.rows = job.rows /\ job'.out = job.out
      /\ job'.line = job.line /\ job'.hand = job.hand /\ job' \in Writing
  BY <1>1, <1>3 DEF Writing
<1>5. job' # NoJob /\ Held' = file'
  BY <1>4 DEF NoJob, Held
<1>6. job.line.name \in Nat /\ job.line.name \in 1..born /\ born <= MaxRows
      /\ job.line.name # Alive
  BY <1>2, <1>3 DEF RegistryInv, NamesKnown, LineMade, RegistryTypeOK, Alive
<1>7. /\ Touched(Held, file')
      /\ \A k \in DOMAIN Held :
            /\ file'[k].npos = Held[k].npos
            /\ file'[k].by = IF Held[k].name \in job.out THEN job.line.name ELSE Held[k].by
  BY <1>1, <1>3, <1>6, RetiredRows
<1>8. DOMAIN file' = DOMAIN Held /\ file' \in Seq(Row)
  BY <1>7 DEF Touched
<1>9. \A k \in DOMAIN Held : /\ file'[k].name = Held[k].name /\ file'[k].text = Held[k].text
                             /\ file'[k].speaker = Held[k].speaker
                             /\ file'[k].status = Held[k].status
  BY <1>7 DEF Touched
<1>10. \A k \in DOMAIN Held : Live(file'[k]) <=> Live(Held[k]) /\ Held[k].name \notin job.out
  <2> SUFFICES ASSUME NEW k \in DOMAIN Held
               PROVE  Live(file'[k]) <=> Live(Held[k]) /\ Held[k].name \notin job.out
    OBVIOUS
  <2> QED
    BY <1>6, <1>7 DEF Live
<1>11. RegistryTypeOK'
  BY <1>1, <1>2, <1>4, <1>8 DEF RegistryTypeOK
<1>12. NamesKnown'
  <2>1. Known(file)'
    BY <1>1, <1>3, <1>7, <1>8, <1>9 DEF RegistryInv, NamesKnown, Known
  <2>2. LineMade' /\ Known(job.rows)'
    BY <1>1, <1>3, <1>4 DEF RegistryInv, NamesKnown, LineMade, Known
  <2>3. mint' # NoMint => Known(mint.rows)' /\ mint'.name \in 1..born' /\ mint'.name \notin todo'
    BY <1>1 DEF RegistryInv, NamesKnown, Known
  <2> QED
    BY <1>1, <2>1, <2>2, <2>3 DEF RegistryInv, NamesKnown
<1>13. TakeTurns'
  BY <1>1, <1>3, <1>4 DEF RegistryInv, TakeTurns
<1>14. VoiceInv'
  <2>1. SUFFICES ASSUME rfaults \cap {"fold", "overlap"} = {}
                 PROVE  /\ \A i, j \in DOMAIN Held : SameVoice(file'[i], file'[j]) => i = j
                        /\ \A i \in DOMAIN Held : ~SameVoice(file'[i], job.line)
    BY <1>1, <1>4, <1>5, <1>8 DEF VoiceInv
  <2>2. \A i, j \in DOMAIN Held : SameVoice(file'[i], file'[j]) => SameVoice(Held[i], Held[j])
    BY <1>9, <1>10 DEF SameVoice
  <2>3. \A i \in DOMAIN Held : SameVoice(file'[i], job.line) =>
           SameVoice(Held[i], job.line) /\ Held[i].name \notin job.out
    BY <1>9, <1>10 DEF SameVoice
  <2> QED
    BY <1>3, <2>1, <2>2, <2>3 DEF RegistryInv, VoiceInv
<1>15. Names(file') = Names(Held)
  BY <1>3, <1>7, TouchedFields
<1>16. KeptInv'
  BY <1>1, <1>5, <1>15 DEF RegistryInv, KeptInv
<1>17. UniqueInv'
  BY <1>1, <1>3, <1>4, <1>5, <1>8, <1>9, <1>15 DEF RegistryInv, UniqueInv
<1>18. TrailInv'
  <2>1. SUFFICES ASSUME rfaults = {}, NEW i \in DOMAIN Held, file'[i].by \in 1..MaxRows
                 PROVE  \/ \E j \in DOMAIN Held : Succeeds(file'[j], file'[i])
                        \/ Succeeds(job.line, file'[i])
    BY <1>1, <1>4, <1>5, <1>8 DEF TrailInv
  <2>2. CASE Held[i].name \in job.out
    <3>1. /\ job.line.text # Held[i].text /\ job.line.text.slot = Held[i].text.slot
          /\ job.line.speaker = Held[i].speaker
      BY <1>1, <1>3, <2>1, <2>2 DEF RegistryInv, TrailInv
    <3> QED
      BY <1>7, <1>9, <2>2, <3>1 DEF Succeeds
  <2>3. CASE Held[i].name \notin job.out
    <3>1. file'[i].by = Held[i].by
      BY <1>7, <2>3
    <3>2. PICK j \in DOMAIN Held : Succeeds(Held[j], Held[i])
      BY <1>1, <2>1, <3>1 DEF RegistryInv, TrailInv
    <3> QED
      BY <1>9, <3>1, <3>2 DEF Succeeds
  <2> QED
    BY <2>2, <2>3
<1>19. ToldInv'
  <2>1. SUFFICES ASSUME rfaults = {}, NEW s \in Attr, told[s] # NoFact,
                        ~(job.hand = "he" /\ job.line.text.slot = s)
                 PROVE  \E i \in DOMAIN Held : Witness(file'[i], s, told[s])
    BY <1>1, <1>4, <1>5, <1>8 DEF ToldInv
  <2>2. PICK i \in DOMAIN Held : Witness(Held[i], s, told[s]) /\ Held[i].name \notin job.out
    BY <1>1, <1>3, <2>1 DEF RegistryInv, ToldInv
  <2> QED
    BY <1>9, <1>10, <2>2 DEF Witness
<1> QED
  BY <1>11, <1>12, <1>13, <1>14, <1>16, <1>17, <1>18, <1>19 DEF RegistryInv

(* The new row is appended, and the caller has its answer. *)
LEMMA AppendStep ==
    ASSUME RegistryInv, AppendRow
    PROVE  RegistryInv'
<1> DEFINE line == job.line
           n == Len(file)
<1>1. /\ job.pc = "append" /\ file' = Append(file, line) /\ Heard(line.text, job.hand)
      /\ kept' = kept \cup {line.name} /\ job' = NoJob
      /\ UNCHANGED <<mint, todo, born, quarantine, rfaults>>
  BY DEF AppendRow
<1>2. RegistryTypeOK
  BY DEF RegistryInv
<1>3. job \in Writing /\ job # NoJob /\ Held = file /\ file \in Seq(Row) /\ line \in Row
      /\ job.hand \in Hand
  BY <1>1, <1>2, JobCases DEF Writing
<1>4. LineMade /\ Known(file)
  BY <1>3 DEF RegistryInv, NamesKnown
<1> HIDE DEF line
<1>5. /\ n \in Nat /\ DOMAIN file = 1..n /\ file' \in Seq(Row) /\ DOMAIN file' = 1..(n + 1)
      /\ file'[n + 1] = line /\ \A k \in DOMAIN file : k \in DOMAIN file' /\ file'[k] = file[k]
      /\ n + 1 \in DOMAIN file'
  BY <1>1, <1>3
<1>6. \A k \in DOMAIN file' : k \in DOMAIN file \/ k = n + 1
  BY <1>5
<1> HIDE DEF n
<1>7. Held' = file' /\ job'.pc = "none"
  BY <1>1, NoJobHeld
<1>8. line.text \in Fact /\ line.name \in Nat
  BY <1>3 DEF Row
<1>9. line.text.slot # NoSlot => line.text.slot \in Attr
  BY <1>8 DEF Fact
<1>10. RegistryTypeOK'
  <2>1. told' \in [Attr -> Fact \cup {NoFact}]
    BY <1>1, <1>2, <1>8, <1>9 DEF Heard, RegistryTypeOK
  <2> QED
    BY <1>1, <1>2, <1>5, <1>8, <2>1 DEF RegistryTypeOK
<1>11. NamesKnown'
  <2>1. Known(file)'
    BY <1>1, <1>4, <1>5, <1>6 DEF Known, LineMade, line
  <2>2. mint' # NoMint => Known(mint.rows)' /\ mint'.name \in 1..born' /\ mint'.name \notin todo'
    BY <1>1 DEF RegistryInv, NamesKnown, Known
  <2> QED
    BY <1>1, <2>1, <2>2 DEF RegistryInv, NamesKnown
<1>12. TakeTurns'
  BY <1>1, <1>3, <1>7 DEF RegistryInv, TakeTurns
<1>13. VoiceInv'
  <2>1. SUFFICES ASSUME rfaults \cap {"fold", "overlap"} = {},
                        NEW i \in DOMAIN file', NEW j \in DOMAIN file',
                        SameVoice(file'[i], file'[j])
                 PROVE  i = j
    BY <1>1, <1>7 DEF VoiceInv
  <2>2. \A k \in DOMAIN file : ~SameVoice(file[k], line)
    BY <1>1, <1>3, <2>1 DEF RegistryInv, VoiceInv, line
  <2>3. \A k \in DOMAIN file : ~SameVoice(line, file[k])
    BY <2>2 DEF SameVoice
  <2>4. \A k, l \in DOMAIN file : SameVoice(file[k], file[l]) => k = l
    BY <1>3, <2>1 DEF RegistryInv, VoiceInv
  <2> QED
    BY <1>5, <1>6, <2>1, <2>2, <2>3, <2>4
<1>14. Names(file') = Names(file) \cup {line.name}
  BY <1>5, <1>6 DEF Names
<1>15. KeptInv'
  BY <1>1, <1>3, <1>7, <1>14 DEF RegistryInv, KeptInv
<1>16. UniqueInv'
  <2>1. SUFFICES ASSUME rfaults = {}, NEW i \in DOMAIN file', NEW j \in DOMAIN file',
                        file'[i].name = file'[j].name
                 PROVE  i = j
    BY <1>1, <1>7 DEF UniqueInv
  <2>2. \A k \in DOMAIN file : file[k].name # line.name
    BY <1>3, <2>1 DEF RegistryInv, UniqueInv, Names, line
  <2>3. \A k, l \in DOMAIN file : file[k].name = file[l].name => k = l
    BY <1>3, <2>1 DEF RegistryInv, UniqueInv
  <2> QED
    BY <1>5, <1>6, <2>1, <2>2, <2>3
<1>17. TrailInv'
  <2>1. SUFFICES ASSUME rfaults = {}, NEW i \in DOMAIN file', file'[i].by \in 1..MaxRows
                 PROVE  \E j \in DOMAIN file' : Succeeds(file'[j], file'[i])
    BY <1>1, <1>7 DEF TrailInv
  <2>2. i \in DOMAIN file
    <3>1. line.by = 0
      BY <1>4 DEF LineMade, Live, Alive, line
    <3> QED
      BY <1>5, <1>6, <2>1, <3>1
  <2>3. \/ \E j \in DOMAIN file : Succeeds(file[j], file[i])
        \/ Succeeds(line, file[i])
    BY <1>3, <1>5, <2>1, <2>2 DEF RegistryInv, TrailInv, line
  <2> QED
    BY <1>5, <2>2, <2>3
<1>18. ToldInv'
  <2>1. SUFFICES ASSUME rfaults = {}, NEW s \in Attr, told'[s] # NoFact
                 PROVE  \E i \in DOMAIN file' : Witness(file'[i], s, told'[s])
    BY <1>1, <1>7 DEF ToldInv
  <2>2. CASE job.hand = "he" /\ line.text.slot = s
    <3>1. told'[s] = line.text
      BY <1>1, <1>2, <2>2, RegistryShape DEF Heard, RegistryTypeOK
    <3>2. Live(line) /\ line.speaker = "user" /\ line.status = "observed"
      BY <1>4, <2>2 DEF LineMade, Speaker, Status, line
    <3> QED
      BY <1>5, <2>2, <3>1, <3>2 DEF Witness
  <2>3. CASE ~(job.hand = "he" /\ line.text.slot = s)
    <3>1. told'[s] = told[s]
      BY <1>1, <1>2, <2>3 DEF Heard, RegistryTypeOK
    <3>2. PICK i \in DOMAIN file : Witness(file[i], s, told[s])
      BY <1>3, <2>1, <2>3, <3>1 DEF RegistryInv, ToldInv, line
    <3> QED
      BY <1>5, <3>1, <3>2
  <2> QED
    BY <2>2, <2>3
<1> QED
  BY <1>10, <1>11, <1>12, <1>13, <1>15, <1>16, <1>17, <1>18 DEF RegistryInv

(* forget(): one live row is tombstoned, and what he said of it is taken back. *)
LEMMA ForgetStep ==
    ASSUME RegistryInv, NEW f \in DOMAIN file, Forget(f)
    PROVE  RegistryInv'
<1>1. /\ job = NoJob /\ mint.pc = "none" /\ Live(file[f]) /\ file' = Tombstoned(file, f)
      /\ told' = [s \in Attr |-> IF told[s] = file[f].text THEN NoFact ELSE told[s]]
      /\ UNCHANGED <<job, mint, todo, born, kept, quarantine, rfaults>>
  BY DEF Forget
<1>2. RegistryTypeOK
  BY DEF RegistryInv
<1>3. file \in Seq(Row) /\ Held = file /\ Held' = file' /\ job'.pc = "none" /\ mint = NoMint
  BY <1>1, <1>2, JobCases, MintCases, NoJobHeld DEF RegistryTypeOK, NoJob
<1>4. /\ Touched(file, file')
      /\ \A k \in DOMAIN file : /\ file'[k].npos = file[k].npos
                                /\ file'[k].by = IF k = f THEN Forgotten ELSE file[k].by
  BY <1>1, <1>3, TombstonedRows
<1>5. DOMAIN file' = DOMAIN file /\ file' \in Seq(Row) /\ Names(file') = Names(file)
  BY <1>3, <1>4, TouchedFields DEF Touched
<1>6. \A k \in DOMAIN file : /\ file'[k].name = file[k].name /\ file'[k].text = file[k].text
                             /\ file'[k].speaker = file[k].speaker
                             /\ file'[k].status = file[k].status
  BY <1>4 DEF Touched
<1>7. Forgotten \notin 1..MaxRows /\ Forgotten # Alive
  BY RegistryShape DEF Forgotten, Alive
<1>8. \A k \in DOMAIN file : Live(file'[k]) <=> Live(file[k]) /\ k # f
  BY <1>4, <1>7 DEF Live
<1>9. RegistryTypeOK'
  BY <1>1, <1>2, <1>5 DEF RegistryTypeOK
<1>10. NamesKnown'
  <2>1. Known(file)'
    BY <1>1, <1>4, <1>5, <1>6 DEF RegistryInv, NamesKnown, Known
  <2> QED
    BY <1>1, <1>3, <2>1 DEF RegistryInv, NamesKnown
<1>11. TakeTurns'
  BY <1>1, <1>3 DEF TakeTurns
<1>12. VoiceInv'
  <2>1. \A i, j \in DOMAIN file : SameVoice(file'[i], file'[j]) => SameVoice(file[i], file[j])
    BY <1>6, <1>8 DEF SameVoice
  <2> QED
    BY <1>1, <1>3, <1>5, <2>1 DEF RegistryInv, VoiceInv
<1>13. KeptInv'
  BY <1>1, <1>3, <1>5 DEF RegistryInv, KeptInv
<1>14. UniqueInv'
  BY <1>1, <1>3, <1>5, <1>6 DEF RegistryInv, UniqueInv
<1>15. TrailInv'
  <2>1. SUFFICES ASSUME rfaults = {}, NEW i \in DOMAIN file, file'[i].by \in 1..MaxRows
                 PROVE  \E j \in DOMAIN file : Succeeds(file'[j], file'[i])
    BY <1>1, <1>3, <1>5 DEF TrailInv
  <2>2. file'[i].by = file[i].by
    BY <1>4, <1>7, <2>1
  <2>3. PICK j \in DOMAIN file : Succeeds(file[j], file[i])
    BY <1>1, <1>3, <2>1, <2>2 DEF RegistryInv, TrailInv, NoJob
  <2> QED
    BY <1>6, <2>2, <2>3 DEF Succeeds
<1>16. ToldInv'
  <2>1. SUFFICES ASSUME rfaults = {}, NEW s \in Attr, told'[s] # NoFact
                 PROVE  \E i \in DOMAIN file : Witness(file'[i], s, told'[s])
    BY <1>1, <1>3, <1>5 DEF ToldInv
  <2>2. told'[s] = told[s] /\ told[s] # file[f].text
    BY <1>1, <2>1
  <2>3. PICK i \in DOMAIN file : Witness(file[i], s, told[s])
    BY <1>1, <1>3, <2>1, <2>2 DEF RegistryInv, ToldInv
  <2> QED
    BY <1>6, <1>8, <2>2, <2>3 DEF Witness
<1> QED
  BY <1>9, <1>10, <1>11, <1>12, <1>13, <1>14, <1>15, <1>16 DEF RegistryInv

(* A step of the mint worker or of a crash leaves the rows and what was said alone. *)
LEMMA SameStore ==
    ASSUME RegistryInv, Held' = Held, kept' = kept, quarantine' = quarantine, told' = told,
           rfaults' = rfaults, job' = job \/ (job' = NoJob /\ rfaults # {})
    PROVE  VoiceInv' /\ KeptInv' /\ UniqueInv' /\ TrailInv' /\ ToldInv'
<1>1. VoiceInv' /\ KeptInv'
  BY DEF RegistryInv, VoiceInv, KeptInv
<1>2. UniqueInv'
  BY DEF RegistryInv, UniqueInv
<1>3. TrailInv'
  BY DEF RegistryInv, TrailInv
<1>4. ToldInv'
  BY DEF RegistryInv, ToldInv
<1> QED
  BY <1>1, <1>2, <1>3, <1>4

LEMMA MintLoadStep ==
    ASSUME RegistryInv, NEW n \in todo, MintLoad(n)
    PROVE  RegistryInv'
<1>1. /\ mint.pc = "none" /\ (job.pc # "none" => "overlap" \in rfaults)
      /\ todo' = todo \ {n} /\ mint' = [pc |-> "save", name |-> n, rows |-> file]
      /\ UNCHANGED <<file, job, born, told, kept, quarantine, rfaults>>
  BY DEF MintLoad
<1>2. RegistryTypeOK
  BY DEF RegistryInv
<1>3. Held' = Held
  BY <1>1 DEF Held
<1>4. VoiceInv' /\ KeptInv' /\ UniqueInv' /\ TrailInv' /\ ToldInv'
  BY <1>1, <1>3, SameStore
<1>5. mint' \in Minting /\ mint'.rows = file /\ mint'.name = n
  BY <1>1, <1>2 DEF Minting, RegistryTypeOK
<1>6. RegistryTypeOK'
  BY <1>1, <1>2, <1>5 DEF RegistryTypeOK
<1>7. NamesKnown'
  <2>1. \A rows : Known(rows) => Known(rows)'
    BY <1>1 DEF Known
  <2>2. Known(file)' /\ Known(mint.rows)'
    BY <1>1, <1>5 DEF RegistryInv, NamesKnown, Known
  <2>3. job' # NoJob => Known(job.rows)' /\ LineMade'
    BY <1>1 DEF RegistryInv, NamesKnown, Known, LineMade
  <2>4. n \in 1..born' /\ n \notin todo' /\ todo' \subseteq 1..born' /\ born' <= MaxRows
    BY <1>1 DEF RegistryInv, NamesKnown
  <2> QED
    BY <1>5, <2>2, <2>3, <2>4 DEF NamesKnown
<1>8. TakeTurns'
  BY <1>1, <1>2, <1>5, JobCases DEF TakeTurns
<1> QED
  BY <1>4, <1>6, <1>7, <1>8 DEF RegistryInv

(* The mint worker saves: outside an overlap, the rows it loaded are the rows there are. *)
LEMMA MintSaveStep ==
    ASSUME RegistryInv, NEW ok \in BOOLEAN, MintSave(ok)
    PROVE  RegistryInv'
<1>1. /\ mint.pc = "save" /\ mint' = NoMint
      /\ file' = IF ok /\ mint.name \in Names(mint.rows)
                 THEN Minted(mint.rows, mint.name) ELSE file
      /\ UNCHANGED <<job, todo, born, told, kept, quarantine, rfaults>>
  BY DEF MintSave
<1>2. RegistryTypeOK
  BY DEF RegistryInv
<1>3. mint # NoMint /\ mint \in Minting /\ mint.rows \in Seq(Row) /\ Known(mint.rows)
      /\ mint.name \notin todo
  BY <1>1, <1>2, MintCases DEF RegistryInv, NamesKnown, Minting, NoMint
<1>4. Known(file)' /\ file' \in Seq(Row)
  <2>1. CASE file' = file
    BY <1>1, <1>2, <2>1 DEF RegistryInv, NamesKnown, Known, RegistryTypeOK
  <2>2. CASE file' = Minted(mint.rows, mint.name)
    <3>1. /\ Touched(mint.rows, file')
          /\ \A k \in DOMAIN mint.rows :
                file'[k].npos => mint.rows[k].npos \/ mint.rows[k].name = mint.name
      BY <1>3, <2>2, MintedRows
    <3> QED
      BY <1>1, <1>3, <3>1 DEF Touched, Known
  <2> QED
    BY <1>1, <2>1, <2>2
<1>5. RegistryTypeOK'
  BY <1>1, <1>2, <1>4 DEF RegistryTypeOK
<1>6. NamesKnown'
  BY <1>1, <1>4 DEF RegistryInv, NamesKnown, Known, LineMade
<1>7. TakeTurns'
  BY <1>1, <1>2, <1>3, JobCases DEF RegistryInv, TakeTurns
<1>8. CASE "overlap" \in rfaults
  BY <1>1, <1>5, <1>6, <1>7, <1>8
     DEF RegistryInv, VoiceInv, KeptInv, UniqueInv, TrailInv, ToldInv
<1>9. CASE "overlap" \notin rfaults
  <2>1. job = NoJob /\ mint.rows = file /\ Held = file /\ Held' = file'
    BY <1>1, <1>2, <1>3, <1>9, JobCases, NoJobHeld DEF RegistryInv, TakeTurns
  <2>2. Touched(file, file') /\ \A k \in DOMAIN file : file'[k].by = file[k].by
    <3>1. CASE file' = file
      BY <1>2, <3>1 DEF Touched, RegistryTypeOK
    <3>2. CASE file' = Minted(mint.rows, mint.name)
      BY <1>3, <2>1, <3>2, MintedRows
    <3> QED
      BY <1>1, <3>1, <3>2
  <2>3. VoiceInv' /\ KeptInv' /\ UniqueInv' /\ TrailInv'
    BY <1>1, <2>1, <2>2, SameRows
  <2>4. ToldInv'
    <3>1. SUFFICES ASSUME rfaults = {}, NEW s \in Attr, told[s] # NoFact
                   PROVE  \E i \in DOMAIN file' : Witness(file'[i], s, told[s])
      BY <1>1, <2>1, NoJobHeld DEF ToldInv
    <3>2. PICK i \in DOMAIN file : Witness(file[i], s, told[s])
      BY <2>1, <3>1 DEF RegistryInv, ToldInv
    <3> QED
      BY <2>2, <3>2 DEF Witness, Touched, Live
  <2> QED
    BY <1>5, <1>6, <1>7, <2>3, <2>4 DEF RegistryInv
<1> QED
  BY <1>8, <1>9

(* compact_registry after a turn. *)
LEMMA CompactStep ==
    ASSUME RegistryInv, Compact
    PROVE  RegistryInv'
<1>1. /\ job = NoJob /\ mint.pc = "none" /\ "compact" \in rfaults
      /\ file' = Compacted(file) /\ kept' = Names(file')
      /\ UNCHANGED <<job, mint, todo, born, told, quarantine, rfaults>>
  BY DEF Compact
<1>2. RegistryTypeOK
  BY DEF RegistryInv
<1>3. file \in Seq(Row) /\ Held = file /\ Held' = file' /\ mint = NoMint
  BY <1>1, <1>2, JobCases, MintCases, NoJobHeld DEF RegistryTypeOK
<1>4. Picked(file, file')
  BY <1>1, <1>3, CompactedRows
<1>5. Known(file)'
  BY <1>1, <1>4 DEF RegistryInv, NamesKnown, Known, Picked
<1>6. file' \in Seq(Row) /\ Names(file') \subseteq Nat
  <2>1. file' \in Seq(Row)
    BY <1>4 DEF Picked
  <2> QED
    BY <2>1, RowFields DEF Names, Row
<1>7. RegistryTypeOK'
  BY <1>1, <1>2, <1>6 DEF RegistryTypeOK
<1>8. NamesKnown' /\ TakeTurns'
  BY <1>1, <1>3, <1>5, NoJobHeld DEF RegistryInv, NamesKnown, TakeTurns
<1>9. VoiceInv'
  <2>1. PICK g \in [DOMAIN file' -> DOMAIN file] :
          /\ \A k \in DOMAIN file' : file'[k] = file[g[k]]
          /\ \A k, l \in DOMAIN file' : g[k] = g[l] => k = l
    BY <1>4 DEF Picked
  <2>2. ASSUME rfaults \cap {"fold", "overlap"} = {}
        PROVE  \A i, j \in DOMAIN file : SameVoice(file[i], file[j]) => i = j
    BY <1>3, <2>2 DEF RegistryInv, VoiceInv
  <2>3. ASSUME rfaults \cap {"fold", "overlap"} = {},
               NEW i \in DOMAIN file', NEW j \in DOMAIN file', SameVoice(file'[i], file'[j])
        PROVE  i = j
    BY <2>1, <2>2, <2>3
  <2> QED
    BY <1>1, <1>3, <2>3 DEF VoiceInv
<1>10. KeptInv'
  BY <1>1, <1>3 DEF KeptInv
<1>11. UniqueInv' /\ TrailInv' /\ ToldInv'
  BY <1>1 DEF UniqueInv, TrailInv, ToldInv
<1> QED
  BY <1>7, <1>8, <1>9, <1>10, <1>11 DEF RegistryInv

(* The operator's compact() and cleanup(). *)
LEMMA OpsCompactStep ==
    ASSUME RegistryInv, OpsCompact
    PROVE  RegistryInv'
<1>1. /\ "fold" \in rfaults /\ job = NoJob /\ mint.pc = "none" /\ file' = Folded(file)
      /\ UNCHANGED <<job, mint, todo, born, told, kept, quarantine, rfaults>>
  BY DEF OpsCompact
<1>2. RegistryTypeOK
  BY DEF RegistryInv
<1>3. file \in Seq(Row) /\ Held = file /\ Held' = file' /\ mint = NoMint
  BY <1>1, <1>2, JobCases, MintCases, NoJobHeld DEF RegistryTypeOK
<1>4. Touched(file, file') /\ \A k \in DOMAIN file : file'[k].npos = file[k].npos
  BY <1>1, <1>3, FoldedRows
<1>5. RegistryTypeOK'
  BY <1>1, <1>2, <1>4 DEF RegistryTypeOK, Touched
<1>6. NamesKnown' /\ TakeTurns'
  BY <1>1, <1>3, <1>4, NoJobHeld DEF RegistryInv, NamesKnown, Known, TakeTurns, Touched
<1>7. KeptInv'
  <2>1. Names(file') = Names(file)
    BY <1>3, <1>4, TouchedFields
  <2> QED
    BY <1>1, <1>3, <2>1 DEF RegistryInv, KeptInv
<1>8. VoiceInv' /\ UniqueInv' /\ TrailInv' /\ ToldInv'
  BY <1>1 DEF VoiceInv, UniqueInv, TrailInv, ToldInv
<1> QED
  BY <1>5, <1>6, <1>7, <1>8 DEF RegistryInv

LEMMA CleanupStep ==
    ASSUME RegistryInv, NEW i \in DOMAIN file, NEW f \in Fact \cup {NoFact}, Cleanup(i, f)
    PROVE  RegistryInv'
<1> DEFINE left == RemoveAt(file, i)
           rescued == [file[i] EXCEPT !.name = born + 1, !.text = f, !.npos = FALSE,
                                      !.status = "observed"]
<1>1. /\ "fold" \in rfaults /\ job = NoJob /\ mint.pc = "none"
      /\ quarantine' = quarantine \cup {file[i].name}
      /\ \/ file' = left /\ born' = born
         \/ f \in Fact /\ born < MaxRows /\ born' = born + 1 /\ file' = Append(left, rescued)
      /\ UNCHANGED <<job, mint, todo, told, kept, rfaults>>
  BY DEF Cleanup, Quarantined
<1>2. RegistryTypeOK
  BY DEF RegistryInv
<1>3. file \in Seq(Row) /\ Held = file /\ Held' = file' /\ mint = NoMint /\ born \in Nat
  BY <1>1, <1>2, JobCases, MintCases, NoJobHeld DEF RegistryTypeOK
<1>4. Picked(file, left) /\ Names(file) \subseteq Names(left) \cup {file[i].name}
  BY <1>3, RemovedRows
<1> HIDE DEF left
<1>5. left \in Seq(Row) /\ Known(left)
  BY <1>3, <1>4, PickedKnown DEF RegistryInv, NamesKnown, Picked
<1>6. f \in Fact => rescued \in Row /\ rescued.name = born + 1 /\ rescued.npos = FALSE
  <2>1. file[i] \in Row /\ born + 1 \in Nat
    BY <1>3, RowFields
  <2> QED
    BY <2>1 DEF Row
<1> HIDE DEF rescued
<1>7. file' \in Seq(Row) /\ Known(file)' /\ Names(left) \subseteq Names(file')
      /\ born' \in Nat /\ born' <= MaxRows /\ born <= born'
  <2>1. CASE file' = left /\ born' = born
    BY <1>1, <1>3, <1>5, <2>1 DEF Known, RegistryInv, NamesKnown
  <2>2. CASE f \in Fact /\ born < MaxRows /\ born' = born + 1 /\ file' = Append(left, rescued)
    <3>1. /\ file' \in Seq(Row) /\ DOMAIN file' = 1..(Len(left) + 1)
          /\ file'[Len(left) + 1] = rescued
          /\ \A k \in DOMAIN left : k \in DOMAIN file' /\ file'[k] = left[k]
      BY <1>5, <1>6, <2>2
    <3>2. \A k \in DOMAIN file' : k \in DOMAIN left \/ k = Len(left) + 1
      BY <1>5, <3>1
    <3>3. \A n \in todo : n \in 1..born
      BY DEF RegistryInv, NamesKnown
    <3>4. \A k \in DOMAIN left : left[k].name \in 1..born /\ (left[k].npos => left[k].name \notin todo)
      BY <1>5 DEF Known
    <3>5. Known(file)'
      <4> SUFFICES ASSUME NEW k \in DOMAIN file'
                   PROVE  /\ file'[k].name \in 1..(born + 1)
                          /\ file'[k].npos => file'[k].name \notin todo
        BY <1>1, <2>2 DEF Known
      <4> QED
        BY <1>3, <1>6, <2>2, <3>1, <3>2, <3>4
    <3>6. Names(left) \subseteq Names(file')
      BY <3>1 DEF Names
    <3> QED
      BY <1>3, <2>2, <3>1, <3>5, <3>6, RegistryShape
  <2> QED
    BY <1>1, <2>1, <2>2
<1>8. RegistryTypeOK'
  <2>1. file[i].name \in Nat
    BY <1>3, RowFields DEF Row
  <2> QED
    BY <1>1, <1>2, <1>7, <2>1 DEF RegistryTypeOK
<1>9. NamesKnown' /\ TakeTurns'
  <2>1. todo' \subseteq 1..born'
    BY <1>1, <1>3, <1>7 DEF RegistryInv, NamesKnown
  <2> QED
    BY <1>1, <1>3, <1>7, <2>1, NoJobHeld DEF NamesKnown, TakeTurns
<1>10. KeptInv'
  BY <1>1, <1>3, <1>4, <1>7 DEF RegistryInv, KeptInv
<1>11. VoiceInv' /\ UniqueInv' /\ TrailInv' /\ ToldInv'
  BY <1>1 DEF VoiceInv, UniqueInv, TrailInv, ToldInv
<1> QED
  BY <1>8, <1>9, <1>10, <1>11 DEF RegistryInv

(* The gateway dies: what a write had in hand is gone, and with it only what the file   *)
(* did not hold. *)
LEMMA CrashStep ==
    ASSUME RegistryInv, Crash
    PROVE  RegistryInv'
<1>1. /\ "crash" \in rfaults /\ job' = NoJob /\ mint' = NoMint /\ todo' = {}
      /\ UNCHANGED <<file, born, told, kept, quarantine, rfaults>>
  BY DEF Crash
<1>2. RegistryTypeOK /\ Held' = file
  BY <1>1, NoJobHeld DEF RegistryInv
<1>3. RegistryTypeOK'
  BY <1>1, <1>2 DEF RegistryTypeOK
<1>4. NamesKnown' /\ TakeTurns'
  BY <1>1, NoJobHeld DEF RegistryInv, NamesKnown, Known, TakeTurns
<1>5. VoiceInv'
  <2>1. ASSUME rfaults \cap {"fold", "overlap"} = {},
               NEW i \in DOMAIN file, NEW j \in DOMAIN file, SameVoice(file[i], file[j])
        PROVE  i = j
    <3>1. Held = file
      BY <1>2, <2>1, JobCases DEF RegistryInv, TakeTurns
    <3> QED
      BY <2>1, <3>1 DEF RegistryInv, VoiceInv
  <2> QED
    BY <1>1, <1>2, <2>1 DEF VoiceInv
<1>6. KeptInv' /\ UniqueInv' /\ TrailInv' /\ ToldInv'
  BY <1>1 DEF KeptInv, UniqueInv, TrailInv, ToldInv
<1> QED
  BY <1>3, <1>4, <1>5, <1>6 DEF RegistryInv

-----------------------------------------------------------------------------
LEMMA StepInv == RegistryInv /\ [RegistryNext]_mvars => RegistryInv'
<1> SUFFICES ASSUME RegistryInv, [RegistryNext]_mvars PROVE RegistryInv'
  OBVIOUS
<1>1. ASSUME NEW f \in Fact, NEW hand \in Hand, Remember(f, hand)
      PROVE  RegistryInv'
  BY <1>1, RepeatStep, NewStep
<1>2. CASE OpenForWrite
  BY <1>2, OpenStep
<1>3. CASE Retire
  BY <1>3, RetireStep
<1>4. CASE AppendRow
  BY <1>4, AppendStep
<1>5. ASSUME NEW i \in DOMAIN file, Forget(i)
      PROVE  RegistryInv'
  BY <1>5, ForgetStep
<1>6. ASSUME NEW n \in todo, MintLoad(n)
      PROVE  RegistryInv'
  BY <1>6, MintLoadStep
<1>7. ASSUME NEW ok \in BOOLEAN, MintSave(ok)
      PROVE  RegistryInv'
  BY <1>7, MintSaveStep
<1>8. CASE Compact
  BY <1>8, CompactStep
<1>9. CASE OpsCompact
  BY <1>9, OpsCompactStep
<1>10. CASE Crash
  BY <1>10, CrashStep
<1>11. ASSUME NEW i \in DOMAIN file, NEW f \in Fact \cup {NoFact}, Cleanup(i, f)
       PROVE  RegistryInv'
  BY <1>11, CleanupStep
<1>12. CASE UNCHANGED mvars
  <2>1. /\ UNCHANGED <<file, job, mint, todo, born, told, kept, quarantine, rfaults>>
        /\ Held' = Held
    BY <1>12 DEF mvars, Held
  <2>2. RegistryTypeOK' /\ TakeTurns'
    BY <2>1 DEF RegistryInv, RegistryTypeOK, TakeTurns
  <2>3. NamesKnown'
    BY <2>1 DEF RegistryInv, NamesKnown, Known, LineMade
  <2>4. VoiceInv' /\ KeptInv' /\ UniqueInv' /\ TrailInv' /\ ToldInv'
    BY <2>1, SameStore
  <2> QED
    BY <2>2, <2>3, <2>4 DEF RegistryInv
<1> QED
  BY <1>1, <1>2, <1>3, <1>4, <1>5, <1>6, <1>7, <1>8, <1>9, <1>10, <1>11, <1>12
     DEF RegistryNext, Hand

(* The invariant of the registry holds in every behaviour, under every fault. *)
THEOREM RegistryInvariant == RegistrySpec => []RegistryInv
  BY InitInv, StepInv, PTL DEF RegistrySpec

LEMMA RestHeld ==
    ASSUME RegistryInv, Rest
    PROVE  Held = file /\ job.pc = "none"
  BY JobCases DEF RegistryInv, Rest

LEMMA InvTestimony == RegistryInv => TestimonyKept
<1> SUFFICES ASSUME RegistryInv, rfaults = {}, Rest, NEW s \in Attr, told[s] # NoFact
             PROVE  \E i \in His(s) : file[i].text = told[s]
  BY DEF TestimonyKept
<1>1. PICK i \in DOMAIN file : Witness(file[i], s, told[s])
  BY RestHeld DEF RegistryInv, ToldInv, Rest
<1> QED
  BY <1>1 DEF Witness, His

LEMMA InvOneVoice == RegistryInv => OneVoice
<1> SUFFICES ASSUME RegistryInv, rfaults \cap {"fold", "overlap"} = {}, Rest, NEW s \in Attr,
                    NEW i \in His(s), NEW j \in His(s), file[i].status = file[j].status
             PROVE  i = j
  BY DEF OneVoice
<1>1. i \in DOMAIN file /\ j \in DOMAIN file /\ SameVoice(file[i], file[j])
  BY DEF His, SameVoice
<1> QED
  BY <1>1, RestHeld DEF RegistryInv, VoiceInv

(* She does not speak over him (find_superseded, may_supersede). Without faults what he  *)
(* said last of a slot stays live until he says otherwise or has it forgotten. Also when *)
(* one hand repeats another's row, compaction drops rows or the process dies inside a    *)
(* write, a slot has at most one live row of testimony and one conclusion. *)
THEOREM HisWordHolds == RegistrySpec => []HisWordStands
<1>1. RegistryInv => HisWordStands
  BY InvTestimony, InvOneVoice DEF HisWordStands
<1> QED
  BY <1>1, RegistryInvariant, PTL

(* Nothing acknowledged is destroyed: it is in the file or in quarantine, whatever       *)
(* retired, minted, compacted or cleaned it, unless a process died inside the rewrite or *)
(* the mint worker wrote back what it had read before (remember, _mint_drain, ops.py). *)
THEOREM NothingIsDestroyed == RegistrySpec => []NothingDestroyed
<1>1. RegistryInv => NothingDestroyed
  BY JobCases DEF RegistryInv, KeptInv, NothingDestroyed
<1> QED
  BY <1>1, RegistryInvariant, PTL

(* The audit trail leads somewhere: every retired row names a row of the store that      *)
(* says something else in the same slot and lane (find_superseded). *)
THEOREM TheTrailLeads == RegistrySpec => []TrailLeads
<1>1. ASSUME RegistryInv, rfaults = {}, Rest, NEW i \in DOMAIN file, file[i].by \in 1..MaxRows
      PROVE  \E j \in DOMAIN file : Succeeds(file[j], file[i])
  BY <1>1, RestHeld DEF RegistryInv, TrailInv
<1>2. RegistryInv => TrailLeads
  BY <1>1 DEF TrailLeads, Succeeds
<1> QED
  BY <1>2, RegistryInvariant, PTL

(* A mint lands on the row it was made from, under every fault: a row that bears a mint  *)
(* is not waiting for one (_mint_drain). *)
THEOREM MintsAreOwn == RegistrySpec => []MintOwn
<1>1. RegistryInv => MintOwn
  BY DEF RegistryInv, NamesKnown, Known, MintOwn
<1> QED
  BY <1>1, RegistryInvariant, PTL

(* Nothing is lost: the three together. *)
THEOREM NothingIsLost == RegistrySpec => []NothingLost
  BY NothingIsDestroyed, TheTrailLeads, MintsAreOwn, PTL DEF NothingLost

-----------------------------------------------------------------------------
(***************************************************************************)
(* The door.  What comes off the front of a packaging is its longest head  *)
(* of the layers asked for, so that one more of them in front makes no     *)
(* difference, and what is left begins with something else.                *)
(***************************************************************************)
LEMMA DropIs ==
    ASSUME NEW w \in Seq(Layer), NEW S
    PROVE  \/ /\ Drop(w, S) = <<>> /\ \A i \in 1..Len(w) : w[i] \in S
           \/ \E k \in 1..Len(w) : /\ Drop(w, S) = SubSeq(w, k, Len(w)) /\ w[k] \notin S
                                   /\ \A i \in 1..k - 1 : w[i] \in S
<1> DEFINE keep == {i \in 1..Len(w) : w[i] \notin S}
<1>1. CASE keep = {}
  BY <1>1 DEF Drop
<1>2. CASE keep # {}
  <2>1. First(keep) \in keep /\ \A j \in keep : First(keep) <= j
    <3>1. keep \in SUBSET Nat
      OBVIOUS
    <3> QED BY <1>2, <3>1, FirstIn
  <2>2. Drop(w, S) = SubSeq(w, First(keep), Len(w))
    BY <1>2 DEF Drop, First
  <2> DEFINE k == First(keep)
  <2>3. \A i \in 1..k - 1 : w[i] \in S
    <3> SUFFICES ASSUME NEW i \in 1..k - 1, w[i] \notin S PROVE FALSE
      OBVIOUS
    <3>1. k \in 1..Len(w) /\ Len(w) \in Nat
      BY <2>1
    <3>2. i \in 1..Len(w) /\ i < k
      BY <3>1
    <3>3. i \in keep
      BY <3>2
    <3>4. k <= i
      BY <2>1, <3>3
    <3> QED BY <3>1, <3>2, <3>4
  <2> QED BY <2>1, <2>2, <2>3
<1> QED BY <1>1, <1>2

Occurs(l, w) == \E i \in 1..Len(w) : w[i] = l

(* What is left of a packaging: nothing, or something that does not begin with what was *)
(* taken off; and nothing of another kind is lost. *)
LEMMA DropLeaves ==
    ASSUME NEW w \in Seq(Layer), NEW S
    PROVE  /\ Drop(w, S) \in Seq(Layer)
           /\ Drop(w, S) # <<>> => Drop(w, S)[1] \notin S
           /\ Drop(w, S) = <<>> <=> \A i \in 1..Len(w) : w[i] \in S
           /\ \A l : Occurs(l, Drop(w, S)) => Occurs(l, w)
           /\ \A l : l \notin S /\ Occurs(l, w) => Occurs(l, Drop(w, S))
<1>1. CASE Drop(w, S) = <<>> /\ \A i \in 1..Len(w) : w[i] \in S
  BY <1>1 DEF Occurs
<1>2. ASSUME NEW k \in 1..Len(w), Drop(w, S) = SubSeq(w, k, Len(w)), w[k] \notin S, \A i \in 1..k - 1 : w[i] \in S
      PROVE  /\ Drop(w, S) \in Seq(Layer)
             /\ Drop(w, S) # <<>> => Drop(w, S)[1] \notin S
             /\ Drop(w, S) = <<>> <=> \A i \in 1..Len(w) : w[i] \in S
             /\ \A l : Occurs(l, Drop(w, S)) => Occurs(l, w)
             /\ \A l : l \notin S /\ Occurs(l, w) => Occurs(l, Drop(w, S))
  <2> DEFINE rest == Drop(w, S)
  <2>1. k \in Nat /\ Len(w) \in Nat /\ 1 <= k /\ k <= Len(w)
    OBVIOUS
  <2>2. /\ rest \in Seq(Layer) /\ Len(rest) = Len(w) - k + 1
        /\ \A i \in 1..Len(w) - k + 1 : rest[i] = w[k + i - 1]
    <3>1. SubSeq(w, k, Len(w)) \in Seq(Layer) /\ Len(SubSeq(w, k, Len(w))) = Len(w) - k + 1
      BY <2>1
    <3>2. \A i \in 1..Len(w) - k + 1 : SubSeq(w, k, Len(w))[i] = w[k + i - 1]
      BY <2>1
    <3> QED BY <1>2, <3>1, <3>2
  <2> HIDE DEF rest
  <2>3. rest # <<>> /\ rest[1] = w[k]
    BY <2>1, <2>2
  <2>4. ASSUME NEW i \in 1..Len(rest) PROVE k + i - 1 \in 1..Len(w) /\ rest[i] = w[k + i - 1]
    BY <2>1, <2>2
  <2>5. ASSUME NEW i \in 1..Len(w), w[i] \notin S PROVE i - k + 1 \in 1..Len(rest) /\ rest[i - k + 1] = w[i]
    <3>1. i >= k
      <4> SUFFICES ASSUME i < k PROVE FALSE
        BY <2>1
      <4>1. i \in 1..k - 1
        BY <2>1
      <4> QED BY <1>2, <2>5, <4>1
    <3>2. i - k + 1 \in 1..Len(w) - k + 1 /\ k + (i - k + 1) - 1 = i
      BY <2>1, <3>1
    <3> QED BY <2>2, <3>2
  <2>6. rest \in Seq(Layer) /\ rest[1] \notin S
    BY <1>2, <2>2, <2>3
  <2>7. ~(\A i \in 1..Len(w) : w[i] \in S)
    BY <1>2
  <2>8. \A l : Occurs(l, rest) => Occurs(l, w)
    BY <2>4 DEF Occurs
  <2>9. \A l : l \notin S /\ Occurs(l, w) => Occurs(l, rest)
    BY <2>5 DEF Occurs
  <2> QED BY <2>3, <2>6, <2>7, <2>8, <2>9 DEF rest
<1> QED BY <1>1, <1>2, DropIs, Zenon

(* One more of the layers in front makes no difference; one of another kind stops it. *)
LEMMA DropFront ==
    ASSUME NEW w \in Seq(Layer), NEW l \in Layer, NEW S
    PROVE  /\ <<l>> \o w \in Seq(Layer)
           /\ l \in S => Drop(<<l>> \o w, S) = Drop(w, S)
           /\ l \notin S => Drop(<<l>> \o w, S) = <<l>> \o w
<1> DEFINE v == <<l>> \o w
<1>1. <<l>> \in Seq(Layer) /\ Len(<<l>>) = 1 /\ <<l>>[1] = l /\ Len(w) \in Nat
  OBVIOUS
<1>2. /\ v \in Seq(Layer) /\ Len(v) = Len(w) + 1
      /\ \A i \in 1..Len(w) + 1 : v[i] = IF i <= 1 THEN l ELSE w[i - 1]
  <2>1. /\ v \in Seq(Layer) /\ Len(v) = 1 + Len(w)
        /\ \A i \in 1..1 + Len(w) : v[i] = IF i <= 1 THEN <<l>>[i] ELSE w[i - 1]
    BY <1>1, ConcatProperties
  <2> HIDE DEF v
  <2> QED BY <1>1, <2>1
<1>3. v[1] = l /\ \A i \in 1..Len(w) : v[i + 1] = w[i]
  BY <1>1, <1>2
<1>4. \/ Drop(v, S) = <<>> /\ \A i \in 1..Len(v) : v[i] \in S
      \/ \E k \in 1..Len(v) : /\ Drop(v, S) = SubSeq(v, k, Len(v)) /\ v[k] \notin S
                              /\ \A i \in 1..k - 1 : v[i] \in S
  BY <1>2, DropIs
<1>5. \/ Drop(w, S) = <<>> /\ \A i \in 1..Len(w) : w[i] \in S
      \/ \E k \in 1..Len(w) : /\ Drop(w, S) = SubSeq(w, k, Len(w)) /\ w[k] \notin S
                              /\ \A i \in 1..k - 1 : w[i] \in S
  BY DropIs
<1> HIDE DEF v
<1>6. ASSUME l \notin S PROVE Drop(v, S) = v
  <2>1. ~(\A i \in 1..Len(v) : v[i] \in S)
    BY <1>1, <1>2, <1>3, <1>6
  <2>2. PICK k \in 1..Len(v) : Drop(v, S) = SubSeq(v, k, Len(v)) /\ \A i \in 1..k - 1 : v[i] \in S
    BY <1>4, <2>1
  <2>3. k = 1
    <3> SUFFICES ASSUME k # 1 PROVE FALSE
      OBVIOUS
    <3>1. 1 \in 1..k - 1
      BY <1>1, <1>2
    <3> QED BY <1>3, <1>6, <2>2, <3>1
  <2> QED BY <1>2, <2>2, <2>3
<1>7. ASSUME l \in S PROVE Drop(v, S) = Drop(w, S)
  <2>1. CASE Drop(w, S) = <<>> /\ \A i \in 1..Len(w) : w[i] \in S
    <3>1. \A i \in 1..Len(v) : v[i] \in S
      <4> SUFFICES ASSUME NEW i \in 1..Len(v) PROVE v[i] \in S
        OBVIOUS
      <4>1. CASE i = 1
        BY <1>3, <1>7, <4>1
      <4>2. CASE i # 1
        <5>1. i - 1 \in 1..Len(w) /\ v[i] = w[i - 1]
          BY <1>1, <1>2, <4>2
        <5> QED BY <2>1, <5>1
      <4> QED BY <4>1, <4>2
    <3> QED BY <1>4, <2>1, <3>1
  <2>2. ASSUME NEW k \in 1..Len(w), Drop(w, S) = SubSeq(w, k, Len(w)), w[k] \notin S, \A i \in 1..k - 1 : w[i] \in S
        PROVE  Drop(v, S) = Drop(w, S)
    <3>1. k + 1 \in 1..Len(v) /\ v[k + 1] = w[k]
      BY <1>1, <1>2, <1>3
    <3>2. PICK m \in 1..Len(v) : /\ Drop(v, S) = SubSeq(v, m, Len(v)) /\ v[m] \notin S
                                 /\ \A i \in 1..m - 1 : v[i] \in S
      BY <1>4, <2>2, <3>1
    <3>3. m = k + 1
      <4>1. ~(k + 1 < m)
        <5> SUFFICES ASSUME k + 1 < m PROVE FALSE
          OBVIOUS
        <5>1. k + 1 \in 1..m - 1
          BY <1>1, <1>2
        <5> QED BY <2>2, <3>1, <3>2, <5>1
      <4>2. ~(m < k + 1)
        <5> SUFFICES ASSUME m < k + 1 PROVE FALSE
          OBVIOUS
        <5>1. m # 1
          BY <1>3, <1>7, <3>2
        <5>2. m - 1 \in 1..k - 1 /\ m - 1 \in 1..Len(w) /\ (m - 1) + 1 = m
          BY <1>1, <1>2, <5>1
        <5>3. v[m] = w[m - 1]
          BY <1>3, <5>2
        <5> QED BY <2>2, <3>2, <5>2, <5>3
      <4> QED BY <1>1, <1>2, <4>1, <4>2
    <3>4. SubSeq(v, k + 1, Len(v)) = SubSeq(w, k, Len(w))
      <4> DEFINE n == Len(w) - k + 1
      <4>1. n \in Nat /\ Len(v) - (k + 1) + 1 = n
        BY <1>1, <1>2
      <4>2. SubSeq(w, k, Len(w)) = [i \in 1..n |-> w[k + i - 1]]
        BY <1>1
      <4>3. SubSeq(v, k + 1, Len(v)) = [i \in 1..n |-> v[(k + 1) + i - 1]]
        BY <1>1, <1>2, <4>1
      <4>4. \A i \in 1..n : v[(k + 1) + i - 1] = w[k + i - 1]
        <5> SUFFICES ASSUME NEW i \in 1..n PROVE v[(k + 1) + i - 1] = w[k + i - 1]
          OBVIOUS
        <5>1. k + i - 1 \in 1..Len(w) /\ (k + i - 1) + 1 = (k + 1) + i - 1
          BY <1>1
        <5> QED BY <1>3, <5>1
      <4> HIDE DEF n
      <4> QED BY <4>2, <4>3, <4>4
    <3> QED BY <2>2, <3>2, <3>3, <3>4
  <2> QED BY <1>5, <2>1, <2>2
<1> QED BY <1>2, <1>6, <1>7 DEF v

LEMMA AdmitStores ==
    ASSUME NEW w, NEW author
    PROVE  /\ Admit(w, author).stored <=> IsMemorable(NormalizeFact(w)) /\ (author = "user" => AdmitToUserStore)
           /\ Admit(w, author).stored => Admit(w, author).text = NormalizeFact(w) /\ Admit(w, author).class = Classify
<1> DEFINE in == IsMemorable(NormalizeFact(w)) /\ (author = "user" => AdmitToUserStore)
           row == [stored |-> TRUE, text |-> NormalizeFact(w), class |-> Classify]
<1>1. Admit(w, author) = IF in THEN row ELSE Refused
  BY DEF Admit
<1>2. Refused.stored = FALSE /\ row.stored = TRUE /\ row.text = NormalizeFact(w) /\ row.class = Classify
  BY DEF Refused
<1> HIDE DEF in, row
<1>3. CASE in
  BY <1>1, <1>2, <1>3 DEF in
<1>4. CASE ~in
  BY <1>1, <1>2, <1>4 DEF in
<1> QED BY <1>3, <1>4

LEMMA CaptureStores ==
    ASSUME NEW w
    PROVE  /\ Capture(w).stored <=> IsMemorable(w) /\ Admit(DropHats(w), "user").stored
           /\ Capture(w).stored => Capture(w) = Admit(DropHats(w), "user")
<1>1. CASE IsMemorable(w)
  BY <1>1 DEF Capture
<1>2. CASE ~IsMemorable(w)
  BY <1>2 DEF Capture, Refused
<1> QED BY <1>1, <1>2

(* A marker in front of a sentence that is not an instruction or a receipt: the sentence *)
(* is as memorable as what is below its packaging. *)
LEMMA HatInFront ==
    ASSUME NEW w \in Seq(Layer), claim.frame = "none"
    PROVE  LET v == <<"hat">> \o w IN
           /\ DropHats(v) = DropHats(w) /\ NormalizeFact(v) = v
           /\ IsMemorable(w) => IsMemorable(v)
           /\ IsMemorable(NormalizeFact(w)) => IsMemorable(v)
<1> DEFINE v == <<"hat">> \o w
           n == NormalizeFact(w)
           core == DropHats(w)
<1>1. v \in Seq(Layer) /\ DropHats(v) = core /\ NormalizeFact(v) = v
  <2>1. "hat" \in Layer /\ "hat" \in {"hat"} /\ "hat" \notin {"bullet", "verb", "please", "prefix"}
    BY DEF Layer
  <2> QED BY <2>1, DropFront DEF DropHats, NormalizeFact
<1>2. Outermost(v) = "hat"
  <2>1. v # <<>> /\ v[1] = "hat"
    OBVIOUS
  <2> QED BY <2>1 DEF Outermost
<1> HIDE DEF v
<1>3. ~FrameRefuses(v)
  BY <1>2 DEF FrameRefuses
<1>4. IsMemorable(w) => IsMemorable(v)
  BY <1>1, <1>3, Zenon DEF IsMemorable
<1>5. n \in Seq(Layer) /\ \A l : Occurs(l, n) => Occurs(l, w)
  BY DropLeaves DEF NormalizeFact
<1> HIDE DEF n
<1>6. core = <<>> => DropHats(n) = <<>>
  <2>1. core = <<>> => \A i \in 1..Len(w) : w[i] \in {"hat"}
    BY DropLeaves DEF DropHats
  <2>2. (\A i \in 1..Len(n) : n[i] \in {"hat"}) => DropHats(n) = <<>>
    BY <1>5, DropLeaves DEF DropHats
  <2> QED BY <1>5, <2>1, <2>2 DEF Occurs
<1>7. Occurs("prefix", DropHats(n)) => Occurs("prefix", core)
  <2>1. Occurs("prefix", DropHats(n)) => Occurs("prefix", n)
    BY <1>5, DropLeaves DEF DropHats
  <2>2. "prefix" \notin {"hat"}
    OBVIOUS
  <2>3. Occurs("prefix", w) => Occurs("prefix", core)
    BY <2>2, DropLeaves DEF DropHats
  <2> QED BY <1>5, <2>1, <2>3
<1> HIDE DEF core
<1>8. IsMemorable(n) => IsMemorable(v)
  BY <1>1, <1>3, <1>6, <1>7, Zenon DEF IsMemorable, Occurs
<1> QED BY <1>1, <1>4, <1>8 DEF v, n, core

Packed == layers \in Seq(Layer)

LEMMA DoorTypes == AdmissionSpec => []Packed
<1>1. AdmissionInit => Packed
  BY DEF AdmissionInit, Packed
<1>2. Packed /\ [AdmissionNext]_advars => Packed'
  <2> SUFFICES ASSUME Packed, [AdmissionNext]_advars PROVE Packed'
    OBVIOUS
  <2>1. ASSUME NEW l \in Layer, Wrap(l) PROVE Packed'
    BY <2>1, DropFront DEF Wrap, Packed
  <2> QED BY <2>1 DEF AdmissionNext, advars, Packed
<1> QED BY <1>1, <1>2, PTL DEF AdmissionSpec

(* What is filed is what he meant, under the name it has, for packaging of any depth and *)
(* every claim: her name or gender is in his store by no door, what is stored begins     *)
(* with the claim, a marker in front loses no fact, and a credential is filed as one     *)
(* (normalize_fact, admit_to_user_store, is_memorable, classify). *)
THEOREM AlwaysFiledAsMeant == AdmissionSpec => []FiledAsMeant
<1>1. ASSUME Packed PROVE FiledAsMeant
  <2>t. layers \in Seq(Layer)
    BY <1>1 DEF Packed
  <2>1. HersIsHers
    <3>1. \A x : Admit(x, "user").stored => claim.asserts = "his"
      BY AdmitStores DEF AdmitToUserStore
    <3>2. Capture(layers).stored => claim.asserts = "his"
      BY <3>1, CaptureStores
    <3> QED BY <3>1, <3>2 DEF HersIsHers
  <2>2. SecretKept
    <3>1. claim.secret => Classify = "private-secret"
      BY DEF Classify
    <3>2. \A x, who : Admit(x, who).stored => Admit(x, who).class = Classify
      BY AdmitStores
    <3>3. Capture(layers).stored => Capture(layers).class = Classify
      BY <3>2, CaptureStores
    <3> QED BY <3>1, <3>2, <3>3 DEF SecretKept
  <2>3. Unwrapped
    <3> SUFFICES ASSUME Capture(layers).stored
                 PROVE  Outermost(Capture(layers).text) \notin {"bullet", "verb", "please", "prefix"}
      BY DEF Unwrapped
    <3> DEFINE h == DropHats(layers)
    <3>1. Capture(layers).text = NormalizeFact(h)
      BY CaptureStores, AdmitStores
    <3>2. h \in Seq(Layer)
      BY <2>t, DropLeaves DEF DropHats
    <3> HIDE DEF h
    <3>3. NormalizeFact(h) # <<>> => NormalizeFact(h)[1] \notin {"bullet", "verb", "please", "prefix"}
      BY <3>2, DropLeaves DEF NormalizeFact
    <3>4. Outermost(NormalizeFact(h)) \notin {"bullet", "verb", "please", "prefix"}
      BY <3>3 DEF Outermost
    <3> QED BY <3>1, <3>4
  <2>4. HatOff
    <3> SUFFICES ASSUME claim.frame = "none"
                 PROVE  /\ Capture(layers).stored => Capture(<<"hat">> \o layers).stored
                        /\ \A who \in {"user", "self"} :
                              Admit(layers, who).stored => Admit(<<"hat">> \o layers, who).stored
      BY DEF HatOff
    <3> DEFINE v == <<"hat">> \o layers
    <3>1. /\ DropHats(v) = DropHats(layers) /\ NormalizeFact(v) = v
          /\ IsMemorable(layers) => IsMemorable(v)
          /\ IsMemorable(NormalizeFact(layers)) => IsMemorable(v)
      BY <2>t, HatInFront
    <3> HIDE DEF v
    <3>2. Capture(layers).stored => Capture(v).stored
      BY <3>1, CaptureStores
    <3>3. \A who : Admit(layers, who).stored => Admit(v, who).stored
      BY <3>1, AdmitStores
    <3> QED BY <3>2, <3>3 DEF v
  <2> QED BY <2>1, <2>2, <2>3, <2>4 DEF FiledAsMeant
<1> QED BY <1>1, DoorTypes, PTL

-----------------------------------------------------------------------------
(***************************************************************************)
(* The invariance test.  A map is a finite set of moved points, and each   *)
(* point is moved once; of two points out of order the nearest two are     *)
(* neighbours, and a pathology is the work of two points at most.          *)
(***************************************************************************)
MapInv == /\ pts \subseteq Points \X Points
          /\ \A p, q \in pts : p[1] = q[1] => p = q

Ordered(P) == \A p, q \in P : p[1] < q[1] => p[2] < q[2]

LEMMA PointsAre ==
    ASSUME NEW P \in SUBSET (Points \X Points)
    PROVE  \A p \in P : /\ p[1] \in Int /\ Lo <= p[1] /\ p[1] <= Hi
                        /\ p[2] \in Int /\ Lo <= p[2] /\ p[2] <= Hi
  BY AxisAssumption DEF Points

(* Neighbours in order are enough: of two points out of order, two that are nearest to   *)
(* each other have nothing between them. *)
LEMMA NeighboursSuffice ==
    ASSUME NEW P \in SUBSET (Points \X Points)
    PROVE  StrictlyIncreasing(P) <=> Ordered(P)
<1>1. ASSUME Ordered(P) PROVE StrictlyIncreasing(P)
  BY <1>1 DEF Ordered, StrictlyIncreasing, Neighbours
<1>2. ASSUME StrictlyIncreasing(P), ~Ordered(P) PROVE FALSE
  <2> DEFINE Wrong == {d \in Nat : \E p, q \in P : p[1] < q[1] /\ ~(p[2] < q[2]) /\ q[1] - p[1] = d}
  <2>1. Wrong \in SUBSET Nat /\ Wrong # {}
    <3>1. PICK p \in P, q \in P : p[1] < q[1] /\ ~(p[2] < q[2])
      BY <1>2 DEF Ordered
    <3>2. p[1] \in Int /\ q[1] \in Int
      BY PointsAre
    <3>3. q[1] - p[1] \in Nat
      BY <3>1, <3>2
    <3>4. q[1] - p[1] \in Wrong
      BY <3>1, <3>3
    <3> QED BY <3>4
  <2>2. First(Wrong) \in Wrong /\ \A d \in Wrong : First(Wrong) <= d
    BY <2>1, FirstIn
  <2>3. PICK p \in P, q \in P : p[1] < q[1] /\ ~(p[2] < q[2]) /\ q[1] - p[1] = First(Wrong)
    BY <2>2
  <2>4. PICK r \in P : p[1] < r[1] /\ r[1] < q[1]
    BY <1>2, <2>3 DEF StrictlyIncreasing, Neighbours
  <2>5. /\ p[1] \in Int /\ q[1] \in Int /\ r[1] \in Int
        /\ p[2] \in Int /\ q[2] \in Int /\ r[2] \in Int
    BY PointsAre
  <2>6. /\ r[1] - p[1] \in Nat /\ r[1] - p[1] < q[1] - p[1]
        /\ q[1] - r[1] \in Nat /\ q[1] - r[1] < q[1] - p[1]
    BY <2>4, <2>5
  <2>7. r[1] - p[1] \notin Wrong /\ q[1] - r[1] \notin Wrong
    <3>1. First(Wrong) \in Int /\ First(Wrong) = q[1] - p[1] /\ \A d \in Wrong : First(Wrong) <= d
      BY <2>2, <2>3, <2>5
    <3> HIDE DEF Wrong
    <3> QED BY <2>5, <2>6, <3>1
  <2>8. p[2] < r[2] /\ r[2] < q[2]
    BY <2>4, <2>6, <2>7
  <2> QED BY <2>3, <2>5, <2>8
<1> QED BY <1>1, <1>2

(* What the two tests say of a map of the axis. *)
LEMMA AdmissibleIs ==
    ASSUME NEW P \in SUBSET (Points \X Points)
    PROVE  Admissible(P) <=> Ordered(P) /\ ~Pathology(P)
<1>1. OnAxis(P)
  BY DEF OnAxis
<1>2. P = {} => Ordered(P) /\ ~Pathology(P)
  BY DEF Ordered, Pathology, Lifts, LiftsBack
<1> QED BY <1>1, <1>2, NeighboursSuffice DEF Admissible

LEMMA LocalGlobal ==
    ASSUME MapInv
    PROVE  LocalIsGlobal
<1>1. pts \in SUBSET (Points \X Points)
  BY DEF MapInv
<1>2. CASE \A p, q \in pts : p = q
  BY <1>2 DEF LocalIsGlobal, AdmissiblePairwise
<1>3. CASE ~(\A p, q \in pts : p = q)
  <2>1. AdmissiblePairwise(pts) <=> \A R \in Pairs(pts) : Admissible(R)
    BY <1>3 DEF AdmissiblePairwise
  <2>2. \A p, q \in pts : p # q => {p, q} \in Pairs(pts)
    BY DEF Pairs
  <2>3. \A R \in Pairs(pts) : R \subseteq pts /\ R \in SUBSET (Points \X Points)
    BY <1>1 DEF Pairs
  <2>4. ASSUME Admissible(pts), NEW R \in Pairs(pts) PROVE Admissible(R)
    <3>1. Ordered(pts) /\ ~Pathology(pts)
      BY <1>1, <2>4, AdmissibleIs
    <3>2. Ordered(R)
      BY <2>3, <3>1 DEF Ordered
    <3>3. ~Pathology(R)
      BY <2>3, <3>1 DEF Pathology, Lifts, ReachedInside, LiftsBack, PullsInside
    <3> QED BY <2>3, <3>2, <3>3, AdmissibleIs
  <2>5. ASSUME \A R \in Pairs(pts) : Admissible(R) PROVE Admissible(pts)
    <3>1. ASSUME NEW p \in pts, NEW q \in pts
          PROVE  \E R \in Pairs(pts) : p \in R /\ q \in R /\ Ordered(R) /\ ~Pathology(R)
      <4>1. \E r \in pts : r # p
        BY <1>3
      <4>2. \E R \in Pairs(pts) : p \in R /\ q \in R
        BY <2>2, <4>1
      <4> QED BY <2>3, <2>5, <4>2, AdmissibleIs
    <3>2. Ordered(pts)
      BY <3>1 DEF Ordered
    <3>3. ~Pathology(pts)
      <4> SUFFICES ASSUME Pathology(pts) PROVE FALSE
        OBVIOUS
      <4>1. CASE Lifts(pts) /\ ReachedInside(pts)
        <5>1. PICK p \in pts, q \in pts : p[1] = Lo /\ Lo < p[2] /\ q[2] = Hi /\ q[1] < Hi
          BY <4>1 DEF Lifts, ReachedInside
        <5>2. PICK R \in Pairs(pts) : p \in R /\ q \in R /\ ~Pathology(R)
          BY <3>1
        <5> QED BY <5>1, <5>2 DEF Pathology, Lifts, ReachedInside
      <4>2. CASE LiftsBack(pts) /\ PullsInside(pts)
        <5>1. PICK p \in pts, q \in pts : p[2] = Lo /\ Lo < p[1] /\ q[1] = Hi /\ q[2] < Hi
          BY <4>2 DEF LiftsBack, PullsInside
        <5>2. PICK R \in Pairs(pts) : p \in R /\ q \in R /\ ~Pathology(R)
          BY <3>1
        <5> QED BY <5>1, <5>2 DEF Pathology, LiftsBack, PullsInside
      <4> QED BY <4>1, <4>2 DEF Pathology
    <3> QED BY <1>1, <3>2, <3>3, AdmissibleIs
  <2> QED BY <2>1, <2>4, <2>5 DEF LocalIsGlobal
<1> QED BY <1>2, <1>3

LEMMA AdmitsTheUsable ==
    ASSUME MapInv
    PROVE  AdmitsUsable
<1>1. pts \in SUBSET (Points \X Points)
  BY DEF MapInv
<1>2. \A p \in pts : (Lo < p[1] <=> p[1] # Lo) /\ (Lo < p[2] <=> p[2] # Lo)
                    /\ (p[1] < Hi <=> p[1] # Hi) /\ (p[2] < Hi <=> p[2] # Hi)
  BY <1>1, PointsAre, AxisAssumption
<1>3. Lifts(pts) /\ ReachedInside(pts) <=> \E p, q \in pts : p[1] = Lo /\ p[2] # Lo /\ q[2] = Hi /\ q[1] # Hi
  BY <1>2, Zenon DEF Lifts, ReachedInside
<1>4. LiftsBack(pts) /\ PullsInside(pts) <=> \E p, q \in pts : p[2] = Lo /\ p[1] # Lo /\ q[1] = Hi /\ q[2] # Hi
  BY <1>2, Zenon DEF LiftsBack, PullsInside
<1>5. Usable(pts) <=> Ordered(pts) /\ ~Pathology(pts)
  BY <1>3, <1>4 DEF Usable, Ordered, Pathology
<1> QED BY <1>1, <1>5, AdmissibleIs DEF AdmitsUsable

(* The local test of an axis and the global one agree on every map of every bounded     *)
(* axis, and it admits a map exactly when the theorem calls it usable (admissible,      *)
(* admissible_pairwise). *)
THEOREM LocalTestIsRight == InvarianceSpec => []AxisTest
<1>1. InvarianceInit => MapInv
  BY DEF InvarianceInit, MapInv
<1>2. MapInv /\ [InvarianceNext]_pts => MapInv'
  <2> SUFFICES ASSUME MapInv, [InvarianceNext]_pts PROVE MapInv'
    OBVIOUS
  <2>1. ASSUME NEW a \in Points, NEW b \in Points, Move(a, b) PROVE MapInv'
    <3>1. pts' = pts \cup {<<a, b>>} /\ \A p \in pts : p[1] # a
      BY <2>1 DEF Move
    <3> QED BY <3>1 DEF MapInv
  <2>2. CASE pts' = pts
    BY <2>2 DEF MapInv
  <2> QED BY <2>1, <2>2 DEF InvarianceNext
<1>3. MapInv => AxisTest
  BY LocalGlobal, AdmitsTheUsable DEF AxisTest
<1> QED BY <1>1, <1>2, <1>3, PTL DEF InvarianceSpec
=============================================================================
