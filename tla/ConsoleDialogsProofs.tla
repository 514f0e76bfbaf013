------------------------- MODULE ConsoleDialogsProofs -------------------------
(***************************************************************************)
(* Proofs about the console's dialogs and its review, for any number of    *)
(* parameters, kubeconfigs, requests in flight, jobs and writes, and texts *)
(* of any length.                                                          *)
(*                                                                         *)
(* Of the review, TableIsBound is the heart: every filled cell of the      *)
(* table bounds the matchings of the two texts from there on, because a    *)
(* matching that uses neither or only one of two differing lines is one of *)
(* a smaller pair of suffixes, and one that uses either of two equal lines *)
(* loses at most a pair with them.  The walk keeps what it has left alone  *)
(* plus what the table promises equal to the first cell.                   *)
(***************************************************************************)
EXTENDS ConsoleDialogs, FiniteSetTheorems, TLAPS

(***************************************************************************)
(* One task at a time: a dialog's variables change by its own steps only.  *)
(***************************************************************************)
LEMMA OneTask ==
  /\ Init => ProvisionInit /\ ImportInit /\ AdminInit /\ ReviewInit
  /\ [Next]_vars => /\ [ProvisionNext]_provisionVars /\ [ImportNext]_importVars
                    /\ [AdminNext]_adminVars /\ [ReviewNext]_reviewVars
<1>1. Init => ProvisionInit /\ ImportInit /\ AdminInit /\ ReviewInit
  BY DEF Init
<1>2. ASSUME [Next]_vars
      PROVE  /\ [ProvisionNext]_provisionVars /\ [ImportNext]_importVars
             /\ [AdminNext]_adminVars /\ [ReviewNext]_reviewVars
  BY <1>2 DEF Next, vars
<1> QED
  BY <1>1, <1>2

-----------------------------------------------------------------------------
LEMMA TextsAreLines ==
  \A t \in Texts : t \in Seq(Line) /\ Len(t) \in Nat /\ Len(t) >= 1
<1> SUFFICES ASSUME NEW n \in 1..MaxLines, NEW t \in [1..n -> Line]
             PROVE  t \in Seq(Line) /\ Len(t) \in Nat /\ Len(t) >= 1
  BY DEF Texts
<1>1. n \in Nat /\ n >= 1
  BY LineAssumption
<1> QED
  BY <1>1

-----------------------------------------------------------------------------
(* Matchings.                                                              *)
LEMMA MatchingsAreFinite ==
  ASSUME left \in Seq(Line), right \in Seq(Line),
         NEW a \in Nat, NEW b \in Nat, NEW M, IsMatching(M, a, b)
  PROVE  IsFiniteSet(M) /\ Cardinality(M) \in Nat
<1>1. IsFiniteSet(a..Len(left)) /\ IsFiniteSet(b..Len(right))
  BY FS_Interval
<1>2. IsFiniteSet((a..Len(left)) \X (b..Len(right)))
  BY <1>1, FS_Product
<1>3. IsFiniteSet(M)
  BY <1>2, FS_Subset DEF IsMatching
<1> QED
  BY <1>3, FS_CardinalityType

(* Past the end of a text there is nothing to match.                       *)
LEMMA EndMatchesNothing ==
  ASSUME left \in Seq(Line), right \in Seq(Line),
         NEW a \in 1..Len(left) + 1, NEW b \in 1..Len(right) + 1,
         a = Len(left) + 1 \/ b = Len(right) + 1,
         NEW M, IsMatching(M, a, b)
  PROVE  Cardinality(M) = 0
<1>1. M = {}
  BY DEF IsMatching
<1> QED
  BY <1>1, FS_EmptySet

(* Two lines that differ are not both matched.                             *)
LEMMA DifferingLines ==
  ASSUME left \in Seq(Line), right \in Seq(Line),
         NEW a \in 1..Len(left), NEW b \in 1..Len(right),
         left[a] # right[b],
         NEW M, IsMatching(M, a, b)
  PROVE  IsMatching(M, a + 1, b) \/ IsMatching(M, a, b + 1)
<1>1. ASSUME NEW p \in M, NEW q \in M, p[1] = a, q[2] = b
      PROVE  FALSE
  <2>1. p \in (a..Len(left)) \X (b..Len(right)) /\ q \in (a..Len(left)) \X (b..Len(right))
    BY DEF IsMatching
  <2>2. (p[1] < q[1] <=> p[2] < q[2]) /\ (q[1] < p[1] <=> q[2] < p[2])
    BY DEF IsMatching
  <2>3. p[1] = q[1] /\ p[2] = q[2]
    BY <1>1, <2>1, <2>2
  <2>4. left[p[1]] = right[p[2]]
    BY DEF IsMatching
  <2> QED
    BY <1>1, <2>3, <2>4
<1>2. CASE \A p \in M : p[1] # a
  BY <1>2 DEF IsMatching
<1>3. CASE \A q \in M : q[2] # b
  BY <1>3 DEF IsMatching
<1> QED
  BY <1>1, <1>2, <1>3

(* A matching loses at most one pair when two lines are left out.          *)
LEMMA EqualLines ==
  ASSUME left \in Seq(Line), right \in Seq(Line),
         NEW a \in 1..Len(left), NEW b \in 1..Len(right),
         NEW M, IsMatching(M, a, b)
  PROVE  \E N : IsMatching(N, a + 1, b + 1) /\ Cardinality(M) <= Cardinality(N) + 1
<1>1. IsFiniteSet(M) /\ Cardinality(M) \in Nat
  BY MatchingsAreFinite
<1>2. CASE \A p \in M : p[1] # a /\ p[2] # b
  <2>1. IsMatching(M, a + 1, b + 1)
    BY <1>2 DEF IsMatching
  <2> QED
    BY <1>1, <2>1
<1>3. ASSUME NEW p \in M, p[1] = a \/ p[2] = b
      PROVE  \E N : IsMatching(N, a + 1, b + 1) /\ Cardinality(M) <= Cardinality(N) + 1
  <2> DEFINE N == M \ {p}
  <2>1. ASSUME NEW q \in N
        PROVE  q \in (a + 1..Len(left)) \X (b + 1..Len(right))
    <3>1. p \in (a..Len(left)) \X (b..Len(right)) /\ q \in (a..Len(left)) \X (b..Len(right))
      BY DEF IsMatching
    <3>2. (p[1] < q[1] <=> p[2] < q[2]) /\ (q[1] < p[1] <=> q[2] < p[2])
      BY DEF IsMatching
    <3>3. p[1] # q[1] \/ p[2] # q[2]
      BY <3>1
    <3>4. q[1] >= a + 1 /\ q[2] >= b + 1
      BY <1>3, <3>1, <3>2, <3>3
    <3> QED
      BY <3>1, <3>4
  <2>2. IsMatching(N, a + 1, b + 1)
    BY <2>1 DEF IsMatching
  <2>3. Cardinality(N) = Cardinality(M) - 1
    BY <1>1, FS_RemoveElement
  <2> QED
    BY <1>1, <2>2, <2>3
<1> QED
  BY <1>2, <1>3

-----------------------------------------------------------------------------
(* The phases: the walk's numbers are its positions, and it ends at the    *)
(* ends of both texts.                                                     *)
Phases ==
  /\ Len(left) >= 1 /\ Len(right) >= 1
  /\ pc = "table" => /\ i <= Len(left) /\ j <= Len(right)
                     /\ leftNumber = 1 /\ rightNumber = 1
                     /\ result = <<>> /\ read = 0
  /\ pc # "table" => leftNumber = i /\ rightNumber = j
  /\ pc \in {"rows", "done"} => i = Len(left) + 1 /\ j = Len(right) + 1

(* What is on the rows is well formed, whatever it is.                     *)
Bookkeeping == ReviewTypeOK /\ Phases

LEMMA BookkeepingInit == ReviewInit => Bookkeeping
<1> SUFFICES ASSUME ReviewInit PROVE Bookkeeping
  OBVIOUS
<1>1. left \in Seq(Line) /\ right \in Seq(Line)
  BY LineAssumption DEF ReviewInit
<1>2. Len(left) = 1 /\ Len(right) = 1
  BY DEF ReviewInit
<1>3. dp \in [Cells -> Nat]
  BY DEF ReviewInit
<1> QED
  BY <1>1, <1>2, <1>3 DEF ReviewInit, Bookkeeping, ReviewTypeOK, Phases

LEMMA EntryIsNat ==
  ASSUME ReviewTypeOK, NEW a \in 1..Len(left), NEW b \in 1..Len(right)
  PROVE  Entry(a, b) \in Nat
<1>1. Len(left) \in Nat /\ Len(right) \in Nat
  BY DEF ReviewTypeOK
<1>2. <<a + 1, b + 1>> \in Cells /\ <<a + 1, b>> \in Cells /\ <<a, b + 1>> \in Cells
  BY <1>1 DEF Cells
<1>3. dp[<<a + 1, b + 1>>] \in Nat /\ dp[<<a + 1, b>>] \in Nat /\ dp[<<a, b + 1>>] \in Nat
  BY <1>2 DEF ReviewTypeOK
<1> QED
  BY <1>3 DEF Entry

LEMMA PushTypes ==
  ASSUME ReviewTypeOK, NEW type \in Kinds, NEW content \in Line, NEW l \in Nat, NEW r \in Nat,
         Push(type, content, l, r)
  PROVE  result' \in Seq(DiffLines) /\ Len(result') = Len(result) + 1
<1>1. [type |-> type, content |-> content, leftNumber |-> l, rightNumber |-> r] \in DiffLines
  BY DEF DiffLines
<1> QED
  BY <1>1 DEF Push, ReviewTypeOK

LEMMA PairsAreRows == ReviewTypeOK => Pairs \in Seq(DiffRows)
<1> SUFFICES ASSUME ReviewTypeOK PROVE Pairs \in Seq(DiffRows)
  OBVIOUS
<1>1. \A n \in Nat : /\ At(pendingRemoved, n) \in DiffLines \cup {None}
                     /\ At(pendingAdded, n) \in DiffLines \cup {None}
  BY DEF ReviewTypeOK, At
<1> DEFINE n == IF Len(pendingRemoved) >= Len(pendingAdded)
                THEN Len(pendingRemoved) ELSE Len(pendingAdded)
<1>2. n \in Nat
  BY DEF ReviewTypeOK
<1>3. Pairs \in [1..n -> DiffRows]
  BY <1>1, <1>2 DEF Pairs, DiffRows
<1> QED
  BY <1>2, <1>3

LEMMA BookkeepingStep == Bookkeeping /\ [ReviewNext]_reviewVars => Bookkeeping'
<1> SUFFICES ASSUME Bookkeeping, [ReviewNext]_reviewVars PROVE Bookkeeping'
  OBVIOUS
<1> USE DEF Bookkeeping
<1>0. Len(left) \in Nat /\ Len(right) \in Nat
  BY DEF ReviewTypeOK
<1>1. CASE FillCell
  <2>1. Entry(i, j) \in Nat
    BY <1>1, EntryIsNat DEF FillCell, ReviewTypeOK, Phases
  <2>2. dp' \in [Cells -> Nat]
    BY <1>1, <2>1 DEF FillCell, ReviewTypeOK
  <2> QED
    BY <1>0, <1>1, <2>2 DEF FillCell, ReviewTypeOK, Phases, Cells, walkVars, rowVars
<1>2. CASE PushUnchanged
  <2>1. left[i] \in Line
    BY <1>2 DEF PushUnchanged, Same, MoreLeft, ReviewTypeOK
  <2>2. result' \in Seq(DiffLines) /\ Len(result') = Len(result) + 1
    BY <1>2, <2>1, PushTypes DEF PushUnchanged, ReviewTypeOK, Kinds
  <2> QED
    BY <1>0, <1>2, <2>2
    DEF PushUnchanged, Same, MoreLeft, MoreRight, ReviewTypeOK, Phases, Cells, rowVars
<1>3. CASE PushRemoved
  <2>1. left[i] \in Line
    BY <1>3 DEF PushRemoved, MoreLeft, ReviewTypeOK
  <2>2. result' \in Seq(DiffLines) /\ Len(result') = Len(result) + 1
    BY <1>3, <2>1, PushTypes DEF PushRemoved, ReviewTypeOK, Kinds
  <2> QED
    BY <1>0, <1>3, <2>2 DEF PushRemoved, MoreLeft, ReviewTypeOK, Phases, Cells, rowVars
<1>4. CASE PushAdded
  <2>1. right[j] \in Line
    BY <1>4 DEF PushAdded, MoreRight, ReviewTypeOK
  <2>2. result' \in Seq(DiffLines) /\ Len(result') = Len(result) + 1
    BY <1>4, <2>1, PushTypes DEF PushAdded, ReviewTypeOK, Kinds
  <2> QED
    BY <1>0, <1>4, <2>2 DEF PushAdded, MoreRight, ReviewTypeOK, Phases, Cells, rowVars
<1>5. CASE EndWalk
  BY <1>0, <1>5 DEF EndWalk, MoreLeft, MoreRight, ReviewTypeOK, Phases, Cells, tableVars,
                    walkVars, rowVars
<1>6. CASE ReadLine
  <2>1. result[read + 1] \in DiffLines
    BY <1>6 DEF ReadLine, ReviewTypeOK
  <2>2. Pairs \in Seq(DiffRows)
    BY PairsAreRows
  <2> DEFINE line == result[read + 1]
  <2>3. line \in DiffLines
    BY <2>1
  <2>4. \/ flushPending
        \/ pendingRemoved' = Append(pendingRemoved, line) /\ UNCHANGED <<pendingAdded, rows>>
        \/ pendingAdded' = Append(pendingAdded, line) /\ UNCHANGED <<pendingRemoved, rows>>
    BY <1>6 DEF ReadLine
  <2> HIDE DEF line
  <2>5. /\ pendingRemoved' \in Seq(DiffLines) /\ pendingAdded' \in Seq(DiffLines)
        /\ rows' \in Seq(DiffRows)
    <3>1. CASE flushPending
      BY <2>2, <3>1 DEF ReviewTypeOK, flushPending
    <3>2. CASE pendingRemoved' = Append(pendingRemoved, line) /\ UNCHANGED <<pendingAdded, rows>>
      BY <2>3, <3>2 DEF ReviewTypeOK
    <3>3. CASE pendingAdded' = Append(pendingAdded, line) /\ UNCHANGED <<pendingRemoved, rows>>
      BY <2>3, <3>3 DEF ReviewTypeOK
    <3> QED
      BY <2>4, <3>1, <3>2, <3>3
  <2> QED
    BY <1>0, <1>6, <2>5 DEF ReadLine, ReviewTypeOK, Phases, Cells, tableVars, walkVars
<1>7. CASE LastFlush
  <2>1. rows' \in Seq(DiffRows)
    BY <1>7, PairsAreRows DEF LastFlush, ReviewTypeOK, flushPending
  <2> QED
    BY <1>0, <1>7, <2>1
    DEF LastFlush, ReviewTypeOK, Phases, Cells, tableVars, walkVars, flushPending
<1>8. CASE Compare
  <2>1. /\ left' \in Seq(Line) /\ Len(left') \in Nat /\ Len(left') >= 1
        /\ right' \in Seq(Line) /\ Len(right') \in Nat /\ Len(right') >= 1
    BY <1>8, TextsAreLines DEF Compare
  <2>2. dp' \in [Cells' -> Nat]
    BY <1>8 DEF Compare, Cells
  <2> QED
    BY <1>0, <1>8, <2>1, <2>2 DEF Compare, ReviewTypeOK, Phases
<1>9. CASE UNCHANGED reviewVars
  BY <1>9 DEF reviewVars, ReviewTypeOK, Phases, Cells
<1> QED
  BY <1>1, <1>2, <1>3, <1>4, <1>5, <1>6, <1>7, <1>8, <1>9 DEF ReviewNext, Walk

-----------------------------------------------------------------------------
(* The comparison is sound.                                                *)

(* ScriptIsSound for the part of the texts the walk has passed.            *)
Sound ==
  pc # "table" => /\ Covers(result, OfLeft, "leftNumber", left, i - 1)
                  /\ Covers(result, OfRight, "rightNumber", right, j - 1)

LEMMA SoundIsEnough == Bookkeeping /\ Sound => ScriptIsSound
<1> SUFFICES ASSUME Bookkeeping, Sound, pc \in {"rows", "done"} PROVE ScriptIsSound
  BY DEF ScriptIsSound
<1>1. i - 1 = Len(left) /\ j - 1 = Len(right)
  BY DEF Bookkeeping, Phases, ReviewTypeOK
<1> QED
  BY <1>1 DEF Sound, ScriptIsSound

(* A comparison that grows by the next line of a text goes on covering it. *)
LEMMA CoverGrows ==
  ASSUME NEW lines \in Seq(DiffLines), NEW K \in SUBSET DOMAIN lines,
         NEW number \in {"leftNumber", "rightNumber"}, NEW text, NEW m \in Nat,
         Covers(lines, K, number, text, m),
         NEW line \in DiffLines, line[number] = m + 1, line.content = text[m + 1]
  PROVE  Covers(Append(lines, line), K \cup {Len(lines) + 1}, number, text, m + 1)
<1> DEFINE more == Append(lines, line)
           last == Len(lines) + 1
<1>1. /\ more[last] = line
      /\ \A k \in K : k \in Nat /\ k < last /\ more[k] = lines[k]
  OBVIOUS
<1> HIDE DEF more
<1>2. last \in Nat
  OBVIOUS
<1> HIDE DEF last
<1>3. \A k \in K \cup {last} : /\ more[k][number] \in 1..(m + 1)
                              /\ more[k].content = text[more[k][number]]
  BY <1>1 DEF Covers
<1>4. \A k, l \in K \cup {last} : k < l => more[k][number] < more[l][number]
  BY <1>1, <1>2 DEF Covers
<1>5. \A n \in 1..(m + 1) : \E k \in K \cup {last} : more[k][number] = n
  BY <1>1 DEF Covers
<1> QED
  BY <1>3, <1>4, <1>5 DEF Covers, more, last

(* A line that is not of a text leaves what covers it alone.               *)
LEMMA CoverStays ==
  ASSUME NEW lines \in Seq(DiffLines), NEW K \in SUBSET DOMAIN lines,
         NEW number, NEW text, NEW m, NEW line,
         Covers(lines, K, number, text, m)
  PROVE  Covers(Append(lines, line), K, number, text, m)
<1>1. \A k \in K : Append(lines, line)[k] = lines[k]
  OBVIOUS
<1> QED
  BY <1>1 DEF Covers

(* What pushing a line does to the lines and to those of either side.      *)
LEMMA PushGrows ==
  ASSUME ReviewTypeOK, NEW type \in Kinds, NEW content, NEW l, NEW r,
         Push(type, content, l, r)
  PROVE  /\ DOMAIN result' = DOMAIN result \cup {Len(result) + 1}
         /\ \A k \in DOMAIN result : k \in Nat /\ k < Len(result) + 1 /\ result'[k] = result[k]
         /\ result'[Len(result) + 1] = [type |-> type, content |-> content,
                                        leftNumber |-> l, rightNumber |-> r]
         /\ OfLeft' = OfLeft \cup (IF type = "added" THEN {} ELSE {Len(result) + 1})
         /\ OfRight' = OfRight \cup (IF type = "removed" THEN {} ELSE {Len(result) + 1})
         /\ Unchanged' = Unchanged \cup (IF type = "unchanged" THEN {Len(result) + 1} ELSE {})
<1>1. Len(result) \in Nat /\ result \in Seq(DiffLines)
  BY DEF ReviewTypeOK
<1>2. /\ DOMAIN result' = DOMAIN result \cup {Len(result) + 1}
      /\ \A k \in DOMAIN result : k \in Nat /\ k < Len(result) + 1 /\ result'[k] = result[k]
      /\ result'[Len(result) + 1] = [type |-> type, content |-> content,
                                     leftNumber |-> l, rightNumber |-> r]
  BY <1>1 DEF Push
<1>3. result'[Len(result) + 1].type = type
  BY <1>2
<1> HIDE DEF Push
<1>4. OfLeft' = OfLeft \cup (IF type = "added" THEN {} ELSE {Len(result) + 1})
  BY <1>2, <1>3 DEF OfLeft
<1>5. OfRight' = OfRight \cup (IF type = "removed" THEN {} ELSE {Len(result) + 1})
  BY <1>2, <1>3 DEF OfRight
<1>6. Unchanged' = Unchanged \cup (IF type = "unchanged" THEN {Len(result) + 1} ELSE {})
  BY <1>2, <1>3 DEF Unchanged
<1> QED
  BY <1>2, <1>4, <1>5, <1>6

LEMMA SoundStep == Bookkeeping /\ Sound /\ [ReviewNext]_reviewVars => Sound'
<1> SUFFICES ASSUME Bookkeeping, Sound, [ReviewNext]_reviewVars PROVE Sound'
  OBVIOUS
<1>0. /\ ReviewTypeOK /\ Phases /\ result \in Seq(DiffLines)
      /\ Len(left) \in Nat /\ Len(right) \in Nat /\ i - 1 \in Nat /\ j - 1 \in Nat
      /\ OfLeft \in SUBSET DOMAIN result /\ OfRight \in SUBSET DOMAIN result
  BY DEF Bookkeeping, ReviewTypeOK, OfLeft, OfRight
<1> DEFINE line(type, content, l, r) == [type |-> type, content |-> content,
                                         leftNumber |-> l, rightNumber |-> r]
<1>1. CASE FillCell
  <2>1. pc' = "table" \/ (i' = 1 /\ j' = 1 /\ result' = <<>>)
    BY <1>0, <1>1 DEF FillCell, Phases, ReviewTypeOK, walkVars
  <2>2. CASE i' = 1 /\ j' = 1 /\ result' = <<>>
    <3>1. OfLeft' = {} /\ OfRight' = {} /\ i' - 1 = 0 /\ j' - 1 = 0
      BY <2>2 DEF OfLeft, OfRight
    <3> QED
      BY <3>1 DEF Sound, Covers
  <2> QED
    BY <2>1, <2>2 DEF Sound
<1>2. CASE PushUnchanged
  <2> DEFINE new == line("unchanged", left[i], i, j)
  <2>1. /\ Push("unchanged", left[i], i, j) /\ left[i] = right[j] /\ left[i] \in Line
        /\ left' = left /\ right' = right /\ i' - 1 = i /\ j' - 1 = j /\ pc = "walk"
    BY <1>0, <1>2 DEF PushUnchanged, Same, MoreLeft, Phases, ReviewTypeOK
  <2>2. result' = Append(result, new)
    BY <2>1 DEF Push
  <2>3. OfLeft' = OfLeft \cup {Len(result) + 1} /\ OfRight' = OfRight \cup {Len(result) + 1}
    BY <1>0, <2>1, PushGrows DEF Kinds
  <2>4. /\ new \in DiffLines /\ new.content = left[i] /\ new.content = right[j]
        /\ new["leftNumber"] = (i - 1) + 1 /\ new["rightNumber"] = (j - 1) + 1
    BY <1>0, <2>1 DEF DiffLines, Kinds, ReviewTypeOK
  <2>5. Covers(result', OfLeft', "leftNumber", left, (i - 1) + 1)
    BY <1>0, <2>1, <2>2, <2>3, <2>4, CoverGrows DEF Sound
  <2>6. Covers(result', OfRight', "rightNumber", right, (j - 1) + 1)
    BY <1>0, <2>1, <2>2, <2>3, <2>4, CoverGrows DEF Sound
  <2> QED
    BY <1>0, <2>1, <2>5, <2>6 DEF Sound, ReviewTypeOK
<1>3. CASE PushRemoved
  <2> DEFINE new == line("removed", left[i], i, 0)
  <2>1. /\ Push("removed", left[i], i, 0) /\ left[i] \in Line
        /\ left' = left /\ right' = right /\ i' - 1 = i /\ j' = j /\ pc = "walk"
    BY <1>0, <1>3 DEF PushRemoved, MoreLeft, Phases, ReviewTypeOK
  <2>2. result' = Append(result, new)
    BY <2>1 DEF Push
  <2>3. OfLeft' = OfLeft \cup {Len(result) + 1} /\ OfRight' = OfRight
    BY <1>0, <2>1, PushGrows DEF Kinds
  <2>4. new \in DiffLines /\ new.content = left[i] /\ new["leftNumber"] = (i - 1) + 1
    BY <1>0, <2>1 DEF DiffLines, Kinds, ReviewTypeOK
  <2>5. Covers(result', OfLeft', "leftNumber", left, (i - 1) + 1)
    BY <1>0, <2>1, <2>2, <2>3, <2>4, CoverGrows DEF Sound
  <2>6. Covers(result', OfRight', "rightNumber", right, j - 1)
    BY <1>0, <2>1, <2>2, <2>3, CoverStays DEF Sound
  <2> QED
    BY <1>0, <2>1, <2>5, <2>6 DEF Sound, ReviewTypeOK
<1>4. CASE PushAdded
  <2> DEFINE new == line("added", right[j], 0, j)
  <2>1. /\ Push("added", right[j], 0, j) /\ right[j] \in Line
        /\ left' = left /\ right' = right /\ j' - 1 = j /\ i' = i /\ pc = "walk"
    BY <1>0, <1>4 DEF PushAdded, MoreRight, Phases, ReviewTypeOK
  <2>2. result' = Append(result, new)
    BY <2>1 DEF Push
  <2>3. OfRight' = OfRight \cup {Len(result) + 1} /\ OfLeft' = OfLeft
    BY <1>0, <2>1, PushGrows DEF Kinds
  <2>4. new \in DiffLines /\ new.content = right[j] /\ new["rightNumber"] = (j - 1) + 1
    BY <1>0, <2>1 DEF DiffLines, Kinds, ReviewTypeOK
  <2>5. Covers(result', OfRight', "rightNumber", right, (j - 1) + 1)
    BY <1>0, <2>1, <2>2, <2>3, <2>4, CoverGrows DEF Sound
  <2>6. Covers(result', OfLeft', "leftNumber", left, i - 1)
    BY <1>0, <2>1, <2>2, <2>3, CoverStays DEF Sound
  <2> QED
    BY <1>0, <2>1, <2>5, <2>6 DEF Sound, ReviewTypeOK
<1>5. CASE EndWalk
  BY <1>5 DEF EndWalk, Sound, OfLeft, OfRight, tableVars, walkVars
<1>6. CASE ReadLine
  BY <1>6 DEF ReadLine, Sound, OfLeft, OfRight, tableVars, walkVars
<1>7. CASE LastFlush
  BY <1>7 DEF LastFlush, Sound, OfLeft, OfRight, tableVars, walkVars
<1>8. CASE Compare
  BY <1>8 DEF Compare, Sound
<1>9. CASE UNCHANGED reviewVars
  BY <1>9 DEF reviewVars, Sound, OfLeft, OfRight
<1> QED
  BY <1>1, <1>2, <1>3, <1>4, <1>5, <1>6, <1>7, <1>8, <1>9 DEF ReviewNext, Walk

(* The comparison a reviewer reads accounts for every line of both texts,  *)
(* once, in order and under its own number (buildYamlDiffLines).           *)
THEOREM ReviewIsSound == Spec => []ScriptIsSound
<1>1. ReviewInit => Sound
  BY DEF ReviewInit, Sound
<1> QED
  BY OneTask, BookkeepingInit, BookkeepingStep, <1>1, SoundStep, SoundIsEnough, PTL DEF Spec

-----------------------------------------------------------------------------
(* The comparison is shortest.                                             *)

(* The cells filled so far, with the border that is never filled.          *)
Filled(a, b) ==
  \/ pc # "table"
  \/ a > Len(left) \/ b > Len(right)
  \/ a > i \/ (a = i /\ b > j)

(* A filled cell follows the recurrence, and the border is 0.              *)
TableIsFilled ==
  \A a \in 1..Len(left) + 1, b \in 1..Len(right) + 1 :
    Filled(a, b) =>
      dp[<<a, b>>] = IF a > Len(left) \/ b > Len(right) THEN 0 ELSE Entry(a, b)

(* A filled cell bounds what can be matched from there on.                 *)
TableIsBound ==
  \A a \in 1..Len(left) + 1, b \in 1..Len(right) + 1 :
    Filled(a, b) => \A M : IsMatching(M, a, b) => Cardinality(M) <= dp[<<a, b>>]

(* What has been left alone and what the table promises.                   *)
PromiseIsKept ==
  pc # "table" =>
    /\ IsFiniteSet(Unchanged)
    /\ Cardinality(Unchanged) + dp[<<i, j>>] = dp[<<1, 1>>]

(* One more cell: the recurrence bounds what can be matched from it.       *)
LEMMA EntryIsBound ==
  ASSUME ReviewTypeOK, NEW a \in 1..Len(left), NEW b \in 1..Len(right),
         \A M : IsMatching(M, a + 1, b + 1) => Cardinality(M) <= dp[<<a + 1, b + 1>>],
         \A M : IsMatching(M, a + 1, b) => Cardinality(M) <= dp[<<a + 1, b>>],
         \A M : IsMatching(M, a, b + 1) => Cardinality(M) <= dp[<<a, b + 1>>],
         NEW M, IsMatching(M, a, b)
  PROVE  Cardinality(M) <= Entry(a, b)
<1>1. Len(left) \in Nat /\ Len(right) \in Nat /\ left \in Seq(Line) /\ right \in Seq(Line)
  BY DEF ReviewTypeOK
<1>2. <<a + 1, b + 1>> \in Cells /\ <<a + 1, b>> \in Cells /\ <<a, b + 1>> \in Cells
  BY <1>1 DEF Cells
<1>3. dp[<<a + 1, b + 1>>] \in Nat /\ dp[<<a + 1, b>>] \in Nat /\ dp[<<a, b + 1>>] \in Nat
  BY <1>2 DEF ReviewTypeOK
<1>4. a \in Nat /\ b \in Nat /\ Cardinality(M) \in Nat
  BY <1>1, MatchingsAreFinite
<1>5. CASE left[a] = right[b]
  <2>1. PICK N : IsMatching(N, a + 1, b + 1) /\ Cardinality(M) <= Cardinality(N) + 1
    BY <1>1, EqualLines
  <2>2. Cardinality(N) \in Nat
    BY <1>1, <1>4, <2>1, MatchingsAreFinite
  <2>3. Cardinality(N) <= dp[<<a + 1, b + 1>>]
    BY <2>1
  <2> QED
    BY <1>3, <1>4, <1>5, <2>1, <2>2, <2>3 DEF Entry
<1>6. CASE left[a] # right[b]
  <2>1. IsMatching(M, a + 1, b) \/ IsMatching(M, a, b + 1)
    BY <1>1, <1>6, DifferingLines
  <2>2. Cardinality(M) <= dp[<<a + 1, b>>] \/ Cardinality(M) <= dp[<<a, b + 1>>]
    BY <2>1
  <2> QED
    BY <1>3, <1>4, <1>6, <2>2 DEF Entry
<1> QED
  BY <1>5, <1>6

Table == TableIsFilled /\ TableIsBound

(* An empty table has its border filled and nothing else.                  *)
Empty ==
  /\ left \in Seq(Line) /\ right \in Seq(Line)
  /\ pc = "table" /\ i = Len(left) /\ j = Len(right)
  /\ dp = [c \in Cells |-> 0]

LEMMA EmptyTable == Empty => Table
<1> SUFFICES ASSUME Empty PROVE Table
  OBVIOUS
<1> USE DEF Empty
<1> SUFFICES ASSUME NEW a \in 1..Len(left) + 1, NEW b \in 1..Len(right) + 1, Filled(a, b)
             PROVE  /\ a > Len(left) \/ b > Len(right)
                    /\ dp[<<a, b>>] = 0
                    /\ \A M : IsMatching(M, a, b) => Cardinality(M) <= 0
  BY DEF Table, TableIsFilled, TableIsBound
<1>1. Len(left) \in Nat /\ Len(right) \in Nat
  OBVIOUS
<1>2. a > Len(left) \/ b > Len(right)
  BY <1>1 DEF Filled
<1>3. dp[<<a, b>>] = 0
  BY DEF Cells
<1>4. ASSUME NEW M, IsMatching(M, a, b) PROVE Cardinality(M) <= 0
  BY <1>1, <1>2, <1>4, EndMatchesNothing
<1> QED
  BY <1>2, <1>3, <1>4

LEMMA FillKeepsTable == Bookkeeping /\ Table /\ FillCell => Table'
<1> SUFFICES ASSUME Bookkeeping, Table, FillCell PROVE Table'
  OBVIOUS
<1>1. /\ ReviewTypeOK /\ Len(left) \in Nat /\ Len(right) \in Nat
      /\ i \in 1..Len(left) /\ j \in 1..Len(right) /\ pc = "table"
      /\ left' = left /\ right' = right
      /\ dp' = [dp EXCEPT ![<<i, j>>] = Entry(i, j)] /\ dp \in [Cells -> Nat]
  BY DEF Bookkeeping, ReviewTypeOK, Phases, FillCell
<1>2. ASSUME NEW a \in 1..Len(left) + 1, NEW b \in 1..Len(right) + 1
      PROVE  Filled(a, b)' <=> Filled(a, b) \/ (a = i /\ b = j)
  BY <1>1 DEF FillCell, Filled
<1>3. ~Filled(i, j)
  BY <1>1 DEF Filled
<1>4. dp'[<<i, j>>] = Entry(i, j)
  BY <1>1 DEF Cells
<1>5. ASSUME NEW a \in 1..Len(left) + 1, NEW b \in 1..Len(right) + 1, Filled(a, b)
      PROVE  dp'[<<a, b>>] = dp[<<a, b>>]
  BY <1>1, <1>3, <1>5 DEF Cells
<1>6. ASSUME NEW a \in 1..Len(left), NEW b \in 1..Len(right), Filled(a, b) \/ (a = i /\ b = j)
      PROVE  /\ Filled(a + 1, b + 1) /\ Filled(a + 1, b) /\ Filled(a, b + 1)
             /\ Entry(a, b)' = Entry(a, b)
  <2>1. Filled(a + 1, b + 1) /\ Filled(a + 1, b) /\ Filled(a, b + 1)
    BY <1>1, <1>6 DEF Filled
  <2>2. /\ dp'[<<a + 1, b + 1>>] = dp[<<a + 1, b + 1>>]
        /\ dp'[<<a + 1, b>>] = dp[<<a + 1, b>>]
        /\ dp'[<<a, b + 1>>] = dp[<<a, b + 1>>]
    BY <1>1, <1>5, <2>1
  <2> QED
    BY <1>1, <2>1, <2>2 DEF Entry
<1>7. TableIsFilled'
  <2> SUFFICES ASSUME NEW a \in 1..Len(left) + 1, NEW b \in 1..Len(right) + 1, Filled(a, b)'
               PROVE  dp'[<<a, b>>] = IF a > Len(left) \/ b > Len(right) THEN 0 ELSE Entry(a, b)'
    BY <1>1 DEF TableIsFilled
  <2>1. CASE Filled(a, b)
    <3>1. dp[<<a, b>>] = IF a > Len(left) \/ b > Len(right) THEN 0 ELSE Entry(a, b)
      BY <2>1 DEF Table, TableIsFilled
    <3> QED
      BY <1>1, <1>5, <1>6, <2>1, <3>1
  <2>2. CASE a = i /\ b = j
    BY <1>1, <1>4, <1>6, <2>2
  <2> QED
    BY <1>2, <2>1, <2>2
<1>8. TableIsBound'
  <2> SUFFICES ASSUME NEW a \in 1..Len(left) + 1, NEW b \in 1..Len(right) + 1, Filled(a, b)',
                      NEW M, IsMatching(M, a, b)
               PROVE  Cardinality(M) <= dp'[<<a, b>>]
    BY <1>1 DEF TableIsBound, IsMatching
  <2>1. CASE Filled(a, b)
    BY <1>5, <2>1 DEF Table, TableIsBound
  <2>2. CASE a = i /\ b = j
    <3>1. Filled(a + 1, b + 1) /\ Filled(a + 1, b) /\ Filled(a, b + 1)
      BY <1>1, <1>6, <2>2
    <3>2. /\ \A N : IsMatching(N, a + 1, b + 1) => Cardinality(N) <= dp[<<a + 1, b + 1>>]
          /\ \A N : IsMatching(N, a + 1, b) => Cardinality(N) <= dp[<<a + 1, b>>]
          /\ \A N : IsMatching(N, a, b + 1) => Cardinality(N) <= dp[<<a, b + 1>>]
      <4>1. a + 1 \in 1..Len(left) + 1 /\ b + 1 \in 1..Len(right) + 1
        BY <1>1, <2>2
      <4> QED
        BY <3>1, <4>1 DEF Table, TableIsBound
    <3>3. Cardinality(M) <= Entry(a, b)
      BY <1>1, <2>2, <3>2, EntryIsBound
    <3> QED
      BY <1>4, <2>2, <3>3
  <2> QED
    BY <1>2, <2>1, <2>2
<1> QED
  BY <1>7, <1>8 DEF Table

LEMMA TableStep == Bookkeeping /\ Table /\ [ReviewNext]_reviewVars => Table'
<1> SUFFICES ASSUME Bookkeeping, Table, [ReviewNext]_reviewVars PROVE Table'
  OBVIOUS
<1>1. CASE FillCell
  BY <1>1, FillKeepsTable
<1>2. CASE Compare
  <2>1. right' \in Seq(Line) /\ left' \in Seq(Line)
    BY <1>2, TextsAreLines DEF Compare
  <2>2. Empty'
    BY <1>2, <2>1 DEF Compare, Cells, Empty
  <2>3. (Empty => Table)'
    BY EmptyTable, PTL
  <2> QED
    BY <2>2, <2>3
<1>3. CASE Walk \/ ReadLine \/ LastFlush \/ UNCHANGED reviewVars
  <2>1. /\ left' = left /\ right' = right /\ dp' = dp
        /\ \/ pc # "table" /\ pc' # "table"
           \/ pc' = pc /\ i' = i /\ j' = j
    BY <1>3 DEF Walk, PushUnchanged, PushRemoved, PushAdded, EndWalk, ReadLine, LastFlush,
                reviewVars, tableVars
  <2>2. \A a, b : Filled(a, b)' => Filled(a, b)
    BY <2>1 DEF Filled
  <2> QED
    BY <2>1, <2>2 DEF Table, TableIsFilled, TableIsBound, IsMatching, Entry
<1> QED
  BY <1>1, <1>2, <1>3 DEF ReviewNext

(* What the table says on the walk.                                        *)
LEMMA TableOnWalk ==
  ASSUME Bookkeeping, Table, pc = "walk"
  PROVE  /\ Same => dp[<<i, j>>] = dp[<<i + 1, j + 1>>] + 1
         /\ MoreLeft /\ (MoreRight => ~Same /\ RemoveFirst) => dp[<<i, j>>] = dp[<<i + 1, j>>]
         /\ MoreRight /\ (MoreLeft => ~Same /\ ~RemoveFirst) => dp[<<i, j>>] = dp[<<i, j + 1>>]
<1>1. /\ Len(left) \in Nat /\ Len(right) \in Nat
      /\ i \in 1..Len(left) + 1 /\ j \in 1..Len(right) + 1
  BY DEF Bookkeeping, ReviewTypeOK
<1>2. \A a \in 1..Len(left) + 1, b \in 1..Len(right) + 1 :
        dp[<<a, b>>] = IF a > Len(left) \/ b > Len(right) THEN 0 ELSE Entry(a, b)
  BY DEF Table, TableIsFilled, Filled
<1>3. CASE MoreLeft /\ MoreRight
  BY <1>1, <1>2, <1>3 DEF Same, MoreLeft, MoreRight, RemoveFirst, Entry
<1>4. CASE MoreLeft /\ ~MoreRight
  <2>1. i + 1 \in 1..Len(left) + 1 /\ j > Len(right)
    BY <1>1, <1>4 DEF MoreLeft, MoreRight
  <2>2. dp[<<i, j>>] = 0 /\ dp[<<i + 1, j>>] = 0
    BY <1>1, <1>2, <2>1
  <2> QED
    BY <1>4, <2>2 DEF Same
<1>5. CASE ~MoreLeft /\ MoreRight
  <2>1. j + 1 \in 1..Len(right) + 1 /\ i > Len(left)
    BY <1>1, <1>5 DEF MoreLeft, MoreRight
  <2>2. dp[<<i, j>>] = 0 /\ dp[<<i, j + 1>>] = 0
    BY <1>1, <1>2, <2>1
  <2> QED
    BY <1>5, <2>2 DEF Same
<1> QED
  BY <1>3, <1>4, <1>5 DEF Same

LEMMA PromiseStep == Bookkeeping /\ Table /\ PromiseIsKept /\ [ReviewNext]_reviewVars => PromiseIsKept'
<1> SUFFICES ASSUME Bookkeeping, Table, PromiseIsKept, [ReviewNext]_reviewVars PROVE PromiseIsKept'
  OBVIOUS
<1>0. /\ ReviewTypeOK /\ Phases /\ Len(left) \in Nat /\ Len(right) \in Nat
      /\ Len(result) + 1 \notin Unchanged
  BY DEF Bookkeeping, ReviewTypeOK, Unchanged
<1>a. /\ \A c \in Cells : dp[c] \in Nat
      /\ <<i, j>> \in Cells /\ <<1, 1>> \in Cells
  BY <1>0 DEF ReviewTypeOK, Cells
<1>b. pc # "table" => IsFiniteSet(Unchanged) /\ Cardinality(Unchanged) \in Nat
  BY FS_CardinalityType DEF PromiseIsKept
<1>1. CASE FillCell
  <2>1. CASE pc' = "table"
    BY <2>1 DEF PromiseIsKept
  <2>2. CASE pc' # "table"
    <3>1. i' = 1 /\ j' = 1 /\ result' = <<>>
      BY <1>0, <1>1, <2>2 DEF FillCell, Phases, ReviewTypeOK, walkVars
    <3>2. IsFiniteSet(Unchanged') /\ Cardinality(Unchanged') = 0
      <4>1. Unchanged' = {}
        BY <3>1 DEF Unchanged
      <4> QED
        BY <4>1, FS_EmptySet
    <3>3. dp'[<<1, 1>>] \in Nat
      BY <1>0, <1>1, <1>a, EntryIsNat DEF FillCell, ReviewTypeOK, Phases, Cells
    <3> QED
      BY <3>1, <3>2, <3>3 DEF PromiseIsKept
  <2> QED
    BY <2>1, <2>2
<1>2. CASE PushUnchanged
  <2>1. /\ pc = "walk" /\ Same /\ Push("unchanged", left[i], leftNumber, rightNumber)
        /\ i' = i + 1 /\ j' = j + 1 /\ dp' = dp
    BY <1>2 DEF PushUnchanged
  <2>2. Unchanged' = Unchanged \cup {Len(result) + 1}
    BY <1>0, <2>1, PushGrows DEF Kinds
  <2>3. IsFiniteSet(Unchanged') /\ Cardinality(Unchanged') = Cardinality(Unchanged) + 1
    BY <1>0, <1>b, <2>1, <2>2, FS_AddElement
  <2>4. dp[<<i, j>>] = dp[<<i + 1, j + 1>>] + 1
    BY <2>1, TableOnWalk
  <2>5. <<i + 1, j + 1>> \in Cells
    BY <1>0, <2>1 DEF Same, MoreLeft, MoreRight, ReviewTypeOK, Cells
  <2> QED
    BY <1>a, <1>b, <2>1, <2>3, <2>4, <2>5 DEF PromiseIsKept
<1>3. CASE PushRemoved
  <2>1. /\ pc = "walk" /\ Push("removed", left[i], leftNumber, 0)
        /\ i' = i + 1 /\ j' = j /\ dp' = dp /\ dp[<<i, j>>] = dp[<<i + 1, j>>]
    BY <1>3, TableOnWalk DEF PushRemoved
  <2>2. Unchanged' = Unchanged
    BY <1>0, <2>1, PushGrows DEF Kinds
  <2> QED
    BY <2>1, <2>2 DEF PromiseIsKept
<1>4. CASE PushAdded
  <2>1. /\ pc = "walk" /\ Push("added", right[j], 0, rightNumber)
        /\ i' = i /\ j' = j + 1 /\ dp' = dp /\ dp[<<i, j>>] = dp[<<i, j + 1>>]
    BY <1>4, TableOnWalk DEF PushAdded
  <2>2. Unchanged' = Unchanged
    BY <1>0, <2>1, PushGrows DEF Kinds
  <2> QED
    BY <2>1, <2>2 DEF PromiseIsKept
<1>5. CASE Compare
  BY <1>5 DEF Compare, PromiseIsKept
<1>6. CASE EndWalk \/ ReadLine \/ LastFlush \/ UNCHANGED reviewVars
  <2>1. /\ dp' = dp /\ i' = i /\ j' = j /\ result' = result
        /\ pc' # "table" => pc # "table"
    BY <1>6 DEF EndWalk, ReadLine, LastFlush, reviewVars, tableVars, walkVars
  <2> QED
    BY <2>1 DEF PromiseIsKept, Unchanged
<1> QED
  BY <1>1, <1>2, <1>3, <1>4, <1>5, <1>6 DEF ReviewNext, Walk

LEMMA PromiseIsEnough ==
  Bookkeeping /\ Table /\ PromiseIsKept => ScriptIsShortest
<1> SUFFICES ASSUME Bookkeeping, Table, PromiseIsKept, pc \in {"rows", "done"},
                    NEW M, IsMatching(M, 1, 1)
             PROVE  Cardinality(M) <= Cardinality(Unchanged)
  BY DEF ScriptIsShortest
<1>1. /\ Len(left) \in Nat /\ Len(right) \in Nat
      /\ i = Len(left) + 1 /\ j = Len(right) + 1
      /\ 1 \in 1..Len(left) + 1 /\ 1 \in 1..Len(right) + 1
  BY DEF Bookkeeping, ReviewTypeOK, Phases
<1>2. dp[<<i, j>>] = 0
  BY <1>1 DEF Table, TableIsFilled, Filled
<1>3. Cardinality(M) <= dp[<<1, 1>>]
  BY <1>1 DEF Table, TableIsBound, Filled
<1>4. Cardinality(Unchanged) \in Nat /\ Cardinality(Unchanged) + 0 = dp[<<1, 1>>]
  BY <1>2, FS_CardinalityType DEF PromiseIsKept
<1> QED
  BY <1>3, <1>4

(* No way to match the two texts keeps more lines than the comparison a    *)
(* reviewer reads (buildYamlDiffLines).                                    *)
THEOREM ReviewIsShortest == Spec => []ScriptIsShortest
<1>1. ReviewInit => Table /\ PromiseIsKept
  <2> SUFFICES ASSUME ReviewInit PROVE Table /\ PromiseIsKept
    OBVIOUS
  <2>1. Empty
    BY LineAssumption DEF ReviewInit, Empty
  <2> QED
    BY <2>1, EmptyTable DEF ReviewInit, PromiseIsKept
<1> QED
  BY OneTask, BookkeepingInit, BookkeepingStep, <1>1, TableStep, PromiseStep, PromiseIsEnough,
     PTL DEF Spec

-----------------------------------------------------------------------------
(* The rows lose nothing.                                                  *)

(* Of the lines of a type among the first n, each is in the rows or still  *)
(* pending, those in the rows and then those pending in the order of their *)
(* numbers; what is pending came after the last unchanged line.            *)
Collected(lines, side, type, number, rs, n, pend) ==
  /\ \A k \in 1..n : lines[k].type = type =>
       \/ \E m \in DOMAIN rs : rs[m][side] = lines[k]
       \/ \E m \in DOMAIN pend : pend[m] = lines[k]
  /\ \A m \in DOMAIN rs : rs[m][side] # None =>
       \E k \in 1..n : lines[k].type = type /\ rs[m][side] = lines[k]
  /\ \A m \in DOMAIN pend :
       \E k \in 1..n : /\ lines[k].type = type /\ pend[m] = lines[k]
                       /\ \A u \in 1..n : lines[u].type = "unchanged" => u < k
  /\ \A m, q \in DOMAIN rs : m < q /\ rs[m][side] # None /\ rs[q][side] # None =>
       rs[m][side][number] < rs[q][side][number]
  /\ \A m, q \in DOMAIN pend : m < q => pend[m][number] < pend[q][number]
  /\ \A m \in DOMAIN rs, q \in DOMAIN pend : rs[m][side] # None =>
       rs[m][side][number] < pend[q][number]

(* A removed and an added line that no unchanged line parts.               *)
Together(lines, l, r) ==
  \E p, q \in DOMAIN lines :
    /\ lines[p] = l /\ lines[p].type = "removed"
    /\ lines[q] = r /\ lines[q].type = "added"
    /\ \A u \in DOMAIN lines : lines[u].type = "unchanged" => (u < p <=> u < q)

Beside(lines, rs) ==
  \A m \in DOMAIN rs : rs[m].left # None /\ rs[m].right # None =>
                         Together(lines, rs[m].left, rs[m].right)

(* A hunk is flushed.                                                      *)
LEMMA FlushCollected ==
  ASSUME NEW lines, NEW side, NEW type, NEW number, NEW n \in Nat,
         NEW pend \in Seq(DiffLines), NEW rs \in Seq(DiffRows), NEW pairs \in Seq(DiffRows),
         Len(pairs) >= Len(pend), \A m \in DOMAIN pairs : pairs[m][side] = At(pend, m),
         Collected(lines, side, type, number, rs, n, pend)
  PROVE  Collected(lines, side, type, number, rs \o pairs, n, <<>>)
<1> SUFFICES ASSUME NEW all, all = rs \o pairs
             PROVE  Collected(lines, side, type, number, all, n, <<>>)
  OBVIOUS
<1>1. /\ all \in Seq(DiffRows) /\ Len(all) = Len(rs) + Len(pairs)
      /\ Len(rs) \in Nat /\ Len(pairs) \in Nat /\ Len(pend) \in Nat
      /\ DOMAIN all = 1..Len(rs) + Len(pairs) /\ DOMAIN rs = 1..Len(rs)
      /\ DOMAIN pairs = 1..Len(pairs) /\ DOMAIN pend = 1..Len(pend)
  OBVIOUS
<1>2. \A m \in DOMAIN rs : m \in DOMAIN all /\ all[m] = rs[m]
  BY <1>1
<1>3. \A m \in DOMAIN pairs : Len(rs) + m \in DOMAIN all /\ all[Len(rs) + m] = pairs[m]
  BY <1>1
<1>4. \A m \in DOMAIN pend : /\ Len(rs) + m \in DOMAIN all
                             /\ all[Len(rs) + m][side] = pend[m]
  BY <1>1, <1>3 DEF At
(* Where an entry comes from.                                              *)
<1>5. ASSUME NEW m \in DOMAIN all, all[m][side] # None
      PROVE  \/ m \in DOMAIN rs /\ all[m] = rs[m]
             \/ /\ m > Len(rs) /\ m - Len(rs) \in DOMAIN pend
                /\ all[m][side] = pend[m - Len(rs)]
  <2>1. CASE m <= Len(rs)
    BY <1>1, <1>2, <2>1
  <2>2. CASE m > Len(rs)
    <3>1. m - Len(rs) \in DOMAIN pairs /\ Len(rs) + (m - Len(rs)) = m
      BY <1>1, <2>2
    <3>2. all[m][side] = At(pend, m - Len(rs))
      BY <1>3, <3>1
    <3> QED
      BY <1>5, <2>2, <3>2 DEF At
  <2> QED
    BY <1>1, <2>1, <2>2
<1>6. ASSUME NEW k \in 1..n, lines[k].type = type
      PROVE  \E m \in DOMAIN all : all[m][side] = lines[k]
  <2>1. \/ \E m \in DOMAIN rs : rs[m][side] = lines[k]
        \/ \E m \in DOMAIN pend : pend[m] = lines[k]
    BY <1>6 DEF Collected
  <2>2. CASE \E m \in DOMAIN rs : rs[m][side] = lines[k]
    BY ONLY <1>2, <2>2
  <2>3. CASE \E m \in DOMAIN pend : pend[m] = lines[k]
    BY ONLY <1>4, <2>3
  <2> QED
    BY <2>1, <2>2, <2>3
<1>7. ASSUME NEW m \in DOMAIN all, all[m][side] # None
      PROVE  \E k \in 1..n : lines[k].type = type /\ all[m][side] = lines[k]
  BY <1>5, <1>7 DEF Collected
<1>8. ASSUME NEW m \in DOMAIN all, NEW q \in DOMAIN all, m < q,
             all[m][side] # None, all[q][side] # None
      PROVE  all[m][side][number] < all[q][side][number]
  <2>1. CASE q \in DOMAIN rs /\ all[q] = rs[q]
    <3>1. m \in DOMAIN rs /\ all[m] = rs[m]
      BY <1>1, <1>2, <1>8, <2>1
    <3> QED
      BY <1>8, <2>1, <3>1 DEF Collected
  <2>2. CASE /\ q > Len(rs) /\ q - Len(rs) \in DOMAIN pend
             /\ all[q][side] = pend[q - Len(rs)]
    <3>1. CASE m \in DOMAIN rs /\ all[m] = rs[m]
      BY <1>8, <2>2, <3>1 DEF Collected
    <3>2. CASE /\ m > Len(rs) /\ m - Len(rs) \in DOMAIN pend
               /\ all[m][side] = pend[m - Len(rs)]
      <4>1. m - Len(rs) < q - Len(rs)
        BY <1>1, <1>8, <2>2, <3>2
      <4> QED
        BY <2>2, <3>2, <4>1 DEF Collected
    <3> QED
      BY <1>5, <1>8, <3>1, <3>2
  <2> QED
    BY <1>5, <1>8, <2>1, <2>2
<1>9. \A m \in DOMAIN << >> : FALSE
  OBVIOUS
<1> QED
  BY ONLY <1>6, <1>7, <1>8, <1>9 DEF Collected

LEMMA FlushBeside ==
  ASSUME NEW lines \in Seq(DiffLines), NEW n \in 0..Len(lines),
         NEW removed \in Seq(DiffLines), NEW added \in Seq(DiffLines),
         NEW rs \in Seq(DiffRows), NEW pairs \in Seq(DiffRows),
         \A m \in DOMAIN pairs : /\ pairs[m].left = At(removed, m)
                                 /\ pairs[m].right = At(added, m),
         Collected(lines, "left", "removed", "leftNumber", rs, n, removed),
         Collected(lines, "right", "added", "rightNumber", rs, n, added),
         Beside(lines, rs)
  PROVE  Beside(lines, rs \o pairs)
<1> SUFFICES ASSUME NEW all, all = rs \o pairs, NEW m \in DOMAIN all,
                    all[m].left # None, all[m].right # None
             PROVE  Together(lines, all[m].left, all[m].right)
  BY DEF Beside
<1>1. /\ Len(rs) \in Nat /\ Len(pairs) \in Nat /\ DOMAIN all = 1..Len(rs) + Len(pairs)
      /\ DOMAIN rs = 1..Len(rs) /\ DOMAIN pairs = 1..Len(pairs)
      /\ DOMAIN lines = 1..Len(lines) /\ Len(lines) \in Nat
  OBVIOUS
<1>2. CASE m <= Len(rs)
  <2>1. m \in DOMAIN rs /\ all[m] = rs[m]
    BY <1>1, <1>2
  <2> QED
    BY <2>1 DEF Beside
<1>3. CASE m > Len(rs)
  <2> SUFFICES ASSUME NEW d, d = m - Len(rs)
               PROVE  Together(lines, all[m].left, all[m].right)
    OBVIOUS
  <2>1. d \in DOMAIN pairs /\ all[m] = pairs[d]
    BY <1>1, <1>3
  <2>2. /\ d \in DOMAIN removed /\ all[m].left = removed[d]
        /\ d \in DOMAIN added /\ all[m].right = added[d]
    BY <2>1 DEF At
  <2>3. PICK p \in 1..n : /\ lines[p].type = "removed" /\ removed[d] = lines[p]
                          /\ \A u \in 1..n : lines[u].type = "unchanged" => u < p
    BY <2>2 DEF Collected
  <2>4. PICK q \in 1..n : /\ lines[q].type = "added" /\ added[d] = lines[q]
                          /\ \A u \in 1..n : lines[u].type = "unchanged" => u < q
    BY <2>2 DEF Collected
  <2>5. p \in DOMAIN lines /\ q \in DOMAIN lines
    BY <1>1
  <2>6. ASSUME NEW u \in DOMAIN lines, lines[u].type = "unchanged"
        PROVE  u < p <=> u < q
    <3>1. CASE u \in 1..n
      BY <2>3, <2>4, <2>6, <3>1
    <3>2. CASE u \notin 1..n
      BY <1>1, <3>2
    <3> QED
      BY <3>1, <3>2
  <2> QED
    BY <2>2, <2>3, <2>4, <2>5, <2>6 DEF Together
<1> QED
  BY <1>1, <1>2, <1>3

(* A line of the type is put by.                                           *)
LEMMA PutBy ==
  ASSUME NEW lines \in Seq(DiffLines), NEW side, NEW type, NEW number,
         NEW n \in Nat, n < Len(lines), NEW pend \in Seq(DiffLines), NEW rs \in Seq(DiffRows),
         lines[n + 1].type = type, type # "unchanged",
         \A k \in 1..n : lines[k].type = type => lines[k][number] < lines[n + 1][number],
         Collected(lines, side, type, number, rs, n, pend)
  PROVE  Collected(lines, side, type, number, rs, n + 1, Append(pend, lines[n + 1]))
<1> SUFFICES ASSUME NEW x, x = lines[n + 1], NEW all, all = Append(pend, x)
             PROVE  Collected(lines, side, type, number, rs, n + 1, all)
  OBVIOUS
<1>1. /\ Len(pend) \in Nat /\ DOMAIN pend = 1..Len(pend) /\ DOMAIN all = 1..Len(pend) + 1
      /\ n + 1 \in Nat
  OBVIOUS
<1>2. /\ \A m \in DOMAIN pend : m \in DOMAIN all /\ all[m] = pend[m]
      /\ Len(pend) + 1 \in DOMAIN all /\ all[Len(pend) + 1] = x
  BY <1>1
<1>3. \A k \in 1..n + 1 : k \in 1..n \/ k = n + 1
  OBVIOUS
<1>4. \A m \in DOMAIN all : m \in DOMAIN pend \/ m = Len(pend) + 1
  BY <1>1
<1>5. ASSUME NEW k \in 1..n + 1, lines[k].type = type
      PROVE  \/ \E m \in DOMAIN rs : rs[m][side] = lines[k]
             \/ \E m \in DOMAIN all : all[m] = lines[k]
  <2>1. CASE k \in 1..n
    BY <1>2, <1>5, <2>1 DEF Collected
  <2>2. CASE k = n + 1
    BY <1>2, <2>2
  <2> QED
    BY <1>3, <2>1, <2>2
<1>6. ASSUME NEW m \in DOMAIN rs, rs[m][side] # None
      PROVE  \E k \in 1..n + 1 : lines[k].type = type /\ rs[m][side] = lines[k]
  <2>1. PICK k \in 1..n : lines[k].type = type /\ rs[m][side] = lines[k]
    BY <1>6 DEF Collected
  <2>2. k \in 1..n + 1
    OBVIOUS
  <2> QED
    BY <2>1, <2>2
<1>7. ASSUME NEW m \in DOMAIN all
      PROVE  \E k \in 1..n + 1 :
               /\ lines[k].type = type /\ all[m] = lines[k]
               /\ \A u \in 1..n + 1 : lines[u].type = "unchanged" => u < k
  <2>1. CASE m \in DOMAIN pend
    <3>1. PICK k \in 1..n : /\ lines[k].type = type /\ pend[m] = lines[k]
                            /\ \A u \in 1..n : lines[u].type = "unchanged" => u < k
      BY <2>1 DEF Collected
    <3>2. k \in 1..n + 1
      OBVIOUS
    <3> QED
      BY <1>2, <1>3, <2>1, <3>1, <3>2
  <2>2. CASE m = Len(pend) + 1
    <3>1. \A u \in 1..n + 1 : lines[u].type = "unchanged" => u < n + 1
      BY <1>3
    <3>2. n + 1 \in 1..n + 1
      OBVIOUS
    <3> QED
      BY <1>2, <2>2, <3>1, <3>2
  <2> QED
    BY <1>4, <2>1, <2>2
<1>8. \A m \in DOMAIN pend : pend[m][number] < x[number]
  BY DEF Collected
<1>9. \A m \in DOMAIN rs : rs[m][side] # None => rs[m][side][number] < x[number]
  BY DEF Collected
<1>10. ASSUME NEW m \in DOMAIN all, NEW q \in DOMAIN all, m < q
       PROVE  all[m][number] < all[q][number]
  <2>1. m \in DOMAIN pend /\ all[m] = pend[m]
    BY <1>1, <1>2, <1>10
  <2>2. CASE q \in DOMAIN pend
    BY <1>2, <1>10, <2>1, <2>2 DEF Collected
  <2>3. CASE q = Len(pend) + 1
    BY <1>2, <1>8, <2>1, <2>3
  <2> QED
    BY <1>4, <2>2, <2>3
<1>11. ASSUME NEW m \in DOMAIN rs, NEW q \in DOMAIN all, rs[m][side] # None
       PROVE  rs[m][side][number] < all[q][number]
  <2>1. CASE q \in DOMAIN pend
    BY <1>2, <1>11, <2>1 DEF Collected
  <2>2. CASE q = Len(pend) + 1
    BY <1>2, <1>9, <1>11, <2>2
  <2> QED
    BY <1>4, <2>1, <2>2
<1>12. \A m, q \in DOMAIN rs : m < q /\ rs[m][side] # None /\ rs[q][side] # None =>
         rs[m][side][number] < rs[q][side][number]
  BY DEF Collected
<1> QED
  BY <1>5, <1>6, <1>7, <1>10, <1>11, <1>12 DEF Collected

(* A line of another type is read; an unchanged one finds nothing pending. *)
LEMMA PassBy ==
  ASSUME NEW lines \in Seq(DiffLines), NEW side, NEW type, NEW number,
         NEW n \in Nat, n < Len(lines), NEW pend, NEW rs,
         lines[n + 1].type # type, lines[n + 1].type = "unchanged" => pend = <<>>,
         Collected(lines, side, type, number, rs, n, pend)
  PROVE  Collected(lines, side, type, number, rs, n + 1, pend)
<1>1. /\ \A k \in 1..n + 1 : k \in 1..n \/ k = n + 1
      /\ \A k \in 1..n : k \in 1..n + 1
  OBVIOUS
<1>2. \A k \in 1..n + 1 : lines[k].type = type =>
        \/ \E m \in DOMAIN rs : rs[m][side] = lines[k]
        \/ \E m \in DOMAIN pend : pend[m] = lines[k]
  BY <1>1 DEF Collected
<1>3. \A m \in DOMAIN rs : rs[m][side] # None =>
        \E k \in 1..n + 1 : lines[k].type = type /\ rs[m][side] = lines[k]
  BY <1>1 DEF Collected
<1>4. ASSUME NEW m \in DOMAIN pend
      PROVE  \E k \in 1..n + 1 : /\ lines[k].type = type /\ pend[m] = lines[k]
                                 /\ \A u \in 1..n + 1 : lines[u].type = "unchanged" => u < k
  <2>1. lines[n + 1].type # "unchanged"
    OBVIOUS
  <2> QED
    BY <1>1, <2>1 DEF Collected
<1> QED
  BY <1>2, <1>3, <1>4 DEF Collected

(* The rows so far, read lines into the comparison.                        *)
Gathered ==
  /\ Collected(result, "left", "removed", "leftNumber", rows, read, pendingRemoved)
  /\ Collected(result, "right", "added", "rightNumber", rows, read, pendingAdded)
  /\ Beside(result, rows)

RowsInv ==
  /\ pc \in {"table", "walk"} => /\ read = 0 /\ rows = <<>>
                                 /\ pendingRemoved = <<>> /\ pendingAdded = <<>>
  /\ pc \in {"rows", "done"} => Gathered
  /\ pc = "done" => /\ read = Len(result)
                    /\ pendingRemoved = <<>> /\ pendingAdded = <<>>

(* Two lines of a sound comparison stand in the order of their numbers.    *)
LEMMA InOrder ==
  ASSUME ScriptIsSound, pc \in {"rows", "done"}, result \in Seq(DiffLines)
  PROVE  \A k, l \in DOMAIN result :
           /\ k < l /\ result[k].type # "added" /\ result[l].type # "added"
                => result[k].leftNumber < result[l].leftNumber
           /\ k < l /\ result[k].type # "removed" /\ result[l].type # "removed"
                => result[k].rightNumber < result[l].rightNumber
  BY DEF ScriptIsSound, Covers, OfLeft, OfRight

LEMMA PairsFacts ==
  ASSUME ReviewTypeOK
  PROVE  /\ Pairs \in Seq(DiffRows)
         /\ Len(Pairs) >= Len(pendingRemoved) /\ Len(Pairs) >= Len(pendingAdded)
         /\ \A m \in DOMAIN Pairs : /\ Pairs[m].left = At(pendingRemoved, m)
                                    /\ Pairs[m].right = At(pendingAdded, m)
<1> SUFFICES ASSUME NEW n, n = (IF Len(pendingRemoved) >= Len(pendingAdded)
                                THEN Len(pendingRemoved) ELSE Len(pendingAdded))
             PROVE  /\ Pairs \in Seq(DiffRows)
                    /\ Len(Pairs) >= Len(pendingRemoved) /\ Len(Pairs) >= Len(pendingAdded)
                    /\ \A m \in DOMAIN Pairs : /\ Pairs[m].left = At(pendingRemoved, m)
                                               /\ Pairs[m].right = At(pendingAdded, m)
  OBVIOUS
<1>1. /\ n \in Nat /\ n >= Len(pendingRemoved) /\ n >= Len(pendingAdded)
  BY DEF ReviewTypeOK
<1>2. Pairs = [m \in 1..n |-> [left |-> At(pendingRemoved, m), right |-> At(pendingAdded, m)]]
  BY DEF Pairs
<1>3. Pairs \in Seq(DiffRows)
  BY PairsAreRows
<1>4. Len(Pairs) = n
  BY <1>1, <1>2, <1>3
<1> QED
  BY <1>1, <1>2, <1>3, <1>4

LEMMA FlushGathered ==
  ASSUME ReviewTypeOK, Gathered, flushPending
  PROVE  /\ Collected(result, "left", "removed", "leftNumber", rows', read, <<>>)
         /\ Collected(result, "right", "added", "rightNumber", rows', read, <<>>)
         /\ Beside(result, rows')
         /\ pendingRemoved' = <<>> /\ pendingAdded' = <<>>
<1>1. /\ result \in Seq(DiffLines) /\ read \in 0..Len(result) /\ read \in Nat
      /\ pendingRemoved \in Seq(DiffLines) /\ pendingAdded \in Seq(DiffLines)
      /\ rows \in Seq(DiffRows)
  BY DEF ReviewTypeOK
<1> SUFFICES ASSUME NEW ps, ps = Pairs
             PROVE  /\ Collected(result, "left", "removed", "leftNumber", rows', read, <<>>)
                    /\ Collected(result, "right", "added", "rightNumber", rows', read, <<>>)
                    /\ Beside(result, rows')
                    /\ pendingRemoved' = <<>> /\ pendingAdded' = <<>>
  OBVIOUS
<1>2. /\ ps \in Seq(DiffRows) /\ Len(ps) >= Len(pendingRemoved) /\ Len(ps) >= Len(pendingAdded)
      /\ \A m \in DOMAIN ps : /\ ps[m].left = At(pendingRemoved, m)
                              /\ ps[m].right = At(pendingAdded, m)
  BY PairsFacts
<1>3. rows' = rows \o ps /\ pendingRemoved' = <<>> /\ pendingAdded' = <<>>
  BY DEF flushPending
<1>4. /\ \A m \in DOMAIN ps : ps[m]["left"] = At(pendingRemoved, m)
      /\ \A m \in DOMAIN ps : ps[m]["right"] = At(pendingAdded, m)
  BY <1>2
<1>5. Collected(result, "left", "removed", "leftNumber", rows \o ps, read, <<>>)
  BY ONLY <1>1, <1>2, <1>4, Gathered, FlushCollected DEF Gathered
<1>6. Collected(result, "right", "added", "rightNumber", rows \o ps, read, <<>>)
  BY ONLY <1>1, <1>2, <1>4, Gathered, FlushCollected DEF Gathered
<1>7. Beside(result, rows \o ps)
  BY ONLY <1>1, <1>2, Gathered, FlushBeside DEF Gathered
<1> QED
  BY <1>3, <1>5, <1>6, <1>7

LEMMA RowsStep == Bookkeeping /\ ScriptIsSound /\ RowsInv /\ [ReviewNext]_reviewVars => RowsInv'
<1> SUFFICES ASSUME Bookkeeping, ScriptIsSound, RowsInv, [ReviewNext]_reviewVars PROVE RowsInv'
  OBVIOUS
<1>1. /\ ReviewTypeOK /\ result \in Seq(DiffLines) /\ Len(result) \in Nat /\ read \in 0..Len(result)
      /\ pendingRemoved \in Seq(DiffLines) /\ pendingAdded \in Seq(DiffLines)
      /\ rows \in Seq(DiffRows) /\ DOMAIN result = 1..Len(result)
  BY DEF Bookkeeping, ReviewTypeOK
<1>2. CASE FillCell
  BY <1>2 DEF FillCell, RowsInv, walkVars, rowVars
<1>3. CASE PushUnchanged \/ PushRemoved \/ PushAdded
  BY <1>3 DEF PushUnchanged, PushRemoved, PushAdded, RowsInv, rowVars
<1>4. CASE EndWalk
  <2>1. /\ read' = 0 /\ rows' = <<>> /\ pendingRemoved' = <<>> /\ pendingAdded' = <<>>
        /\ pc' = "rows"
    BY <1>4 DEF EndWalk, RowsInv, rowVars
  <2>2. Gathered'
    BY <2>1 DEF Gathered, Collected, Beside
  <2> QED
    BY <2>1, <2>2 DEF RowsInv
<1>5. CASE ReadLine
  <2> SUFFICES ASSUME NEW n, n = read, NEW line, line = result[n + 1]
               PROVE  RowsInv'
    OBVIOUS
  <2>1. /\ pc = "rows" /\ n \in Nat /\ n < Len(result) /\ read' = n + 1
        /\ result' = result /\ pc' = "rows" /\ Gathered
        /\ n + 1 \in DOMAIN result /\ line \in DiffLines
    BY <1>1, <1>5 DEF ReadLine, walkVars, RowsInv
  <2>2. \A k \in 1..n :
          /\ line.type = "removed" /\ result[k].type = "removed"
               => result[k].leftNumber < line.leftNumber
          /\ line.type = "added" /\ result[k].type = "added"
               => result[k].rightNumber < line.rightNumber
    BY <1>1, <2>1, InOrder
  <2>3. /\ Collected(result, "left", "removed", "leftNumber", rows, n, pendingRemoved)
        /\ Collected(result, "right", "added", "rightNumber", rows, n, pendingAdded)
        /\ Beside(result, rows)
    BY <2>1 DEF Gathered
  <2>4. CASE line.type = "unchanged" /\ flushPending
    <3>1. /\ Collected(result, "left", "removed", "leftNumber", rows', n, <<>>)
          /\ Collected(result, "right", "added", "rightNumber", rows', n, <<>>)
          /\ Beside(result, rows')
          /\ pendingRemoved' = <<>> /\ pendingAdded' = <<>>
      BY <1>1, <2>1, <2>4, FlushGathered
    <3>2. result[n + 1].type = "unchanged"
      BY <2>4
    <3>3. Collected(result, "left", "removed", "leftNumber", rows', n + 1, <<>>)
      BY ONLY <1>1, <2>1, <3>1, <3>2, PassBy
    <3>4. Collected(result, "right", "added", "rightNumber", rows', n + 1, <<>>)
      BY ONLY <1>1, <2>1, <3>1, <3>2, PassBy
    <3> QED
      BY <2>1, <3>1, <3>3, <3>4 DEF RowsInv, Gathered
  <2>5. CASE /\ line.type = "removed" /\ pendingRemoved' = Append(pendingRemoved, line)
             /\ UNCHANGED <<pendingAdded, rows>>
    <3>1. result[n + 1].type = "removed" /\ result[n + 1] = line
      BY <2>5
    <3>2. \A k \in 1..n : result[k].type = "removed"
                            => result[k]["leftNumber"] < result[n + 1]["leftNumber"]
      BY <2>2, <3>1
    <3>3. Collected(result, "left", "removed", "leftNumber", rows, n + 1,
                    Append(pendingRemoved, result[n + 1]))
      BY ONLY <1>1, <2>1, <2>3, <3>1, <3>2, PutBy
    <3>4. Collected(result, "right", "added", "rightNumber", rows, n + 1, pendingAdded)
      BY ONLY <1>1, <2>1, <2>3, <3>1, PassBy
    <3> QED
      BY <2>1, <2>3, <2>5, <3>1, <3>3, <3>4 DEF RowsInv, Gathered
  <2>6. CASE /\ line.type = "added" /\ pendingAdded' = Append(pendingAdded, line)
             /\ UNCHANGED <<pendingRemoved, rows>>
    <3>1. result[n + 1].type = "added" /\ result[n + 1] = line
      BY <2>6
    <3>2. \A k \in 1..n : result[k].type = "added"
                            => result[k]["rightNumber"] < result[n + 1]["rightNumber"]
      BY <2>2, <3>1
    <3>3. Collected(result, "right", "added", "rightNumber", rows, n + 1,
                    Append(pendingAdded, result[n + 1]))
      BY ONLY <1>1, <2>1, <2>3, <3>1, <3>2, PutBy
    <3>4. Collected(result, "left", "removed", "leftNumber", rows, n + 1, pendingRemoved)
      BY ONLY <1>1, <2>1, <2>3, <3>1, PassBy
    <3> QED
      BY <2>1, <2>3, <2>6, <3>1, <3>3, <3>4 DEF RowsInv, Gathered
  <2> QED
    BY <1>5, <2>4, <2>5, <2>6 DEF ReadLine
<1>6. CASE LastFlush
  <2>1. /\ pc = "rows" /\ read = Len(result) /\ flushPending /\ pc' = "done"
        /\ result' = result /\ read' = read /\ Gathered
    BY <1>6 DEF LastFlush, walkVars, RowsInv
  <2>2. /\ Collected(result, "left", "removed", "leftNumber", rows', read, <<>>)
        /\ Collected(result, "right", "added", "rightNumber", rows', read, <<>>)
        /\ Beside(result, rows')
        /\ pendingRemoved' = <<>> /\ pendingAdded' = <<>>
    BY <1>1, <2>1, FlushGathered
  <2> QED
    BY <2>1, <2>2 DEF RowsInv, Gathered
<1>7. CASE Compare
  BY <1>7 DEF Compare, RowsInv
<1>8. CASE UNCHANGED reviewVars
  BY <1>8 DEF reviewVars, RowsInv, Gathered
<1> QED
  BY <1>2, <1>3, <1>4, <1>5, <1>6, <1>7, <1>8 DEF ReviewNext, Walk

(* What was gathered when the last line is read and nothing is pending.    *)
LEMMA RowsAreEnough == Bookkeeping /\ ScriptIsSound /\ RowsInv => RowsLoseNothing
<1> SUFFICES ASSUME Bookkeeping, ScriptIsSound, RowsInv, pc = "done"
             PROVE  /\ ShowsAll("left", "removed", "leftNumber")
                    /\ ShowsAll("right", "added", "rightNumber")
                    /\ \A n \in DOMAIN rows :
                         rows[n].left # None /\ rows[n].right # None =>
                           \A k \in Unchanged :
                             result[k].leftNumber < rows[n].left.leftNumber
                               <=> result[k].rightNumber < rows[n].right.rightNumber
  BY DEF RowsLoseNothing
<1>1. /\ result \in Seq(DiffLines) /\ DOMAIN result = 1..Len(result)
  BY DEF Bookkeeping, ReviewTypeOK
<1>2. /\ Collected(result, "left", "removed", "leftNumber", rows, Len(result), <<>>)
      /\ Collected(result, "right", "added", "rightNumber", rows, Len(result), <<>>)
      /\ Beside(result, rows)
  BY DEF RowsInv, Gathered
<1>3. /\ ShowsAll("left", "removed", "leftNumber")
      /\ ShowsAll("right", "added", "rightNumber")
  BY <1>1, <1>2 DEF Collected, ShowsAll
<1>4. ASSUME NEW n \in DOMAIN rows, rows[n].left # None, rows[n].right # None,
             NEW k \in Unchanged
      PROVE  result[k].leftNumber < rows[n].left.leftNumber
               <=> result[k].rightNumber < rows[n].right.rightNumber
  <2>1. Together(result, rows[n].left, rows[n].right)
    BY <1>2, <1>4 DEF Beside
  <2>2. PICK p, q \in DOMAIN result :
          /\ result[p] = rows[n].left /\ result[p].type = "removed"
          /\ result[q] = rows[n].right /\ result[q].type = "added"
          /\ \A u \in DOMAIN result : result[u].type = "unchanged" => (u < p <=> u < q)
    BY <2>1 DEF Together
  <2>3. k \in DOMAIN result /\ result[k].type = "unchanged"
    BY <1>4 DEF Unchanged
  <2>4. /\ k < p => result[k].leftNumber < result[p].leftNumber
        /\ p < k => result[p].leftNumber < result[k].leftNumber
        /\ k < q => result[k].rightNumber < result[q].rightNumber
        /\ q < k => result[q].rightNumber < result[k].rightNumber
    BY <1>1, <2>2, <2>3, InOrder
  <2>5. /\ result[k].leftNumber \in Nat /\ result[p].leftNumber \in Nat
        /\ result[k].rightNumber \in Nat /\ result[q].rightNumber \in Nat
        /\ k \in Nat /\ p \in Nat /\ q \in Nat
    <3>1. /\ result[k] \in DiffLines /\ result[p] \in DiffLines /\ result[q] \in DiffLines
          /\ k \in Nat /\ p \in Nat /\ q \in Nat
      BY <1>1, <2>2, <2>3
    <3>2. \A l \in DiffLines : l.leftNumber \in Nat /\ l.rightNumber \in Nat
      BY DEF DiffLines
    <3> QED
      BY <3>1, <3>2
  <2>6. k # p /\ k # q /\ (k < p <=> k < q)
    BY <2>2, <2>3
  <2>7. /\ result[k].leftNumber < result[p].leftNumber <=> k < p
        /\ result[k].rightNumber < result[q].rightNumber <=> k < q
    BY <2>4, <2>5, <2>6
  <2> QED
    BY <2>2, <2>6, <2>7
<1> QED
  BY <1>3, <1>4

(* What buildYamlDiffRows puts on screen has every line that the           *)
(* comparison removes and every one it adds, once and in order, and pairs  *)
(* no two that an unchanged line parts: for all texts.                     *)
THEOREM RowsLoseNothingHolds == Spec => []RowsLoseNothing
<1>1. ReviewInit => Sound /\ RowsInv
  BY DEF ReviewInit, Sound, RowsInv
<1> QED
  BY OneTask, BookkeepingInit, BookkeepingStep, <1>1, SoundStep, SoundIsEnough, RowsStep,
     RowsAreEnough, PTL DEF Spec

-----------------------------------------------------------------------------
(* The drawer that creates a cluster.                                      *)

(* Jobs the console knows of are the server's.                             *)
JobKnown(b) == b.id \in 1..Len(jobs)

(* A check that says ready has been given its payload by the server, and   *)
(* so has whatever is on its way to be created.                            *)
CheckedInv ==
  /\ ProvisionTypeOK
  /\ job # Nil => JobKnown(job)
  /\ \A s \in Slots : asked[s] # Nil /\ asked[s].kind \in {"poll", "clusters"}
                        => JobKnown(asked[s].job)
  /\ timer => job # Nil
  /\ check # Nil /\ check.ready => check.payload \in passed
  /\ SubmittedWasChecked

LEMMA CheckedInit == ProvisionInit => CheckedInv
<1> SUFFICES ASSUME ProvisionInit PROVE CheckedInv
  OBVIOUS
<1>1. <<>> \in [1..0 -> Statuses] /\ 0 \in 0..MaxJobs
  BY ProvisionBounds
<1>2. jobs \in UNION {[1..n -> Statuses] : n \in 0..MaxJobs}
  BY <1>1 DEF ProvisionInit
<1>3. /\ asked \in [Slots -> Asks \cup {Nil}]
      /\ lost \in [count : 0..MaxLost, now : BOOLEAN]
      /\ form \in Values /\ draft \in Values
      /\ selected \in 0..MaxJobs
  BY ProvisionBounds DEF ProvisionInit, Values
<1>4. ProvisionTypeOK
  BY <1>2, <1>3 DEF ProvisionInit, ProvisionTypeOK
<1> QED
  BY <1>4 DEF ProvisionInit, CheckedInv, SubmittedWasChecked, IsAsk

(* What a new request leaves of the others.                                *)
LEMMA PutFacts ==
  ASSUME asked \in [Slots -> Asks \cup {Nil}], NEW a \in Asks, asked' = Put(a)
  PROVE  /\ asked' \in [Slots -> Asks \cup {Nil}]
         /\ \A s \in Slots : asked'[s] = asked[s] \/ asked'[s] = a
  BY DEF Put

LEMMA FreeFacts ==
  ASSUME asked \in [Slots -> Asks \cup {Nil}], NEW s \in Slots, asked' = Free(s)
  PROVE  /\ asked' \in [Slots -> Asks \cup {Nil}]
         /\ \A q \in Slots : asked'[q] = asked[q] \/ asked'[q] = Nil
  BY DEF Free

LEMMA DraftFacts ==
  ASSUME NEW d \in Values, NEW f \in Values, NEW known \in BOOLEAN, Draft(d, f, known)
  PROVE  draft' \in Values /\ form' \in Values
  BY DEF Draft, Fitted, Values

LEMMA JobsFacts ==
  ASSUME jobs \in UNION {[1..n -> Statuses] : n \in 0..MaxJobs}
  PROVE  /\ jobs \in Seq(Statuses) /\ Len(jobs) \in 0..MaxJobs
         /\ DOMAIN jobs = 1..Len(jobs)
<1>1. PICK n \in 0..MaxJobs : jobs \in [1..n -> Statuses]
  OBVIOUS
<1> QED
  BY <1>1, ProvisionBounds

(* What a step of the drawer may do: nothing that is asked for creation,   *)
(* and no check, comes without the server's word.                          *)
LEMMA CheckedStep == CheckedInv /\ [ProvisionNext]_provisionVars => CheckedInv'
<1> SUFFICES ASSUME CheckedInv, [ProvisionNext]_provisionVars
             PROVE  CheckedInv'
  OBVIOUS
<1>1. ProvisionTypeOK
  BY DEF CheckedInv
<1>2. /\ jobs \in Seq(Statuses) /\ Len(jobs) \in 0..MaxJobs /\ DOMAIN jobs = 1..Len(jobs)
      /\ Len(jobs) \in Nat
  BY <1>1, JobsFacts, ProvisionBounds DEF ProvisionTypeOK
<1>3. job # Nil => job \in Jobs /\ JobKnown(job)
  BY <1>1 DEF CheckedInv, ProvisionTypeOK
<1>4. \A s \in Slots : asked[s] # Nil => asked[s] \in Asks
  BY <1>1 DEF ProvisionTypeOK
<1>5. check # Nil => check \in [payload : Values, ready : BOOLEAN]
  BY <1>1 DEF ProvisionTypeOK
(* The types that are tedious once.                                        *)
<1>6. ASSUME NEW on, NEW open, NEW b, Arm(on, open, b)
      PROVE  timer' \in BOOLEAN /\ lost' \in [count : 0..MaxLost, now : BOOLEAN]
             /\ (timer' => b # Nil)
  BY <1>1, <1>6 DEF Arm, ProvisionTypeOK
<1>7. CASE OpenProvision
  <2>1. job' # Nil => job' = job
    BY <1>7 DEF OpenProvision
  <2>2. timer' \in BOOLEAN /\ lost' \in [count : 0..MaxLost, now : BOOLEAN] /\ (timer' => job' # Nil)
    BY <1>6, <1>7 DEF OpenProvision
  <2> QED
    BY <1>3, <1>7, <2>1, <2>2
    DEF CheckedInv, ProvisionTypeOK, OpenProvision, SubmittedWasChecked, IsAsk, JobKnown
<1>8. CASE CloseProvision
  <2>1. job' # Nil => job' = job
    BY <1>8 DEF CloseProvision
  <2>2. timer' \in BOOLEAN /\ lost' \in [count : 0..MaxLost, now : BOOLEAN] /\ (timer' => job' # Nil)
    BY <1>6, <1>8 DEF CloseProvision
  <2> QED
    BY <1>3, <1>8, <2>1, <2>2
    DEF CheckedInv, ProvisionTypeOK, CloseProvision, SubmittedWasChecked, IsAsk, JobKnown
<1>9. CASE EditForm
  <2>1. PICK v \in Values : /\ Draft(v, v, catalog)
                            /\ check' = IF check # Nil /\ check.payload # v THEN Nil ELSE check
    BY <1>9 DEF EditForm
  <2>2. draft' \in Values /\ form' \in Values
    BY <1>1, <2>1, DraftFacts DEF ProvisionTypeOK
  <2>3. check' = check \/ check' = Nil
    BY <2>1
  <2> QED
    BY <1>9, <2>2, <2>3
    DEF CheckedInv, ProvisionTypeOK, EditForm, SubmittedWasChecked, IsAsk, JobKnown
<1>10. CASE Precheck
  <2>1. [kind |-> "check", payload |-> form] \in Asks
    BY <1>1 DEF ProvisionTypeOK, Asks
  <2>2. /\ asked' \in [Slots -> Asks \cup {Nil}]
        /\ \A s \in Slots : asked'[s] = asked[s] \/ asked'[s] = [kind |-> "check", payload |-> form]
    BY <1>1, <1>10, <2>1, PutFacts DEF ProvisionTypeOK, Precheck
  <2> QED
    BY <1>10, <2>2
    DEF CheckedInv, ProvisionTypeOK, Precheck, SubmittedWasChecked, IsAsk, JobKnown
<1>11. CASE Submit
  <2>0. form \in Values /\ draft' \in Values /\ form' \in Values
    BY <1>1, <1>11, DraftFacts DEF ProvisionTypeOK, Submit
  <2>1. CASE check.payload = form
    <3>1. [kind |-> "submit", payload |-> form] \in Asks /\ form \in passed
      BY <1>11, <2>0, <2>1 DEF Asks, Submit, CheckReady, CheckedInv
    <3>2. /\ asked' \in [Slots -> Asks \cup {Nil}]
          /\ \A s \in Slots : asked'[s] = asked[s]
                              \/ asked'[s] = [kind |-> "submit", payload |-> form]
      BY <1>1, <1>11, <2>1, <3>1, PutFacts DEF ProvisionTypeOK, Submit
    <3>3. SubmittedWasChecked'
      BY <1>11, <3>1, <3>2 DEF CheckedInv, Submit, SubmittedWasChecked, IsAsk
    <3>4. \A s \in Slots : asked'[s] # Nil /\ asked'[s].kind \in {"poll", "clusters"}
                             => asked'[s] = asked[s]
      BY <3>2
    <3> QED
      BY <1>11, <2>0, <2>1, <3>2, <3>3, <3>4
      DEF CheckedInv, ProvisionTypeOK, Submit, JobKnown
  <2>2. CASE check.payload # form
    BY <1>11, <2>0, <2>2
    DEF CheckedInv, ProvisionTypeOK, Submit, SubmittedWasChecked, IsAsk, JobKnown
  <2> QED
    BY <2>1, <2>2
<1>12. CASE NewJob
  <2>0. Raw \in Values /\ catalog \in BOOLEAN /\ Draft(Raw, Raw, catalog)
    BY <1>1, <1>12 DEF ProvisionTypeOK, NewJob, Values
  <2>1. draft' \in Values /\ form' \in Values
    BY <2>0, DraftFacts
  <2>2. timer' \in BOOLEAN /\ lost' \in [count : 0..MaxLost, now : BOOLEAN] /\ (timer' => Nil # Nil)
    BY <1>6, <1>12 DEF NewJob
  <2> QED
    BY <1>12, <2>1, <2>2
    DEF CheckedInv, ProvisionTypeOK, NewJob, SubmittedWasChecked, IsAsk, JobKnown
<1>13. CASE ResumeEditing
  <2>2. timer' \in BOOLEAN /\ lost' \in [count : 0..MaxLost, now : BOOLEAN] /\ (timer' => Nil # Nil)
    BY <1>6, <1>13 DEF ResumeEditing
  <2> QED
    BY <1>13, <2>2
    DEF CheckedInv, ProvisionTypeOK, ResumeEditing, SubmittedWasChecked, IsAsk, JobKnown
<1>14. CASE SessionTurns
  <2>2. timer' \in BOOLEAN /\ lost' \in [count : 0..MaxLost, now : BOOLEAN] /\ (timer' => job # Nil)
    BY <1>6, <1>14 DEF SessionTurns
  <2> QED
    BY <1>14, <2>2
    DEF CheckedInv, ProvisionTypeOK, SessionTurns, SubmittedWasChecked, IsAsk, JobKnown
<1>15. CASE CatalogArrives
  <2>1. draft' \in Values /\ form' \in Values
    BY <1>1, <1>15, DraftFacts DEF ProvisionTypeOK, CatalogArrives
  <2> QED
    BY <1>15, <2>1
    DEF CheckedInv, ProvisionTypeOK, CatalogArrives, SubmittedWasChecked, IsAsk, JobKnown
<1>16. CASE Poll
  <2>1. [kind |-> "poll", job |-> job] \in Asks /\ JobKnown(job)
    BY <1>3, <1>16 DEF Poll, Asks, CheckedInv
  <2>2. /\ asked' \in [Slots -> Asks \cup {Nil}]
        /\ \A s \in Slots : asked'[s] = asked[s] \/ asked'[s] = [kind |-> "poll", job |-> job]
    BY <1>1, <1>16, <2>1, PutFacts DEF ProvisionTypeOK, Poll
  <2>3. \A s \in Slots : asked'[s] # Nil /\ asked'[s].kind \in {"poll", "clusters"}
                           => JobKnown(asked'[s].job)
    BY <2>1, <2>2 DEF CheckedInv
  <2>4. \A s \in Slots : asked'[s] # Nil /\ asked'[s].kind = "submit" => asked'[s] = asked[s]
    BY <2>2
  <2> QED
    BY <1>16, <2>2, <2>3, <2>4
    DEF CheckedInv, ProvisionTypeOK, Poll, SubmittedWasChecked, IsAsk, JobKnown
<1>17. CASE JobEnds
  <2>1. PICK n \in DOMAIN jobs, status \in {"succeeded", "failed"} :
          jobs' = [jobs EXCEPT ![n] = status]
    BY <1>17 DEF JobEnds
  <2>2. jobs' \in [1..Len(jobs) -> Statuses] /\ Len(jobs') = Len(jobs)
    BY <1>2, <2>1 DEF Statuses
  <2>3. jobs' \in UNION {[1..n2 -> Statuses] : n2 \in 0..MaxJobs}
    BY <1>2, <2>2
  <2> QED
    BY <1>17, <2>2, <2>3
    DEF CheckedInv, ProvisionTypeOK, JobEnds, SubmittedWasChecked, IsAsk, JobKnown
<1>18. ASSUME NEW s \in Slots, CheckAnswered(s)
       PROVE  CheckedInv'
  <2>1. asked[s] \in Asks /\ asked[s].payload \in Values
    BY <1>4, <1>18 DEF CheckAnswered, IsAsk, Asks
  <2>2. PICK ready \in BOOLEAN :
          /\ check' = [payload |-> asked[s].payload, ready |-> ready]
          /\ passed' = IF ready THEN passed \cup {asked[s].payload} ELSE passed
    BY <1>18 DEF CheckAnswered
  <2>3. draft' \in Values /\ form' \in Values
    BY <1>1, <1>18, <2>1, DraftFacts DEF ProvisionTypeOK, CheckAnswered
  <2>4. /\ asked' \in [Slots -> Asks \cup {Nil}]
        /\ \A q \in Slots : asked'[q] = asked[q] \/ asked'[q] = Nil
    BY <1>1, <1>18, FreeFacts DEF ProvisionTypeOK, CheckAnswered
  <2>5. passed \subseteq passed' /\ passed' \subseteq Values
        /\ check' \in [payload : Values, ready : BOOLEAN]
        /\ (check'.ready => check'.payload \in passed')
    BY <1>1, <2>1, <2>2 DEF ProvisionTypeOK
  <2> QED
    BY <1>18, <2>3, <2>4, <2>5
    DEF CheckedInv, ProvisionTypeOK, CheckAnswered, SubmittedWasChecked, IsAsk, JobKnown
<1>19. ASSUME NEW s \in Slots, Submitted(s)
       PROVE  CheckedInv'
  <2>0. Len(jobs) + 1 \in 1..MaxJobs /\ "running" \in Statuses /\ jobs' = Append(jobs, "running")
    BY <1>2, <1>19, ProvisionBounds DEF Submitted, Statuses
  <2>1. /\ jobs' \in [1..Len(jobs) + 1 -> Statuses] /\ Len(jobs') = Len(jobs) + 1
        /\ Len(jobs) + 1 \in 1..MaxJobs
    <3>1. jobs' \in Seq(Statuses) /\ Len(jobs') = Len(jobs) + 1
      BY <1>2, <2>0
    <3>2. jobs' \in [1..Len(jobs') -> Statuses]
      BY <3>1
    <3> QED
      BY <2>0, <3>1, <3>2
  <2>2. jobs' \in UNION {[1..n -> Statuses] : n \in 0..MaxJobs}
    BY <2>1
  <2>3. job' = [id |-> Len(jobs) + 1, status |-> "running"] /\ job' \in Jobs
    BY <1>19, <2>1 DEF Submitted, Show, Jobs, Statuses
  <2>4. timer' \in BOOLEAN /\ lost' \in [count : 0..MaxLost, now : BOOLEAN] /\ (timer' => job' # Nil)
    BY <1>6, <1>19, <2>3 DEF Submitted, Show
  <2>5. /\ asked' \in [Slots -> Asks \cup {Nil}]
        /\ \A q \in Slots : asked'[q] = asked[q] \/ asked'[q] = Nil
    BY <1>1, <1>19, FreeFacts DEF ProvisionTypeOK, Submitted
  <2>6. \A b : JobKnown(b) => b.id \in 1..Len(jobs')
    BY <1>2, <2>1 DEF JobKnown
  <2>7. job'.id \in 1..Len(jobs')
    BY <1>2, <2>1, <2>3
  <2> QED
    BY <1>19, <2>2, <2>3, <2>4, <2>5, <2>6, <2>7
    DEF CheckedInv, ProvisionTypeOK, Submitted, SubmittedWasChecked, IsAsk, JobKnown
<1>20. ASSUME NEW s \in Slots, Polled(s)
       PROVE  CheckedInv'
  <2> SUFFICES ASSUME NEW new, new = [asked[s].job EXCEPT !.status = jobs[asked[s].job.id]]
               PROVE  CheckedInv'
    OBVIOUS
  <2>1. asked[s] \in Asks /\ asked[s].kind = "poll" /\ asked[s].job \in Jobs /\ JobKnown(asked[s].job)
    BY <1>4, <1>20 DEF Polled, IsAsk, Asks, CheckedInv
  <2>2. new \in Jobs /\ new.id = asked[s].job.id /\ JobKnown(new)
    BY <1>2, <2>1 DEF Jobs, JobKnown
  <2>3. job' = new /\ timer' \in BOOLEAN /\ lost' \in [count : 0..MaxLost, now : BOOLEAN]
        /\ (timer' => job' # Nil)
    BY <1>6, <1>20 DEF Polled, Show
  <2>4. [kind |-> "clusters", job |-> new] \in Asks
    BY <2>2 DEF Asks
  <2>5. /\ asked' \in [Slots -> Asks \cup {Nil}]
        /\ \A q \in Slots : \/ asked'[q] = asked[q] \/ asked'[q] = Nil
                            \/ asked'[q] = [kind |-> "clusters", job |-> new]
    BY <1>1, <1>20, <2>4, FreeFacts DEF ProvisionTypeOK, Polled
  <2>6. \A q \in Slots : asked'[q] # Nil /\ asked'[q].kind \in {"poll", "clusters"}
                           => JobKnown(asked'[q].job)
    BY <2>2, <2>5 DEF CheckedInv
  <2>7. \A q \in Slots : asked'[q] # Nil /\ asked'[q].kind = "submit" => asked'[q] = asked[q]
    BY <2>5
  <2> QED
    BY <1>20, <2>2, <2>3, <2>5, <2>6, <2>7
    DEF CheckedInv, ProvisionTypeOK, Polled, SubmittedWasChecked, IsAsk, JobKnown
<1>21. ASSUME NEW s \in Slots, ClustersRead(s)
       PROVE  CheckedInv'
  <2>1. asked[s] \in Asks /\ asked[s].kind = "clusters" /\ asked[s].job \in Jobs
    BY <1>4, <1>21 DEF ClustersRead, IsAsk, Asks
  <2>2. selected' \in 0..MaxJobs
    BY <1>21, <2>1, ProvisionBounds DEF ClustersRead, Jobs
  <2>3. /\ asked' \in [Slots -> Asks \cup {Nil}]
        /\ \A q \in Slots : asked'[q] = asked[q] \/ asked'[q] = Nil
    BY <1>1, <1>21, FreeFacts DEF ProvisionTypeOK, ClustersRead
  <2> QED
    BY <1>21, <2>2, <2>3
    DEF CheckedInv, ProvisionTypeOK, ClustersRead, SubmittedWasChecked, IsAsk, JobKnown
<1>22. ASSUME NEW s \in Slots, AskFails(s)
       PROVE  CheckedInv'
  <2>3. /\ asked' \in [Slots -> Asks \cup {Nil}]
        /\ \A q \in Slots : asked'[q] = asked[q] \/ asked'[q] = Nil
    BY <1>1, <1>22, FreeFacts DEF ProvisionTypeOK, AskFails
  <2> QED
    BY <1>22, <2>3
    DEF CheckedInv, ProvisionTypeOK, AskFails, SubmittedWasChecked, IsAsk, JobKnown
<1>23. ASSUME NEW s \in Slots, PollFails(s)
       PROVE  CheckedInv'
  <2>3. /\ asked' \in [Slots -> Asks \cup {Nil}]
        /\ \A q \in Slots : asked'[q] = asked[q] \/ asked'[q] = Nil
    BY <1>1, <1>23, FreeFacts DEF ProvisionTypeOK, PollFails
  <2>4. lost' \in [count : 0..MaxLost, now : BOOLEAN]
    BY <1>1, <1>23, ProvisionBounds DEF ProvisionTypeOK, PollFails
  <2> QED
    BY <1>23, <2>3, <2>4
    DEF CheckedInv, ProvisionTypeOK, PollFails, SubmittedWasChecked, IsAsk, JobKnown
<1>24. CASE UNCHANGED provisionVars
  BY <1>24
  DEF provisionVars, CheckedInv, ProvisionTypeOK, SubmittedWasChecked, IsAsk, JobKnown
<1> QED
  BY <1>7, <1>8, <1>9, <1>10, <1>11, <1>12, <1>13, <1>14, <1>15, <1>16, <1>17, <1>18, <1>19,
     <1>20, <1>21, <1>22, <1>23, <1>24 DEF ProvisionNext

-----------------------------------------------------------------------------
(* The drawer that imports a cluster.                                      *)

(* What an answer was asked from: a step of the wizard, with its           *)
(* kubeconfig.                                                             *)
AskedFrom(c) ==
  /\ c.kind = "preview" => /\ ~ c.drawer.editing
                           /\ c.drawer.kubeconfig = c.kubeconfig
  /\ c.kind = "upload"  => /\ ~ c.drawer.editing /\ c.drawer.step = 0

(* The last step is reached by a precheck's answer only, and the form that *)
(* edits has no precheck.                                                  *)
WizardFits ==
  \/ crossed
  \/ /\ wizard.connected \in {Blank, wizard.kubeconfig}
     /\ wizard.editing => wizard.connected = Blank /\ wizard.step = 0
     /\ wizard.step = 2 => wizard.kubeconfig \in reached

PreviewedInv ==
  /\ ImportTypeOK
  /\ WizardFits
  /\ \A p \in Places : pending[p] # Blank =>
       /\ AskedFrom(pending[p])
       /\ pending[p].kind = "create" => pending[p].kubeconfig \in reached \/ pending[p].excused

LEMMA PreviewedIsEnough == PreviewedInv => ImportWasPreviewed
  BY DEF PreviewedInv, WizardFits, ImportWasPreviewed, IsPending

LEMMA PreviewedInit == ImportInit => PreviewedInv
<1> SUFFICES ASSUME ImportInit PROVE PreviewedInv
  OBVIOUS
<1>1. wizard \in Drawers /\ wizard.connected = Blank /\ wizard.step = 0
  BY DEF ImportInit, Closed, Drawers, Fields
<1>2. \A p \in Places : pending[p] = Blank
  BY DEF ImportInit
<1>3. pending \in [Places -> Pending \cup {Blank}]
  BY DEF ImportInit
<1>4. ImportTypeOK
  BY <1>1, <1>3 DEF ImportInit, ImportTypeOK
<1> QED
  BY <1>1, <1>2, <1>4 DEF PreviewedInv, WizardFits

(* The effect forgets a precheck of another kubeconfig and touches nothing *)
(* else.                                                                   *)
LEMMA RenderFacts ==
  ASSUME NEW w \in Drawers, Render(w)
  PROVE  /\ wizard' \in Drawers
         /\ wizard'.open = w.open /\ wizard'.editing = w.editing /\ wizard'.step = w.step
         /\ wizard'.kubeconfig = w.kubeconfig /\ wizard'.named = w.named
         /\ wizard'.connected \in {Blank, w.connected}
         /\ ~ w.editing /\ <<Watched(w), w.editing>> # <<Watched(wizard), wizard.editing>>
              => wizard'.connected = Blank
<1>1. Blank \in Fields
  BY DEF Fields
<1> QED
  BY <1>1 DEF Render, Drawers

LEMMA AwaitFacts ==
  ASSUME pending \in [Places -> Pending \cup {Blank}], NEW c \in Pending, Await(c)
  PROVE  /\ pending' \in [Places -> Pending \cup {Blank}]
         /\ \A p \in Places : pending'[p] = pending[p] \/ pending'[p] = c
  BY DEF Await

LEMMA DoneFacts ==
  ASSUME pending \in [Places -> Pending \cup {Blank}], NEW p \in Places, Done(p)
  PROVE  /\ pending' \in [Places -> Pending \cup {Blank}]
         /\ \A q \in Places : pending'[q] = pending[q] \/ pending'[q] = Blank
  BY DEF Done

(* An answer that came to what it was asked from leaves no trace.          *)
LEMMA CrossingFacts ==
  ASSUME crossed \in BOOLEAN, NEW p \in Places, Crossing(p)
  PROVE  /\ crossed' \in BOOLEAN
         /\ crossed' \/ (~ crossed /\ wizard = pending[p].drawer)
  BY DEF Crossing

(* Requests that were under way go on as before.                           *)
LEMMA PendingKept ==
  ASSUME PreviewedInv, reached \subseteq reached', NEW c,
         \A q \in Places : pending'[q] \in {pending[q], Blank, c},
         c # Blank => /\ AskedFrom(c)
                      /\ c.kind = "create" => c.kubeconfig \in reached' \/ c.excused
  PROVE  (\A p \in Places : pending[p] # Blank =>
            /\ AskedFrom(pending[p])
            /\ pending[p].kind = "create" =>
                 pending[p].kubeconfig \in reached \/ pending[p].excused)'
<1> SUFFICES ASSUME NEW p \in Places, pending'[p] # Blank
             PROVE  /\ AskedFrom(pending'[p])
                    /\ pending'[p].kind = "create" =>
                         pending'[p].kubeconfig \in reached' \/ pending'[p].excused
  BY DEF AskedFrom
<1>1. CASE pending'[p] = pending[p]
  BY <1>1 DEF PreviewedInv
<1>2. CASE pending'[p] = c
  BY <1>2
<1> QED
  BY <1>1, <1>2

LEMMA PreviewedStep == PreviewedInv /\ [ImportNext]_importVars => PreviewedInv'
<1> SUFFICES ASSUME PreviewedInv, [ImportNext]_importVars
             PROVE  PreviewedInv'
  OBVIOUS
<1>1. /\ ImportTypeOK /\ wizard \in Drawers /\ WizardFits /\ crossed \in BOOLEAN
      /\ pending \in [Places -> Pending \cup {Blank}] /\ reached \subseteq Kubeconfigs
      /\ previewing \in BOOLEAN
  BY DEF PreviewedInv, ImportTypeOK
<1>2. Closed \in Drawers
  BY DEF Closed, Drawers, Fields
<1>3. ASSUME UNCHANGED pending, reached' = reached
      PROVE  (\A p \in Places : pending[p] # Blank =>
                /\ AskedFrom(pending[p])
                /\ pending[p].kind = "create" =>
                     pending[p].kubeconfig \in reached \/ pending[p].excused)'
  BY <1>3 DEF PreviewedInv, AskedFrom
<1>4. CASE OpenDrawer
  <2>1. PICK editing \in BOOLEAN :
          Render([Closed EXCEPT !.open = TRUE, !.editing = editing, !.named = editing])
    BY <1>4 DEF OpenDrawer
  <2> SUFFICES ASSUME NEW w, w = [Closed EXCEPT !.open = TRUE, !.editing = editing,
                                                !.named = editing]
               PROVE  PreviewedInv'
    OBVIOUS
  <2>2. w \in Drawers /\ w.connected = Blank /\ w.step = 0
    BY <1>2 DEF Closed, Drawers
  <2>3. Render(w)
    BY <2>1
  <2>4. /\ wizard' \in Drawers /\ wizard'.step = 0 /\ wizard'.connected = Blank
    BY <2>2, <2>3, RenderFacts
  <2>5. WizardFits'
    BY <2>4 DEF WizardFits
  <2> QED
    BY <1>1, <1>3, <1>4, <2>4, <2>5 DEF OpenDrawer, PreviewedInv, ImportTypeOK
<1>5. ASSUME Render(Closed)
      PROVE  wizard' \in Drawers /\ WizardFits'
  <2>1. Closed.connected = Blank /\ Closed.step = 0
    BY DEF Closed
  <2> QED
    BY <1>2, <1>5, <2>1, RenderFacts DEF WizardFits
<1>6. CASE CloseDrawer
  BY <1>1, <1>3, <1>5, <1>6 DEF CloseDrawer, PreviewedInv, ImportTypeOK
<1>7. CASE TypeKubeconfig
  <2>1. PICK k \in Fields \ {wizard.kubeconfig} : Render([wizard EXCEPT !.kubeconfig = k])
    BY <1>7 DEF TypeKubeconfig
  <2> SUFFICES ASSUME NEW w, w = [wizard EXCEPT !.kubeconfig = k]
               PROVE  PreviewedInv'
    OBVIOUS
  <2>2. /\ w \in Drawers /\ w.connected = wizard.connected /\ w.step = wizard.step
        /\ w.editing = wizard.editing /\ w.kubeconfig = k
    BY <1>1 DEF Drawers
  <2>3. ~ w.editing => Watched(w) # Watched(wizard)
    BY <1>7, <2>2 DEF TypeKubeconfig, Watched
  <2>4. Render(w) /\ crossed' = crossed /\ reached' = reached
    BY <1>7, <2>1 DEF TypeKubeconfig
  <2>5. /\ wizard' \in Drawers /\ wizard'.step = wizard.step /\ wizard'.kubeconfig = k
        /\ wizard'.editing = wizard.editing /\ wizard'.connected \in {Blank, wizard.connected}
        /\ ~ wizard.editing => wizard'.connected = Blank
    BY <2>2, <2>3, <2>4, RenderFacts
  <2>6. ~ wizard.editing => wizard.step = 0
    BY <1>7 DEF TypeKubeconfig
  <2>7. WizardFits'
    BY <1>1, <2>4, <2>5, <2>6 DEF WizardFits
  <2> QED
    BY <1>1, <1>3, <1>7, <2>5, <2>7 DEF TypeKubeconfig, PreviewedInv, ImportTypeOK
<1>8. CASE FillName
  <2> SUFFICES ASSUME NEW w, w = [wizard EXCEPT !.named = TRUE]
               PROVE  PreviewedInv'
    OBVIOUS
  <2>1. /\ w \in Drawers /\ w.connected = wizard.connected /\ w.step = wizard.step
        /\ w.editing = wizard.editing /\ w.kubeconfig = wizard.kubeconfig
    BY <1>1 DEF Drawers
  <2>2. wizard' \in Drawers /\ WizardFits'
    BY <1>1, <1>8, <2>1, RenderFacts DEF FillName, WizardFits
  <2> QED
    BY <1>1, <1>3, <1>8, <2>2 DEF FillName, PreviewedInv, ImportTypeOK
<1>9. CASE ChooseFile
  <2>1. PICK k \in Kubeconfigs : Await([kind |-> "upload", kubeconfig |-> k, drawer |-> wizard])
    BY <1>9 DEF ChooseFile
  <2> SUFFICES ASSUME NEW c, c = [kind |-> "upload", kubeconfig |-> k, drawer |-> wizard]
               PROVE  PreviewedInv'
    OBVIOUS
  <2>2. c \in Pending /\ AskedFrom(c) /\ c.kind # "create"
    BY <1>1, <1>9 DEF Pending, AskedFrom, ChooseFile
  <2>3. /\ pending' \in [Places -> Pending \cup {Blank}]
        /\ \A q \in Places : pending'[q] \in {pending[q], Blank, c}
    BY <1>1, <2>1, <2>2, AwaitFacts
  <2> QED
    BY <1>1, <1>9, <2>2, <2>3, PendingKept DEF ChooseFile, PreviewedInv, ImportTypeOK, WizardFits
<1>10. CASE StepBack
  <2> SUFFICES ASSUME NEW w, w = [wizard EXCEPT !.step = @ - 1]
               PROVE  PreviewedInv'
    OBVIOUS
  <2>1. /\ w \in Drawers /\ w.connected = wizard.connected /\ w.step # 2
        /\ w.editing = wizard.editing /\ w.kubeconfig = wizard.kubeconfig
    BY <1>1, <1>10 DEF Drawers, StepBack
  <2>2. wizard' \in Drawers /\ WizardFits'
    BY <1>1, <1>10, <2>1, RenderFacts DEF StepBack, WizardFits
  <2> QED
    BY <1>1, <1>3, <1>10, <2>2 DEF StepBack, PreviewedInv, ImportTypeOK
<1>11. CASE ContinueToName
  <2> SUFFICES ASSUME NEW w, w = [wizard EXCEPT !.step = 1]
               PROVE  PreviewedInv'
    OBVIOUS
  <2>1. /\ w \in Drawers /\ w.connected = wizard.connected /\ w.step = 1
        /\ w.editing = wizard.editing /\ w.kubeconfig = wizard.kubeconfig
    BY <1>1 DEF Drawers
  <2>2. Render(w) /\ crossed' = crossed /\ reached' = reached
    BY <1>11 DEF ContinueToName
  <2>3. /\ wizard' \in Drawers /\ wizard'.step = 1 /\ wizard'.editing = wizard.editing
        /\ wizard'.kubeconfig = wizard.kubeconfig
        /\ wizard'.connected \in {Blank, wizard.connected}
    BY <2>1, <2>2, RenderFacts
  <2>4. WizardFits'
    BY <1>1, <1>11, <2>2, <2>3 DEF ContinueToName, WizardFits
  <2> QED
    BY <1>1, <1>3, <1>11, <2>3, <2>4 DEF ContinueToName, PreviewedInv, ImportTypeOK
<1>12. CASE Preview
  <2> SUFFICES ASSUME NEW c, c = [kind |-> "preview", kubeconfig |-> wizard.kubeconfig,
                                  drawer |-> wizard]
               PROVE  PreviewedInv'
    OBVIOUS
  <2>1. wizard.kubeconfig \in Kubeconfigs
    BY <1>1, <1>12 DEF Preview, Drawers, Fields
  <2>2. c \in Pending /\ AskedFrom(c) /\ c.kind # "create"
    BY <1>1, <1>12, <2>1 DEF Pending, AskedFrom, Preview
  <2>3. /\ pending' \in [Places -> Pending \cup {Blank}]
        /\ \A q \in Places : pending'[q] \in {pending[q], Blank, c}
    BY <1>1, <1>12, <2>2, AwaitFacts DEF Preview
  <2> QED
    BY <1>1, <1>12, <2>2, <2>3, PendingKept DEF Preview, PreviewedInv, ImportTypeOK, WizardFits
<1>13. CASE SubmitImport
  <2>1. CASE wizard.named /\ wizard.kubeconfig # Blank
    <3> SUFFICES ASSUME NEW c, c = [kind |-> "create", kubeconfig |-> wizard.kubeconfig,
                                    excused |-> crossed]
                 PROVE  PreviewedInv'
      OBVIOUS
    <3>1. /\ c \in Pending /\ AskedFrom(c)
          /\ c.kubeconfig \in reached \/ c.excused
      BY <1>1, <1>13 DEF Pending, AskedFrom, SubmitImport, WizardFits, Drawers
    <3>2. /\ pending' \in [Places -> Pending \cup {Blank}]
          /\ \A q \in Places : pending'[q] \in {pending[q], Blank, c}
      BY <1>1, <1>13, <2>1, <3>1, AwaitFacts DEF SubmitImport
    <3> QED
      BY <1>1, <1>13, <2>1, <3>1, <3>2, PendingKept
      DEF SubmitImport, PreviewedInv, ImportTypeOK, WizardFits
  <2>2. CASE ~ (wizard.named /\ wizard.kubeconfig # Blank)
    <3> SUFFICES ASSUME NEW n, n = (IF wizard.named THEN 0 ELSE 1),
                        NEW w, w = [wizard EXCEPT !.step = n]
                 PROVE  PreviewedInv'
      OBVIOUS
    <3>1. /\ w \in Drawers /\ w.connected = wizard.connected /\ w.step # 2
          /\ w.editing = wizard.editing /\ w.kubeconfig = wizard.kubeconfig
      BY <1>1 DEF Drawers
    <3>2. Render(w)
      BY <1>13, <2>2 DEF SubmitImport
    <3>3. wizard' \in Drawers /\ WizardFits'
      BY <1>1, <1>13, <3>1, <3>2, RenderFacts DEF SubmitImport, WizardFits
    <3> QED
      BY <1>1, <1>3, <1>13, <2>2, <3>3 DEF SubmitImport, PreviewedInv, ImportTypeOK
  <2> QED
    BY <2>1, <2>2
<1>14. CASE SubmitEdit
  <2> SUFFICES ASSUME NEW c, c = [kind |-> "update", kubeconfig |-> wizard.kubeconfig,
                                  excused |-> crossed]
               PROVE  PreviewedInv'
    OBVIOUS
  <2>1. c \in Pending /\ AskedFrom(c) /\ c.kind # "create"
    BY <1>1 DEF Pending, AskedFrom, Drawers
  <2>2. /\ pending' \in [Places -> Pending \cup {Blank}]
        /\ \A q \in Places : pending'[q] \in {pending[q], Blank, c}
    BY <1>1, <1>14, <2>1, AwaitFacts DEF SubmitEdit
  <2> QED
    BY <1>1, <1>14, <2>1, <2>2, PendingKept DEF SubmitEdit, PreviewedInv, ImportTypeOK, WizardFits
<1>15. ASSUME NEW p \in Places, Done(p), reached \subseteq reached'
       PROVE  /\ pending' \in [Places -> Pending \cup {Blank}]
              /\ (\A q \in Places : pending[q] # Blank =>
                    /\ AskedFrom(pending[q])
                    /\ pending[q].kind = "create" =>
                         pending[q].kubeconfig \in reached \/ pending[q].excused)'
  <2>1. /\ pending' \in [Places -> Pending \cup {Blank}]
        /\ \A q \in Places : pending'[q] \in {pending[q], Blank, Blank}
    BY <1>1, <1>15, DoneFacts
  <2> QED
    BY <1>15, <2>1, PendingKept
<1>16. ASSUME NEW p \in Places, Previewed(p)
       PROVE  PreviewedInv'
  <2> SUFFICES ASSUME NEW w, w = [wizard EXCEPT !.step = 2, !.connected = pending[p].kubeconfig]
               PROVE  PreviewedInv'
    OBVIOUS
  <2>1. /\ pending[p].kubeconfig \in Kubeconfigs /\ ~ pending[p].drawer.editing
        /\ pending[p].drawer.kubeconfig = pending[p].kubeconfig
    BY <1>1, <1>16 DEF Previewed, IsPending, PreviewedInv, AskedFrom, Pending
  <2>2. /\ w \in Drawers /\ w.connected = pending[p].kubeconfig /\ w.step = 2
        /\ w.editing = wizard.editing /\ w.kubeconfig = wizard.kubeconfig
    <3>1. pending[p].kubeconfig \in Fields
      BY <2>1 DEF Fields
    <3> SUFFICES ASSUME NEW k, k = pending[p].kubeconfig
                 PROVE  w \in Drawers /\ w.connected = k /\ w.step = 2
                        /\ w.editing = wizard.editing /\ w.kubeconfig = wizard.kubeconfig
      OBVIOUS
    <3>2. k \in Fields /\ w = [wizard EXCEPT !.step = 2, !.connected = k]
      BY <3>1
    <3>3. wizard \in Drawers
      BY <1>1
    <3>4. w = [open |-> wizard.open, editing |-> wizard.editing, step |-> 2,
               kubeconfig |-> wizard.kubeconfig, named |-> wizard.named, connected |-> k]
      BY ONLY <3>2, <3>3 DEF Drawers
    <3> QED
      BY ONLY <3>2, <3>3, <3>4 DEF Drawers
  <2>3. crossed' \in BOOLEAN /\ (crossed' \/ (~ crossed /\ wizard = pending[p].drawer))
    BY <1>1, <1>16, CrossingFacts DEF Previewed
  <2>4. wizard' \in Drawers /\ WizardFits'
    BY <1>16, <2>1, <2>2, <2>3, RenderFacts DEF Previewed, WizardFits
  <2> QED
    BY <1>1, <1>15, <1>16, <2>1, <2>3, <2>4 DEF Previewed, PreviewedInv, ImportTypeOK
<1>17. ASSUME NEW p \in Places, PreviewFails(p)
       PROVE  PreviewedInv'
  BY <1>1, <1>15, <1>17 DEF PreviewFails, PreviewedInv, ImportTypeOK, WizardFits
<1>18. ASSUME NEW p \in Places, Uploaded(p)
       PROVE  PreviewedInv'
  <2> SUFFICES ASSUME NEW w, w = [wizard EXCEPT !.kubeconfig = pending[p].kubeconfig]
               PROVE  PreviewedInv'
    OBVIOUS
  <2>1. /\ pending[p].kubeconfig \in Kubeconfigs /\ ~ pending[p].drawer.editing
        /\ pending[p].drawer.step = 0
    BY <1>1, <1>18 DEF Uploaded, IsPending, PreviewedInv, AskedFrom, Pending
  <2>2. /\ w \in Drawers /\ w.connected = wizard.connected /\ w.step = wizard.step
        /\ w.editing = wizard.editing /\ w.kubeconfig = pending[p].kubeconfig
    BY <1>1, <2>1 DEF Drawers, Fields
  <2>3. crossed' \in BOOLEAN /\ (crossed' \/ (~ crossed /\ wizard = pending[p].drawer))
    BY <1>1, <1>18, CrossingFacts DEF Uploaded
  <2>4. wizard.step = 0 /\ w.kubeconfig # wizard.kubeconfig => Watched(w) # Watched(wizard)
    BY <2>2 DEF Watched
  <2>5. Render(w) /\ reached' = reached
    BY <1>18 DEF Uploaded
  <2>6. /\ wizard' \in Drawers /\ wizard'.step = wizard.step
        /\ wizard'.kubeconfig = pending[p].kubeconfig
        /\ wizard'.editing = wizard.editing /\ wizard'.connected \in {Blank, wizard.connected}
        /\ ~ wizard.editing /\ Watched(w) # Watched(wizard) => wizard'.connected = Blank
    BY <2>2, <2>5, RenderFacts
  <2>7. WizardFits'
    BY <1>1, <2>1, <2>2, <2>3, <2>4, <2>6 DEF WizardFits
  <2> QED
    BY <1>1, <1>15, <1>18, <2>3, <2>5, <2>6, <2>7 DEF Uploaded, PreviewedInv, ImportTypeOK
<1>19. ASSUME NEW p \in Places, Saved(p)
       PROVE  PreviewedInv'
  BY <1>1, <1>5, <1>15, <1>19 DEF Saved, PreviewedInv, ImportTypeOK
<1>20. ASSUME NEW p \in Places, SaveFails(p)
       PROVE  PreviewedInv'
  BY <1>1, <1>15, <1>20 DEF SaveFails, PreviewedInv, ImportTypeOK, WizardFits
<1>21. CASE UNCHANGED importVars
  BY <1>1, <1>3, <1>21 DEF importVars, PreviewedInv, ImportTypeOK, WizardFits
<1> QED
  BY <1>4, <1>6, <1>7, <1>8, <1>9, <1>10, <1>11, <1>12, <1>13, <1>14, <1>16, <1>17, <1>18,
     <1>19, <1>20, <1>21 DEF ImportNext

-----------------------------------------------------------------------------
(* The lists of users, roles and clusters.                                 *)

(* What a list or an answer shows is no newer than the table.              *)
NotAhead(seen, l) == \A t \in Source[l] : seen[t] <= db[t]

(* An answer that will bring list l up to date.                            *)
WillShow(r, l) == r.list = l /\ (r.seen = NoForm \/ r.seen = Current(l))

Reads == [n : 1..MaxWrites, op : Ops, list : Pages,
          seen : Served \cup {NoForm}]

CaughtUpInv ==
  /\ AdminTypeOK
  /\ DOMAIN onScreen = Pages /\ reads \subseteq Reads
  /\ IsFiniteSet(writes)
  /\ \A t \in Tables : db[t] + Cardinality(writes) <= sent
  /\ \A l \in Pages : NotAhead(onScreen[l], l)
  /\ \A r \in reads : r.seen = NoForm \/ NotAhead(r.seen, r.list)
  /\ \A l \in Pages \ behind : onScreen[l] = Current(l) \/ \E r \in reads : WillShow(r, l)

LEMMA CaughtUpIsEnough == CaughtUpInv => ListsCatchUp
  BY DEF CaughtUpInv, ListsCatchUp

(* The tables a list is read from.                                         *)
LEMMA SourceFacts ==
  /\ Pages = {"users", "roles", "clusters", "dashboard"}
  /\ \A l \in Pages : Source[l] \subseteq Tables
  /\ Source["users"] = {"users", "roles"} /\ Source["roles"] = {"roles"}
  /\ Source["clusters"] = {"clusters"} /\ Source["dashboard"] = Tables
  BY DEF Pages, Source, Tables

LEMMA CurrentFacts ==
  ASSUME db \in [Tables -> 0..MaxWrites], NEW l \in Pages
  PROVE  Current(l) \in Versions(l) /\ NotAhead(Current(l), l)
<1>1. Source[l] \subseteq Tables
  BY SourceFacts
<1> QED
  BY <1>1, AdminBounds DEF Current, Versions, NotAhead, Tables

(* A list that shows every table as it is is current.                      *)
LEMMA CurrentIfEqual ==
  ASSUME db \in [Tables -> 0..MaxWrites], NEW l \in Pages, NEW seen \in Versions(l),
         \A t \in Source[l] : seen[t] = db[t]
  PROVE  seen = Current(l)
  BY DEF Versions, Current

LEMMA CaughtUpInit == AdminInit => CaughtUpInv
<1> SUFFICES ASSUME AdminInit PROVE CaughtUpInv
  OBVIOUS
<1>1. db \in [Tables -> 0..MaxWrites] /\ sent = 0 /\ \A t \in Tables : db[t] = 0
  BY AdminBounds DEF AdminInit
<1>2. \A l \in Pages : onScreen[l] = Current(l)
  BY DEF AdminInit
<1>3. \A l \in Pages : onScreen[l] \in Versions(l) /\ NotAhead(onScreen[l], l)
  BY <1>1, <1>2, CurrentFacts
<1>4. IsFiniteSet(writes) /\ Cardinality(writes) = 0
  BY FS_EmptySet DEF AdminInit
<1>5. AdminTypeOK
  BY <1>1, <1>3, AdminBounds DEF AdminInit, AdminTypeOK
<1> QED
  BY <1>1, <1>2, <1>3, <1>4, <1>5 DEF AdminInit, CaughtUpInv, Reads

(* A step that leaves tables, lists and reads alone, and no list less      *)
(* behind.                                                                 *)
LEMMA ListsKept ==
  ASSUME CaughtUpInv, UNCHANGED <<db, onScreen, reads>>, behind \subseteq behind'
  PROVE  /\ (\A l \in Pages : NotAhead(onScreen[l], l))'
         /\ (\A r \in reads : r.seen = NoForm \/ NotAhead(r.seen, r.list))'
         /\ (\A l \in Pages \ behind :
               onScreen[l] = Current(l) \/ \E r \in reads : WillShow(r, l))'
<1>1. \A l : Current(l)' = Current(l)
  BY DEF Current
<1>2. \A l, r : WillShow(r, l)' = WillShow(r, l)
  BY <1>1 DEF WillShow
<1>3. \A s, l : NotAhead(s, l)' = NotAhead(s, l)
  BY DEF NotAhead
<1> QED
  BY <1>1, <1>2, <1>3 DEF CaughtUpInv

LEMMA SendFacts ==
  ASSUME CaughtUpInv, NEW op \in Ops, Send(op)
  PROVE  CaughtUpInv'
<1>1. sent \in 0..MaxWrites /\ sent + 1 \in 1..MaxWrites /\ sent' = sent + 1
  BY AdminBounds DEF CaughtUpInv, AdminTypeOK, Send
<1>2. writes' = writes \cup {[n |-> sent + 1, op |-> op, failed |-> FALSE]} /\ IsFiniteSet(writes)
  BY DEF Send, CaughtUpInv
<1>3. /\ IsFiniteSet(writes') /\ Cardinality(writes) \in Nat /\ Cardinality(writes') \in Nat
      /\ Cardinality(writes') <= Cardinality(writes) + 1
  <2> SUFFICES ASSUME NEW x, writes' = writes \cup {x}
               PROVE  /\ IsFiniteSet(writes') /\ Cardinality(writes) \in Nat
                      /\ Cardinality(writes') \in Nat
                      /\ Cardinality(writes') <= Cardinality(writes) + 1
    BY <1>2
  <2>1. IsFiniteSet(writes') /\ Cardinality(writes') \in {Cardinality(writes), Cardinality(writes) + 1}
    BY <1>2, FS_AddElement
  <2>2. Cardinality(writes) \in Nat
    BY <1>2, FS_CardinalityType
  <2> QED
    BY <2>1, <2>2
<1>4. \A t \in Tables : db[t] \in Nat /\ db'[t] = db[t]
  BY AdminBounds DEF CaughtUpInv, AdminTypeOK, Send
<1>5. \A t \in Tables : db'[t] + Cardinality(writes') <= sent'
  BY <1>1, <1>3, <1>4 DEF CaughtUpInv
<1>6. AdminTypeOK'
  <2>1. [n |-> sent + 1, op |-> op, failed |-> FALSE]
          \in [n : 1..MaxWrites, op : Ops, failed : BOOLEAN]
    BY <1>1
  <2>2. writes' \in SUBSET [n : 1..MaxWrites, op : Ops, failed : BOOLEAN]
    BY <1>2, <2>1 DEF CaughtUpInv, AdminTypeOK
  <2> QED
    BY <1>1, <2>2 DEF CaughtUpInv, AdminTypeOK, Send
<1> QED
  BY <1>3, <1>5, <1>6, ListsKept DEF CaughtUpInv, Send

(* A write that has ended makes room for the version it may have made.     *)
LEMMA WriteEnds ==
  ASSUME CaughtUpInv, NEW w \in writes, writes' = writes \ {w}, UNCHANGED sent
  PROVE  /\ IsFiniteSet(writes') /\ Cardinality(writes') + 1 = Cardinality(writes)
         /\ Cardinality(writes') \in Nat
         /\ \A t \in Tables : /\ db[t] \in Nat /\ db[t] + 1 \in 0..MaxWrites
                              /\ db[t] + 1 + Cardinality(writes') <= sent
<1>1. IsFiniteSet(writes) /\ sent \in 0..MaxWrites
  BY DEF CaughtUpInv, AdminTypeOK
<1>2. /\ IsFiniteSet(writes') /\ Cardinality(writes') + 1 = Cardinality(writes)
      /\ Cardinality(writes') \in Nat
  <2>1. IsFiniteSet(writes') /\ Cardinality(writes') = Cardinality(writes) - 1
    BY <1>1, FS_RemoveElement
  <2>2. Cardinality(writes) \in Nat /\ Cardinality(writes') \in Nat
    BY <1>1, <2>1, FS_CardinalityType
  <2> QED
    BY <2>1, <2>2
<1>3. \A t \in Tables : db[t] \in Nat /\ db[t] + Cardinality(writes) <= sent
  BY AdminBounds DEF CaughtUpInv, AdminTypeOK
<1>4. ASSUME NEW t \in Tables
      PROVE  /\ db[t] \in Nat /\ db[t] + 1 \in 0..MaxWrites
             /\ db[t] + 1 + Cardinality(writes') <= sent
  <2> SUFFICES ASSUME NEW a \in Nat, a = db[t], NEW b \in Nat, b = Cardinality(writes'),
                      a + (b + 1) <= sent
               PROVE  a + 1 \in 0..MaxWrites /\ a + 1 + b <= sent
    BY <1>2, <1>3
  <2> QED
    BY <1>1, AdminBounds
<1> QED
  BY <1>2, <1>4

LEMMA GrownBy ==
  ASSUME db \in [Tables -> 0..MaxWrites], NEW t0 \in Tables, db' = [db EXCEPT ![t0] = @ + 1],
         NEW n \in Nat, \A t \in Tables : db[t] \in Nat /\ db[t] + 1 + n <= sent,
         sent \in Nat
  PROVE  \A t \in Tables : db'[t] + n <= sent
  OBVIOUS

(* A table that has changed: the lists read from it are read again or      *)
(* known to be behind.                                                     *)
LEMMA TableChanged ==
  ASSUME CaughtUpInv, NEW t0 \in Tables, db' = [db EXCEPT ![t0] = @ + 1],
         db[t0] + 1 \in 0..MaxWrites, UNCHANGED onScreen, NEW fresh,
         \A r \in fresh : r.seen = NoForm, reads' = reads \cup fresh,
         behind \subseteq behind',
         \A l \in Pages : t0 \in Source[l] => \/ l \in behind'
                                              \/ \E r \in fresh : r.list = l
  PROVE  /\ db' \in [Tables -> 0..MaxWrites]
         /\ (\A l \in Pages : NotAhead(onScreen[l], l))'
         /\ (\A r \in reads : r.seen = NoForm \/ NotAhead(r.seen, r.list))'
         /\ (\A l \in Pages \ behind :
               onScreen[l] = Current(l) \/ \E r \in reads : WillShow(r, l))'
<1>1. db \in [Tables -> 0..MaxWrites] /\ \A t \in Tables : db[t] \in Nat
  BY AdminBounds DEF CaughtUpInv, AdminTypeOK
<1>2. db' \in [Tables -> 0..MaxWrites] /\ \A t \in Tables : db'[t] \in Nat /\ db[t] <= db'[t]
  BY <1>1, AdminBounds
<1>3. ASSUME NEW l \in Pages, NEW seen \in Versions(l), NotAhead(seen, l)
      PROVE  NotAhead(seen, l)'
  <2> SUFFICES ASSUME NEW t \in Source[l] PROVE seen[t] <= db'[t]
    BY DEF NotAhead
  <2>1. t \in Tables /\ seen[t] \in Nat
    BY <1>3, SourceFacts, AdminBounds DEF Versions
  <2> QED
    BY <1>1, <1>2, <1>3, <2>1 DEF NotAhead
<1>4. \A l \in Pages : onScreen[l] \in Versions(l) /\ NotAhead(onScreen[l], l)
  BY DEF CaughtUpInv, AdminTypeOK
<1>5. \A r \in reads : r.list \in Pages
                       /\ (r.seen = NoForm \/ (r.seen \in Versions(r.list)
                                               /\ NotAhead(r.seen, r.list)))
  BY DEF CaughtUpInv, AdminTypeOK
<1>6. (\A l \in Pages \ behind :
         onScreen[l] = Current(l) \/ \E r \in reads : WillShow(r, l))'
  <2> SUFFICES ASSUME NEW l \in Pages, l \notin behind'
               PROVE  onScreen'[l] = Current(l)' \/ \E r \in reads' : WillShow(r, l)'
    OBVIOUS
  <2>1. CASE t0 \in Source[l]
    <3>1. PICK r \in fresh : r.list = l
      BY <2>1
    <3> QED
      BY <3>1 DEF WillShow
  <2>2. CASE t0 \notin Source[l]
    <3>1. \A t \in Source[l] : db'[t] = db[t]
      BY <1>1, <2>2, SourceFacts
    <3>2. Current(l)' = Current(l)
      BY <3>1 DEF Current
    <3>3. \A r : WillShow(r, l) => WillShow(r, l)'
      BY <3>2 DEF WillShow
    <3> QED
      BY <3>2, <3>3 DEF CaughtUpInv
  <2> QED
    BY <2>1, <2>2
<1> QED
  BY <1>2, <1>3, <1>4, <1>5, <1>6

LEMMA CaughtUpStep == CaughtUpInv /\ [AdminNext]_adminVars => CaughtUpInv'
<1> SUFFICES ASSUME CaughtUpInv, [AdminNext]_adminVars
             PROVE  CaughtUpInv'
  OBVIOUS
<1>1. /\ AdminTypeOK /\ db \in [Tables -> 0..MaxWrites]
      /\ \A t \in Tables : db[t] \in Nat
      /\ \A l \in Pages : onScreen[l] \in Versions(l) /\ NotAhead(onScreen[l], l)
      /\ \A r \in reads : /\ r.n \in 1..MaxWrites /\ r.op \in Ops /\ r.list \in Pages
                          /\ r.seen \in Versions(r.list) \cup {NoForm}
                          /\ r.seen = NoForm \/ NotAhead(r.seen, r.list)
  BY AdminBounds DEF CaughtUpInv, AdminTypeOK
<1>2. CASE OpenForm
  BY <1>2, ListsKept DEF OpenForm, CaughtUpInv, AdminTypeOK
<1>3. CASE CloseForm
  BY <1>3, ListsKept DEF CloseForm, CaughtUpInv, AdminTypeOK
<1>4. CASE \/ SubmitUser \/ SubmitRole \/ TestCluster \/ SwitchMode
           \/ RemoveCluster \/ RemoveUser \/ RemoveRole
  <2>1. \E op \in Ops : Send(op)
    BY <1>4 DEF SubmitUser, SubmitRole, TestCluster, SwitchMode, RemoveCluster, RemoveUser,
                RemoveRole, Ops
  <2> QED
    BY <2>1, SendFacts
<1>5. ASSUME NEW w \in writes, WriteDone(w)
      PROVE  CaughtUpInv'
  <2> SUFFICES ASSUME NEW t0, t0 = Written(w.op),
                      NEW fresh, fresh = {[n |-> w.n, op |-> w.op, list |-> l,
                                           seen |-> NoForm] : l \in Reread(w.op)}
               PROVE  CaughtUpInv'
    OBVIOUS
  <2>1. w.op \in Ops /\ w.n \in 1..MaxWrites
    BY <1>1 DEF AdminTypeOK
  <2>2. t0 \in Tables /\ Reread(w.op) \subseteq Pages
    BY <2>1, SourceFacts DEF Written, Tables, Reread
  <2>3. /\ \A r \in fresh : /\ r.n \in 1..MaxWrites /\ r.op \in Ops /\ r.list \in Pages
                            /\ r.seen = NoForm
        /\ \A l \in Reread(w.op) : \E r \in fresh : r.list = l
        /\ fresh \subseteq Reads
    <3>1. ASSUME NEW r \in fresh
          PROVE  /\ r.n \in 1..MaxWrites /\ r.op \in Ops /\ r.list \in Pages
                 /\ r.seen = NoForm /\ r \in Reads
      <4>1. PICK l \in Reread(w.op) : r = [n |-> w.n, op |-> w.op, list |-> l, seen |-> NoForm]
        BY <3>1
      <4>2. l \in Pages
        BY <2>2
      <4>3. /\ r.n = w.n /\ r.op = w.op /\ r.list = l /\ r.seen = NoForm
        BY ONLY <4>1
      <4>4. r \in Reads
        BY ONLY <2>1, <4>1, <4>2 DEF Reads
      <4> QED
        BY ONLY <2>1, <4>2, <4>3, <4>4
    <3>2. ASSUME NEW l \in Reread(w.op) PROVE \E r \in fresh : r.list = l
      <4> SUFFICES ASSUME NEW r, r = [n |-> w.n, op |-> w.op, list |-> l, seen |-> NoForm]
                   PROVE  r \in fresh /\ r.list = l
        OBVIOUS
      <4> QED
        OBVIOUS
    <3> QED
      BY <3>1, <3>2
  <2>4. \A l \in Pages : t0 \in Source[l] => \/ l \in behind'
                                             \/ l \in Reread(w.op)
    BY <1>5, <2>1, SourceFacts DEF WriteDone, Written, Reread, Ops, Tables
  <2>5. /\ IsFiniteSet(writes') /\ Cardinality(writes') \in Nat
        /\ \A t \in Tables : /\ db[t] \in Nat /\ db[t] + 1 \in 0..MaxWrites
                             /\ db[t] + 1 + Cardinality(writes') <= sent
    BY <1>5, WriteEnds DEF WriteDone
  <2>6. /\ db' = [db EXCEPT ![t0] = @ + 1] /\ onScreen' = onScreen /\ sent' = sent
        /\ reads' = reads \cup fresh /\ behind \subseteq behind'
    BY <1>5 DEF WriteDone
  <2>. sent \in Nat
    BY <1>1, AdminBounds DEF AdminTypeOK
  <2>7. /\ db' \in [Tables -> 0..MaxWrites]
        /\ (\A l \in Pages : NotAhead(onScreen[l], l))'
        /\ (\A r \in reads : r.seen = NoForm \/ NotAhead(r.seen, r.list))'
        /\ (\A l \in Pages \ behind :
              onScreen[l] = Current(l) \/ \E r \in reads : WillShow(r, l))'
    <3>1. /\ db[t0] + 1 \in 0..MaxWrites /\ UNCHANGED onScreen
          /\ \A r \in fresh : r.seen = NoForm
          /\ \A l \in Pages : t0 \in Source[l] => \/ l \in behind'
                                                  \/ \E r \in fresh : r.list = l
      BY <2>2, <2>3, <2>4, <2>5, <2>6
    <3>2. CaughtUpInv
      OBVIOUS
    <3> QED
      BY ONLY <2>2, <2>6, <3>1, <3>2, TableChanged
  <2>8. \A t \in Tables : db'[t] + Cardinality(writes') <= sent'
    BY <1>1, <2>5, <2>6, GrownBy
  <2>9. /\ editor' \in Forms \cup {NoForm} /\ behind' \subseteq Pages /\ writes' \subseteq writes
    BY <1>1, <1>5, SourceFacts DEF WriteDone, AdminTypeOK
  <2>10. AdminTypeOK' /\ reads' \subseteq Reads
    BY <1>1, <2>3, <2>6, <2>7, <2>9 DEF AdminTypeOK, CaughtUpInv
  <2> QED
    BY <2>5, <2>6, <2>7, <2>8, <2>10 DEF CaughtUpInv
<1>6. ASSUME NEW w \in writes, WriteFails(w)
      PROVE  CaughtUpInv'
  <2> SUFFICES ASSUME NEW f, f = [w EXCEPT !.failed = TRUE]
               PROVE  CaughtUpInv'
    OBVIOUS
  <2>1. f \in [n : 1..MaxWrites, op : Ops, failed : BOOLEAN]
    BY <1>1 DEF AdminTypeOK
  <2>2. /\ writes' = (writes \ {w}) \cup {f}
        /\ UNCHANGED <<db, onScreen, editor, reads, sent, behind>>
    BY <1>6 DEF WriteFails
  <2>3. /\ IsFiniteSet(writes') /\ Cardinality(writes') \in Nat /\ Cardinality(writes) \in Nat
        /\ Cardinality(writes') <= Cardinality(writes)
    <3> SUFFICES ASSUME NEW rest, rest = writes \ {w}
                 PROVE  /\ IsFiniteSet(writes') /\ Cardinality(writes') \in Nat
                        /\ Cardinality(writes) \in Nat
                        /\ Cardinality(writes') <= Cardinality(writes)
      OBVIOUS
    <3>1. IsFiniteSet(writes) /\ Cardinality(writes) \in Nat
      BY FS_CardinalityType DEF CaughtUpInv
    <3>2. IsFiniteSet(rest) /\ Cardinality(rest) = Cardinality(writes) - 1
      BY <3>1, FS_RemoveElement
    <3>3. /\ IsFiniteSet(rest \cup {f})
          /\ Cardinality(rest \cup {f}) \in {Cardinality(rest), Cardinality(rest) + 1}
      BY <3>2, FS_AddElement
    <3>4. writes' = rest \cup {f}
      BY <2>2
    <3>5. Cardinality(rest) \in Nat /\ Cardinality(rest \cup {f}) \in Nat
      BY <3>2, <3>3, FS_CardinalityType
    <3> QED
      BY <3>1, <3>2, <3>3, <3>4, <3>5
  <2>4. \A t \in Tables : db'[t] + Cardinality(writes') <= sent'
    BY <1>1, <2>2, <2>3, AdminBounds DEF CaughtUpInv, AdminTypeOK
  <2>5. AdminTypeOK'
    BY <1>1, <2>1, <2>2 DEF AdminTypeOK
  <2> QED
    BY <2>2, <2>3, <2>4, <2>5, ListsKept DEF CaughtUpInv
<1>11. ASSUME NEW w \in writes, TakesEffect(w)
       PROVE  CaughtUpInv'
  <2> SUFFICES ASSUME NEW t0, t0 = Written(w.op), NEW e, e = {}
               PROVE  CaughtUpInv'
    OBVIOUS
  <2>1. t0 \in Tables
    BY <1>1 DEF AdminTypeOK, Written, Tables
  <2>2. /\ IsFiniteSet(writes') /\ Cardinality(writes') \in Nat
        /\ \A t \in Tables : /\ db[t] \in Nat /\ db[t] + 1 \in 0..MaxWrites
                             /\ db[t] + 1 + Cardinality(writes') <= sent
    BY <1>11, WriteEnds DEF TakesEffect
  <2>3. /\ db' = [db EXCEPT ![t0] = @ + 1] /\ onScreen' = onScreen /\ sent' = sent
        /\ reads' = reads \cup e /\ editor' = editor /\ writes' \subseteq writes
        /\ behind' = behind \cup {l \in Pages : t0 \in Source[l]}
    BY <1>11 DEF TakesEffect
  <2>. sent \in Nat
    BY <1>1, AdminBounds DEF AdminTypeOK
  <2>4. /\ db' \in [Tables -> 0..MaxWrites]
        /\ (\A l \in Pages : NotAhead(onScreen[l], l))'
        /\ (\A r \in reads : r.seen = NoForm \/ NotAhead(r.seen, r.list))'
        /\ (\A l \in Pages \ behind :
              onScreen[l] = Current(l) \/ \E r \in reads : WillShow(r, l))'
    <3>1. /\ CaughtUpInv /\ db[t0] + 1 \in 0..MaxWrites /\ UNCHANGED onScreen
          /\ \A r \in e : r.seen = NoForm
          /\ behind \subseteq behind'
          /\ \A l \in Pages : t0 \in Source[l] => \/ l \in behind'
                                                  \/ \E r \in e : r.list = l
      BY <2>1, <2>2, <2>3
    <3> QED
      BY ONLY <2>1, <2>3, <3>1, TableChanged
  <2>5. \A t \in Tables : db'[t] + Cardinality(writes') <= sent'
    BY <1>1, <2>1, <2>2, <2>3, GrownBy
  <2>6. reads' = reads /\ behind' \subseteq Pages
    BY <1>1, <2>3 DEF AdminTypeOK
  <2>7. AdminTypeOK'
    BY <1>1, <2>3, <2>4, <2>6 DEF AdminTypeOK
  <2> QED
    BY <2>2, <2>3, <2>4, <2>5, <2>6, <2>7 DEF CaughtUpInv
<1>7. ASSUME NEW r \in reads, ReadServed(r)
      PROVE  CaughtUpInv'
  <2> SUFFICES ASSUME NEW d, d = [r EXCEPT !.seen = Current(r.list)]
               PROVE  CaughtUpInv'
    OBVIOUS
  <2>1. /\ r \in Reads /\ r.seen = NoForm /\ r.list \in Pages /\ r.n \in 1..MaxWrites
        /\ r.op \in Ops /\ Current(r.list) \in Versions(r.list)
        /\ NotAhead(Current(r.list), r.list)
    BY <1>1, <1>7, CurrentFacts DEF ReadServed, CaughtUpInv
  <2>2. /\ d \in Reads /\ d.list = r.list /\ d.seen = Current(r.list)
        /\ d.n = r.n /\ d.op = r.op
    <3>1. Current(r.list) \in Served
      BY <2>1 DEF Served
    <3> QED
      BY <2>1, <3>1 DEF Reads
  <2>3. /\ reads' = (reads \ {r}) \cup {d}
        /\ UNCHANGED <<db, onScreen, editor, writes, sent, behind>>
    BY <1>7 DEF ReadServed
  <2>4. \A l : Current(l)' = Current(l) /\ \A x : NotAhead(x, l)' = NotAhead(x, l)
    BY <2>3 DEF Current, NotAhead
  <2>5. \A x, l : WillShow(x, l)' = WillShow(x, l)
    BY <2>4 DEF WillShow
  <2>6. \A l : WillShow(r, l) => WillShow(d, l)
    BY <2>2 DEF WillShow
  <2>7. (\A l \in Pages \ behind : onScreen[l] = Current(l) \/ \E x \in reads : WillShow(x, l))'
    BY <2>3, <2>4, <2>5, <2>6 DEF CaughtUpInv
  <2>8. \A x \in reads' : /\ x \in Reads /\ x.n \in 1..MaxWrites /\ x.op \in Ops /\ x.list \in Pages
                          /\ x.seen \in Versions(x.list) \cup {NoForm}
                          /\ x.seen = NoForm \/ NotAhead(x.seen, x.list)'
    BY <1>1, <2>1, <2>2, <2>3, <2>4 DEF CaughtUpInv
  <2>9. AdminTypeOK'
    BY <1>1, <2>3, <2>8 DEF AdminTypeOK
  <2> QED
    BY <2>3, <2>4, <2>7, <2>8, <2>9 DEF CaughtUpInv
<1>8. ASSUME NEW r \in reads, ReadShown(r)
      PROVE  CaughtUpInv'
  <2> SUFFICES ASSUME NEW l, l = r.list
               PROVE  CaughtUpInv'
    OBVIOUS
  <2>1. /\ l \in Pages /\ r.seen # NoForm /\ r.seen \in Versions(l) /\ NotAhead(r.seen, l)
    BY <1>1, <1>8 DEF ReadShown
  <2>2. /\ reads' = reads \ {r} /\ onScreen' = [onScreen EXCEPT ![l] = r.seen]
        /\ UNCHANGED <<db, editor, writes, sent>>
    BY <1>8 DEF ReadShown
  <2>3. behind' = IF \E t \in Source[l] : r.seen[t] < onScreen[l][t] THEN behind \cup {l}
                  ELSE IF r.seen = Current(l) THEN behind \ {l} ELSE behind
    BY <1>8 DEF ReadShown
  <2>4. \A x : Current(x)' = Current(x) /\ \A y : NotAhead(y, x)' = NotAhead(y, x)
    BY <2>2 DEF Current, NotAhead
  <2>5. \A x, y : WillShow(x, y)' = WillShow(x, y)
    BY <2>4 DEF WillShow
  <2>6. DOMAIN onScreen = Pages
    BY <1>1 DEF CaughtUpInv
  <2>7. \A x \in Pages : onScreen'[x] = IF x = l THEN r.seen ELSE onScreen[x]
    BY <2>1, <2>2, <2>6
  <2>8. ASSUME NEW x \in Pages, x \notin behind', x # l
        PROVE  onScreen'[x] = Current(x)' \/ \E y \in reads' : WillShow(y, x)'
    <3>1. x \notin behind
      BY <2>3, <2>8
    <3>2. ~ WillShow(r, x)
      BY <2>8 DEF WillShow
    <3> QED
      BY <2>2, <2>4, <2>5, <2>7, <2>8, <3>1, <3>2 DEF CaughtUpInv
  <2>9. ASSUME l \notin behind'
        PROVE  onScreen'[l] = Current(l)' \/ \E y \in reads' : WillShow(y, l)'
    <3>1. CASE r.seen = Current(l)
      BY <2>1, <2>4, <2>7, <3>1
    <3>2. CASE r.seen # Current(l)
      <4>1. l \notin behind /\ \A t \in Source[l] : ~ (r.seen[t] < onScreen[l][t])
        BY <2>3, <2>9, <3>2
      <4>2. onScreen[l] # Current(l)
        <5> SUFFICES ASSUME onScreen[l] = Current(l) PROVE FALSE
          OBVIOUS
        <5>1. ASSUME NEW t \in Source[l]
              PROVE  r.seen[t] = db[t]
          <6>1. t \in Tables /\ r.seen[t] \in Nat /\ db[t] \in Nat
            BY <1>1, <2>1, SourceFacts, AdminBounds DEF Versions
          <6>2. onScreen[l][t] = db[t]
            BY DEF Current
          <6>3. r.seen[t] <= db[t] /\ ~ (r.seen[t] < db[t])
            BY <2>1, <4>1, <6>2 DEF NotAhead
          <6> QED
            BY <6>1, <6>3
        <5> QED
          BY <1>1, <2>1, <3>2, <5>1, CurrentIfEqual
      <4>3. PICK y \in reads : WillShow(y, l)
        BY <2>1, <4>1, <4>2 DEF CaughtUpInv
      <4>4. y # r
        BY <2>1, <3>2, <4>3 DEF WillShow
      <4> QED
        BY <2>2, <2>5, <4>3, <4>4
    <3> QED
      BY <3>1, <3>2
  <2>10. \A x \in Pages : onScreen'[x] \in Versions(x) /\ NotAhead(onScreen'[x], x)
    BY <1>1, <2>1, <2>7
  <2>11. behind' \subseteq Pages
    BY <1>1, <2>1, <2>3 DEF AdminTypeOK
  <2>12. AdminTypeOK'
    BY <1>1, <2>2, <2>10, <2>11 DEF AdminTypeOK
  <2>13. DOMAIN onScreen' = Pages
    BY <2>2, <2>6
  <2> QED
    <3>1. (\A x \in Pages : NotAhead(onScreen[x], x))'
      BY <2>4, <2>10
    <3>2. (\A x \in reads : x.seen = NoForm \/ NotAhead(x.seen, x.list))'
      BY <1>1, <2>2, <2>4
    <3>3. (\A x \in Pages \ behind : onScreen[x] = Current(x) \/ \E y \in reads : WillShow(y, x))'
      BY <2>8, <2>9
    <3> QED
      BY <2>2, <2>12, <2>13, <3>1, <3>2, <3>3 DEF CaughtUpInv
<1>9. ASSUME NEW r \in reads, ReadFails(r)
      PROVE  CaughtUpInv'
  <2>1. /\ reads' = reads \ {r} /\ behind' = behind \cup {r.list} /\ r.list \in Pages
        /\ UNCHANGED <<db, onScreen, editor, writes, sent>>
    BY <1>1, <1>9 DEF ReadFails
  <2>4. \A x : Current(x)' = Current(x) /\ \A y : NotAhead(y, x)' = NotAhead(y, x)
    BY <2>1 DEF Current, NotAhead
  <2>5. \A x, y : WillShow(x, y)' = WillShow(x, y)
    BY <2>4 DEF WillShow
  <2>6. ASSUME NEW x \in Pages, x \notin behind'
        PROVE  onScreen'[x] = Current(x)' \/ \E y \in reads' : WillShow(y, x)'
    <3>1. x \notin behind /\ ~ WillShow(r, x)
      BY <2>1, <2>6 DEF WillShow
    <3> QED
      BY <2>1, <2>4, <2>5, <3>1 DEF CaughtUpInv
  <2>7. AdminTypeOK'
    BY <1>1, <2>1 DEF AdminTypeOK
  <2> QED
    BY <1>1, <2>1, <2>4, <2>6, <2>7 DEF CaughtUpInv
<1>10. CASE UNCHANGED adminVars
  BY <1>10, ListsKept DEF adminVars, CaughtUpInv, AdminTypeOK
<1> QED
  BY <1>2, <1>3, <1>4, <1>5, <1>6, <1>7, <1>8, <1>9, <1>10, <1>11 DEF AdminNext

-----------------------------------------------------------------------------
(* Nothing is created, neither from parameters nor from a kubeconfig, that *)
(* no check has let pass: submitClusterProvisionJob asks the last check of *)
(* the form once more, and no step but a precheck's answer leads           *)
(* continueClusterWizard's wizard to its end.  Only a creation is excepted *)
(* whose drawer had got an answer (a preview, or an upload) that was asked *)
(* from another drawer or other contents: that one the code lets pass.     *)
THEOREM CreatedWasCheckedHolds == Spec => []CreatedWasChecked
<1>1. Init => CheckedInv /\ PreviewedInv
  BY OneTask, CheckedInit, PreviewedInit
<1>2. CheckedInv /\ PreviewedInv /\ [Next]_vars => CheckedInv' /\ PreviewedInv'
  BY OneTask, CheckedStep, PreviewedStep
<1>3. CheckedInv /\ PreviewedInv => CreatedWasChecked
  BY PreviewedIsEnough DEF CheckedInv, CreatedWasChecked
<1> QED
  BY <1>1, <1>2, <1>3, PTL DEF Spec

(* When the writes of the pages of users, roles and clusters and the       *)
(* readings after them have been answered, every list is as those writes   *)
(* left the tables, but for a list that nothing reads again (the users     *)
(* after a role is saved, any list after a write that failed but took      *)
(* effect) and one whose reading failed or was overtaken by an older one.  *)
THEOREM ListsCatchUpHolds == Spec => []ListsCatchUp
<1>1. Init => CaughtUpInv
  BY OneTask, CaughtUpInit
<1>2. CaughtUpInv /\ [Next]_vars => CaughtUpInv'
  BY OneTask, CaughtUpStep
<1> QED
  BY <1>1, <1>2, CaughtUpIsEnough, PTL DEF Spec

DialogsInv == task \in Tasks /\ CheckedInv /\ PreviewedInv /\ CaughtUpInv /\ Bookkeeping

(* Every value of the dialogs and of the review stays of its type: no cell *)
(* of the table and no line is read out of bounds, and no job is asked for *)
(* that the server does not have.                                          *)
THEOREM DialogTypesHold == Spec => []TypeOK
<1>1. Init => DialogsInv
  BY OneTask, CheckedInit, PreviewedInit, CaughtUpInit, BookkeepingInit DEF Init, DialogsInv
<1>2. DialogsInv /\ [Next]_vars => DialogsInv'
  <2>1. task \in Tasks /\ [Next]_vars => task' \in Tasks
    BY DEF Next, vars
  <2> QED
    BY <2>1, OneTask, CheckedStep, PreviewedStep, CaughtUpStep, BookkeepingStep DEF DialogsInv
<1>3. DialogsInv => TypeOK
  BY DEF DialogsInv, CheckedInv, PreviewedInv, CaughtUpInv, Bookkeeping, TypeOK
<1> QED
  BY <1>1, <1>2, <1>3, PTL DEF Spec
===============================================================================
