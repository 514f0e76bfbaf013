---------------------------- MODULE ResourceReview ----------------------------
(***************************************************************************)
(* The review before a resource is submitted: the lines of the object's    *)
(* YAML are compared with the lines of the draft.  buildYamlDiffLines fills *)
(* the table of longest common suffixes and walks it, buildYamlDiffRows    *)
(* puts what was removed beside what was added.                            *)
(*                                                                         *)
(* A line is a value of Line; a text has at least one, since splitting an  *)
(* empty text gives one empty line.  Positions count from 1.               *)
(***************************************************************************)
EXTENDS Naturals, Sequences, FiniteSets

CONSTANTS Line,      (* contents of a line                                  *)
          EmptyLine,
          None,      (* no line                                             *)
          MaxLines   (* bound: lines of a text                              *)

ASSUME LineAssumption == EmptyLine \in Line /\ None \notin Line /\ MaxLines \in Nat

VARIABLES left, right,              (* the two texts                        *)
          pc,                       (* table, walk, rows or done            *)
          dp,
          i, j,
          leftNumber, rightNumber,
          result,                   (* the lines of the comparison          *)
          read,                     (* lines buildYamlDiffRows has seen     *)
          pendingRemoved, pendingAdded,
          rows

reviewVars == <<left, right, pc, dp, i, j, leftNumber, rightNumber, result, read,
          pendingRemoved, pendingAdded, rows>>

tableVars == <<dp, i, j>>
walkVars  == <<leftNumber, rightNumber, result>>
rowVars   == <<read, pendingRemoved, pendingAdded, rows>>

Texts == UNION {[1..n -> Line] : n \in 1..MaxLines}
Cells == (1..Len(left) + 1) \X (1..Len(right) + 1)

Kinds == {"unchanged", "removed", "added"}

(* Numbers are 0 where the code leaves them out.                           *)
DiffLines == [type : Kinds, content : Line, leftNumber : Nat, rightNumber : Nat]
DiffRows  == [left : DiffLines \cup {None}, right : DiffLines \cup {None}]

ReviewTypeOK ==
  /\ left \in Seq(Line) /\ right \in Seq(Line)
  /\ pc \in {"table", "walk", "rows", "done"}
  /\ dp \in [Cells -> Nat]
  /\ i \in 1..Len(left) + 1 /\ j \in 1..Len(right) + 1
  /\ leftNumber \in Nat /\ rightNumber \in Nat
  /\ result \in Seq(DiffLines)
  /\ read \in 0..Len(result)
  /\ pendingRemoved \in Seq(DiffLines) /\ pendingAdded \in Seq(DiffLines)
  /\ rows \in Seq(DiffRows)


(* Both texts are empty before a resource is opened.                       *)
ReviewInit ==
  /\ left = <<EmptyLine>> /\ right = <<EmptyLine>>
  /\ pc = "table"
  /\ dp = [c \in Cells |-> 0]
  /\ i = 1 /\ j = 1
  /\ leftNumber = 1 /\ rightNumber = 1 /\ result = <<>>
  /\ read = 0 /\ pendingRemoved = <<>> /\ pendingAdded = <<>> /\ rows = <<>>

-----------------------------------------------------------------------------
(* buildYamlDiffLines: the table, from the last cell to the first.         *)
Entry(a, b) ==
  IF left[a] = right[b] THEN dp[<<a + 1, b + 1>>] + 1
  ELSE IF dp[<<a + 1, b>>] >= dp[<<a, b + 1>>] THEN dp[<<a + 1, b>>] ELSE dp[<<a, b + 1>>]

FillCell ==
  /\ pc = "table"
  /\ dp' = [dp EXCEPT ![<<i, j>>] = Entry(i, j)]
  /\ \/ j > 1 /\ j' = j - 1 /\ UNCHANGED <<i, pc>>
     \/ j = 1 /\ i > 1 /\ i' = i - 1 /\ j' = Len(right) /\ UNCHANGED pc
     \/ j = 1 /\ i = 1 /\ pc' = "walk" /\ UNCHANGED <<i, j>>
  /\ UNCHANGED <<left, right, walkVars, rowVars>>

-----------------------------------------------------------------------------
(* buildYamlDiffLines: the walk, from the first cell to the last.          *)
MoreLeft  == i <= Len(left)
MoreRight == j <= Len(right)
Same      == MoreLeft /\ MoreRight /\ left[i] = right[j]

(* Faulty variant of the next: takes from the side that promises less.     *)
TakeFromWorse == dp[<<i + 1, j>>] <= dp[<<i, j + 1>>]

(* Which side to take from where the lines differ.                         *)
RemoveFirst == dp[<<i + 1, j>>] >= dp[<<i, j + 1>>]

Push(type, content, l, r) ==
  result' = Append(result, [type |-> type, content |-> content,
                            leftNumber |-> l, rightNumber |-> r])

(* Faulty variant of the next: only the left text's number advances.       *)
PushUnchangedLeft ==
  /\ pc = "walk" /\ Same
  /\ Push("unchanged", left[i], leftNumber, rightNumber)
  /\ i' = i + 1 /\ j' = j + 1 /\ leftNumber' = leftNumber + 1
  /\ UNCHANGED <<left, right, pc, dp, rightNumber, rowVars>>

PushUnchanged ==
  /\ pc = "walk" /\ Same
  /\ Push("unchanged", left[i], leftNumber, rightNumber)
  /\ i' = i + 1 /\ j' = j + 1
  /\ leftNumber' = leftNumber + 1 /\ rightNumber' = rightNumber + 1
  /\ UNCHANGED <<left, right, pc, dp, rowVars>>

PushRemoved ==
  /\ pc = "walk" /\ MoreLeft
  /\ MoreRight => ~Same /\ RemoveFirst
  /\ Push("removed", left[i], leftNumber, 0)
  /\ i' = i + 1 /\ leftNumber' = leftNumber + 1
  /\ UNCHANGED <<left, right, pc, dp, j, rightNumber, rowVars>>

PushAdded ==
  /\ pc = "walk" /\ MoreRight
  /\ MoreLeft => ~Same /\ ~RemoveFirst
  /\ Push("added", right[j], 0, rightNumber)
  /\ j' = j + 1 /\ rightNumber' = rightNumber + 1
  /\ UNCHANGED <<left, right, pc, dp, i, leftNumber, rowVars>>

EndWalk ==
  /\ pc = "walk" /\ ~MoreLeft /\ ~MoreRight
  /\ pc' = "rows"
  /\ UNCHANGED <<left, right, tableVars, walkVars, rowVars>>

-----------------------------------------------------------------------------
(* buildYamlDiffRows.                                                      *)
At(s, n) == IF n \in DOMAIN s THEN s[n] ELSE None

Pairs ==
  [n \in 1..(IF Len(pendingRemoved) >= Len(pendingAdded)
             THEN Len(pendingRemoved) ELSE Len(pendingAdded)) |->
     [left |-> At(pendingRemoved, n), right |-> At(pendingAdded, n)]]

flushPending ==
  /\ rows' = rows \o Pairs
  /\ pendingRemoved' = <<>> /\ pendingAdded' = <<>>

ReadLine ==
  /\ pc = "rows" /\ read < Len(result)
  /\ read' = read + 1
  /\ LET line == result[read + 1] IN
     \/ line.type = "unchanged" /\ flushPending
     \/ /\ line.type = "removed"
        /\ pendingRemoved' = Append(pendingRemoved, line)
        /\ UNCHANGED <<pendingAdded, rows>>
     \/ /\ line.type = "added"
        /\ pendingAdded' = Append(pendingAdded, line)
        /\ UNCHANGED <<pendingRemoved, rows>>
  /\ UNCHANGED <<left, right, pc, tableVars, walkVars>>

(* Faulty variant of the next: what is pending after the loop is dropped.  *)
NoLastFlush ==
  /\ pc = "rows" /\ read = Len(result)
  /\ pc' = "done"
  /\ UNCHANGED <<left, right, tableVars, walkVars, rowVars>>

LastFlush ==
  /\ pc = "rows" /\ read = Len(result)
  /\ flushPending
  /\ pc' = "done"
  /\ UNCHANGED <<left, right, tableVars, walkVars, read>>

(* A resource is opened or its draft edited: the comparison begins again.  *)
Compare ==
  /\ pc = "done"
  /\ left' \in Texts /\ right' \in Texts
  /\ pc' = "table"
  /\ dp' = [c \in (1..Len(left') + 1) \X (1..Len(right') + 1) |-> 0]
  /\ i' = Len(left') /\ j' = Len(right')
  /\ leftNumber' = 1 /\ rightNumber' = 1 /\ result' = <<>>
  /\ read' = 0 /\ pendingRemoved' = <<>> /\ pendingAdded' = <<>> /\ rows' = <<>>

Walk == PushUnchanged \/ PushRemoved \/ PushAdded \/ EndWalk
ReviewNext == FillCell \/ Walk \/ ReadLine \/ LastFlush \/ Compare

-----------------------------------------------------------------------------
(* The lines that stand in the left text, and in the right one.            *)
OfLeft  == {k \in DOMAIN result : result[k].type # "added"}
OfRight == {k \in DOMAIN result : result[k].type # "removed"}

(* The lines K of a comparison, under the numbers they carry, are the      *)
(* first m lines of a text, each once and in order.                        *)
Covers(lines, K, number, text, m) ==
  /\ \A k \in K : lines[k][number] \in 1..m /\ lines[k].content = text[lines[k][number]]
  /\ \A k, l \in K : k < l => lines[k][number] < lines[l][number]
  /\ \A n \in 1..m : \E k \in K : lines[k][number] = n

(* The comparison accounts for every line of both texts, once, in order    *)
(* and under its own number: what the reviewer reads is the whole change   *)
(* and nothing else (buildYamlDiffLines).                                  *)
ScriptIsSound ==
  pc \in {"rows", "done"} => /\ Covers(result, OfLeft, "leftNumber", left, Len(left))
                            /\ Covers(result, OfRight, "rightNumber", right, Len(right))

(* A matching of the two texts from line a and line b on: pairs of equal   *)
(* lines, no two of which cross or share a line.                           *)
IsMatching(M, a, b) ==
  /\ M \subseteq (a..Len(left)) \X (b..Len(right))
  /\ \A p \in M : left[p[1]] = right[p[2]]
  /\ \A p, q \in M : p[1] < q[1] <=> p[2] < q[2]

Unchanged == {k \in DOMAIN result : result[k].type = "unchanged"}

(* No way to match the two texts keeps more lines than the one shown, so a *)
(* reviewer never sees a line as removed and added that could have been    *)
(* left alone (buildYamlDiffLines, summarizeYamlDiff).                     *)
ScriptIsShortest ==
  pc \in {"rows", "done"} =>
    \A M \in SUBSET ((1..Len(left)) \X (1..Len(right))) :
      IsMatching(M, 1, 1) => Cardinality(M) <= Cardinality(Unchanged)

(* One side of the rows shows the lines of a type, each once and in the    *)
(* order of their numbers.                                                 *)
ShowsAll(side, type, number) ==
  /\ \A k \in DOMAIN result : result[k].type = type =>
       \E n \in DOMAIN rows : rows[n][side] = result[k]
  /\ \A n \in DOMAIN rows : rows[n][side] # None =>
       \E k \in DOMAIN result : result[k].type = type /\ rows[n][side] = result[k]
  /\ \A m, n \in DOMAIN rows : m < n /\ rows[m][side] # None /\ rows[n][side] # None =>
       rows[m][side][number] < rows[n][side][number]

(* The rows on screen hold every removed and every added line once and in  *)
(* order, and put side by side only lines that no unchanged line parts     *)
(* (buildYamlDiffRows: a hunk is flushed when it ends, the last one after   *)
(* the loop).                                                              *)
RowsLoseNothing ==
  pc = "done" =>
    /\ ShowsAll("left", "removed", "leftNumber") /\ ShowsAll("right", "added", "rightNumber")
    /\ \A n \in DOMAIN rows : LET l == rows[n].left
                                  r == rows[n].right IN
         l # None /\ r # None =>
           \A k \in Unchanged : result[k].leftNumber < l.leftNumber
                                  <=> result[k].rightNumber < r.rightNumber
=============================================================================
