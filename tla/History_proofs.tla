---------------------------- MODULE History_proofs ----------------------------
(* Proofs about History, for any number of rows, any lines and any names:   *)
(* no gap stops the user on the way up, the line that was being typed comes *)
(* back on the way down, and TAB completes as far as the names agree.       *)
EXTENDS CommandLine, NatFacts

\* Going up from the first row stays in it.
LEMMA UpIsLess ==
  ASSUME NEW k \in Nat
  PROVE  Max({0, k - 1}) = IF k = 0 THEN 0 ELSE k - 1
<1>. DEFINE S == {0, k - 1}
<1>1. Max(S) = CHOOSE x \in S : \A y \in S : x >= y
  BY DEF Max
<1>2. \A x : (x \in S /\ \A y \in S : x >= y) <=> x = IF k = 0 THEN 0 ELSE k - 1
  OBVIOUS
<1>. QED  BY <1>1, <1>2

\* The rows, their two indices, what is below the newest row, and what is in it while an
\* older one is on display.
IndexType ==
    /\ history = [r \in Rows |-> history[r]]
    /\ history_idx \in Indices
    /\ absolute_history_idx \in Indices
    /\ history_idx <= absolute_history_idx

PendingKept ==
    history_idx < absolute_history_idx /\ absolute_history_idx \in Rows
        => history[absolute_history_idx] = pending

HistoryInv == IndexType /\ NoGapInHistory /\ PendingKept

LEMMA InitHistory == Init => HistoryInv
  BY HistoryAssumption
     DEF Init, HistoryInv, IndexType, NoGapInHistory, PendingKept, Rows, Indices

\* The search for an empty row passes only rows in use.
LEMMA EmptyRowFound ==
  ASSUME NEW rows, NEW e \in EmptyRow(rows)
  PROVE  e \in Indices /\ \A r \in Rows : r < e => rows[r] # <<>>
<1>. USE HistoryAssumption
<1>. DEFINE empty == {r \in Rows : rows[r] = <<>>}
<1>1. CASE empty = {}
  <2>1. e \in HISTORY_ROWS..(SEARCH_ROWS - 1)
    BY <1>1 DEF EmptyRow
  <2>2. \A r \in Rows : rows[r] # <<>>
    BY <1>1
  <2>. QED  BY <2>1, <2>2 DEF Indices
<1>2. CASE empty # {}
  <2>1. e = Min(empty)
    BY <1>2 DEF EmptyRow
  <2>2. empty \subseteq Nat
    BY DEF Rows
  <2>. HIDE DEF empty
  <2>3. e \in empty /\ \A k \in empty : e <= k
    BY <1>2, <2>1, <2>2, MinIsLeast
  <2>4. \A r \in Rows : r < e => rows[r] # <<>>
    BY <2>3 DEF empty, Rows
  <2>. QED  BY <2>3, <2>4 DEF empty, Rows, Indices
<1>. QED  BY <1>1, <1>2

\* Entering a line, which may be an old one that was recalled and changed.
LEMMA ReturnHistory == ASSUME HistoryInv, keyboard_return PROVE HistoryInv'
<1>. USE HistoryAssumption
<1>1. IndexType /\ NoGapInHistory /\ PendingKept
  BY DEF HistoryInv
<1>2. CASE history_idx < HISTORY_ROWS
  <2>1. /\ history' = [history EXCEPT ![history_idx] = line]
        /\ history_idx' \in EmptyRow(history') /\ absolute_history_idx' = history_idx'
    BY <1>2 DEF keyboard_return
  <2>2. history_idx' \in Indices /\ \A r \in Rows : r < history_idx' => history'[r] # <<>>
    BY <2>1, EmptyRowFound
  <2>3. history' = [r \in Rows |-> history'[r]]
    BY <1>1, <2>1 DEF IndexType
  <2>. QED  BY <2>1, <2>2, <2>3 DEF HistoryInv, IndexType, NoGapInHistory, PendingKept, Indices
<1>3. CASE ~(history_idx < HISTORY_ROWS)
  <2>1. UNCHANGED <<history, history_idx, absolute_history_idx>>
    BY <1>3 DEF keyboard_return
  <2>2. ~(absolute_history_idx \in Rows)
    BY <1>1, <1>3 DEF IndexType, Rows, Indices
  <2>. QED  BY <1>1, <2>1, <2>2 DEF HistoryInv, IndexType, NoGapInHistory, PendingKept
<1>. QED  BY <1>2, <1>3

\* Going up stores the newest line in its own row.
LEMMA UpHistory == ASSUME HistoryInv, move_up_history PROVE HistoryInv'
<1>. USE HistoryAssumption
<1>1. IndexType /\ NoGapInHistory /\ PendingKept
  BY DEF HistoryInv
<1>2. /\ history' = RowsSaved /\ absolute_history_idx' = absolute_history_idx
      /\ pending' = IF AtNewest THEN line ELSE pending
      /\ history_idx' = IF history_idx = 0 THEN 0 ELSE history_idx - 1
  <2>1. history_idx \in Nat
    BY <1>1 DEF IndexType, Indices
  <2>. QED  BY <2>1, UpIsLess DEF move_up_history
<1>3. history_idx' \in Indices /\ history_idx' <= absolute_history_idx'
  BY <1>1, <1>2 DEF IndexType, Indices
<1>4. history' = [r \in Rows |-> history'[r]]
  BY <1>1, <1>2 DEF IndexType, RowsSaved
<1>5. \A r \in Rows : r # absolute_history_idx => history'[r] = history[r]
  BY <1>1, <1>2 DEF IndexType, RowsSaved, AtNewest
<1>6. AtNewest /\ absolute_history_idx \in Rows => history'[absolute_history_idx] = line
  BY <1>1, <1>2 DEF IndexType, RowsSaved, AtNewest
<1>7. ~AtNewest => history' = history /\ history_idx < absolute_history_idx
  BY <1>1, <1>2 DEF IndexType, RowsSaved, AtNewest, Indices
<1>8. NoGapInHistory'
  BY <1>1, <1>2, <1>5 DEF NoGapInHistory, Rows, IndexType, Indices
<1>9. PendingKept'
  BY <1>1, <1>2, <1>6, <1>7 DEF PendingKept
<1>. QED  BY <1>1, <1>2, <1>3, <1>4, <1>8, <1>9 DEF HistoryInv, IndexType

LEMMA HistoryStep == ASSUME HistoryInv, [Next]_vars PROVE HistoryInv'
<1>1. CASE UNCHANGED <<history, history_idx, absolute_history_idx, pending>>
  BY <1>1 DEF HistoryInv, IndexType, NoGapInHistory, PendingKept
<1>2. CASE move_down_history
  <2>1. history_idx + 1 <= absolute_history_idx /\ history_idx' = history_idx + 1
    BY <1>2 DEF move_down_history, CanMoveDown
  <2>2. UNCHANGED <<history, absolute_history_idx, pending>>
    BY <1>2 DEF move_down_history
  <2>3. /\ history_idx \in Nat /\ absolute_history_idx \in Indices
        /\ absolute_history_idx \in Nat
    BY HistoryAssumption DEF HistoryInv, IndexType, Indices
  <2>4. history_idx' \in Indices /\ history_idx' <= absolute_history_idx
    BY <2>1, <2>3, HistoryAssumption DEF Indices
  <2>5. history_idx < absolute_history_idx
    BY <2>1, <2>3
  <2>. QED  BY <2>2, <2>4, <2>5 DEF HistoryInv, IndexType, NoGapInHistory, PendingKept
<1>. QED  BY <1>1, <1>2, ReturnHistory, UpHistory DEF Next, Edit, autocomplete, vars

\* For any number of rows, and however old lines are recalled, changed, emptied, completed
\* and entered again: every row before the newest one holds a line, so that no gap stops
\* the user on the way up (keyboard.c:323-331).
THEOREM NoGaps == Spec => []NoGapInHistory
<1>1. HistoryInv => NoGapInHistory
  BY DEF HistoryInv
<1>. QED  BY <1>1, InitHistory, HistoryStep, PTL DEF Spec

\* The line the user was typing when first moving up is shown again by the move down that
\* reaches the newest row (keyboard.c:355-357, 387-409).
THEOREM PendingLineKept == Spec => PendingComesBack
<1>1. HistoryInv /\ [Next]_vars
      => [(move_down_history /\ history_idx' = absolute_history_idx) => line' = pending]_vars
  <2>. SUFFICES ASSUME HistoryInv, move_down_history, history_idx' = absolute_history_idx
                PROVE  line' = pending
    OBVIOUS
  <2>1. history_idx' = history_idx + 1 /\ history_idx + 1 < HISTORY_ROWS
    BY DEF move_down_history, CanMoveDown
  <2>2. history_idx < absolute_history_idx /\ absolute_history_idx \in Rows
    BY <2>1, HistoryAssumption DEF HistoryInv, IndexType, Rows, Indices
  <2>. QED  BY <2>1, <2>2 DEF move_down_history, HistoryInv, PendingKept
<1>. QED  BY <1>1, InitHistory, HistoryStep, PTL DEF Spec, PendingComesBack
-----------------------------------------------------------------------------
(* Completion, for every directory and every line.                          *)

LEMMA MinOfTwo ==
  ASSUME NEW a \in Nat, NEW b \in Nat
  PROVE  Min({a, b}) = IF a <= b THEN a ELSE b
<1>1. Min({a, b}) \in {a, b} /\ \A k \in {a, b} : Min({a, b}) <= k
  BY MinIsLeast
<1>. QED  BY <1>1

LEMMA PrefixByCharacters ==
  ASSUME NEW C, NEW s \in Seq(C), NEW t \in Seq(C)
  PROVE  IsPrefix(s, t) <=> Len(s) <= Len(t) /\ \A k \in 1..Len(s) : s[k] = t[k]
<1>1. SubSeq(s, 1, Len(s)) = [k \in 1..Len(s) |-> s[k]]
  OBVIOUS
<1>2. Len(s) <= Len(t) => SubSeq(t, 1, Len(s)) = [k \in 1..Len(s) |-> t[k]]
  OBVIOUS
<1>. QED  BY <1>1, <1>2 DEF IsPrefix

LEMMA Concatenated ==
  ASSUME NEW C, NEW a \in Seq(C), NEW b \in Seq(C)
  PROVE  /\ a \o b \in Seq(C) /\ Len(a \o b) = Len(a) + Len(b)
         /\ \A k \in 1..Len(a) : (a \o b)[k] = a[k]
         /\ \A k \in (Len(a) + 1)..(Len(a) + Len(b)) : (a \o b)[k] = b[k - Len(a)]
  OBVIOUS

\* Two sequences of the same characters are the same.
LEMMA SameCharacters ==
  ASSUME NEW C, NEW a \in Seq(C), NEW b \in Seq(C), Len(a) = Len(b),
         \A k \in 1..Len(a) : a[k] = b[k]
  PROVE  a = b
  OBVIOUS

\* The last word is not empty, and with what is before it makes the line.
LEMMA LastWord ==
  ASSUME NEW C, NEW l \in Seq(C), l # <<>>
  PROVE  /\ old_idx(l) \in 0..(Len(l) - 1)
         /\ prefix(l) \in Seq(C) /\ Len(prefix(l)) = Len(l) - old_idx(l)
         /\ SubSeq(l, 1, old_idx(l)) \in Seq(C)
         /\ SubSeq(l, 1, old_idx(l)) \o prefix(l) = l
<1>1. Len(l) \in Nat /\ Len(l) - 1 \in Nat
  OBVIOUS
<1>2. PICK S : S = {0} \cup {i \in 1..(Len(l) - 1) : l[i] = SPACE}
  OBVIOUS
<1>3. S # {} /\ S \subseteq 0..(Len(l) - 1)
  BY <1>1, <1>2
<1>4. PICK o : o = old_idx(l)
  OBVIOUS
<1>5. o \in 0..(Len(l) - 1)
  BY <1>1, <1>2, <1>3, <1>4, MaxIsGreatest DEF old_idx
<1>6. prefix(l) = SubSeq(l, o + 1, Len(l))
  BY <1>4 DEF prefix
<1>7. /\ SubSeq(l, o + 1, Len(l)) \in Seq(C) /\ Len(SubSeq(l, o + 1, Len(l))) = Len(l) - o
      /\ \A k \in 1..(Len(l) - o) : SubSeq(l, o + 1, Len(l))[k] = l[o + k]
  BY <1>1, <1>5
<1>8. /\ SubSeq(l, 1, o) \in Seq(C) /\ Len(SubSeq(l, 1, o)) = o
      /\ \A k \in 1..o : SubSeq(l, 1, o)[k] = l[k]
  BY <1>1, <1>5
<1>9. SubSeq(l, 1, o) \o SubSeq(l, o + 1, Len(l)) = l
  <2>0. PICK a, b : a = SubSeq(l, 1, o) /\ b = SubSeq(l, o + 1, Len(l))
    OBVIOUS
  <2>1. /\ a \in Seq(C) /\ Len(a) = o /\ \A k \in 1..o : a[k] = l[k]
        /\ b \in Seq(C) /\ Len(b) = Len(l) - o /\ \A k \in 1..(Len(l) - o) : b[k] = l[o + k]
    BY <1>7, <1>8, <2>0
  <2>2. /\ a \o b \in Seq(C) /\ Len(a \o b) = o + (Len(l) - o)
        /\ \A k \in 1..o : (a \o b)[k] = a[k]
        /\ \A k \in (o + 1)..(o + (Len(l) - o)) : (a \o b)[k] = b[k - o]
    <3>1. /\ a \o b \in Seq(C) /\ Len(a \o b) = Len(a) + Len(b)
          /\ \A k \in 1..Len(a) : (a \o b)[k] = a[k]
          /\ \A k \in (Len(a) + 1)..(Len(a) + Len(b)) : (a \o b)[k] = b[k - Len(a)]
      BY <2>1, Concatenated, Zenon
    <3>. QED  BY <2>1, <3>1, Zenon
  <2>3. Len(a \o b) = Len(l)
    BY <1>1, <1>5, <2>2
  <2>4. ASSUME NEW k \in 1..Len(l) PROVE (a \o b)[k] = l[k]
    <3>1. CASE k <= o
      BY <1>1, <1>5, <2>1, <2>2, <3>1
    <3>2. CASE ~(k <= o)
      <4>1. k - o \in 1..(Len(l) - o) /\ k \in (o + 1)..(o + (Len(l) - o)) /\ o + (k - o) = k
        BY <1>1, <1>5, <3>2
      <4>. QED  BY <2>1, <2>2, <4>1
    <3>. QED  BY <3>1, <3>2
  <2>5. a \o b = l
    BY <2>2, <2>3, <2>4, SameCharacters
  <2>. QED  BY <2>0, <2>5
<1>. QED  BY <1>4, <1>5, <1>6, <1>7, <1>8, <1>9

\* What ls holds after k entries of the directory: exactly the names among them that begin
\* with the prefix, each once if the directory has each once.
Found(q, names_, k, ls) ==
    /\ \A m \in 1..Len(ls) : \E j \in 1..k : ls[m] = names_[j] /\ IsPrefix(q, names_[j])
    /\ \A j \in 1..k : IsPrefix(q, names_[j]) => \E m \in 1..Len(ls) : ls[m] = names_[j]
    /\ \A m, n \in 1..Len(ls) : ls[m] = ls[n] => m = n

Distinct(seq) == \A m, n \in 1..Len(seq) : seq[m] = seq[n] => m = n

LEMMA FoundNext ==
  ASSUME NEW T, NEW ns \in Seq(T), Distinct(ns), NEW q, NEW k \in 1..Len(ns),
         NEW ls \in Seq(T), Found(q, ns, k - 1, ls)
  PROVE  /\ IsPrefix(q, ns[k]) => Found(q, ns, k, Append(ls, ns[k]))
         /\ ~IsPrefix(q, ns[k]) => Found(q, ns, k, ls)
<1>0. k - 1 \in Nat /\ \A j : j \in 1..k <=> j \in 1..(k - 1) \/ j = k
  OBVIOUS
<1>1. CASE ~IsPrefix(q, ns[k])
  BY <1>0, <1>1 DEF Found
<1>2. CASE IsPrefix(q, ns[k])
  <2>0. PICK new, n : new = Append(ls, ns[k]) /\ n = Len(ls)
    OBVIOUS
  <2>1. /\ n \in Nat /\ Len(new) = n + 1 /\ new[n + 1] = ns[k]
        /\ \A m \in 1..n : new[m] = ls[m]
        /\ \A m : m \in 1..(n + 1) <=> m \in 1..n \/ m = n + 1
    BY <2>0
  <2>2. \A m \in 1..n : new[m] # ns[k]
    <3>1. ASSUME NEW m \in 1..n PROVE new[m] # ns[k]
      <4>1. PICK j \in 1..(k - 1) : ls[m] = ns[j]
        BY <2>0 DEF Found
      <4>2. j \in 1..Len(ns) /\ j # k
        BY <1>0
      <4>. QED  BY <2>1, <4>1, <4>2 DEF Distinct
    <3>. QED  BY <3>1
  <2>3. \A m \in 1..Len(new) : \E j \in 1..k : new[m] = ns[j] /\ IsPrefix(q, ns[j])
    BY <1>0, <1>2, <2>0, <2>1 DEF Found
  <2>4. \A j \in 1..k : IsPrefix(q, ns[j]) => \E m \in 1..Len(new) : new[m] = ns[j]
    BY <1>0, <1>2, <2>0, <2>1 DEF Found
  <2>5. \A a, b \in 1..Len(new) : new[a] = new[b] => a = b
    BY <2>0, <2>1, <2>2 DEF Found
  <2>6. Found(q, ns, k, new)
    BY <2>3, <2>4, <2>5 DEF Found
  <2>. QED  BY <1>2, <2>0, <2>6
<1>. QED  BY <1>1, <1>2

LEMMA MatchesAre ==
  ASSUME NEW T, NEW ns \in Seq(T), Distinct(ns), NEW l
  PROVE  Matches(ns, l) \in Seq(T) /\ Found(prefix(l), ns, Len(ns), Matches(ns, l))
<1>0. PICK N, q : N = Len(ns) /\ q = prefix(l) /\ N \in Nat
  OBVIOUS
<1>. DEFINE Step(k, ls) == IF IsPrefix(q, ns[k]) THEN Append(ls, ns[k]) ELSE ls
            Loop(f) == [k \in 0..N |-> IF k = 0 THEN <<>> ELSE Step(k, f[k - 1])]
            G == [kl \in (1..N) \X Seq(T) |-> Step(kl[1], kl[2])]
<1>1. G \in [(1..N) \X Seq(T) -> Seq(T)] /\ <<>> \in Seq(T)
  <2>1. ASSUME NEW kl \in (1..N) \X Seq(T) PROVE Step(kl[1], kl[2]) \in Seq(T)
    <3>1. kl[1] \in 1..N /\ kl[2] \in Seq(T) /\ ns[kl[1]] \in T
      BY <1>0
    <3>. QED  BY <3>1
  <2>. QED  BY <2>1
<1>2. \A k \in 1..N : \A ls \in Seq(T) : G[<<k, ls>>] = Step(k, ls)
  OBVIOUS
<1>. HIDE DEF G
<1>3. PICK f \in [0..N -> Seq(T)] : f[0] = <<>> /\ \A k \in 1..N : f[k] = G[<<k, f[k - 1]>>]
  <2>1. \E f \in [0..N -> Seq(T)] : Computes(f, N, <<>>, G)
    BY <1>0, <1>1, RecursionDefines, Zenon
  <2>. QED  BY <2>1 DEF Computes
<1>4. ASSUME NEW k \in 1..N PROVE f[k] = Step(k, f[k - 1])
  <2>1. k - 1 \in 0..N
    BY <1>0
  <2>2. f[k - 1] \in Seq(T)
    BY <1>3, <2>1
  <2>. HIDE DEF Step
  <2>. QED  BY <1>2, <1>3, <2>2
<1>5. f = Loop(f)
  <2>. HIDE DEF Step
  <2>1. f = [k \in 0..N |-> f[k]]
    BY <1>3
  <2>2. ASSUME NEW k \in 0..N PROVE f[k] = IF k = 0 THEN <<>> ELSE Step(k, f[k - 1])
    <3>1. k # 0 => k \in 1..N
      BY <1>0
    <3>. QED  BY <1>3, <1>4, <3>1
  <2>. QED  BY <2>1, <2>2
<1>6. PICK g : g = CHOOSE h : h = Loop(h)
  OBVIOUS
<1>7. g = Loop(g)
  BY <1>5, <1>6
<1>8. Matches(ns, l) = g[N]
  BY <1>0, <1>6 DEF Matches
<1>9. g[0] = <<>> /\ \A k \in 1..N : g[k] = Step(k, g[k - 1])
  <2>1. g[0] = <<>>
    BY <1>0, <1>7
  <2>2. ASSUME NEW k \in 1..N PROVE g[k] = Step(k, g[k - 1])
    <3>1. k \in 0..N /\ k # 0
      BY <1>0
    <3>. QED  BY <1>7, <3>1
  <2>. QED  BY <2>1, <2>2
<1>. DEFINE I == {k \in Nat : k <= N => g[k] \in Seq(T) /\ Found(q, ns, k, g[k])}
<1>10. 0 \in I
  <2>1. Found(q, ns, 0, <<>>)
    BY DEF Found
  <2>2. g[0] \in Seq(T) /\ Found(q, ns, 0, g[0])
    BY <1>1, <1>9, <2>1
  <2>. QED  BY <2>2
<1>11. ASSUME NEW n \in Nat, n \in I PROVE n + 1 \in I
  <2>. SUFFICES ASSUME n + 1 <= N
                PROVE  g[n + 1] \in Seq(T) /\ Found(q, ns, n + 1, g[n + 1])
    OBVIOUS
  <2>0. PICK k : k = n + 1
    OBVIOUS
  <2>1. k \in 1..Len(ns) /\ k - 1 = n /\ n <= N /\ ns[k] \in T
    BY <1>0, <2>0
  <2>2. g[n] \in Seq(T) /\ Found(q, ns, k - 1, g[n])
    BY <1>11, <2>1
  <2>3. g[k] = Step(k, g[n])
    BY <1>0, <1>9, <2>1
  <2>4. /\ IsPrefix(q, ns[k]) => Found(q, ns, k, Append(g[n], ns[k]))
        /\ ~IsPrefix(q, ns[k]) => Found(q, ns, k, g[n])
    BY <2>1, <2>2, FoundNext
  <2>. QED  BY <2>0, <2>1, <2>2, <2>3, <2>4
<1>. HIDE DEF I
<1>12. N \in I
  BY <1>0, <1>10, <1>11, SetInduction
<1>. QED  BY <1>0, <1>8, <1>12 DEF I

\* The first d characters of x are the longest common prefix of F, if all agree on them and
\* on no longer beginning.
Agree(F, x, d) == \A y \in F : d <= Len(y) /\ \A k \in 1..d : y[k] = x[k]

LEMMA Beginning ==
  ASSUME NEW C, NEW x \in Seq(C), NEW d \in 0..Len(x)
  PROVE  /\ SubSeq(x, 1, d) \in Seq(C) /\ Len(SubSeq(x, 1, d)) = d
         /\ \A k \in 1..d : SubSeq(x, 1, d)[k] = x[k]
  OBVIOUS

LEMMA LongestIsWhereTheyPart ==
  ASSUME NEW C, NEW F, F \subseteq Seq(C), NEW x \in F, NEW d \in 0..Len(x), Agree(F, x, d),
         \A e \in 0..Len(x) : Agree(F, x, e) => e <= d
  PROVE  LongestCommonPrefix(F) = SubSeq(x, 1, d)
<1>0. PICK z, CP : z = SubSeq(x, 1, d) /\ CP = CommonPrefixes(F)
  OBVIOUS
<1>1. z \in Seq(C) /\ Len(z) = d /\ \A k \in 1..d : z[k] = x[k]
  BY <1>0, Beginning
<1>2. z \in CP
  <2>1. z \in Prefixes(x)
    BY <1>0 DEF Prefixes
  <2>2. \A y \in F : IsPrefix(z, y)
    BY <1>1, PrefixByCharacters DEF Agree
  <2>. QED  BY <1>0, <2>1, <2>2 DEF CommonPrefixes
<1>3. ASSUME NEW w \in CP
      PROVE  w \in Seq(C) /\ Len(w) <= d /\ \A k \in 1..Len(w) : w[k] = x[k]
  <2>1. PICK s \in F : w \in Prefixes(s)
    BY <1>0, <1>3 DEF CommonPrefixes
  <2>2. PICK e \in 0..Len(s) : w = SubSeq(s, 1, e)
    BY <2>1 DEF Prefixes
  <2>3. w \in Seq(C) /\ Len(w) = e
    BY <2>2, Beginning
  <2>4. \A y \in F : IsPrefix(w, y)
    BY <1>0, <1>3 DEF CommonPrefixes
  <2>5. \A y \in F : Len(w) <= Len(y) /\ \A k \in 1..Len(w) : w[k] = y[k]
    BY <2>3, <2>4, PrefixByCharacters
  <2>6. e \in 0..Len(x) /\ Agree(F, x, e)
    BY <2>3, <2>5 DEF Agree
  <2>. QED  BY <2>3, <2>5, <2>6
<1>4. \A other \in CP : Len(other) <= Len(z)
  BY <1>1, <1>3
<1>5. ASSUME NEW w \in CP, \A other \in CP : Len(other) <= Len(w) PROVE w = z
  <2>1. Len(w) = d
    <3>1. d <= Len(w) /\ Len(w) <= d /\ Len(w) \in Nat /\ d \in Nat
      BY <1>1, <1>2, <1>3, <1>5
    <3>. QED  BY <3>1
  <2>2. w \in Seq(C) /\ \A k \in 1..Len(w) : w[k] = z[k]
    BY <1>1, <1>3, <2>1
  <2>. QED  BY <1>1, <2>1, <2>2, SameCharacters
<1>6. LongestCommonPrefix(F) \in CP /\ \A other \in CP : Len(other) <= Len(LongestCommonPrefix(F))
  BY <1>0, <1>2, <1>4 DEF LongestCommonPrefix
<1>. QED  BY <1>0, <1>5, <1>6

\* Two different names that begin alike part at an index that the inner loop looks at, with
\* a character of each before it.
LEMMA NeighboursPart ==
  ASSUME NEW C, NUL \notin C, NEW a \in Seq(C), NEW b \in Seq(C), a # b,
         a # <<>>, b # <<>>, a[1] = b[1]
  PROVE  /\ Differences(a, b) \subseteq Nat
         /\ \E j \in Differences(a, b) : j < Len(a) /\ j < Len(b)
<1>0. PICK n : n = Min({Len(a), Len(b)})
  OBVIOUS
<1>1. n \in Nat /\ n >= 1 /\ n = IF Len(a) <= Len(b) THEN Len(a) ELSE Len(b)
  <2>1. Len(a) \in Nat /\ Len(b) \in Nat /\ Len(a) >= 1 /\ Len(b) >= 1
    OBVIOUS
  <2>. QED  BY <1>0, <2>1, MinOfTwo
<1>2. Differences(a, b) = {j \in 0..n : CharAt(a, j + 1) # CharAt(b, j + 1)}
  BY <1>0 DEF Differences
<1>3. ASSUME \A j \in 0..(n - 1) : CharAt(a, j + 1) = CharAt(b, j + 1) PROVE FALSE
  <2>1. \A i \in 1..n : CharAt(a, i) = CharAt(b, i)
    <3>1. \A i \in 1..n : i - 1 \in 0..(n - 1) /\ (i - 1) + 1 = i
      BY <1>1
    <3>. QED  BY <1>3, <3>1
  <2>2. CharAt(a, n) = CharAt(b, n)
    BY <1>1, <2>1
  <2>3. Len(a) = Len(b)
    <3>1. CASE Len(a) < Len(b)
      <4>1. CharAt(a, n) = NUL /\ CharAt(b, n) = b[n + 1] /\ b[n + 1] \in C
        BY <1>1, <3>1 DEF CharAt
      <4>. QED  BY <2>2, <4>1
    <3>2. CASE Len(b) < Len(a)
      <4>1. CharAt(b, n) = NUL /\ CharAt(a, n) = a[n + 1] /\ a[n + 1] \in C
        BY <1>1, <3>2 DEF CharAt
      <4>. QED  BY <2>2, <4>1
    <3>. QED  BY <3>1, <3>2
  <2>4. ASSUME NEW k \in 1..Len(a) PROVE a[k] = b[k]
    <3>1. CASE k = 1
      BY <3>1
    <3>2. CASE k # 1
      <4>1. k - 1 \in 1..n /\ k - 1 < Len(a) /\ k - 1 < Len(b) /\ (k - 1) + 1 = k
        BY <1>1, <2>3, <3>2
      <4>2. CharAt(a, k - 1) = a[k] /\ CharAt(b, k - 1) = b[k]
        BY <4>1 DEF CharAt
      <4>. QED  BY <2>1, <4>1, <4>2
    <3>. QED  BY <3>1, <3>2
  <2>. QED  BY <2>3, <2>4, SameCharacters
<1>4. PICK j \in 0..(n - 1) : CharAt(a, j + 1) # CharAt(b, j + 1)
  BY <1>3
<1>5. j \in 0..n /\ j < Len(a) /\ j < Len(b)
  BY <1>1, <1>4
<1>. QED  BY <1>1, <1>2, <1>4, <1>5

\* Neighbours that agree up to index d all agree: comparing neighbours is enough.
NeighboursAgree(ls, d) == \A k \in 2..Len(ls) : \A j \in 1..d : ls[k - 1][j] = ls[k][j]
AllAgree(ls, d) == \A k, m \in 1..Len(ls) : \A j \in 1..d : ls[k][j] = ls[m][j]

LEMMA NeighboursSuffice ==
  ASSUME NEW T, NEW ls \in Seq(T), NEW d \in Nat, NeighboursAgree(ls, d)
  PROVE  AllAgree(ls, d)
<1>0. PICK n : n = Len(ls) /\ n \in Nat
  OBVIOUS
<1>. DEFINE I == {k \in Nat : k + 1 <= n => \A j \in 1..d : ls[k + 1][j] = ls[1][j]}
<1>1. 0 \in I
  OBVIOUS
<1>2. ASSUME NEW k \in Nat, k \in I PROVE k + 1 \in I
  <2>. SUFFICES ASSUME (k + 1) + 1 <= n, NEW j \in 1..d PROVE ls[(k + 1) + 1][j] = ls[1][j]
    OBVIOUS
  <2>1. (k + 1) + 1 \in 2..n /\ ((k + 1) + 1) - 1 = k + 1 /\ k + 1 <= n
    BY <1>0
  <2>2. ls[k + 1][j] = ls[1][j]
    BY <1>2, <2>1
  <2>3. ls[((k + 1) + 1) - 1][j] = ls[(k + 1) + 1][j]
    BY <1>0, <2>1 DEF NeighboursAgree
  <2>. QED  BY <2>1, <2>2, <2>3
<1>. HIDE DEF I
<1>3. Nat \subseteq I
  BY <1>1, <1>2, SetInduction
<1>4. ASSUME NEW k \in 1..n, NEW j \in 1..d PROVE ls[k][j] = ls[1][j]
  <2>1. k - 1 \in I /\ (k - 1) + 1 = k /\ k <= n
    BY <1>0, <1>3
  <2>. QED  BY <2>1 DEF I
<1>. QED  BY <1>0, <1>4 DEF AllAgree

\* What the two loops of autocomplete find in min: the first place after which two of the
\* matches differ.
PartAfter(ls, m) ==
    /\ \A k \in 1..Len(ls) : m + 1 <= Len(ls[k])
    /\ AllAgree(ls, m + 1)
    /\ \E k \in 2..Len(ls) : CharAt(ls[k - 1], m + 1) # CharAt(ls[k], m + 1)

LEMMA MinParts ==
  ASSUME NEW C, NUL \notin C, NEW ls \in Seq(Seq(C)), Distinct(ls), Len(ls) > 1,
         NEW q \in Seq(C), q # <<>>, \A k \in 1..Len(ls) : IsPrefix(q, ls[k])
  PROVE  min(ls) \in Nat /\ PartAfter(ls, min(ls))
<1>0. PICK n : n = Len(ls) /\ n \in Nat /\ n > 1
  OBVIOUS
<1>1. ASSUME NEW k \in 1..n
      PROVE  ls[k] \in Seq(C) /\ Len(ls[k]) >= 1 /\ ls[k] # <<>> /\ ls[k][1] = q[1]
  <2>1. ls[k] \in Seq(C) /\ IsPrefix(q, ls[k]) /\ Len(q) >= 1
    BY <1>0
  <2>2. Len(q) <= Len(ls[k]) /\ \A j \in 1..Len(q) : q[j] = ls[k][j]
    BY <2>1, PrefixByCharacters
  <2>. QED  BY <2>1, <2>2
<1>. DEFINE D(k) == Differences(ls[k - 1], ls[k])
<1>2. ASSUME NEW k \in 2..n
      PROVE  D(k) \subseteq Nat /\ \E j \in D(k) : j < Len(ls[k - 1]) /\ j < Len(ls[k])
  <2>1. k \in 1..n /\ k - 1 \in 1..n /\ k # k - 1
    BY <1>0
  <2>2. ls[k - 1] # ls[k]
    BY <1>0, <2>1 DEF Distinct
  <2>. QED  BY <1>1, <2>1, <2>2, NeighboursPart
<1>. HIDE DEF D
<1>3. PICK U : U = UNION {D(k) : k \in 2..n}
  OBVIOUS
<1>4. U \subseteq Nat /\ U # {} /\ \A k \in 2..n : D(k) \subseteq U
  <2>1. 2 \in 2..n
    BY <1>0
  <2>. QED  BY <1>2, <1>3, <2>1
<1>5. PICK m : m = min(ls)
  OBVIOUS
<1>6. m = Min(U)
  BY <1>0, <1>3, <1>5 DEF min, D
<1>7. m \in U /\ m \in Nat /\ \A j \in U : m <= j
  BY <1>4, <1>6, MinIsLeast
<1>8. ASSUME NEW k \in 2..n PROVE m + 1 <= Len(ls[k - 1]) /\ m + 1 <= Len(ls[k])
  <2>1. PICK j \in D(k) : j < Len(ls[k - 1]) /\ j < Len(ls[k])
    BY <1>2
  <2>2. j \in U /\ j \in Nat
    BY <1>4, <2>1
  <2>3. m <= j
    BY <1>7, <2>2
  <2>4. Len(ls[k - 1]) \in Nat /\ Len(ls[k]) \in Nat
    <3>1. k \in 1..n /\ k - 1 \in 1..n
      BY <1>0
    <3>. QED  BY <1>1, <3>1
  <2>. QED  BY <1>7, <2>1, <2>2, <2>3, <2>4
<1>9. \A k \in 1..n : m + 1 <= Len(ls[k])
  <2>1. ASSUME NEW k \in 1..n PROVE m + 1 <= Len(ls[k])
    <3>1. CASE k = 1
      <4>1. 2 \in 2..n /\ 2 - 1 = 1
        BY <1>0
      <4>. QED  BY <1>8, <3>1, <4>1
    <3>2. CASE k # 1
      <4>1. k \in 2..n
        BY <1>0, <3>2
      <4>. QED  BY <1>8, <4>1
    <3>. QED  BY <3>1, <3>2
  <2>. QED  BY <2>1
<1>10. ASSUME NEW k \in 2..n, NEW j \in 1..(m + 1) PROVE ls[k - 1][j] = ls[k][j]
  <2>0. PICK a, b : a = ls[k - 1] /\ b = ls[k]
    OBVIOUS
  <2>1. k \in 1..n /\ k - 1 \in 1..n
    BY <1>0
  <2>2. a[1] = b[1] /\ Len(a) \in Nat /\ Len(b) \in Nat /\ m + 1 <= Len(a) /\ m + 1 <= Len(b)
    BY <1>1, <1>8, <2>0, <2>1
  <2>3. CASE j = 1
    BY <2>0, <2>2, <2>3
  <2>4. CASE j # 1
    <3>0. PICK i : i = j - 2
      OBVIOUS
    <3>1. i \in Nat /\ i < m /\ i + 1 < Len(a) /\ i + 1 < Len(b) /\ (i + 1) + 1 = j
      BY <1>7, <2>2, <2>4, <3>0
    <3>2. i \notin D(k)
      BY <1>4, <1>7, <3>1
    <3>3. i \in 0..Min({Len(a), Len(b)})
      <4>1. Min({Len(a), Len(b)}) = IF Len(a) <= Len(b) THEN Len(a) ELSE Len(b)
        BY <2>2, MinOfTwo, Zenon
      <4>. QED  BY <2>2, <3>1, <4>1
    <3>4. CharAt(a, i + 1) = CharAt(b, i + 1)
      BY <2>0, <3>2, <3>3 DEF D, Differences
    <3>. QED  BY <2>0, <3>1, <3>4 DEF CharAt
  <2>. QED  BY <2>3, <2>4
<1>11. AllAgree(ls, m + 1)
  <2>1. m + 1 \in Nat
    BY <1>7
  <2>2. NeighboursAgree(ls, m + 1)
    BY <1>0, <1>10 DEF NeighboursAgree
  <2>. QED  BY <2>1, <2>2, NeighboursSuffice
<1>12. PICK k \in 2..n : m \in D(k)
  BY <1>3, <1>7
<1>13. CharAt(ls[k - 1], m + 1) # CharAt(ls[k], m + 1)
  BY <1>12 DEF D, Differences
<1>. QED  BY <1>0, <1>5, <1>7, <1>9, <1>11, <1>12, <1>13 DEF PartAfter

\* So the longest common prefix of several matches is any of them, cut off there.
LEMMA BestOfSeveral ==
  ASSUME NEW C, NUL \notin C, NEW ls \in Seq(Seq(C)), Distinct(ls), Len(ls) > 1,
         NEW q \in Seq(C), q # <<>>, \A k \in 1..Len(ls) : IsPrefix(q, ls[k])
  PROVE  /\ min(ls) + 1 \in 0..Len(Last(ls)) /\ Last(ls) \in Seq(C)
         /\ LongestCommonPrefix(Range(ls)) = SubSeq(Last(ls), 1, min(ls) + 1)
         /\ min(ls) + 1 >= Len(q)
<1>0. PICK n, m, x, F : n = Len(ls) /\ m = min(ls) /\ x = ls[n] /\ F = Range(ls)
  OBVIOUS
<1>1. n \in Nat /\ n > 1 /\ x = Last(ls) /\ n \in 1..n
  BY <1>0 DEF Last
<1>2. m \in Nat /\ PartAfter(ls, m)
  BY <1>0, MinParts
<1>3. F = {ls[k] : k \in 1..n} /\ F \subseteq Seq(C) /\ x \in F
  <2>1. F = {ls[k] : k \in 1..n}
    <3>1. DOMAIN ls = 1..n
      BY <1>0
    <3>. QED  BY <1>0, <3>1 DEF Range
  <2>2. \A k \in 1..n : ls[k] \in Seq(C)
    BY <1>0
  <2>. QED  BY <1>0, <1>1, <2>1, <2>2
<1>4. m + 1 \in 0..Len(x) /\ x \in Seq(C)
  BY <1>0, <1>1, <1>2, <1>3 DEF PartAfter
<1>5. Agree(F, x, m + 1)
  <2>1. ASSUME NEW y \in F
        PROVE  m + 1 <= Len(y) /\ \A j \in 1..(m + 1) : y[j] = x[j]
    <3>1. PICK k \in 1..n : y = ls[k]
      BY <1>3
    <3>2. m + 1 <= Len(ls[k])
      BY <1>0, <1>2 DEF PartAfter
    <3>3. \A j \in 1..(m + 1) : ls[k][j] = ls[n][j]
      BY <1>0, <1>1, <1>2 DEF PartAfter, AllAgree
    <3>. QED  BY <1>0, <3>1, <3>2, <3>3
  <2>. QED  BY <2>1 DEF Agree
<1>6. PICK k \in 2..n : CharAt(ls[k - 1], m + 1) # CharAt(ls[k], m + 1)
  BY <1>0, <1>2 DEF PartAfter
<1>7. ASSUME NEW e \in 0..Len(x), Agree(F, x, e), ~(e <= m + 1) PROVE FALSE
  <2>1. ls[k - 1] \in F /\ ls[k] \in F
    BY <1>1, <1>3
  <2>2. m + 2 \in 1..e /\ m + 1 < e
    BY <1>2, <1>4, <1>7
  <2>3. ASSUME NEW y \in F PROVE CharAt(y, m + 1) = x[m + 2]
    <3>1. e <= Len(y) /\ y[m + 2] = x[m + 2] /\ Len(y) \in Nat
      <4>1. e <= Len(y) /\ \A j \in 1..e : y[j] = x[j]
        BY <1>7 DEF Agree
      <4>2. y \in Seq(C)
        BY <1>3
      <4>. QED  BY <2>2, <4>1, <4>2
    <3>2. m + 1 < Len(y) /\ (m + 1) + 1 = m + 2
      BY <1>2, <2>2, <3>1
    <3>. QED  BY <3>1, <3>2 DEF CharAt
  <2>. QED  BY <1>6, <2>1, <2>3
<1>8. LongestCommonPrefix(F) = SubSeq(x, 1, m + 1)
  BY <1>3, <1>4, <1>5, <1>7, LongestIsWhereTheyPart
<1>9. m + 1 >= Len(q)
  <2>1. \A y \in F : Len(q) <= Len(y) /\ \A j \in 1..Len(q) : q[j] = y[j]
    <3>1. \A y \in F : y \in Seq(C) /\ IsPrefix(q, y)
      BY <1>0, <1>3
    <3>. QED  BY <3>1, PrefixByCharacters
  <2>2. Agree(F, x, Len(q)) /\ Len(q) \in 0..Len(x)
    <3>1. Len(q) \in Nat /\ Len(x) \in Nat /\ Len(q) <= Len(x)
      BY <1>3, <1>4, <2>1
    <3>2. \A y \in F : Len(q) <= Len(y) /\ \A j \in 1..Len(q) : y[j] = x[j]
      BY <1>3, <2>1
    <3>. QED  BY <3>1, <3>2 DEF Agree
  <2>. QED  BY <1>2, <1>7, <2>2
<1>. QED  BY <1>0, <1>1, <1>4, <1>8, <1>9

\* autocomplete extends the last word exactly as far as all the names that begin with it
\* agree, for every directory of distinct names and every line.
LEMMA CompletionIsRight ==
  ASSUME NEW C, NUL \notin C, NEW ns \in Seq(Seq(C)), Distinct(ns), NEW l \in Seq(C)
  PROVE  Completed(ns, l) = Expected(ns, l) /\ Completed(ns, l) \in Seq(C)
<1>1. CASE l = <<>>
  BY <1>1 DEF Completed, Completes, Expected
<1>2. CASE l # <<>>
  <2>0. PICK q, o, ls, found : /\ q = prefix(l) /\ o = SubSeq(l, 1, old_idx(l))
                               /\ ls = Matches(ns, l)
                               /\ found = {x \in Range(ns) : IsPrefix(q, x)}
    OBVIOUS
  <2>1. q \in Seq(C) /\ q # <<>> /\ Len(q) >= 1 /\ o \in Seq(C) /\ o \o q = l
    <3>1. /\ old_idx(l) \in 0..(Len(l) - 1)
          /\ prefix(l) \in Seq(C) /\ Len(prefix(l)) = Len(l) - old_idx(l)
          /\ SubSeq(l, 1, old_idx(l)) \in Seq(C)
          /\ SubSeq(l, 1, old_idx(l)) \o prefix(l) = l
      BY <1>2, LastWord
    <3>2. Len(l) \in Nat
      OBVIOUS
    <3>3. Len(q) >= 1
      BY <2>0, <3>1, <3>2
    <3>. QED  BY <2>0, <3>1, <3>3
  <2>2. ls \in Seq(Seq(C)) /\ Found(q, ns, Len(ns), ls)
    BY <2>0, MatchesAre
  <2>3. Distinct(ls) /\ \A k \in 1..Len(ls) : IsPrefix(q, ls[k])
    BY <2>2 DEF Found, Distinct
  <2>4. found = Range(ls) /\ found = {ls[k] : k \in 1..Len(ls)} /\ found \subseteq Seq(C)
    <3>1. Range(ls) = {ls[k] : k \in 1..Len(ls)} /\ Range(ns) = {ns[k] : k \in 1..Len(ns)}
      BY <2>2 DEF Range
    <3>2. found = {ls[k] : k \in 1..Len(ls)}
      <4>1. ASSUME NEW y \in found PROVE \E k \in 1..Len(ls) : ls[k] = y
        <5>1. PICK j \in 1..Len(ns) : y = ns[j]
          BY <2>0, <3>1, <4>1
        <5>2. IsPrefix(q, ns[j])
          BY <2>0, <4>1, <5>1
        <5>. QED  BY <2>2, <5>1, <5>2 DEF Found
      <4>2. ASSUME NEW k \in 1..Len(ls) PROVE ls[k] \in found
        <5>1. PICK j \in 1..Len(ns) : ls[k] = ns[j] /\ IsPrefix(q, ns[j])
          BY <2>2 DEF Found
        <5>. QED  BY <2>0, <3>1, <5>1
      <4>. QED  BY <4>1, <4>2
    <3>3. \A k \in 1..Len(ls) : ls[k] \in Seq(C)
      BY <2>2
    <3>. QED  BY <3>1, <3>2, <3>3
  <2>5. Expected(ns, l) = IF found = {} THEN l ELSE o \o LongestCommonPrefix(found)
    BY <1>2, <2>0 DEF Expected
  <2>6. Completed(ns, l) = IF Completes(ns, l) THEN o \o best(ls) ELSE l
    BY <2>0 DEF Completed
  <2>7. CASE q \in Range(ns)
    <3>1. ~Completes(ns, l)
      BY <2>0, <2>7 DEF Completes, ExactMatch
    <3>2. q \in found
      BY <2>0, <2>1, <2>7, PrefixByCharacters
    <3>3. \A y \in found : Len(q) <= Len(y) /\ \A k \in 1..Len(q) : y[k] = q[k]
      <4>1. \A y \in found : y \in Seq(C) /\ IsPrefix(q, y)
        BY <2>0, <2>4
      <4>. QED  BY <2>1, <4>1, PrefixByCharacters
    <3>4. Len(q) \in 0..Len(q) /\ Agree(found, q, Len(q))
      BY <2>1, <3>3 DEF Agree
    <3>5. \A e \in 0..Len(q) : Agree(found, q, e) => e <= Len(q)
      BY <2>1
    <3>6. LongestCommonPrefix(found) = SubSeq(q, 1, Len(q))
      BY <2>4, <3>2, <3>4, <3>5, LongestIsWhereTheyPart
    <3>7. SubSeq(q, 1, Len(q)) = q
      BY <2>1
    <3>. QED  BY <2>1, <2>5, <2>6, <3>1, <3>2, <3>6, <3>7
  <2>8. CASE found = {}
    <3>1. ls = <<>>
      <4>1. Len(ls) \in Nat
        BY <2>2
      <4>2. ~(1 \in 1..Len(ls))
        BY <2>4, <2>8
      <4>3. Len(ls) = 0
        BY <4>1, <4>2
      <4>. QED  BY <2>2, <4>3
    <3>2. ~Completes(ns, l)
      BY <2>0, <3>1 DEF Completes
    <3>. QED  BY <2>5, <2>6, <2>8, <3>2
  <2>9. CASE q \notin Range(ns) /\ found # {} /\ Len(ls) = 1
    <3>1. ls # <<>> /\ ~Ambiguous(ns, l) /\ best(ls) = ls[1]
      <4>0. Len(ls) = 1
        BY <2>9
      <4>1. ls # <<>> /\ ~(Len(ls) > 1)
        <5>1. ASSUME ls = <<>> PROVE FALSE
          <6>1. Len(ls) = 0
            BY <5>1
          <6>. QED  BY <4>0, <6>1
        <5>2. ~(Len(ls) > 1)
          BY <4>0
        <5>. QED  BY <5>1, <5>2
      <4>. QED  BY <2>0, <2>9, <4>1 DEF Ambiguous, best
    <3>2. Completes(ns, l)
      BY <1>2, <2>0, <2>9, <3>1 DEF Completes, ExactMatch
    <3>3. found = {ls[1]} /\ ls[1] \in Seq(C)
      BY <2>2, <2>4, <2>9
    <3>4. /\ Len(ls[1]) \in 0..Len(ls[1]) /\ Agree(found, ls[1], Len(ls[1]))
          /\ \A e \in 0..Len(ls[1]) : Agree(found, ls[1], e) => e <= Len(ls[1])
      BY <3>3 DEF Agree
    <3>5. LongestCommonPrefix(found) = SubSeq(ls[1], 1, Len(ls[1]))
      BY <2>4, <3>3, <3>4, LongestIsWhereTheyPart
    <3>6. SubSeq(ls[1], 1, Len(ls[1])) = ls[1]
      BY <3>3
    <3>7. o \o ls[1] \in Seq(C)
      BY <2>1, <3>3, Concatenated, Zenon
    <3>8. LongestCommonPrefix(found) = best(ls)
      BY <3>1, <3>5, <3>6
    <3>. QED  BY <2>5, <2>6, <2>9, <3>1, <3>2, <3>7, <3>8
  <2>10. CASE q \notin Range(ns) /\ found # {} /\ Len(ls) # 1
    <3>1. Len(ls) > 1 /\ ls # <<>>
      <4>1. Len(ls) \in Nat
        BY <2>2
      <4>2. PICK k : k \in 1..Len(ls)
        <5>1. PICK y : y \in found
          BY <2>10
        <5>2. found = {ls[k] : k \in 1..Len(ls)}
          BY <2>4
        <5>. QED  BY <5>1, <5>2
      <4>3. Len(ls) > 1
        <5>1. Len(ls) # 1
          BY <2>10
        <5>. QED  BY <4>1, <4>2, <5>1
      <4>. QED  BY <4>3
    <3>2. /\ min(ls) + 1 \in 0..Len(Last(ls)) /\ Last(ls) \in Seq(C)
          /\ LongestCommonPrefix(found) = SubSeq(Last(ls), 1, min(ls) + 1)
          /\ min(ls) + 1 >= Len(q)
      BY <2>1, <2>2, <2>3, <2>4, <3>1, BestOfSeveral
    <3>3. CASE Ambiguous(ns, l)
      <4>1. ~Completes(ns, l)
        BY <3>3 DEF Completes
      <4>2. Len(q) - 1 >= min(ls)
        BY <2>0, <3>3 DEF Ambiguous
      <4>3. min(ls) \in Int /\ Len(q) \in Nat
        BY <2>1, <2>2, <2>3, <3>1, MinParts
      <4>4. min(ls) + 1 = Len(q)
        BY <3>2, <4>2, <4>3
      <4>5. SubSeq(Last(ls), 1, Len(q)) = q
        <5>1. Last(ls) = ls[Len(ls)] /\ Len(ls) \in 1..Len(ls)
          BY <2>2, <3>1 DEF Last
        <5>2. IsPrefix(q, Last(ls))
          BY <2>3, <5>1
        <5>3. SubSeq(q, 1, Len(q)) = q
          BY <2>1
        <5>. QED  BY <5>2, <5>3 DEF IsPrefix
      <4>. QED  BY <2>1, <2>5, <2>6, <2>10, <3>2, <4>1, <4>4, <4>5
    <3>4. CASE ~Ambiguous(ns, l)
      <4>1. Completes(ns, l)
        BY <1>2, <2>0, <2>10, <3>1, <3>4 DEF Completes, ExactMatch
      <4>2. best(ls) = SubSeq(Last(ls), 1, min(ls) + 1)
        BY <2>10 DEF best
      <4>3. best(ls) \in Seq(C)
        BY <3>2, <4>2, Beginning
      <4>4. o \o best(ls) \in Seq(C)
        BY <2>1, <4>3, Concatenated, Zenon
      <4>. QED  BY <2>5, <2>6, <2>10, <3>2, <4>1, <4>2, <4>4
    <3>. QED  BY <3>3, <3>4
  <2>. QED  BY <2>7, <2>8, <2>9, <2>10
<1>. QED  BY <1>1, <1>2

\* Lines are made of characters, wherever they come from.
LineType(C) ==
    /\ names \in Directories
    /\ line \in Seq(C)
    /\ history \in [Rows -> Seq(C)]

\* For every image whose directory has distinct names, and every line that can be typed,
\* recalled or completed: TAB extends the last word exactly as far as all the names that
\* begin with it agree, although autocomplete compares only neighbours in its list and
\* never a first character (keyboard.c:450-548).
THEOREM CompletionCorrect ==
  ASSUME NEW CONSTANT C, NUL \notin C, Typed \subseteq Seq(C),
         \A d \in Directories : d \in Seq(Seq(C)) /\ Distinct(d)
  PROVE  Spec => []CompletesToCommonPrefix
<1>1. Init => LineType(C)
  <2>1. <<>> \in Seq(C)
    OBVIOUS
  <2>. QED  BY <2>1 DEF Init, LineType
<1>2. HistoryInv /\ LineType(C) /\ [Next]_vars => LineType(C)'
  <2>. SUFFICES ASSUME HistoryInv, LineType(C), [Next]_vars PROVE LineType(C)'
    OBVIOUS
  <2>0. <<>> \in Seq(C)
    OBVIOUS
  <2>1. ASSUME NEW l \in Typed, Edit(l) PROVE LineType(C)'
    BY <2>1 DEF Edit, LineType
  <2>2. CASE autocomplete
    <3>1. names \in Seq(Seq(C)) /\ Distinct(names) /\ line \in Seq(C)
      BY DEF LineType
    <3>2. Completed(names, line) \in Seq(C)
      BY <3>1, CompletionIsRight
    <3>. QED  BY <2>2, <3>2 DEF autocomplete, LineType
  <2>3. CASE keyboard_return
    <3>1. history' \in [Rows -> Seq(C)]
      <4>1. history' = [history EXCEPT ![history_idx] = line] \/ history' = history
        BY <2>3 DEF keyboard_return
      <4>. QED  BY <4>1 DEF LineType
    <3>2. line' = <<>> /\ names' = names
      BY <2>3 DEF keyboard_return
    <3>. QED  BY <2>0, <3>1, <3>2 DEF LineType
  <2>4. CASE move_up_history
    <3>1. history' \in [Rows -> Seq(C)]
      <4>1. history' = [history EXCEPT ![history_idx] = line] \/ history' = history
        BY <2>4 DEF move_up_history, RowsSaved
      <4>. QED  BY <4>1 DEF LineType
    <3>2. line' \in Shown(history_idx') /\ names' = names
      BY <2>4 DEF move_up_history
    <3>3. line' \in Seq(C)
      BY <3>1, <3>2 DEF Shown
    <3>. QED  BY <3>1, <3>2, <3>3 DEF LineType
  <2>5. CASE move_down_history
    <3>1. line' = history[history_idx'] /\ UNCHANGED <<names, history>>
      BY <2>5 DEF move_down_history
    <3>2. history_idx' \in Rows
      <4>1. history_idx \in Nat
        BY DEF HistoryInv, IndexType, Indices
      <4>. QED  BY <2>5, <4>1, HistoryAssumption DEF move_down_history, CanMoveDown, Rows
    <3>. QED  BY <3>1, <3>2 DEF LineType
  <2>6. CASE UNCHANGED vars
    BY <2>6 DEF vars, LineType
  <2>. QED  BY <2>1, <2>2, <2>3, <2>4, <2>5, <2>6 DEF Next
<1>3. LineType(C) => CompletesToCommonPrefix
  BY CompletionIsRight DEF LineType, CompletesToCommonPrefix
<1>. QED  BY <1>1, <1>2, <1>3, InitHistory, HistoryStep, PTL DEF Spec

-----------------------------------------------------------------------------
(* The command line, for every line.                                        *)

\* The search for a character finds the first one; it stops at the NUL at the latest.
LEMMA SearchStops ==
  ASSUME NEW n \in Nat, NEW i \in 0..n, NEW S, S \subseteq i..n, n \in S
  PROVE  Min(S) \in i..n /\ Min(S) \in S /\ \A j \in i..n : j < Min(S) => j \notin S
<1>1. S \subseteq Nat /\ S # {}
  OBVIOUS
<1>2. PICK m : m = Min(S)
  OBVIOUS
<1>3. m \in S /\ \A j \in S : m <= j
  BY <1>1, <1>2, MinIsLeast
<1>4. m \in i..n /\ \A j \in i..n : j < m => j \notin S
  BY <1>3
<1>. QED  BY <1>2, <1>3, <1>4

\* The three places sys_execute finds in the line l: where the command begins and ends, and
\* where the arguments begin.
Places(l, word, space, past) ==
    /\ word \in 0..Len(l) /\ space \in word..Len(l) /\ past \in space..Len(l)
    /\ \A j \in 1..word : l[j] = SPACE
    /\ \A j \in (word + 1)..space : l[j] # SPACE
    /\ \A j \in (space + 1)..past : l[j] = SPACE
    /\ word < Len(l) => word < space
    /\ past < Len(l) => l[past + 1] # SPACE
    /\ Parsed(l) = [cmd |-> SubSeq(l, word + 1, space), args |-> SubSeq(l, past + 1, Len(l))]

LEMMA ParsePlaces ==
  ASSUME NEW C, NUL \notin C, NEW l \in Seq(C)
  PROVE  \E word, space, past : Places(l, word, space, past)
<1>1. PICK n \in Nat : n = Len(l)
  OBVIOUS
<1>2. /\ CharAt(l, n) = NUL /\ NUL # SPACE
      /\ \A j \in 0..n : j < n => CharAt(l, j) = l[j + 1] /\ CharAt(l, j) # NUL
  BY <1>1 DEF CharAt, NUL, SPACE
<1>3. PICK A : A = {j \in 0..n : CharAt(l, j) # SPACE}
  OBVIOUS
<1>4. PICK word : word = Min(A)
  OBVIOUS
<1>5. word \in 0..n /\ word \in A /\ \A j \in 0..n : j < word => j \notin A
  <2>1. A \subseteq 0..n /\ n \in A /\ 0 \in 0..n
    BY <1>2, <1>3
  <2>. QED  BY <1>4, <2>1, SearchStops
<1>6. PICK B : B = {j \in word..n : CharAt(l, j) \in {SPACE, NUL}}
  OBVIOUS
<1>7. PICK space : space = Min(B)
  OBVIOUS
<1>8. space \in word..n /\ space \in B /\ \A j \in word..n : j < space => j \notin B
  <2>1. B \subseteq word..n /\ n \in B
    BY <1>2, <1>5, <1>6
  <2>. QED  BY <1>5, <1>7, <2>1, SearchStops
<1>9. PICK D : D = {j \in space..n : CharAt(l, j) # SPACE}
  OBVIOUS
<1>10. PICK past : past = Min(D)
  OBVIOUS
<1>11. past \in space..n /\ past \in D /\ \A j \in space..n : j < past => j \notin D
  <2>1. D \subseteq space..n /\ n \in D /\ space \in 0..n
    BY <1>2, <1>5, <1>8, <1>9
  <2>. QED  BY <1>10, <2>1, SearchStops
<1>12. Parsed(l) = [cmd |-> SubSeq(l, word + 1, space), args |-> SubSeq(l, past + 1, Len(l))]
  BY <1>1, <1>3, <1>4, <1>6, <1>7, <1>9, <1>10 DEF Parsed, PastSpaces, ToSpace
<1>13. ASSUME NEW j \in 1..word PROVE l[j] = SPACE
  <2>1. PICK i : i = j - 1
    OBVIOUS
  <2>2. i \in 0..n /\ i < n /\ i < word /\ i + 1 = j
    BY <1>5, <2>1
  <2>. QED  BY <1>2, <1>3, <1>5, <2>2
<1>14. ASSUME NEW j \in (word + 1)..space PROVE l[j] # SPACE
  <2>1. PICK i : i = j - 1
    OBVIOUS
  <2>2. i \in word..n /\ i \in 0..n /\ i < n /\ i < space /\ i + 1 = j
    BY <1>5, <1>8, <2>1
  <2>. QED  BY <1>2, <1>6, <1>8, <2>2
<1>15. ASSUME NEW j \in (space + 1)..past PROVE l[j] = SPACE
  <2>1. PICK i : i = j - 1
    OBVIOUS
  <2>2. i \in space..n /\ i \in 0..n /\ i < n /\ i < past /\ i + 1 = j
    BY <1>5, <1>8, <1>11, <2>1
  <2>. QED  BY <1>2, <1>9, <1>11, <2>2
<1>16. word < n => word < space
  <2>1. word < n => CharAt(l, word) # NUL /\ CharAt(l, word) # SPACE
    BY <1>2, <1>3, <1>5
  <2>2. word = space => CharAt(l, word) \in {SPACE, NUL}
    BY <1>6, <1>8
  <2>. QED  BY <1>5, <1>8, <2>1, <2>2
<1>17. past < n => l[past + 1] # SPACE
  <2>1. past \in 0..n
    BY <1>5, <1>8, <1>11
  <2>. QED  BY <1>2, <1>9, <1>11, <2>1
<1>18. Places(l, word, space, past)
  BY <1>1, <1>5, <1>8, <1>11, <1>12, <1>13, <1>14, <1>15, <1>16, <1>17 DEF Places
<1>. QED  BY <1>18

\* A piece of a line.
LEMMA Piece ==
  ASSUME NEW C, NEW l \in Seq(C), NEW a \in Nat, NEW b \in Nat, a <= b, b <= Len(l)
  PROVE  /\ SubSeq(l, a + 1, b) \in Seq(C) /\ Len(SubSeq(l, a + 1, b)) = b - a
         /\ \A j \in 1..(b - a) : SubSeq(l, a + 1, b)[j] = l[a + j]
  OBVIOUS

LEMMA BlanksAre ==
  ASSUME NEW n \in Nat
  PROVE  Blanks(n) \in Seq({SPACE}) /\ Len(Blanks(n)) = n /\ \A j \in 1..n : Blanks(n)[j] = SPACE
<1>1. Blanks(n) \in [1..n -> {SPACE}]
  BY DEF Blanks
<1>. QED  BY <1>1 DEF Blanks

\* getargs gives the whole string, and no more.
LEMMA GetsAll ==
  ASSUME NEW C, NUL \notin C, NEW s \in Seq(C), s # <<>>, NEW n \in Int, n > Len(s)
  PROVE  sys_getargs(s, n).ret = 0 /\ String(sys_getargs(s, n).buf) = s
<1>1. PICK m \in Nat : m = Len(s)
  OBVIOUS
<1>2. PICK b : b = [j \in 1..n |-> CharAt(s, j - 1)]
  OBVIOUS
<1>3. ~(n <= 0) /\ n \in Nat
  BY <1>1
<1>4. sys_getargs(s, n) = [ret |-> 0, buf |-> b]
  BY <1>2, <1>3 DEF sys_getargs, strncpy
<1>5. /\ \A j \in 1..m : b[j] = s[j] /\ b[j] # NUL
      /\ b[m + 1] = NUL
  BY <1>1, <1>2, <1>3 DEF CharAt
<1>6. b \in Seq(C \cup {NUL}) /\ Len(b) = n
  <2>1. \A j \in 1..n : CharAt(s, j - 1) \in C \cup {NUL}
    BY <1>1 DEF CharAt
  <2>2. b \in [1..n -> C \cup {NUL}]
    BY <1>2, <2>1
  <2>. QED  BY <1>3, <2>2
<1>7. PICK S : S = {j \in 1..Len(b) : b[j] = NUL}
  OBVIOUS
<1>8. Min(S) = m + 1
  <2>1. S \subseteq Nat /\ m + 1 \in S /\ \A j \in S : ~(j <= m)
    BY <1>1, <1>3, <1>5, <1>6, <1>7
  <2>2. Min(S) \in S /\ \A j \in S : Min(S) <= j
    BY <2>1, MinIsLeast
  <2>3. Min(S) <= m + 1 /\ ~(Min(S) <= m) /\ Min(S) \in Nat
    BY <2>1, <2>2
  <2>. QED  BY <2>3
<1>9. String(b) = SubSeq(b, 1, m)
  <2>1. String(b) = SubSeq(b, 1, Min(S) - 1)
    BY <1>7, Zenon DEF String
  <2>2. Min(S) - 1 = m
    BY <1>8
  <2>. QED  BY <2>1, <2>2
<1>10. SubSeq(b, 1, m) = [j \in 1..m |-> b[j]]
  BY <1>1, <1>6
<1>11. s = [j \in 1..m |-> s[j]]
  BY <1>1
<1>12. [j \in 1..m |-> b[j]] = [j \in 1..m |-> s[j]]
  BY <1>5
<1>. QED  BY <1>4, <1>9, <1>10, <1>11, <1>12

\* A line is its parts, one after the other.
Whole(l, word, space, past) ==
    l = Blanks(word) \o SubSeq(l, word + 1, space) \o Blanks(past - space) \o SubSeq(l, past + 1, Len(l))

LEMMA InParts ==
  ASSUME NEW C, SPACE \in C, NEW l \in Seq(C), NEW word, NEW space, NEW past, Places(l, word, space, past)
  PROVE  Whole(l, word, space, past)
<1>1. PICK n \in Nat : n = Len(l)
  OBVIOUS
<1>2. /\ word \in Nat /\ space \in Nat /\ past \in Nat /\ past - space \in Nat
      /\ word <= space /\ space <= past /\ past <= n
  BY <1>1 DEF Places
<1>3. PICK a, c, b, d : /\ a = Blanks(word) /\ c = SubSeq(l, word + 1, space)
                        /\ b = Blanks(past - space) /\ d = SubSeq(l, past + 1, Len(l))
  BY Zenon
<1>4. /\ a \in Seq(C) /\ Len(a) = word /\ \A j \in 1..word : a[j] = SPACE
      /\ b \in Seq(C) /\ Len(b) = past - space /\ \A j \in 1..(past - space) : b[j] = SPACE
  <2>1. Seq({SPACE}) \subseteq Seq(C)
    OBVIOUS
  <2>. QED  BY <1>2, <1>3, <2>1, BlanksAre
<1>5. /\ c \in Seq(C) /\ Len(c) = space - word /\ \A j \in 1..(space - word) : c[j] = l[word + j]
      /\ d \in Seq(C) /\ Len(d) = n - past /\ \A j \in 1..(n - past) : d[j] = l[past + j]
  <2>1. /\ c \in Seq(C) /\ Len(c) = space - word
        /\ \A j \in 1..(space - word) : c[j] = l[word + j]
    BY <1>1, <1>2, <1>3, Piece
  <2>2. /\ d \in Seq(C) /\ Len(d) = n - past /\ \A j \in 1..(n - past) : d[j] = l[past + j]
    BY <1>1, <1>2, <1>3, Piece
  <2>. QED  BY <2>1, <2>2
<1>6. PICK u : u = a \o c
  OBVIOUS
<1>7. /\ u \in Seq(C) /\ Len(u) = space /\ \A j \in 1..space : u[j] = l[j]
  <2>1. /\ u \in Seq(C) /\ Len(u) = Len(a) + Len(c) /\ \A j \in 1..Len(a) : u[j] = a[j]
        /\ \A j \in (Len(a) + 1)..(Len(a) + Len(c)) : u[j] = c[j - Len(a)]
    <3>1. a \in Seq(C) /\ c \in Seq(C)
      BY <1>4, <1>5
    <3>. QED  BY <1>6, <3>1, Concatenated, Zenon
  <2>2. ASSUME NEW j \in 1..space PROVE u[j] = l[j]
    <3>1. CASE j <= word
      <4>1. j \in 1..word /\ l[j] = SPACE
        BY <1>2, <3>1 DEF Places
      <4>. QED  BY <1>4, <2>1, <4>1
    <3>2. CASE j > word
      <4>1. j - word \in 1..(space - word) /\ j \in (Len(a) + 1)..(Len(a) + Len(c)) /\ word + (j - word) = j
        BY <1>2, <1>4, <1>5, <3>2
      <4>. QED  BY <1>4, <1>5, <2>1, <4>1
    <3>. QED  BY <1>2, <3>1, <3>2
  <2>3. Len(u) = space
    BY <1>2, <1>4, <1>5, <2>1
  <2>. QED  BY <2>1, <2>2, <2>3
<1>8. PICK v : v = u \o b
  OBVIOUS
<1>9. /\ v \in Seq(C) /\ Len(v) = past /\ \A j \in 1..past : v[j] = l[j]
  <2>1. /\ v \in Seq(C) /\ Len(v) = Len(u) + Len(b) /\ \A j \in 1..Len(u) : v[j] = u[j]
        /\ \A j \in (Len(u) + 1)..(Len(u) + Len(b)) : v[j] = b[j - Len(u)]
    <3>1. u \in Seq(C) /\ b \in Seq(C)
      BY <1>4, <1>7
    <3>. QED  BY <1>8, <3>1, Concatenated, Zenon
  <2>2. ASSUME NEW j \in 1..past PROVE v[j] = l[j]
    <3>1. CASE j <= space
      BY <1>2, <1>7, <2>1, <3>1
    <3>2. CASE j > space
      <4>1. j - space \in 1..(past - space) /\ j \in (Len(u) + 1)..(Len(u) + Len(b)) /\ j \in (space + 1)..past
        BY <1>2, <1>4, <1>7, <3>2
      <4>2. v[j] = SPACE
        BY <1>4, <1>7, <2>1, <4>1
      <4>. QED  BY <4>1, <4>2 DEF Places
    <3>. QED  BY <1>2, <3>1, <3>2
  <2>3. Len(v) = past
    BY <1>2, <1>4, <1>7, <2>1
  <2>. QED  BY <2>1, <2>2, <2>3
<1>10. PICK x : x = v \o d
  OBVIOUS
<1>11. x \in Seq(C) /\ Len(x) = n /\ \A j \in 1..n : x[j] = l[j]
  <2>1. /\ x \in Seq(C) /\ Len(x) = Len(v) + Len(d) /\ \A j \in 1..Len(v) : x[j] = v[j]
        /\ \A j \in (Len(v) + 1)..(Len(v) + Len(d)) : x[j] = d[j - Len(v)]
    <3>1. v \in Seq(C) /\ d \in Seq(C)
      BY <1>5, <1>9
    <3>. QED  BY <1>10, <3>1, Concatenated, Zenon
  <2>2. ASSUME NEW j \in 1..n PROVE x[j] = l[j]
    <3>1. CASE j <= past
      BY <1>2, <1>9, <2>1, <3>1
    <3>2. CASE j > past
      <4>1. j - past \in 1..(n - past) /\ j \in (Len(v) + 1)..(Len(v) + Len(d)) /\ past + (j - past) = j
        BY <1>2, <1>5, <1>9, <3>2
      <4>. QED  BY <1>5, <1>9, <2>1, <4>1
    <3>. QED  BY <1>2, <3>1, <3>2
  <2>3. Len(x) = n
    BY <1>2, <1>5, <1>9, <2>1
  <2>. QED  BY <2>1, <2>2, <2>3
<1>12. l = x
  BY <1>1, <1>11, SameCharacters
<1>13. x = Blanks(word) \o SubSeq(l, word + 1, space) \o Blanks(past - space) \o SubSeq(l, past + 1, Len(l))
  BY <1>3, <1>6, <1>8, <1>10, Zenon
<1>. QED  BY <1>12, <1>13 DEF Whole

\* For every line, with any number of spaces before, between and behind its words, and any
\* buffer: the command is the first word, and getargs gives all that follows it from the
\* next word on (syscall.c:162-186, 521-539).
THEOREM ArgumentsArrive ==
  ASSUME NEW C, NUL \notin C, SPACE \in C, NEW l \in Seq(C)
  PROVE  Delivered(l)
<1>1. PICK word, space, past : Places(l, word, space, past)
  BY ParsePlaces
<1>2. PICK n \in Nat : n = Len(l)
  OBVIOUS
<1>3. /\ word \in 0..n /\ space \in word..n /\ past \in space..n
      /\ \A j \in (word + 1)..space : l[j] # SPACE
      /\ word < n => word < space
      /\ past < n => l[past + 1] # SPACE
  BY <1>1, <1>2 DEF Places
<1>4. PICK c, d : c = SubSeq(l, word + 1, space) /\ d = SubSeq(l, past + 1, Len(l))
  BY Zenon
<1>5. /\ c \in Seq(C) /\ Len(c) = space - word /\ \A j \in 1..(space - word) : c[j] = l[word + j]
      /\ d \in Seq(C) /\ Len(d) = n - past /\ \A j \in 1..(n - past) : d[j] = l[past + j]
  BY <1>2, <1>3, <1>4, Piece
<1>6. PICK p : p = Parsed(l)
  OBVIOUS
<1>7. p.cmd = c /\ p.args = d
  <2>1. p = [cmd |-> c, args |-> d]
    BY <1>1, <1>4, <1>6, Zenon DEF Places
  <2>. QED  BY <2>1
<1>8. SPACE \notin Range(c)
  <2>1. DOMAIN c = 1..(space - word)
    BY <1>3, <1>5
  <2>2. ASSUME NEW j \in 1..(space - word) PROVE c[j] # SPACE
    <3>1. word + j \in (word + 1)..space
      BY <1>3
    <3>2. c[j] = l[word + j]
      BY <1>5
    <3>3. l[word + j] # SPACE
      BY <1>3, <3>1
    <3>. QED  BY <3>2, <3>3
  <2>. QED  BY <2>1, <2>2 DEF Range
<1>9. c = <<>> => d = <<>>
  <2>1. c = <<>> => space = word
    BY <1>3, <1>5
  <2>2. space = word => past = n
    BY <1>3
  <2>. QED  BY <1>3, <1>5, <2>1, <2>2
<1>10. d # <<>> => d[1] # SPACE
  <2>1. d # <<>> => past < n
    BY <1>3, <1>5
  <2>2. past < n => 1 \in 1..(n - past)
    BY <1>3
  <2>. QED  BY <1>3, <1>5, <2>1, <2>2
<1>11. \E before, between \in 0..Len(l) : l = Blanks(before) \o c \o Blanks(between) \o d
  <2>1. word \in 0..Len(l) /\ past - space \in 0..Len(l)
    BY <1>2, <1>3
  <2>2. l = Blanks(word) \o c \o Blanks(past - space) \o d
    <3>1. Whole(l, word, space, past)
      BY <1>1, InParts
    <3>. QED  BY <1>4, <3>1 DEF Whole
  <2>. QED  BY <2>1, <2>2
<1>12. \A m \in BufferSizes : m > Len(d) /\ d # <<>> =>
          sys_getargs(d, m).ret = 0 /\ String(sys_getargs(d, m).buf) = d
  BY <1>5, GetsAll, CommandLineAssumption
<1>. QED  BY <1>6, <1>7, <1>8, <1>9, <1>10, <1>11, <1>12, Zenon DEF Delivered
=============================================================================
