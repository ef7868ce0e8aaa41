--------------------------- MODULE Listing_proofs ---------------------------
(***************************************************************************)
(* Proofs about Listing, for every page size.                              *)
(*                                                                         *)
(* The lemmas say what ORDER BY id DESC LIMIT n returns: no more than n     *)
(* rows, the highest, and all of them if there are no more than n.  The     *)
(* inductive invariant Safe adds to the types where the rows of the answer  *)
(* lie (Rows), that what was shown lies above the cursor (Above), and that  *)
(* a stable item below the cursor is still to come (Ahead).                 *)
(***************************************************************************)
EXTENDS Listing, FiniteSetTheorems, WellFoundedInduction, SequenceTheorems, TLAPS

----------------------------------------------------------------------------
(* Least and greatest elements.                                            *)

LEMMA LeastExists ==
    ASSUME NEW S \in SUBSET Nat, S # {}
    PROVE  \E i \in S : \A j \in S : i <= j
<1>1. \E i \in S : \A j \in S : ~ (<<j, i>> \in OpToRel(<, Nat))
  BY NatLessThanWellFounded, WFMin
<1>2. PICK i \in S : \A j \in S : ~ (<<j, i>> \in OpToRel(<, Nat))
  BY <1>1
<1>3. \A j \in S : ~ (j < i)
  BY <1>2 DEF OpToRel
<1> QED BY <1>3

LEMMA GreatestExists ==
    ASSUME NEW n \in Nat, NEW S \in SUBSET (1..n), S # {}
    PROVE  \E i \in S : \A j \in S : j <= i
<1> DEFINE Bounds == {k \in Nat : \A j \in S : j <= k}
<1>1. n \in Bounds
  OBVIOUS
<1>2. PICK k \in Bounds : \A b \in Bounds : k <= b
  <2>1. Bounds \in SUBSET Nat /\ Bounds # {}
    BY <1>1
  <2> HIDE DEF Bounds
  <2> QED BY <2>1, LeastExists
<1>3. k \in S
  <2> SUFFICES ASSUME k \notin S PROVE FALSE
    OBVIOUS
  <2>1. \A j \in S : j \in Nat /\ j >= 1 /\ j <= k /\ j # k
    BY <1>2
  <2>0. PICK l \in S : TRUE
    OBVIOUS
  <2>2. k \in Nat /\ k >= 1
    <3>1. k \in Nat /\ l \in Nat /\ 1 <= l /\ l <= k
      BY <2>0, <2>1
    <3> QED BY <3>1
  <2>3. k - 1 \in Nat /\ \A j \in S : j <= k - 1
    BY <2>1, <2>2
  <2>4. k - 1 \in Bounds
    BY <2>3
  <2> QED BY <1>2, <2>2, <2>4
<1> QED BY <1>2, <1>3

LEMMA LastIsLeast ==
    ASSUME NEW S \in SUBSET Nat, S # {}
    PROVE  Last(S) \in S /\ \A j \in S : Last(S) <= j
  BY LeastExists DEF Last

----------------------------------------------------------------------------
(* ORDER BY id DESC LIMIT n, of rows whose ids are among 1..m.             *)

Higher(S, i) == {k \in S : k > i}

LEMMA HigherIsFinite ==
    ASSUME NEW m \in Nat, NEW S \in SUBSET (1..m), NEW i \in 1..m
    PROVE  /\ IsFiniteSet(S) /\ IsFiniteSet(Higher(S, i))
           /\ Cardinality(S) \in Nat /\ Cardinality(Higher(S, i)) \in Nat
           /\ Cardinality(Higher(S, i)) <= Cardinality(S)
<1>1. IsFiniteSet(1..m)
  BY FS_Interval
<1>2. IsFiniteSet(S)
  BY <1>1, FS_Subset
<1>3. Higher(S, i) \in SUBSET S
  BY DEF Higher
<1> QED BY <1>2, <1>3, FS_Subset, FS_CardinalityType

LEMMA FirstIsHigher ==
    \A S, n : First(S, n) = {i \in S : Cardinality(Higher(S, i)) < n}
  BY DEF First, Higher

\* What is not returned is below everything that is.
LEMMA FirstAreHighest ==
    ASSUME NEW m \in Nat, NEW S \in SUBSET (1..m), NEW n \in Nat,
           NEW i \in S, i \notin First(S, n), NEW j \in First(S, n)
    PROVE  j > i
<1>0. S \subseteq Nat /\ i \in 1..m /\ i \in Nat
  OBVIOUS
<1>1. j \in S /\ j \in 1..m /\ j \in Nat /\ Cardinality(Higher(S, j)) < n /\ ~ (Cardinality(Higher(S, i)) < n)
  BY <1>0, FirstIsHigher
<1> SUFFICES ASSUME j < i PROVE FALSE
  BY <1>0, <1>1
<1>2. Higher(S, i) \in SUBSET Higher(S, j)
  <2>1. ASSUME NEW h \in S, h > i PROVE h > j
    <3>1. h \in Nat
      BY <1>0
    <3> QED BY <1>0, <1>1, <2>1, <3>1
  <2> QED BY <2>1 DEF Higher
<1>3. /\ IsFiniteSet(Higher(S, j))
      /\ Cardinality(Higher(S, i)) \in Nat /\ Cardinality(Higher(S, j)) \in Nat
  BY <1>0, <1>1, HigherIsFinite
<1>4. Cardinality(Higher(S, i)) <= Cardinality(Higher(S, j))
  BY <1>2, <1>3, FS_Subset
<1> QED BY <1>1, <1>3, <1>4

\* No more rows than the limit.
LEMMA FirstIsShort ==
    ASSUME NEW m \in Nat, NEW S \in SUBSET (1..m), NEW n \in Nat
    PROVE  /\ First(S, n) \in SUBSET S
           /\ IsFiniteSet(First(S, n))
           /\ Cardinality(First(S, n)) \in Nat
           /\ Cardinality(First(S, n)) <= n
<1> DEFINE T == First(S, n)
<1>1. T \in SUBSET S /\ T \in SUBSET Nat
  <2>1. T \subseteq S
    BY FirstIsHigher
  <2>2. S \subseteq Nat
    OBVIOUS
  <2> QED BY <2>1, <2>2
<1>2. IsFiniteSet(T) /\ Cardinality(T) \in Nat
  <2>1. IsFiniteSet(1..m) /\ IsFiniteSet(S)
    <3>1. IsFiniteSet(1..m)
      BY FS_Interval
    <3> QED BY <3>1, FS_Subset
  <2> QED BY <1>1, <2>1, FS_Subset, FS_CardinalityType
<1>3. CASE T = {}
  BY <1>1, <1>2, <1>3, FS_EmptySet
<1>4. CASE T # {}
  <2>1. PICK l \in T : \A j \in T : l <= j
    BY <1>1, <1>4, LeastExists
  <2>2. l \in S /\ Cardinality(Higher(S, l)) < n
    BY <2>1, FirstIsHigher
  <2>3. T \ {l} \in SUBSET Higher(S, l)
    BY <1>1, <2>1, <2>2 DEF Higher
  <2> HIDE DEF T
  <2>6. IsFiniteSet(Higher(S, l)) /\ Cardinality(Higher(S, l)) \in Nat
    BY <2>2, HigherIsFinite
  <2>4. Cardinality(T \ {l}) <= Cardinality(Higher(S, l))
    BY <2>3, <2>6, FS_Subset
  <2>5. Cardinality(T \ {l}) = Cardinality(T) - 1
    BY <1>2, <2>1, FS_RemoveElement
  <2>7. Cardinality(T) <= n
    BY <1>2, <2>2, <2>4, <2>5, <2>6
  <2> QED BY <1>1, <1>2, <2>7 DEF T
<1> QED BY <1>3, <1>4

\* All rows, if there are no more than the limit.
LEMMA FirstIsAll ==
    ASSUME NEW m \in Nat, NEW S \in SUBSET (1..m), NEW n \in Nat,
           Cardinality(S) < n
    PROVE  First(S, n) = S
<1>1. ASSUME NEW i \in S PROVE Cardinality(Higher(S, i)) < n
  <2>1. i \in 1..m
    OBVIOUS
  <2> QED BY <2>1, HigherIsFinite
<1> QED BY <1>1, FirstIsHigher

\* Some row, if there is any.
LEMMA FirstIsSome ==
    ASSUME NEW m \in Nat, NEW S \in SUBSET (1..m), S # {}, NEW n \in Nat \ {0}
    PROVE  First(S, n) # {}
<1>1. PICK i \in S : \A j \in S : j <= i
  BY GreatestExists
<1>2. \A j \in S : ~ (j > i)
  <2> SUFFICES ASSUME NEW j \in S PROVE ~ (j > i)
    OBVIOUS
  <2>1. j \in Nat /\ i \in Nat /\ j <= i
    BY <1>1
  <2> QED BY <2>1
<1>3. Higher(S, i) = {}
  BY <1>2 DEF Higher
<1> QED BY <1>3, FS_EmptySet, FirstIsHigher

----------------------------------------------------------------------------
(* The inductive invariant.                                                *)

\* The page the client asks for may hold row i.
Asked(i) == cursor = 0 \/ i < cursor

Rows ==
    /\ "rows" \notin answer.read => answer.rows = {}
    /\ \A i \in answer.rows : Asked(i)
    /\ pc # "asking" => answer = NoAnswer

Above == pc = "asking" => \A i \in shown : cursor # 0 /\ i > cursor

Ahead == pc = "asking" => \A i \in stable : i \in shown \cup cursors \/ Asked(i)

\* A stable row the page should hold is on it, or further down.
OnPageOrBelow ==
    "rows" \in answer.read =>
        \A i \in stable : Asked(i) => i \in answer.rows \/ \A j \in answer.rows : j > i

\* While nothing changes, what one statement has read is what the other will.
Agree ==
    ~ answer.torn =>
        /\ answer.read = {"rows"} => answer.rows = First(Below(cursor), Limit + 1)
        /\ answer.read = {"count"} => answer.count = Cardinality(Below(cursor))
        /\ answer.read = {"rows", "count"} =>
              /\ answer.count <= Limit => \A i \in stable : Asked(i) => i \in answer.rows
              /\ answer.rows = {} => \A i \in stable : ~ Asked(i)

Safe == /\ TypeOK /\ Rows /\ Above /\ Ahead /\ OnPageOrBelow /\ Agree
        /\ MissedOnlyAsCursor

LEMMA SomeFacts ==
    ASSUME TypeOK
    PROVE  /\ Len(items) \in Nat /\ ItemIds \subseteq Nat
           /\ Below(cursor) \in SUBSET (1..Len(items))
           /\ Below(cursor) = {i \in Listed : Asked(i)}
           /\ Limit + 1 \in Nat \ {0}
  BY LimitAssumption DEF TypeOK, ItemIds, Below, Listed, Asked

LEMMA NoAnswerType == NoAnswer \in Answer /\ Cardinality(NoAnswer.rows) = 0
  BY FS_EmptySet DEF NoAnswer, Answer

----------------------------------------------------------------------------
LEMMA InitSafe == Init => Safe
<1> SUFFICES ASSUME Init PROVE Safe
  OBVIOUS
<1>1. TypeOK
  <2>1. Cardinality(answer.rows) <= Limit + 1
    BY NoAnswerType, LimitAssumption DEF Init
  <2>2. items \in Seq(ItemState)
    BY EmptySeq DEF Init
  <2> QED BY <2>1, <2>2, NoAnswerType DEF Init, TypeOK, NoAnswer
<1> QED BY <1>1 DEF Init, Safe, Rows, Above, Ahead, OnPageOrBelow, Agree,
                    MissedOnlyAsCursor, NoAnswer

LEMMA BeginKeeps == ASSUME Safe, Begin PROVE Safe'
<1>1. TypeOK'
  <2>1. Cardinality(answer'.rows) <= Limit + 1
    BY NoAnswerType, LimitAssumption DEF Begin
  <2> QED BY <2>1, NoAnswerType DEF Safe, Begin, TypeOK, NoAnswer, Listed, ItemIds
<1> QED BY <1>1 DEF Begin, Safe, Rows, Above, Ahead, OnPageOrBelow, Agree,
                    MissedOnlyAsCursor, NoAnswer, Asked

LEMMA SelectKeeps == ASSUME Safe, Select PROVE Safe'
<1> DEFINE S == Below(cursor)
           R == First(S, Limit + 1)
<1>0. TypeOK
  BY DEF Safe
<1>1. /\ S \in SUBSET (1..Len(items)) /\ Len(items) \in Nat /\ Limit + 1 \in Nat \ {0}
      /\ S = {i \in Listed : Asked(i)}
  BY <1>0, SomeFacts
<1>2. R \in SUBSET S /\ IsFiniteSet(R) /\ Cardinality(R) \in Nat /\ Cardinality(R) <= Limit + 1
  <2>1. \A n \in Nat : /\ First(S, n) \in SUBSET S
                       /\ IsFiniteSet(First(S, n))
                       /\ Cardinality(First(S, n)) \in Nat
                       /\ Cardinality(First(S, n)) <= n
    <3> HIDE DEF S
    <3> SUFFICES ASSUME NEW n \in Nat
                 PROVE  /\ First(S, n) \in SUBSET S
                        /\ IsFiniteSet(First(S, n))
                        /\ Cardinality(First(S, n)) \in Nat
                        /\ Cardinality(First(S, n)) <= n
      OBVIOUS
    <3>1. Len(items) \in Nat /\ S \in SUBSET (1..Len(items))
      BY <1>1
    <3> QED BY <3>1, FirstIsShort
  <2>2. Limit + 1 \in Nat
    BY <1>1
  <2> HIDE DEF S
  <2> QED BY <2>1, <2>2
<1>3. /\ answer' = [answer EXCEPT !.read = @ \cup {"rows"}, !.rows = R]
      /\ answer \in Answer /\ pc = "asking" /\ "rows" \notin answer.read
      /\ UNCHANGED <<items, pc, cursor, shown, cursors, stable, torn>>
  BY <1>0 DEF Select, TypeOK
<1>4. \A i \in stable : Asked(i) => i \in S
  BY <1>0, <1>1 DEF TypeOK
<1>5. \A i \in S : i \in R \/ \A j \in R : j > i
  <2> HIDE DEF S
  <2> QED BY <1>1, FirstAreHighest
<1> HIDE DEF R
<1>6. /\ answer'.read = answer.read \cup {"rows"} /\ answer'.rows = R
      /\ answer'.count = answer.count /\ answer'.torn = answer.torn
      /\ answer' \in Answer
  <2>1. R \subseteq Nat
    BY <1>1, <1>2
  <2> QED BY <1>3, <2>1 DEF Answer
<1>7. TypeOK'
  BY <1>0, <1>1, <1>2, <1>3, <1>6 DEF TypeOK, ItemIds, Listed
<1>8. Rows' /\ Above' /\ Ahead' /\ OnPageOrBelow' /\ MissedOnlyAsCursor'
  BY <1>1, <1>2, <1>3, <1>4, <1>5, <1>6
     DEF Safe, Rows, Above, Ahead, OnPageOrBelow, Asked, MissedOnlyAsCursor
<1>9. Agree'
  <2> SUFFICES ASSUME ~ answer.torn PROVE Agree'
    BY <1>6 DEF Agree
  <2>1. Below(cursor)' = S
    BY <1>3 DEF Below, Listed, ItemIds
  <2>2. answer'.read # {"count"}
    BY <1>6
  <2>3. answer'.read = {"rows"} => answer'.rows = First(Below(cursor)', Limit + 1)
    BY <1>6, <2>1 DEF R
  <2>4. ASSUME answer'.read = {"rows", "count"}
        PROVE  /\ answer'.count <= Limit => \A i \in stable' : Asked(i)' => i \in answer'.rows
               /\ answer'.rows = {} => \A i \in stable' : ~ Asked(i)'
    <3>1. answer.read = {"count"}
      BY <1>3, <1>6, <2>4
    <3>2. answer.count = Cardinality(S)
      BY <3>1 DEF Safe, Agree
    <3>3. stable' = stable /\ \A i : Asked(i)' <=> Asked(i)
      BY <1>3 DEF Asked
    <3>4. answer.count <= Limit => R = S
      <4> SUFFICES ASSUME answer.count <= Limit PROVE R = S
        OBVIOUS
      <4>1. Cardinality(S) < Limit + 1
        BY <3>2, <1>3, LimitAssumption DEF Answer
      <4> HIDE DEF S
      <4> QED BY <4>1, <1>1, FirstIsAll DEF R
    <3>5. R = {} => S = {}
      <4> HIDE DEF S
      <4> QED BY <1>1, FirstIsSome DEF R
    <3> QED BY <1>4, <1>6, <3>3, <3>4, <3>5
  <2> QED BY <2>2, <2>3, <2>4 DEF Agree
<1> QED BY <1>7, <1>8, <1>9 DEF Safe

LEMMA CountKeeps == ASSUME Safe, Count PROVE Safe'
<1> DEFINE S == Below(cursor)
<1>0. TypeOK
  BY DEF Safe
<1>1. /\ S \in SUBSET (1..Len(items)) /\ Len(items) \in Nat /\ Limit + 1 \in Nat \ {0}
      /\ S = {i \in Listed : Asked(i)}
  BY <1>0, SomeFacts
<1>2. IsFiniteSet(S) /\ Cardinality(S) \in Nat
  <2>1. IsFiniteSet(1..Len(items))
    BY <1>1, FS_Interval
  <2> HIDE DEF S
  <2> QED BY <1>1, <2>1, FS_Subset, FS_CardinalityType
<1>3. /\ answer' = [answer EXCEPT !.read = @ \cup {"count"}, !.count = Cardinality(S)]
      /\ answer \in Answer /\ pc = "asking" /\ "count" \notin answer.read
      /\ UNCHANGED <<items, pc, cursor, shown, cursors, stable, torn>>
  BY <1>0 DEF Count, TypeOK
<1>4. \A i \in stable : Asked(i) => i \in S
  BY <1>0, <1>1 DEF TypeOK
<1>6. /\ answer'.read = answer.read \cup {"count"} /\ answer'.rows = answer.rows
      /\ answer'.count = Cardinality(S) /\ answer'.torn = answer.torn
      /\ answer' \in Answer
  <2> HIDE DEF S
  <2> QED BY <1>2, <1>3 DEF Answer
<1>7. TypeOK'
  BY <1>0, <1>3, <1>6 DEF TypeOK, ItemIds, Listed
<1>8. Rows' /\ Above' /\ Ahead' /\ OnPageOrBelow' /\ MissedOnlyAsCursor'
  BY <1>3, <1>6
     DEF Safe, Rows, Above, Ahead, OnPageOrBelow, Asked, MissedOnlyAsCursor
<1>9. Agree'
  <2> SUFFICES ASSUME ~ answer.torn PROVE Agree'
    BY <1>6 DEF Agree
  <2>1. Below(cursor)' = S
    BY <1>3 DEF Below, Listed, ItemIds
  <2>2. answer'.read # {"rows"}
    BY <1>6
  <2>3. answer'.read = {"count"} => answer'.count = Cardinality(Below(cursor)')
    BY <1>6, <2>1
  <2>4. ASSUME answer'.read = {"rows", "count"}
        PROVE  /\ answer'.count <= Limit => \A i \in stable' : Asked(i)' => i \in answer'.rows
               /\ answer'.rows = {} => \A i \in stable' : ~ Asked(i)'
    <3>1. answer.read = {"rows"}
      BY <1>3, <1>6, <2>4
    <3>2. answer.rows = First(S, Limit + 1)
      BY <3>1 DEF Safe, Agree
    <3>3. stable' = stable /\ \A i : Asked(i)' <=> Asked(i)
      BY <1>3 DEF Asked
    <3>4. Cardinality(S) <= Limit => answer.rows = S
      <4> SUFFICES ASSUME Cardinality(S) <= Limit PROVE answer.rows = S
        OBVIOUS
      <4>1. Cardinality(S) < Limit + 1
        BY <1>2, LimitAssumption
      <4> HIDE DEF S
      <4> QED BY <4>1, <1>1, <3>2, FirstIsAll
    <3>5. answer.rows = {} => S = {}
      <4> HIDE DEF S
      <4> QED BY <1>1, <3>2, FirstIsSome
    <3> QED BY <1>4, <1>6, <3>3, <3>4, <3>5
  <2> QED BY <2>2, <2>3, <2>4 DEF Agree
<1> QED BY <1>7, <1>8, <1>9 DEF Safe

\* The rows of an answer are row ids, and the last of them is one.
LEMMA RowsAreIds ==
    ASSUME Safe
    PROVE  /\ answer.rows \in SUBSET Nat /\ answer.rows \subseteq ItemIds
           /\ answer.rows # {} => /\ Last(answer.rows) \in answer.rows
                                  /\ Last(answer.rows) \in Nat
                                  /\ Last(answer.rows) # 0
                                  /\ \A j \in answer.rows : Last(answer.rows) <= j
<1>1. answer.rows \in SUBSET Nat /\ answer.rows \subseteq ItemIds
  BY SomeFacts DEF Safe, TypeOK
<1>2. \A i \in ItemIds : i \in Nat /\ i # 0
  BY SomeFacts DEF Safe, TypeOK, ItemIds
<1> QED BY <1>1, <1>2, LastIsLeast

LEMMA TurnPageKeeps == ASSUME Safe, TurnPage PROVE Safe'
<1> DEFINE last == Last(answer.rows)
<1>1. /\ pc = "asking" /\ answer.read = {"rows", "count"} /\ answer.rows # {}
      /\ shown' = shown \cup (answer.rows \ {last})
      /\ cursor' = last /\ cursors' = cursors \cup {last}
      /\ torn' = (torn \/ answer.torn) /\ answer' = NoAnswer
      /\ UNCHANGED <<items, pc, stable>>
  BY DEF TurnPage, Answered, More
<1>2. /\ answer.rows \in SUBSET Nat /\ answer.rows \subseteq ItemIds
      /\ last \in answer.rows /\ last \in Nat /\ last # 0
      /\ \A j \in answer.rows : last <= j
  BY <1>1, RowsAreIds
<1> HIDE DEF last
<1>3. TypeOK'
  <2>1. answer.torn \in BOOLEAN
    BY DEF Safe, TypeOK, Answer
  <2>2. Cardinality(answer'.rows) <= Limit + 1
    BY <1>1, NoAnswerType, LimitAssumption
  <2>3. answer' \in Answer /\ answer'.rows = {}
    BY <1>1, NoAnswerType DEF NoAnswer
  <2> QED BY <1>1, <1>2, <2>1, <2>2, <2>3 DEF Safe, TypeOK, ItemIds, Listed
<1>4. Rows' /\ OnPageOrBelow' /\ Agree'
  BY <1>1 DEF Rows, OnPageOrBelow, Agree, NoAnswer
<1>5. Above'
  <2> SUFFICES ASSUME NEW i \in shown' PROVE cursor' # 0 /\ i > cursor'
    BY DEF Above
  <2>1. CASE i \in shown
    <3>1. cursor # 0 /\ i > cursor /\ i \in Nat /\ cursor \in Nat
      BY <1>1, <2>1, SomeFacts DEF Safe, Above, TypeOK
    <3>2. last < cursor
      BY <1>2, <3>1 DEF Safe, Rows, Asked
    <3> QED BY <1>1, <1>2, <3>1, <3>2
  <2>2. CASE i \in answer.rows \ {last}
    BY <1>1, <1>2, <2>2
  <2> QED BY <1>1, <2>1, <2>2
<1>6. Ahead'
  <2> SUFFICES ASSUME NEW i \in stable, i \notin shown', i \notin cursors'
               PROVE  i < last
    BY <1>1 DEF Ahead, Asked
  <2>1. i \in Nat
    BY SomeFacts DEF Safe, TypeOK, Listed
  <2>2. Asked(i) /\ i \notin answer.rows
    BY <1>1 DEF Safe, Ahead
  <2>3. \A j \in answer.rows : j > i
    BY <1>1, <2>2 DEF Safe, OnPageOrBelow
  <2> QED BY <1>2, <2>1, <2>3
<1>7. MissedOnlyAsCursor'
  BY <1>1 DEF MissedOnlyAsCursor
<1> QED BY <1>3, <1>4, <1>5, <1>6, <1>7 DEF Safe

LEMMA LastPageKeeps == ASSUME Safe, LastPage PROVE Safe'
<1>1. /\ pc = "asking" /\ answer.read = {"rows", "count"}
      /\ answer.count <= Limit \/ answer.rows = {}
      /\ shown' = shown \cup answer.rows /\ pc' = "done"
      /\ torn' = (torn \/ answer.torn) /\ answer' = NoAnswer
      /\ UNCHANGED <<items, cursor, cursors, stable>>
  <2>1. answer.count \in Nat
    BY DEF Safe, TypeOK, Answer
  <2> QED BY <2>1, LimitAssumption DEF LastPage, Answered, More
<1>2. TypeOK'
  <2>1. answer.torn \in BOOLEAN
    BY DEF Safe, TypeOK, Answer
  <2>2. Cardinality(answer'.rows) <= Limit + 1
    BY <1>1, NoAnswerType, LimitAssumption
  <2>3. answer' \in Answer /\ answer'.rows = {}
    BY <1>1, NoAnswerType DEF NoAnswer
  <2> QED BY <1>1, <2>1, <2>2, <2>3 DEF Safe, TypeOK, ItemIds, Listed
<1>3. Rows' /\ Above' /\ Ahead' /\ OnPageOrBelow' /\ Agree'
  BY <1>1 DEF Rows, Above, Ahead, OnPageOrBelow, Agree, NoAnswer
<1>4. MissedOnlyAsCursor'
  <2> SUFFICES ASSUME ~ torn, ~ answer.torn, NEW i \in stable, i \notin cursors
               PROVE  i \in shown \cup answer.rows
    BY <1>1 DEF MissedOnlyAsCursor
  <2>1. i \in shown \/ Asked(i)
    BY <1>1 DEF Safe, Ahead
  <2>2. Asked(i) => i \in answer.rows
    BY <1>1 DEF Safe, Agree
  <2> QED BY <2>1, <2>2
<1> QED BY <1>2, <1>3, <1>4 DEF Safe

\* What owners do keeps Safe, whichever rows it changes.
LEMMA PutKeeps ==
    ASSUME Safe, NEW newItems \in Seq(ItemState), Len(newItems) >= Len(items),
           Put(newItems)
    PROVE  Safe'
<1>1. /\ items' = newItems
      /\ stable' = {i \in stable : newItems[i] = "listed"}
      /\ answer' = [answer EXCEPT !.torn = @ \/ Cardinality(answer.read) = 1]
      /\ UNCHANGED <<pc, cursor, shown, cursors, torn>>
      /\ answer \in Answer
  BY DEF Put, Safe, TypeOK
<1>2. /\ answer' \in Answer
      /\ answer'.read = answer.read /\ answer'.rows = answer.rows
      /\ answer'.count = answer.count
      /\ ~ answer'.torn => ~ answer.torn
      /\ answer.read = {"rows"} \/ answer.read = {"count"} => answer'.torn
  <2>1. Cardinality({"rows"}) = 1 /\ Cardinality({"count"}) = 1
    BY FS_Singleton
  <2>2. answer.torn \in BOOLEAN /\ (Cardinality(answer.read) = 1) \in BOOLEAN
    BY <1>1 DEF Answer
  <2> QED BY <1>1, <2>1, <2>2 DEF Answer
<1>3. ItemIds \subseteq ItemIds' /\ stable' \subseteq stable /\ stable' \subseteq Listed'
  <2>1. ItemIds \subseteq ItemIds'
    BY <1>1 DEF Safe, TypeOK, ItemIds
  <2> QED BY <1>1, <2>1 DEF Safe, TypeOK, Listed
<1>4. TypeOK'
  BY <1>1, <1>2, <1>3 DEF Safe, TypeOK
<1>5. Rows'
  <2>1. ASSUME pc # "asking" PROVE answer' = NoAnswer
    <3>1. answer = NoAnswer
      BY <2>1 DEF Safe, Rows
    <3>2. ~ (answer.torn \/ Cardinality(answer.read) = 1)
      BY <3>1, FS_EmptySet DEF NoAnswer
    <3> QED BY <1>1, <3>1, <3>2 DEF NoAnswer
  <2> QED BY <1>1, <1>2, <2>1 DEF Safe, Rows, Asked
<1>6. Above' /\ Ahead' /\ OnPageOrBelow' /\ MissedOnlyAsCursor'
  BY <1>1, <1>2, <1>3 DEF Safe, Above, Ahead, OnPageOrBelow, MissedOnlyAsCursor, Asked
<1>7. Agree'
  BY <1>1, <1>2, <1>3 DEF Safe, Agree, Asked
<1> QED BY <1>4, <1>5, <1>6, <1>7 DEF Safe

LEMMA ChangeKeeps == ASSUME Safe, Change PROVE Safe'
<1>0. items \in Seq(ItemState)
  BY DEF Safe, TypeOK
<1>1. ASSUME NEW s \in {"listed", "unlisted"}, CreateItem(s) PROVE Safe'
  <2>1. Append(items, s) \in Seq(ItemState) /\ Len(Append(items, s)) >= Len(items)
    BY <1>0, <1>1 DEF ItemState
  <2> QED BY <1>1, <2>1, PutKeeps DEF CreateItem
<1>2. ASSUME NEW i \in ItemIds, UpdateItem(i) PROVE Safe'
  <2> DEFINE new == [items EXCEPT ![i] = IF @ = "listed" THEN "unlisted" ELSE "listed"]
  <2>1. new \in Seq(ItemState) /\ Len(new) >= Len(items)
    BY <1>0 DEF ItemState, ItemIds
  <2> QED BY <1>2, <2>1, PutKeeps DEF UpdateItem
<1>3. ASSUME NEW i \in ItemIds, DeleteItem(i) PROVE Safe'
  <2> DEFINE new == [items EXCEPT ![i] = "deleted"]
  <2>1. new \in Seq(ItemState) /\ Len(new) >= Len(items)
    BY <1>0 DEF ItemState, ItemIds
  <2> QED BY <1>3, <2>1, PutKeeps DEF DeleteItem
<1> QED BY <1>1, <1>2, <1>3 DEF Change

LEMMA NextKeeps == Safe /\ [Next]_vars => Safe'
<1> SUFFICES ASSUME Safe, [Next]_vars PROVE Safe'
  OBVIOUS
<1>1. CASE Begin
  BY <1>1, BeginKeeps
<1>2. CASE Handle
  BY <1>2, SelectKeeps, CountKeeps, TurnPageKeeps, LastPageKeeps DEF Handle
<1>3. CASE Change
  BY <1>3, ChangeKeeps
<1>4. CASE UNCHANGED vars
  BY <1>4 DEF vars, Safe, TypeOK, Rows, Above, Ahead, OnPageOrBelow, Agree,
              MissedOnlyAsCursor, Asked, Below, Listed, ItemIds
<1> QED BY <1>1, <1>2, <1>3, <1>4 DEF Next

LEMMA AlwaysSafe == Spec => []Safe
  BY InitSafe, NextKeeps, PTL DEF Spec

----------------------------------------------------------------------------
\* Rows, answers and pages have their types, and SELECT .. LIMIT never returns
\* more than getItems asked for.
THEOREM Typing == Spec => []TypeOK
<1>1. Safe => TypeOK
  BY DEF Safe
<1> QED BY <1>1, AlwaysSafe, PTL

\* No item is on two pages of one listing, whatever owners do meanwhile.
THEOREM NothingShownTwice == Spec => []NothingTwice
<1>1. Safe => NothingTwice
  <2> SUFFICES ASSUME Safe, NEW i \in answer.rows, i \in shown PROVE FALSE
    BY DEF NothingTwice
  <2>1. pc = "asking"
    BY DEF Safe, Rows, NoAnswer
  <2>2. cursor # 0 /\ i > cursor /\ i < cursor
    BY <2>1 DEF Safe, Above, Rows, Asked
  <2>3. i \in Nat /\ cursor \in Nat
    BY SomeFacts DEF Safe, TypeOK
  <2> QED BY <2>2, <2>3
<1> QED BY <1>1, AlwaysSafe, PTL

\* What a finished listing missed was a cursor, unless a page was torn.
THEOREM OnlyCursorsAreMissed == Spec => []MissedOnlyAsCursor
<1>1. Safe => MissedOnlyAsCursor
  BY DEF Safe
<1> QED BY <1>1, AlwaysSafe, PTL

\* What PagesDescend says of one step.
Descends ==
    pc = "asking" =>
        /\ \A i \in shown' \ shown, j \in shown \cup cursors : i < j
        /\ \A c \in cursors' \ cursors, j \in shown' \cup cursors : c < j

\* The cursors of a listing so far end with the one the client has now.
Falling == \A c \in cursors : cursor # 0 /\ c >= cursor

LEMMA FallingKept == Safe /\ Falling /\ [Next]_vars => Falling'
<1> SUFFICES ASSUME Safe, Falling, [Next]_vars PROVE Falling'
  OBVIOUS
<1>1. CASE TurnPage
  <2> DEFINE last == Last(answer.rows)
  <2>1. /\ cursor' = last /\ cursors' = cursors \cup {last}
        /\ pc = "asking" /\ answer.rows # {}
    BY <1>1 DEF TurnPage, Answered, More
  <2>2. last \in answer.rows /\ last \in Nat /\ last # 0
    BY <2>1, RowsAreIds
  <2>3. ASSUME NEW c \in cursors PROVE c >= last
    <3>1. last < cursor /\ c >= cursor /\ c \in Nat /\ cursor \in Nat
      BY <2>2, <2>3, SomeFacts DEF Falling, Safe, Rows, Asked, TypeOK
    <3> QED BY <2>2, <3>1
  <2> QED BY <2>1, <2>2, <2>3 DEF Falling
<1>2. CASE Begin
  BY <1>2 DEF Begin, Falling
<1>3. CASE UNCHANGED <<cursor, cursors>>
  BY <1>3 DEF Falling
<1> QED
  BY <1>1, <1>2, <1>3 DEF Next, Handle, Change, Select, Count, LastPage, CreateItem, UpdateItem,
                          DeleteItem, Put, vars

LEMMA StepDescends == Safe /\ Falling /\ [Next]_vars => [Descends]_vars
<1> SUFFICES ASSUME Safe, Falling, Next, pc = "asking" PROVE Descends
  BY DEF Descends
<1>1. \A i \in answer.rows : /\ i \in Nat /\ (cursor # 0 => i < cursor)
  BY RowsAreIds DEF Safe, Rows, Asked
<1>2. \A j \in shown \cup cursors : j \in Nat /\ cursor # 0 /\ cursor \in Nat /\ j >= cursor
  BY SomeFacts DEF Safe, TypeOK, Above, Falling
<1>3. \A i \in answer.rows, j \in shown \cup cursors : i < j
  BY <1>1, <1>2
<1>4. CASE TurnPage
  <2> DEFINE last == Last(answer.rows)
  <2>1. /\ shown' = shown \cup (answer.rows \ {last})
        /\ cursors' = cursors \cup {last} /\ answer.rows # {}
    BY <1>4 DEF TurnPage, More
  <2>2. last \in answer.rows /\ last \in Nat /\ \A i \in answer.rows : last <= i
    BY <2>1, RowsAreIds
  <2>3. \A j \in answer.rows \ {last} : last < j
    BY <1>1, <2>2
  <2> HIDE DEF last
  <2> QED BY <1>3, <2>1, <2>2, <2>3 DEF Descends
<1>5. CASE LastPage
  BY <1>3, <1>5 DEF LastPage, Descends
<1>6. CASE UNCHANGED <<shown, cursors>>
  BY <1>6 DEF Descends
<1> QED
  BY <1>4, <1>5, <1>6 DEF Next, Handle, Change, Begin, Select, Count, CreateItem, UpdateItem,
                          DeleteItem, Put

\* Every page of a listing lies below all pages and cursors before it, whatever
\* owners do meanwhile: a client that follows the cursors cannot go in circles.
THEOREM PagesGoDown == Spec => PagesDescend
<1>1. Init => Falling
  BY DEF Init, Falling
<1>2. Safe /\ Falling /\ [Next]_vars => Falling'
  BY FallingKept
<1>3. Safe /\ Falling /\ [Next]_vars => [Descends]_vars
  BY StepDescends
<1> QED BY <1>1, <1>2, <1>3, AlwaysSafe, PTL DEF Spec, PagesDescend, Descends
=============================================================================
