--------------------------- MODULE PagedScansProofs ---------------------------
(***************************************************************************)
(* Theorems about the scripts that read the raw rows and the history page  *)
(* by page, for any messages, channels, pages, windows, changes, faults.   *)
(***************************************************************************)
EXTENDS PagedScans, FiniteSetTheorems, WellFoundedInduction, TLAPS

-----------------------------------------------------------------------------
(* Bounded sets of numbers, and how many messages a set has. *)

LEMMA LeastExists ==
    ASSUME NEW S \in SUBSET Nat, S # {}
    PROVE  \E x \in S : \A y \in S : x <= y
<1> DEFINE Less == OpToRel(<, Nat)
<1>1. IsWellFoundedOn(Less, Nat)
  BY NatLessThanWellFounded
<1>2. \A a, b \in Nat : a < b => <<a, b>> \in Less
  BY DEF OpToRel
<1> HIDE DEF Less
<1>3. PICK x \in S : \A y \in S : ~(<<y, x>> \in Less)
  BY <1>1, WFMin
<1>4. ASSUME NEW y \in S PROVE x <= y
  <2>1. x \in Nat /\ y \in Nat /\ ~(<<y, x>> \in Less)
    BY <1>3
  <2>2. ~(y < x)
    BY <1>2, <2>1
  <2> QED
    BY <2>1, <2>2
<1> QED
  BY <1>4

LEMMA LeastOfNaturals ==
    ASSUME NEW S \in SUBSET Nat, S # {}
    PROVE  Min(S) \in S /\ \A y \in S : Min(S) <= y
<1>1. \E x \in S : \A y \in S : x <= y
  BY LeastExists
<1> QED
  BY <1>1 DEF Min

LEMMA GreatestExists ==
    ASSUME NEW n \in Nat, NEW S \in SUBSET (0..n), S # {}
    PROVE  \E x \in S : \A y \in S : x >= y
<1> DEFINE D == {n - x : x \in S}
<1>1. D \in SUBSET Nat /\ D # {}
  <2>1. \A x \in S : n - x \in Nat
    OBVIOUS
  <2> QED
    BY <2>1
<1>2. PICK d \in D : \A e \in D : d <= e
  BY <1>1, LeastExists
<1>3. PICK x \in S : d = n - x
  BY <1>2
<1>4. ASSUME NEW y \in S PROVE x >= y
  <2>1. n - y \in D /\ x \in 0..n /\ y \in 0..n
    OBVIOUS
  <2>2. n - x <= n - y
    BY <1>2, <1>3, <2>1
  <2> QED
    BY <2>1, <2>2
<1> QED
  BY <1>4

LEMMA GreatestOfBounded ==
    ASSUME NEW n \in Nat, NEW S \in SUBSET (0..n), S # {}
    PROVE  Max(S) \in S /\ \A y \in S : Max(S) >= y
<1>1. \E x \in S : \A y \in S : x >= y
  BY GreatestExists
<1> QED
  BY <1>1 DEF Max

LEMMA Bounds ==
    /\ MaxMsgs \in Nat /\ MaxTime \in Nat \ {0} /\ Lookback \in Nat
    /\ PageSize \in Nat \ {0} /\ EditLimit \in Nat \ {0} /\ WindowSize \in Nat \ {0, 1}
    /\ Msgs \subseteq Nat \ {0} /\ Msgs \subseteq 0..MaxMsgs
    /\ ChanOf \in [Msgs -> Channels] /\ "none" \notin Channels
BY ScanAssumption DEF Msgs

LEMMA Countable ==
    /\ IsFiniteSet(Msgs)
    /\ \A T \in SUBSET Msgs : IsFiniteSet(T) /\ Cardinality(T) \in Nat /\ Cardinality(T) <= MaxMsgs
<1>1. IsFiniteSet(Msgs) /\ Cardinality(Msgs) = MaxMsgs
  BY Bounds, FS_Interval DEF Msgs
<1> QED
  BY <1>1, FS_Subset, FS_CardinalityType

LEMMA Fewer ==
    ASSUME NEW U \in SUBSET Msgs, NEW T \in SUBSET U
    PROVE  /\ Cardinality(T) \in Nat /\ Cardinality(U) \in Nat
           /\ Cardinality(T) <= Cardinality(U)
           /\ T # U => Cardinality(T) < Cardinality(U)
<1>1. IsFiniteSet(U) /\ Cardinality(T) \in Nat /\ Cardinality(U) \in Nat
  BY Countable
<1> QED
  BY <1>1, FS_Subset

LEMMA OneMore ==
    ASSUME NEW T \in SUBSET Msgs, NEW x \in Msgs, x \notin T
    PROVE  Cardinality(T \cup {x}) = Cardinality(T) + 1
BY Countable, FS_AddElement

(* The newest n of a set of messages: one at least, no older one without a  *)
(* newer one, and all of them when there are fewer than n.                  *)
LEMMA NewestOf ==
    ASSUME NEW S \in SUBSET Msgs, NEW n \in Nat \ {0}
    PROVE  /\ Newest(S, n) \subseteq S
           /\ S # {} => Newest(S, n) # {}
           /\ \A m \in S \ Newest(S, n) : \A k \in Newest(S, n) : m < k
           /\ Cardinality(Newest(S, n)) < n => Newest(S, n) = S
<1> DEFINE Above(m) == {k \in S : k > m}
           N == Newest(S, n)
<1>1. MaxMsgs \in Nat /\ Msgs \subseteq Int /\ Msgs \subseteq 0..MaxMsgs
  BY ScanAssumption DEF Msgs
<1>2. IsFiniteSet(S)
  <2>1. IsFiniteSet(1..MaxMsgs)
    BY <1>1, FS_Interval
  <2> QED
    BY <2>1, FS_Subset DEF Msgs
<1>3. \A T \in SUBSET S : IsFiniteSet(T) /\ Cardinality(T) \in Nat
  BY <1>2, FS_Subset, FS_CardinalityType
<1>4. \A m : m \in N <=> m \in S /\ Cardinality(Above(m)) < n
  BY DEF Newest
<1>5. ASSUME NEW T \in SUBSET S, NEW U \in SUBSET T PROVE Cardinality(U) <= Cardinality(T)
  BY <1>3, FS_Subset
<1>6. ASSUME NEW T \in SUBSET S, T # {} PROVE \E x \in T : \A y \in T : x >= y
  <2>1. T \in SUBSET (0..MaxMsgs)
    BY <1>1
  <2> QED
    BY <1>1, <2>1, <1>6, GreatestExists
<1>11. \A m, k : k \in Above(m) <=> k \in S /\ k > m
  OBVIOUS
<1> HIDE DEF N, Above
<1>7. N \subseteq S
  BY <1>4
<1>8. ASSUME S # {} PROVE N # {}
  <2>1. PICK x \in S : \A y \in S : x >= y
    BY <1>6, <1>8
  <2>2. Above(x) = {}
    <3>1. \A k \in S : ~(k > x)
      BY <1>1, <2>1
    <3> QED
      BY <1>11, <3>1
  <2>3. Cardinality(Above(x)) < n
    BY <2>2, FS_EmptySet
  <2> QED
    BY <1>4, <2>1, <2>3
<1>9. ASSUME NEW m \in S \ N, NEW k \in N PROVE m < k
  <2>1. m \in Int /\ k \in Int /\ k \in S
    BY <1>1, <1>7
  <2>2. SUFFICES ASSUME m >= k PROVE FALSE
    BY <2>1
  <2>3. Above(m) \in SUBSET Above(k) /\ Above(k) \in SUBSET S /\ Above(m) \in SUBSET S
    <3>1. \A j \in S : j > m => j > k
      BY <1>1, <2>1, <2>2
    <3> QED
      BY <1>11, <3>1
  <2>4. Cardinality(Above(m)) <= Cardinality(Above(k))
    BY <1>5, <2>3
  <2>5. Cardinality(Above(k)) < n
    BY <1>4
  <2>6. Cardinality(Above(m)) \in Nat /\ Cardinality(Above(k)) \in Nat
    BY <1>3, <2>3
  <2>7. Cardinality(Above(m)) < n
    BY <2>4, <2>5, <2>6
  <2> QED
    BY <1>4, <2>7
<1>10. ASSUME Cardinality(N) < n PROVE N = S
  <2>1. SUFFICES ASSUME S \ N # {} PROVE FALSE
    BY <1>7
  <2>2. PICK x \in S \ N : \A y \in S \ N : x >= y
    BY <1>6, <2>1
  <2>3. Above(x) \in SUBSET N /\ N \in SUBSET S /\ Above(x) \in SUBSET S
    <3>1. \A k \in S : k > x => k \in N
      BY <1>1, <2>2
    <3> QED
      BY <1>7, <1>11, <3>1
  <2>4. Cardinality(Above(x)) <= Cardinality(N)
    BY <1>5, <2>3
  <2>5. Cardinality(Above(x)) \in Nat /\ Cardinality(N) \in Nat
    BY <1>3, <2>3
  <2>6. Cardinality(Above(x)) < n
    BY <1>10, <2>4, <2>5
  <2> QED
    BY <1>4, <2>2, <2>6
<1> QED
  BY <1>7, <1>8, <1>9, <1>10 DEF N

LEMMA NewestFull ==
    ASSUME NEW S \in SUBSET Msgs, NEW n \in Nat \ {0}, S # Newest(S, n)
    PROVE  Cardinality(Newest(S, n)) = n
<1> DEFINE N == Newest(S, n)
           Above(m) == {k \in S : k > m}
<1>1. N \in SUBSET Msgs /\ N # {} /\ ~(Cardinality(N) < n)
  BY NewestOf
<1>2. PICK h \in N : \A k \in N : h <= k
  <2>1. N \in SUBSET Nat
    BY <1>1, Bounds
  <2> QED
    BY <1>1, <2>1, LeastExists
<1>3. h \in S /\ Cardinality(Above(h)) < n
  BY <1>2 DEF Newest
<1>4. N \subseteq Above(h) \cup {h}
  <2>1. \A k \in N : k \in S /\ (k = h \/ k > h)
    BY <1>1, <1>2, Bounds DEF Newest
  <2> QED
    BY <2>1
<1>5. Above(h) \in SUBSET Msgs /\ h \in Msgs /\ h \notin Above(h)
  <2>1. h \in Msgs /\ h \in Nat /\ Above(h) \in SUBSET Msgs
    BY <1>3, Bounds
  <2>2. ~(h > h)
    BY <2>1
  <2> QED
    BY <2>1, <2>2
<1>6. Cardinality(Above(h) \cup {h}) = Cardinality(Above(h)) + 1
  BY <1>5, OneMore
<1>7. Cardinality(N) <= Cardinality(Above(h) \cup {h}) /\ Cardinality(N) \in Nat
  <2>1. Above(h) \cup {h} \in SUBSET Msgs
    BY <1>5
  <2> QED
    BY <1>4, <2>1, Fewer
<1>8. Cardinality(Above(h)) \in Nat
  BY <1>5, Countable
<1> QED
  BY <1>1, <1>3, <1>6, <1>7, <1>8

-----------------------------------------------------------------------------
(* Types.  The rows are numbered as they were inserted, without gaps.       *)

StoredMsgs == {m \in Msgs : Stored(m)}

IdInv ==
    /\ \A m \in Msgs : raw[m].id <= Cardinality(StoredMsgs)
    /\ \A m, k \in Msgs : Stored(m) /\ raw[m].id = raw[k].id => m = k

TypeInv == TypeOK /\ IdInv

LEMMA StoredCount == Cardinality(StoredMsgs) \in 0..MaxMsgs
BY Countable, Bounds DEF StoredMsgs

LEMMA SameIds ==
    ASSUME IdInv, \A m \in Msgs : raw'[m].id = raw[m].id
    PROVE  IdInv'
<1>1. StoredMsgs' = StoredMsgs
  BY DEF StoredMsgs, Stored
<1> QED
  BY <1>1 DEF IdInv, Stored

(* A row's next number is the next free one. *)
LEMMA StoreIds ==
    ASSUME TypeInv, NEW m \in Msgs, ~Stored(m), raw' = [raw EXCEPT ![m].id = NewId]
    PROVE  /\ raw' \in [Msgs -> [id : 0..MaxMsgs, edit : Time, deleted : BOOLEAN]]
           /\ IdInv'
<1>1. NewId = Cardinality(StoredMsgs) + 1
  BY DEF NewId, StoredMsgs
<1>2. /\ raw'[m].id = NewId
      /\ \A k \in Msgs \ {m} : raw'[k] = raw[k]
  BY DEF TypeInv, TypeOK
<1>3. NewId > 0
  BY <1>1, StoredCount, Bounds
<1>4. StoredMsgs' = StoredMsgs \cup {m} /\ m \notin StoredMsgs
  BY <1>2, <1>3 DEF StoredMsgs, Stored
<1>5. Cardinality(StoredMsgs') = NewId
  <2>1. StoredMsgs \in SUBSET Msgs
    BY DEF StoredMsgs
  <2> QED
    BY <1>1, <1>4, <2>1, OneMore
<1>6. NewId \in 0..MaxMsgs
  <2>1. StoredMsgs' \in SUBSET Msgs
    BY DEF StoredMsgs
  <2> QED
    BY <1>3, <1>5, <2>1, Countable
<1>7. raw' \in [Msgs -> [id : 0..MaxMsgs, edit : Time, deleted : BOOLEAN]]
  BY <1>6 DEF TypeInv, TypeOK
<1>8. \A k \in Msgs \ {m} : raw'[k].id <= Cardinality(StoredMsgs) /\ raw'[k].id \in 0..MaxMsgs
  BY <1>2 DEF TypeInv, TypeOK, IdInv
<1>9. IdInv'
  <2>1. \A k \in Msgs : raw'[k].id <= Cardinality(StoredMsgs')
    BY <1>1, <1>2, <1>5, <1>8, StoredCount, Bounds
  <2>2. \A k \in Msgs \ {m} : raw'[k].id # NewId
    BY <1>1, <1>8, StoredCount, Bounds
  <2>3. \A j, k \in Msgs : Stored(j)' /\ raw'[j].id = raw'[k].id => j = k
    BY <1>2, <2>2 DEF TypeInv, IdInv, Stored
  <2> QED
    BY <2>1, <2>3 DEF IdInv
<1> QED
  BY <1>7, <1>9

(* A window's rows are numbered from its newest message down. *)
LEMMA WindowIds ==
    ASSUME TypeInv, raw' = StoredRows(held)
    PROVE  /\ raw' \in [Msgs -> [id : 0..MaxMsgs, edit : Time, deleted : BOOLEAN]]
           /\ IdInv'
           /\ \A m \in Msgs : /\ Stored(m) => raw'[m] = raw[m]
                              /\ Stored(m)' <=> Stored(m) \/ m \in held
                              /\ raw'[m].edit = raw[m].edit /\ raw'[m].deleted = raw[m].deleted
<1> DEFINE U == {k \in held : ~Stored(k)}
           Above(m) == {k \in U : k > m}
           n == Cardinality(StoredMsgs)
           Given(m) == n + 1 + Cardinality(Above(m))
<1>1. held \in SUBSET Msgs /\ U \in SUBSET Msgs /\ StoredMsgs \in SUBSET Msgs
  BY DEF TypeInv, TypeOK, StoredMsgs
<1>0. \A m \in U : m \in Nat /\ \A k : k \in Above(m) <=> k \in U /\ k > m
  BY <1>1, Bounds
<1>2. \A m : Above(m) \in SUBSET U /\ Cardinality(Above(m)) \in Nat
  BY <1>1, Fewer
<1>3. n \in Nat /\ Cardinality(U) \in Nat
  BY <1>1, Countable
<1>4. \A m \in U : Cardinality(Above(m)) < Cardinality(U)
  <2> SUFFICES ASSUME NEW m \in U PROVE Cardinality(Above(m)) < Cardinality(U)
    OBVIOUS
  <2>1. m \notin Above(m)
    <3>1. m \in Nat /\ ~(m > m)
      BY <1>0
    <3> QED
      BY <1>0, <3>1
  <2> QED
    BY <1>1, <1>2, <2>1, Fewer
<1>5. \A m, k \in U : m < k => Cardinality(Above(k)) < Cardinality(Above(m))
  <2> SUFFICES ASSUME NEW m \in U, NEW k \in U, m < k
               PROVE  Cardinality(Above(k)) < Cardinality(Above(m))
    OBVIOUS
  <2>1. Above(k) \subseteq Above(m) /\ k \in Above(m) /\ k \notin Above(k)
    <3>1. m \in Nat /\ k \in Nat /\ k > m /\ ~(k > k)
      BY <1>0
    <3>2. \A j \in U : j > k => j > m
      BY <1>0, <3>1
    <3> HIDE DEF Above
    <3> QED
      BY <1>0, <3>1, <3>2
  <2>2. Above(m) \in SUBSET Msgs /\ Above(k) \in SUBSET Above(m) /\ Above(k) # Above(m)
    BY <1>1, <1>2, <2>1
  <2> QED
    BY <2>2, Fewer
<1>6. \A m \in Msgs \ U : raw'[m] = raw[m]
  BY DEF StoredRows
<1>7. \A m \in U : raw'[m] = [raw[m] EXCEPT !.id = Given(m)]
  <2> SUFFICES ASSUME NEW m \in U PROVE raw'[m] = [raw[m] EXCEPT !.id = Given(m)]
    OBVIOUS
  <2>1. {k \in held : k > m /\ ~Stored(k)} = Above(m)
    OBVIOUS
  <2>2. NewId = n + 1
    BY DEF NewId, StoredMsgs
  <2>3. m \in Msgs /\ m \in held /\ ~Stored(m)
    BY <1>1
  <2>4. raw'[m] = [raw[m] EXCEPT !.id = NewId + Cardinality({k \in held : k > m /\ ~Stored(k)})]
    BY <2>3 DEF StoredRows
  <2> QED
    BY <2>1, <2>2, <2>4
<1>8. \A m \in U : raw'[m].id = Given(m) /\ raw'[m].edit = raw[m].edit /\ raw'[m].deleted = raw[m].deleted
  BY <1>1, <1>7 DEF TypeInv, TypeOK
<1>9. \A m \in U : Given(m) \in Nat /\ Given(m) > n /\ Given(m) <= n + Cardinality(U)
  BY <1>2, <1>3, <1>4
<1> HIDE DEF Given
<1>10. \A m \in Msgs : Stored(m)' <=> Stored(m) \/ m \in held
  BY <1>1, <1>3, <1>6, <1>8, <1>9 DEF Stored
<1>11. Cardinality(StoredMsgs') = n + Cardinality(U) /\ StoredMsgs' \in SUBSET Msgs
  <2>1. StoredMsgs' = StoredMsgs \cup U /\ StoredMsgs \cap U = {}
    BY <1>1, <1>10 DEF StoredMsgs
  <2>2. IsFiniteSet(StoredMsgs) /\ IsFiniteSet(U)
    BY <1>1, Countable
  <2>3. Cardinality(StoredMsgs \cap U) = 0
    BY <2>1, FS_EmptySet
  <2>4. Cardinality(StoredMsgs \cup U) = n + Cardinality(U) - Cardinality(StoredMsgs \cap U)
    BY <2>2, FS_Union
  <2> HIDE DEF U
  <2>5. StoredMsgs \cup U \in SUBSET Msgs
    BY <1>1
  <2> QED
    BY <1>3, <2>1, <2>3, <2>4, <2>5
<1>12. n + Cardinality(U) <= MaxMsgs
  BY <1>11, Countable
<1>13. \A m \in Msgs : raw'[m] \in [id : 0..MaxMsgs, edit : Time, deleted : BOOLEAN]
  <2>1. \A m \in U : Given(m) \in 0..MaxMsgs
    BY <1>3, <1>9, <1>12, Bounds
  <2>2. \A m \in U : raw'[m] \in [id : 0..MaxMsgs, edit : Time, deleted : BOOLEAN]
    BY <1>1, <1>7, <2>1 DEF TypeInv, TypeOK
  <2> QED
    BY <1>6, <2>2 DEF TypeInv, TypeOK
<1>14. \A m \in Msgs \ U : raw'[m].id <= n /\ raw'[m].id \in Nat
  <2>1. \A m \in Msgs : raw[m].id \in 0..MaxMsgs
    BY DEF TypeInv, TypeOK
  <2>2. \A m \in Msgs : raw[m].id <= n
    BY DEF TypeInv, IdInv
  <2> HIDE DEF U, n
  <2> QED
    BY <1>6, <2>1, <2>2
<1>15. IdInv'
  <2>1. \A m \in Msgs : raw'[m].id <= Cardinality(StoredMsgs')
    BY <1>3, <1>8, <1>9, <1>11, <1>14
  <2>2. \A m \in U, k \in U : Given(m) = Given(k) => m = k
    <3> SUFFICES ASSUME NEW m \in U, NEW k \in U, m # k PROVE Given(m) # Given(k)
      OBVIOUS
    <3>1. m < k \/ k < m
      BY <1>1, Bounds
    <3> QED
      BY <1>2, <1>3, <1>5, <3>1 DEF Given
  <2>3. \A m, k \in Msgs : Stored(m)' /\ raw'[m].id = raw'[k].id => m = k
    <3> SUFFICES ASSUME NEW m \in Msgs, NEW k \in Msgs, Stored(m)', raw'[m].id = raw'[k].id
                 PROVE  m = k
      OBVIOUS
    <3>1. CASE m \in U /\ k \in U
      BY <1>8, <2>2, <3>1
    <3>2. CASE m \in U /\ k \notin U
      BY <1>3, <1>8, <1>9, <1>14, <3>2
    <3>3. CASE m \notin U /\ k \in U
      BY <1>3, <1>8, <1>9, <1>14, <3>3
    <3>4. CASE m \notin U /\ k \notin U
      BY <1>6, <3>4 DEF TypeInv, IdInv, Stored
    <3> QED
      BY <3>1, <3>2, <3>3, <3>4
  <2> QED
    BY <2>1, <2>3 DEF IdInv
<1>16. raw' \in [Msgs -> [id : 0..MaxMsgs, edit : Time, deleted : BOOLEAN]]
  <2>1. raw' = [m \in Msgs |-> raw'[m]]
    BY DEF StoredRows
  <2> QED
    BY <1>13, <2>1
<1>17. \A m \in Msgs : Stored(m) => raw'[m] = raw[m]
  BY <1>6
<1>18. \A m \in Msgs : raw'[m].edit = raw[m].edit /\ raw'[m].deleted = raw[m].deleted
  BY <1>6, <1>8
<1> QED
  BY <1>10, <1>15, <1>16, <1>17, <1>18

(* The rows of a page have a last one. *)
LEMMA LastOfPage ==
    ASSUME TypeInv, NEW page \in SUBSET Msgs, page # {}, \A m \in page : Stored(m)
    PROVE  \E k \in page : \A m \in page : m = k \/ Earlier(m, k)
<1> DEFINE Dates == {raw[m].edit : m \in page}
<1>1. \A m \in page : raw[m].edit \in 0..MaxTime /\ raw[m].id \in 0..MaxMsgs
  BY DEF TypeInv, TypeOK, Time
<1>2. PICK d \in Dates : \A e \in Dates : d >= e
  <2>1. Dates \in SUBSET (0..MaxTime) /\ Dates # {}
    BY <1>1
  <2> QED
    BY <2>1, Bounds, GreatestExists
<1> DEFINE Ids == {raw[m].id : m \in {j \in page : raw[j].edit = d}}
<1>3. PICK i \in Ids : \A e \in Ids : i >= e
  <2>1. Ids \in SUBSET (0..MaxMsgs) /\ Ids # {}
    BY <1>1, <1>2
  <2> QED
    BY <2>1, Bounds, GreatestExists
<1>4. PICK k \in page : raw[k].edit = d /\ raw[k].id = i
  BY <1>3
<1>5. ASSUME NEW m \in page PROVE m = k \/ Earlier(m, k)
  <2>1. raw[m].edit <= d
    BY <1>1, <1>2, <1>4
  <2>2. CASE raw[m].edit < d
    BY <1>4, <2>2 DEF Earlier
  <2>3. CASE raw[m].edit = d
    <3>1. raw[m].id <= i
      BY <1>1, <1>3, <1>4, <2>3
    <3>2. CASE raw[m].id = i
      BY <1>4, <3>2 DEF TypeInv, IdInv
    <3> QED
      BY <1>1, <1>4, <2>3, <3>1, <3>2 DEF Earlier
  <2> QED
    BY <1>1, <1>4, <2>1, <2>2, <2>3
<1> QED
  BY <1>4, <1>5

LEMMA LatestType ==
    ASSUME TypeInv, NEW page \in SUBSET Msgs, \A m \in page : Stored(m)
    PROVE  LatestOf(page) \in Marks
<1> DEFINE k == CHOOSE j \in page : \A m \in page : m = j \/ Earlier(m, j)
           mark == [date |-> raw[k].edit, id |-> raw[k].id]
<1>1. latest \in Marks
  BY DEF TypeInv, TypeOK
<1>2. page # {} => mark \in Marks
  <2> SUFFICES ASSUME page # {} PROVE mark \in Marks
    OBVIOUS
  <2>1. k \in page
    BY LastOfPage
  <2> HIDE DEF k
  <2> QED
    BY <2>1, Bounds DEF TypeInv, TypeOK, Marks, Time
<1>3. (LatestOf(page) = mark /\ page # {}) \/ LatestOf(page) = latest
  BY DEF LatestOf
<1> HIDE DEF mark
<1> QED
  BY <1>1, <1>2, <1>3

(* What each step makes of the fields of the script in hand. *)
LEMMA ScriptFields ==
    ASSUME NEW s \in Scripts, NEW mark \in Int, NEW tries \in Nat, NEW last \in BOOLEAN,
           NEW over \in {"none", "no", "all", "failed"}
    PROVE  /\ [s EXCEPT !.over = over] \in Scripts
           /\ [s EXCEPT !.tries = tries] \in Scripts
           /\ [s EXCEPT !.last = last, !.over = over] \in Scripts
           /\ [s EXCEPT !.mark = mark, !.last = last, !.over = over] \in Scripts
           /\ [s EXCEPT !.mark = mark, !.tries = tries, !.over = over] \in Scripts
           /\ [s EXCEPT !.mark = mark, !.tries = tries, !.last = last, !.over = over] \in Scripts
BY DEF Scripts

LEMMA ScriptOfChannel ==
    ASSUME NEW s \in Scripts, NEW c \in Channels, NEW todo \in SUBSET Channels
    PROVE  [s EXCEPT !.chan = c, !.todo = todo, !.mark = 0, !.tries = 1, !.last = FALSE, !.over = "no"]
             \in Scripts
<1> DEFINE t == [s EXCEPT !.chan = c, !.todo = todo]
<1>1. t \in Scripts
  BY DEF Scripts
<1>2. [t EXCEPT !.mark = 0, !.tries = 1, !.last = FALSE, !.over = "no"] \in Scripts
  <2> HIDE DEF t
  <2>1. 0 \in Int /\ 1 \in Nat /\ FALSE \in BOOLEAN /\ "no" \in {"none", "no", "all", "failed"}
    OBVIOUS
  <2> QED
    BY <1>1, <2>1, ScriptFields, Zenon
<1> QED
  BY <1>2, Zenon

LEMMA NoScriptType == NoScript \in Scripts /\ NoMark \in Marks
BY Bounds DEF NoScript, Scripts, NoMark, Marks

(* Steps of others. *)
LEMMA OthersType == ASSUME TypeInv, Others PROVE TypeInv'
<1> USE DEF TypeInv, TypeOK
<1>1. CASE Tick
  <2>1. now' \in Time
    BY <1>1, Bounds DEF Tick, Time
  <2>2. IdInv'
    BY <1>1, SameIds DEF Tick, tableVars
  <2> QED
    BY <1>1, <2>1, <2>2 DEF Tick, tableVars, scanVars, countVars, ghostVars
<1>2. ASSUME NEW m \in Msgs, Post(m) PROVE TypeInv'
  <2>1. IdInv'
    BY <1>2, SameIds DEF Post
  <2> QED
    BY <1>2, <2>1 DEF Post, Change, scanVars, countVars, ghostVars
<1>3. ASSUME NEW m \in Msgs, Store(m) PROVE TypeInv'
  <2>1. raw' \in [Msgs -> [id : 0..MaxMsgs, edit : Time, deleted : BOOLEAN]] /\ IdInv'
    BY <1>3, StoreIds DEF Store
  <2>2. 0 \in Time
    BY Bounds DEF Time
  <2>3. asked' \in [Msgs -> Time \cup {-1}]
    BY <1>3, <2>2 DEF Store
  <2> QED
    BY <1>3, <2>1, <2>3 DEF Store, Change, scanVars, countVars, ghostVars
<1>4. ASSUME NEW m \in Msgs, Edit(m) PROVE TypeInv'
  <2>1. PICK date \in Time : raw' = [raw EXCEPT ![m] = [raw[m] EXCEPT !.edit = date]]
    BY <1>4 DEF Edit
  <2>2. [raw[m] EXCEPT !.edit = date] \in [id : 0..MaxMsgs, edit : Time, deleted : BOOLEAN]
        /\ [raw[m] EXCEPT !.edit = date].id = raw[m].id
    OBVIOUS
  <2>3. raw' \in [Msgs -> [id : 0..MaxMsgs, edit : Time, deleted : BOOLEAN]]
    BY <2>1, <2>2
  <2>4. IdInv'
    BY <2>1, <2>2, SameIds
  <2>5. lost' \subseteq Msgs
    BY <1>4 DEF Edit
  <2> QED
    BY <1>4, <2>3, <2>4, <2>5 DEF Edit, Change, scanVars, countVars, ghostVars
<1>5. ASSUME NEW m \in Msgs, Delete(m) PROVE TypeInv'
  <2> DEFINE d == Stored(m)
  <2>1. d \in BOOLEAN /\ raw' = [raw EXCEPT ![m].deleted = d]
    BY <1>5 DEF Delete, Stored
  <2> HIDE DEF d
  <2>2. raw' \in [Msgs -> [id : 0..MaxMsgs, edit : Time, deleted : BOOLEAN]]
        /\ \A k \in Msgs : raw'[k].id = raw[k].id
    BY <2>1
  <2>3. IdInv'
    BY <2>2, SameIds
  <2>4. shifted' \in Nat
    BY <1>5 DEF Delete
  <2> QED
    BY <1>5, <2>2, <2>3, <2>4 DEF Delete, Change, scanVars, countVars
<1> QED
  BY <1>1, <1>2, <1>3, <1>4, <1>5 DEF Others

LEMMA FailType ==
    ASSUME TypeInv, NEW k, Fail(k) \/ NoFault \/ FetchFails PROVE faults' \in Nat /\ runs' \in [Kinds -> Nat]
BY DEF TypeInv, TypeOK, Fail, NoFault, FetchFails, countVars

LEMMA EndType ==
    ASSUME EndScript
    PROVE  /\ script' \in Scripts /\ held' \subseteq Msgs /\ latest' \in Marks
           /\ shifted' \in Nat /\ present' \subseteq Msgs /\ seen' \subseteq Msgs /\ refused' \subseteq Msgs
BY NoScriptType DEF EndScript

(* Steps that start, change channel and end. *)
LEMMA RunType ==
    ASSUME TypeInv, \/ \E kind \in Kinds : Start(kind)
                    \/ \E c \in Channels : NextChannel(c)
                    \/ Finish \/ Killed \/ BackfillFails
    PROVE  TypeInv'
<1> USE DEF TypeInv, TypeOK
<1>1. ASSUME NEW kind \in Kinds, Start(kind) PROVE TypeInv'
  <2> DEFINE since == IF ckpt = NoMark THEN [date |-> now - Lookback - 1, id |-> 0] ELSE ckpt
  <2>1. since \in Marks /\ latest' \in Marks
    <3>1. ckpt \in Marks /\ now - Lookback - 1 \in Int /\ now - Lookback \in Int /\ 0 \in 0..MaxMsgs
      BY Bounds DEF Time
    <3>2. \A d \in Int : [date |-> d, id |-> 0] \in Marks
      BY <3>1 DEF Marks
    <3>3. /\ [date |-> now - Lookback - 1, id |-> 0] \in Marks
          /\ [date |-> now - Lookback, id |-> 0] \in Marks
      BY <3>1, <3>2
    <3> QED
      BY <1>1, <3>1, <3>3, Zenon DEF Start
  <2>2. script' = [NoScript EXCEPT !.kind = kind, !.todo = Channels, !.since = since]
    BY <1>1 DEF Start
  <2> HIDE DEF since
  <2>3. script' \in Scripts
    BY <2>1, <2>2, NoScriptType DEF Scripts
  <2>4. runs' \in [Kinds -> Nat]
    <3>1. runs \in [Kinds -> Nat] /\ runs' = [runs EXCEPT ![kind] = runs[kind] + 1]
      BY <1>1 DEF Start
    <3>2. runs[kind] + 1 \in Nat
      BY <3>1
    <3> QED
      BY <3>1, <3>2
  <2>5. IdInv'
    BY <1>1, SameIds DEF Start, tableVars
  <2>6. lost' \subseteq Msgs
    BY <1>1 DEF Start, TooOld
  <2> QED
    BY <1>1, <2>1, <2>3, <2>4, <2>5, <2>6 DEF Start, tableVars, ghostVars
<1>2. ASSUME NEW c \in Channels, NextChannel(c) PROVE TypeInv'
  <2>2. script.todo \ {c} \in SUBSET Channels
    BY DEF Scripts
  <2>3. script' \in Scripts
    BY <1>2, <2>2, ScriptOfChannel DEF NextChannel
  <2>4. present' \subseteq Msgs
    BY <1>2 DEF NextChannel, Visible, Readable
  <2>5. IdInv'
    BY <1>2, SameIds DEF NextChannel, tableVars
  <2> QED
    BY <1>2, <2>3, <2>4, <2>5 DEF NextChannel, tableVars, countVars
<1>3. CASE Finish
  <2>1. IdInv'
    BY <1>3, SameIds DEF Finish, tableVars
  <2>2. ckpt' \in Marks /\ lost' \subseteq Msgs
    BY <1>3 DEF Finish
  <2> QED
    BY <1>3, <2>1, <2>2, EndType DEF Finish, tableVars, countVars
<1>4. CASE Killed \/ BackfillFails
  <2>1. IdInv'
    BY <1>4, SameIds DEF Killed, BackfillFails, tableVars
  <2>2. faults' \in Nat /\ runs' \in [Kinds -> Nat]
    BY <1>4, FailType DEF Killed, BackfillFails
  <2> QED
    BY <1>4, <2>1, <2>2, EndType DEF Killed, BackfillFails, tableVars
<1> QED
  BY <1>1, <1>2, <1>3, <1>4

LEMMA PageOverType == ASSUME script \in Scripts PROVE PageOver \in Scripts
<1>1. script.over \in {"none", "no", "all", "failed"}
  BY DEF Scripts
<1> DEFINE over == IF script.over = "no" /\ script.last THEN "all" ELSE script.over
<1>2. over \in {"none", "no", "all", "failed"}
  BY <1>1
<1>3. PageOver = [script EXCEPT !.over = over]
  BY DEF PageOver
<1> HIDE DEF over
<1> QED
  BY <1>2, <1>3 DEF Scripts

LEMMA AskedType ==
    ASSUME TypeInv, NEW ids, NEW force
    PROVE  Asked(ids, force) \in [Msgs -> Time \cup {-1}]
BY DEF TypeInv, TypeOK, Asked

(* Steps over the pages of the table. *)
LEMMA PageType ==
    ASSUME TypeInv, Query \/ EnqueuePage \/ ReprocessRow \/ QueryEdits \/ EnqueueEdits
    PROVE  TypeInv'
<1> USE DEF TypeInv, TypeOK
<1>0. IdInv'
  <2>1. UNCHANGED raw
    BY DEF Query, EnqueuePage, ReprocessRow, QueryEdits, EnqueueEdits, tableVars
  <2> QED
    BY <2>1, SameIds
<1>00. faults' \in Nat /\ runs' \in [Kinds -> Nat]
  BY FailType DEF Query, EnqueuePage, ReprocessRow, QueryEdits, EnqueueEdits, NoFault
<1>1. CASE Query
  <2>1. PageAt(script.mark) \in SUBSET Msgs
    BY DEF PageAt, Visible
  <2>2. held' \subseteq Msgs /\ seen' \subseteq Msgs
    BY <1>1, <2>1 DEF Query
  <2>3. script' \in Scripts
    <3> DEFINE page == PageAt(script.mark)
               mark == OffsetAfter(page)
               last == LastPage(page)
               over == IF page = {} THEN "all" ELSE "no"
    <3>1. mark \in Int
      <4>1. Cardinality(page) \in Nat /\ script.mark \in Int
        BY <2>1, Countable DEF Scripts
      <4> QED
        BY <4>1 DEF OffsetAfter
    <3>2. last \in BOOLEAN /\ over \in {"none", "no", "all", "failed"}
      BY DEF LastPage
    <3>3. script' = [script EXCEPT !.mark = mark, !.last = last, !.over = over]
          \/ script' = [script EXCEPT !.over = "failed"]
      BY <1>1, Zenon DEF Query
    <3> HIDE DEF mark, last, over
    <3>4. script \in Scripts
      OBVIOUS
    <3>5. [script EXCEPT !.mark = mark, !.last = last, !.over = over] \in Scripts
      BY <3>1, <3>2, <3>4, ScriptFields, Zenon
    <3>6. [script EXCEPT !.over = "failed"] \in Scripts
      BY <3>4 DEF Scripts
    <3> QED
      BY <3>3, <3>5, <3>6, Zenon
  <2> QED
    BY <1>0, <1>00, <1>1, <2>2, <2>3 DEF Query, tableVars
<1>2. CASE EnqueuePage
  <2>1. asked' \in [Msgs -> Time \cup {-1}]
    <3>1. asked \in [Msgs -> Time \cup {-1}]
      OBVIOUS
    <3>2. \A ids, force : Asked(ids, force) \in [Msgs -> Time \cup {-1}]
      BY AskedType
    <3>3. asked' = Asked(held, FALSE) \/ asked' = asked
      BY <1>2, Zenon DEF EnqueuePage
    <3>4. Asked(held, FALSE) \in [Msgs -> Time \cup {-1}]
      BY <3>2, Zenon
    <3> QED
      BY <3>1, <3>3, <3>4, Zenon
  <2>2. refused' \subseteq Msgs
    BY <1>2 DEF EnqueuePage
  <2> QED
    BY <1>0, <1>00, <1>2, <2>1, <2>2, PageOverType DEF EnqueuePage
<1>3. CASE ReprocessRow
  BY <1>0, <1>3 DEF ReprocessRow, tableVars, countVars, ghostVars
<1>4. CASE QueryEdits
  <2>1. EditsPage \in SUBSET Msgs /\ Edits \in SUBSET Msgs /\ \A m \in EditsPage : Stored(m)
    BY DEF EditsPage, Edits, Visible
  <2>2. held' \subseteq Msgs /\ lost' \subseteq Msgs
    BY <1>4, <2>1 DEF QueryEdits
  <2>3. latest' \in Marks
    BY <1>4, <2>1, LatestType DEF QueryEdits
  <2>4. script' \in Scripts
    <3> DEFINE over == IF EditsPage = {} THEN "all" ELSE "no"
    <3>1. over \in {"none", "no", "all", "failed"}
      OBVIOUS
    <3>2. script' = [script EXCEPT !.last = TRUE, !.over = over] \/ script' = [script EXCEPT !.over = "failed"]
      BY <1>4, Zenon DEF QueryEdits
    <3> HIDE DEF over
    <3>3. script \in Scripts
      OBVIOUS
    <3>4. [script EXCEPT !.last = TRUE, !.over = over] \in Scripts
      BY <3>1, <3>3 DEF Scripts
    <3>5. [script EXCEPT !.over = "failed"] \in Scripts
      BY <3>3 DEF Scripts
    <3> QED
      BY <3>2, <3>4, <3>5, Zenon
  <2> QED
    BY <1>0, <1>00, <1>4, <2>2, <2>3, <2>4 DEF QueryEdits, tableVars, ghostVars
<1>5. CASE EnqueueEdits
  <2>1. asked' \in [Msgs -> Time \cup {-1}]
    <3>1. asked \in [Msgs -> Time \cup {-1}]
      OBVIOUS
    <3>2. \A ids, force : Asked(ids, force) \in [Msgs -> Time \cup {-1}]
      BY AskedType
    <3>3. asked' = Asked(held, TRUE) \/ asked' = asked
      BY <1>5, Zenon DEF EnqueueEdits
    <3>4. Asked(held, TRUE) \in [Msgs -> Time \cup {-1}]
      BY <3>2, Zenon
    <3> QED
      BY <3>1, <3>3, <3>4, Zenon
  <2>2. lost' \subseteq Msgs
    BY <1>5 DEF EnqueueEdits
  <2> QED
    BY <1>0, <1>00, <1>5, <2>1, <2>2, PageOverType DEF EnqueueEdits, ghostVars
<1> QED
  BY <1>1, <1>2, <1>3, <1>4, <1>5

(* The next window of a full one. *)
LEMMA NextMaxIdType ==
    ASSUME NEW W \in SUBSET Msgs, Cardinality(W) = WindowSize
    PROVE  /\ NextMaxId(W) \in Nat \ {0}
           /\ Min(W) \in W /\ \A m \in W : Min(W) <= m
           /\ Min(W) <= NextMaxId(W)
<1>0. W \in SUBSET Nat /\ IsFiniteSet(W)
  BY Bounds, Countable
<1>1. W # {}
  BY Bounds, FS_EmptySet
<1>2. Min(W) \in W /\ \A m \in W : Min(W) <= m
  BY <1>0, <1>1, LeastOfNaturals
<1> DEFINE R == W \ {Min(W)}
<1>3. Cardinality(R) = Cardinality(W) - 1
  BY <1>0, <1>2, FS_RemoveElement
<1>4. R # {}
  BY <1>3, Bounds, FS_EmptySet
<1>5. Min(R) \in R
  BY <1>0, <1>4, LeastOfNaturals
<1>6. Min(R) \in W /\ Min(R) # Min(W)
  BY <1>5
<1> HIDE DEF R
<1>7. Min(W) \in Nat /\ Min(R) \in Nat /\ Min(W) > 0 /\ Min(W) < Min(R)
  <2>1. Min(W) \in Nat \ {0} /\ Min(R) \in Nat \ {0} /\ Min(W) <= Min(R)
    BY <1>2, <1>6, Bounds
  <2> QED
    BY <1>6, <2>1
<1>8. NextMaxId(W) = Min(R) - 1
  BY DEF NextMaxId, R
<1> QED
  BY <1>2, <1>7, <1>8

(* Steps over the windows of the history. *)
LEMMA WindowType ==
    ASSUME TypeInv, ReadWindow \/ StoreWindow
    PROVE  TypeInv'
<1> USE DEF TypeInv, TypeOK
<1>0. faults' \in Nat /\ runs' \in [Kinds -> Nat]
  BY FailType DEF ReadWindow, StoreWindow
<1>1. CASE ReadWindow
  <2>1. Newest(Below, WindowSize) \in SUBSET Msgs
    BY DEF Newest, Below, Readable
  <2>2. held' \subseteq Msgs /\ seen' \subseteq Msgs
    BY <1>1, <2>1 DEF ReadWindow
  <2>3. script' \in Scripts
    <3>1. script.tries \in Nat
      BY DEF Scripts
    <3> DEFINE over == IF Below = {} THEN "all" ELSE "no"
               tries == script.tries + 1
    <3>2. over \in {"none", "no", "all", "failed"} /\ tries \in Nat
      BY <3>1
    <3>3. script' = [script EXCEPT !.over = over] \/ script' = [script EXCEPT !.tries = tries]
      BY <1>1 DEF ReadWindow
    <3> HIDE DEF over, tries
    <3>4. script \in Scripts
      OBVIOUS
    <3>5. [script EXCEPT !.over = over] \in Scripts /\ [script EXCEPT !.tries = tries] \in Scripts
      BY <3>2, <3>4 DEF Scripts
    <3> QED
      BY <3>3, <3>5, Zenon
  <2>4. IdInv'
    BY <1>1, SameIds DEF ReadWindow, tableVars
  <2> QED
    BY <1>0, <1>1, <2>2, <2>3, <2>4 DEF ReadWindow, tableVars
<1>2. CASE StoreWindow
  <2>1. /\ raw' \in [Msgs -> [id : 0..MaxMsgs, edit : Time, deleted : BOOLEAN]]
        /\ IdInv'
    <3>1. CASE raw' = StoredRows(held)
      BY <3>1, WindowIds
    <3>2. CASE UNCHANGED raw
      BY <3>2, SameIds
    <3> QED
      BY <1>2, <3>1, <3>2 DEF StoreWindow
  <2>2. asked' \in [Msgs -> Time \cup {-1}] /\ refused' \subseteq Msgs
    BY <1>2 DEF StoreWindow
  <2>3. script' \in Scripts
    <3> DEFINE full == Cardinality(held) = WindowSize
               mark == IF full THEN NextMaxId(held) ELSE script.mark
               over == IF full THEN "no" ELSE "all"
    <3>1. mark \in Int /\ over \in {"none", "no", "all", "failed"}
      BY NextMaxIdType DEF Scripts
    <3>2. script' = [script EXCEPT !.mark = mark, !.tries = 1, !.over = over]
      BY <1>2 DEF StoreWindow
    <3> HIDE DEF mark, over
    <3> QED
      BY <3>1, <3>2, ScriptFields
  <2> QED
    BY <1>0, <1>2, <2>1, <2>2, <2>3 DEF StoreWindow
<1> QED
  BY <1>1, <1>2

LEMMA TypeInvInductive == TypeInv /\ [Next]_vars => TypeInv'
<1> SUFFICES ASSUME TypeInv, [Next]_vars PROVE TypeInv'
  OBVIOUS
<1>1. CASE UNCHANGED vars
  <2>1. IdInv'
    BY <1>1, SameIds DEF TypeInv, vars, tableVars
  <2> QED
    BY <1>1, <2>1 DEF TypeInv, TypeOK, vars, tableVars, scanVars, countVars, ghostVars
<1> QED
  BY <1>1, OthersType, RunType, PageType, WindowType DEF Next, Step

(* A behaviour starts with the stored rows numbered in their order. *)
LEMMA TypeInit == Init => TypeInv
<1> SUFFICES ASSUME Init PROVE TypeInv
  OBVIOUS
<1>1. PICK posted \in SUBSET Msgs, stored \in SUBSET Msgs, edited \in SUBSET Msgs, first \in Kinds :
        /\ \A m \in posted, k \in Msgs : k < m => k \in posted
        /\ stored \subseteq posted
        /\ IF first = "edits" THEN stored = Msgs /\ edited \subseteq stored ELSE edited = {}
        /\ chat = [m \in Msgs |-> IF m \in posted THEN "there" ELSE "unposted"]
        /\ raw = [m \in Msgs |-> [id |-> IF m \in stored THEN Cardinality({k \in stored : k <= m}) ELSE 0,
                                  edit |-> IF m \in edited THEN 1 ELSE 0, deleted |-> FALSE]]
        /\ asked = [m \in Msgs |-> IF m \in stored /\ first # "enqueue" THEN 0 ELSE -1]
        /\ runs = [k \in Kinds |-> IF k = first THEN 0 ELSE MaxRuns[k]]
        /\ now = IF first = "edits" THEN 1 ELSE MaxTime
  BY Zenon DEF Init
<1> DEFINE UpTo(m) == {k \in stored : k <= m}
<1>2. \A m : UpTo(m) \in SUBSET stored /\ Cardinality(UpTo(m)) \in 0..MaxMsgs
  <2>1. \A m : UpTo(m) \in SUBSET stored
    OBVIOUS
  <2>2. \A T \in SUBSET Msgs : Cardinality(T) \in Nat /\ Cardinality(T) <= MaxMsgs
    BY Countable
  <2> HIDE DEF UpTo
  <2> QED
    BY <2>1, <2>2, Bounds
<1>3. \A m \in stored : m \in UpTo(m) /\ m \in Nat
  BY Bounds
<1>4. \A m, k \in stored : m < k => Cardinality(UpTo(m)) < Cardinality(UpTo(k))
  <2> SUFFICES ASSUME NEW m \in stored, NEW k \in stored, m < k
               PROVE  Cardinality(UpTo(m)) < Cardinality(UpTo(k))
    OBVIOUS
  <2>1. ~(k <= m) /\ k <= k /\ \A j \in stored : j <= m => j <= k
    BY <1>3
  <2>4. \A i, j : j \in UpTo(i) <=> j \in stored /\ j <= i
    OBVIOUS
  <2>2. UpTo(m) \subseteq UpTo(k) /\ k \in UpTo(k) /\ k \notin UpTo(m)
    <3> HIDE DEF UpTo
    <3> QED
      BY <2>1, <2>4
  <2> HIDE DEF UpTo
  <2>3. UpTo(k) \in SUBSET Msgs /\ UpTo(m) \in SUBSET UpTo(k) /\ UpTo(m) # UpTo(k)
    BY <1>2, <2>2
  <2> QED
    BY <2>3, Fewer
<1>5. \A m \in stored : Cardinality(UpTo(m)) > 0
  <2> SUFFICES ASSUME NEW m \in stored PROVE Cardinality(UpTo(m)) > 0
    OBVIOUS
  <2>1. IsFiniteSet(UpTo(m)) /\ UpTo(m) # {}
    BY <1>2, <1>3, Countable
  <2> QED
    BY <1>2, <2>1, FS_EmptySet
<1>6. raw = [m \in Msgs |-> [id |-> IF m \in stored THEN Cardinality(UpTo(m)) ELSE 0,
                             edit |-> IF m \in edited THEN 1 ELSE 0, deleted |-> FALSE]]
  BY <1>1, Zenon
<1> HIDE DEF UpTo
<1>7. /\ raw \in [Msgs -> [id : 0..MaxMsgs, edit : Time, deleted : BOOLEAN]]
      /\ \A m \in Msgs : raw[m].id = IF m \in stored THEN Cardinality(UpTo(m)) ELSE 0
  BY <1>2, <1>6, Bounds DEF Time
<1>8. StoredMsgs = stored
  BY <1>5, <1>7 DEF StoredMsgs, Stored
<1>9. IdInv
  <2>1. \A m \in Msgs : raw[m].id <= Cardinality(StoredMsgs)
    <3>1. \A m \in stored : Cardinality(UpTo(m)) <= Cardinality(stored)
      BY <1>2, Fewer
    <3>2. Cardinality(stored) \in Nat
      BY Countable
    <3> QED
      BY <1>7, <1>8, <3>1, <3>2
  <2>2. ASSUME NEW m \in Msgs, NEW k \in Msgs, Stored(m), raw[m].id = raw[k].id PROVE m = k
    <3>1. m \in stored /\ k \in stored
      BY <1>7, <2>2 DEF Stored
    <3>2. m \in Nat /\ k \in Nat
      BY Bounds
    <3>3. Cardinality(UpTo(m)) = Cardinality(UpTo(k)) /\ Cardinality(UpTo(m)) \in Nat
      BY <1>2, <1>7, <2>2, <3>1
    <3>4. ~(m < k) /\ ~(k < m)
      BY <1>4, <3>1, <3>3
    <3> QED
      BY <3>2, <3>4
  <2> QED
    BY <2>1, <2>2 DEF IdInv
<1>10. runs \in [Kinds -> Nat]
  BY <1>1, ScanAssumption
<1>11. now \in Time /\ 0 \in Time
  BY <1>1, Bounds DEF Time
<1>12. chat \in [Msgs -> {"unposted", "there", "gone"}] /\ asked \in [Msgs -> Time \cup {-1}]
  BY <1>1, <1>11
<1>13. /\ ckpt = NoMark /\ script = NoScript /\ held = {} /\ latest = NoMark
       /\ changes = 0 /\ faults = 0
       /\ present = {} /\ seen = {} /\ shifted = 0 /\ refused = {}
       /\ lost = {}
  BY DEF Init
<1> QED
  BY <1>7, <1>9, <1>10, <1>11, <1>12, <1>13, NoScriptType DEF TypeInv, TypeOK

(* The clock, the history, the rows, the checkpoint, the script in hand and *)
(* the history of its run have their types in every state.                  *)
THEOREM TypeCorrect == Spec => []TypeOK
<1>1. TypeInv => TypeOK
  BY DEF TypeInv
<1> QED
  BY <1>1, TypeInit, TypeInvInductive, PTL DEF Spec

-----------------------------------------------------------------------------
(* What holds between the steps of any script: an edited row is stored, a   *)
(* deleted one has gone; no page is in hand without a script or once its    *)
(* channel is done with, and the channel in hand is not to come.            *)

RowInv ==
    \A m \in Msgs : /\ raw[m].edit > 0 => Stored(m)
                    /\ raw[m].deleted => chat[m] = "gone"

Resting == script = NoScript /\ held = {} /\ present = {} /\ seen = {} /\ refused = {}

RunInv ==
    /\ script.kind = "none" => Resting
    /\ script.over # "no" => held = {}
    /\ script.chan \notin script.todo

BaseInv == TypeInv /\ RowInv /\ RunInv

(* The scripts leave the messages of the history, the dates and the         *)
(* deletions as they are, and number no row again.                          *)
RowsKept ==
    /\ chat' = chat
    /\ \A m \in Msgs : /\ raw'[m].edit = raw[m].edit /\ raw'[m].deleted = raw[m].deleted
                       /\ Stored(m) => raw'[m].id = raw[m].id
                       /\ Stored(m) => Stored(m)'

Scripted == (\E kind \in Kinds : Start(kind)) \/ Step \/ Killed

LEMMA ScriptsKeepRows == ASSUME TypeInv, Scripted PROVE RowsKept
<1>1. CASE StoreWindow
  <2>1. raw' = StoredRows(held) \/ raw' = raw
    BY <1>1 DEF StoreWindow
  <2>2. chat' = chat
    BY <1>1 DEF StoreWindow
  <2>3. CASE raw' = StoredRows(held)
    BY <2>2, <2>3, WindowIds, Zenon DEF RowsKept
  <2>4. CASE raw' = raw
    BY <2>2, <2>4 DEF RowsKept, Stored
  <2> QED
    BY <2>1, <2>3, <2>4
<1>2. ASSUME ~StoreWindow PROVE UNCHANGED <<chat, raw>>
  BY <1>2 DEF Scripted, Step, Start, NextChannel, Finish, Killed, BackfillFails, Query, EnqueuePage,
              ReprocessRow, QueryEdits, EnqueueEdits, ReadWindow, tableVars
<1>3. ASSUME UNCHANGED <<chat, raw>> PROVE RowsKept
  BY <1>3 DEF RowsKept, Stored
<1> QED
  BY <1>1, <1>2, <1>3

LEMMA RowInvInductive == ASSUME TypeInv, RowInv, Next PROVE RowInv'
<1>1. CASE Scripted
  BY <1>1, ScriptsKeepRows DEF RowsKept, RowInv
<1>2. CASE Tick
  BY <1>2 DEF Tick, tableVars, RowInv, Stored
<1>3. ASSUME NEW m \in Msgs, Post(m) PROVE RowInv'
  BY <1>3 DEF Post, RowInv, Stored, TypeInv, TypeOK
<1>4. ASSUME NEW m \in Msgs, Store(m) PROVE RowInv'
  <2>1. NewId > 0
    <3>1. NewId = Cardinality(StoredMsgs) + 1
      BY DEF NewId, StoredMsgs
    <3> QED
      BY <3>1, StoredCount, Bounds
  <2>2. raw' = [raw EXCEPT ![m].id = NewId] /\ chat' = chat
    BY <1>4 DEF Store
  <2> QED
    BY <2>1, <2>2 DEF RowInv, Stored, TypeInv, TypeOK
<1>5. ASSUME NEW m \in Msgs, Edit(m) PROVE RowInv'
  <2>1. PICK date \in Time : raw' = [raw EXCEPT ![m] = [raw[m] EXCEPT !.edit = date]]
    BY <1>5 DEF Edit
  <2>2. Stored(m) /\ chat' = chat
    BY <1>5 DEF Edit
  <2> QED
    BY <2>1, <2>2 DEF RowInv, Stored, TypeInv, TypeOK
<1>6. ASSUME NEW m \in Msgs, Delete(m) PROVE RowInv'
  <2>1. chat' = [chat EXCEPT ![m] = "gone"] /\ raw' = [raw EXCEPT ![m].deleted = Stored(m)]
    BY <1>6 DEF Delete
  <2>2. \A k \in Msgs : raw'[k].id = raw[k].id /\ raw'[k].edit = raw[k].edit
                        /\ (k # m => raw'[k] = raw[k])
    BY <2>1 DEF TypeInv, TypeOK
  <2> QED
    BY <2>1, <2>2 DEF RowInv, Stored, TypeInv, TypeOK
<1> QED
  BY <1>1, <1>2, <1>3, <1>4, <1>5, <1>6 DEF Next, Others, Scripted

(* The kind, the channels and the start of a script stay until it ends.     *)
SameRun ==
    /\ script'.kind = script.kind /\ script'.todo = script.todo
    /\ script'.chan = script.chan /\ script'.since = script.since

LEMMA PageOverFields ==
    ASSUME script \in Scripts, script' = PageOver
    PROVE  /\ SameRun
           /\ script'.mark = script.mark /\ script'.last = script.last
           /\ script'.over = IF script.over = "no" /\ script.last THEN "all" ELSE script.over
<1> DEFINE over == IF script.over = "no" /\ script.last THEN "all" ELSE script.over
<1>1. script' = [script EXCEPT !.over = over]
  BY DEF PageOver
<1>2. script'.over = over
  BY <1>1 DEF Scripts
<1> HIDE DEF over
<1>3. SameRun /\ script'.mark = script.mark /\ script'.last = script.last
  BY <1>1 DEF Scripts, SameRun
<1> QED
  BY <1>2, <1>3 DEF over

LEMMA QueryFields ==
    ASSUME script \in Scripts, Query
    PROVE  /\ SameRun
           /\ \/ /\ held' = PageAt(script.mark) /\ seen' = seen \cup held'
                 /\ script'.mark = script.mark + Cardinality(held')
                 /\ script'.last = LastPage(held')
                 /\ script'.over = IF held' = {} THEN "all" ELSE "no"
              \/ /\ held' = held /\ seen' = seen
                 /\ script'.mark = script.mark /\ script'.last = script.last
                 /\ script'.over = "failed"
<1> DEFINE page == PageAt(script.mark)
           mark == OffsetAfter(page)
           last == LastPage(page)
           over == IF page = {} THEN "all" ELSE "no"
<1>1. \/ /\ held' = page /\ seen' = seen \cup page
         /\ script' = [script EXCEPT !.mark = mark, !.last = last, !.over = over]
      \/ /\ held' = held /\ seen' = seen
         /\ script' = [script EXCEPT !.over = "failed"]
  BY Zenon DEF Query
<1>2. mark = script.mark + Cardinality(page)
  BY DEF OffsetAfter
<1> HIDE DEF mark, last, over, page
<1>3. CASE /\ held' = page /\ seen' = seen \cup page
           /\ script' = [script EXCEPT !.mark = mark, !.last = last, !.over = over]
  <2>1. SameRun /\ script'.mark = mark /\ script'.last = last /\ script'.over = over
    BY <1>3 DEF Scripts, SameRun
  <2> QED
    BY <1>2, <1>3, <2>1 DEF last, over, page
<1>4. CASE /\ held' = held /\ seen' = seen
           /\ script' = [script EXCEPT !.over = "failed"]
  BY <1>4 DEF Scripts, SameRun
<1> QED
  BY <1>1, <1>3, <1>4

LEMMA QueryEditsFields ==
    ASSUME script \in Scripts, QueryEdits
    PROVE  /\ SameRun
           /\ script'.mark = script.mark
           /\ \/ /\ held' = EditsPage /\ latest' = LatestOf(EditsPage) /\ lost' = lost \cup (Edits \ EditsPage)
                 /\ script'.last = TRUE
                 /\ script'.over = IF held' = {} THEN "all" ELSE "no"
              \/ /\ held' = held /\ latest' = latest /\ lost' = lost \cup Edits
                 /\ script'.last = script.last /\ script'.over = "failed"
<1> DEFINE over == IF EditsPage = {} THEN "all" ELSE "no"
<1>1. \/ /\ held' = EditsPage /\ latest' = LatestOf(EditsPage) /\ lost' = lost \cup (Edits \ EditsPage)
         /\ script' = [script EXCEPT !.last = TRUE, !.over = over]
      \/ /\ held' = held /\ latest' = latest /\ lost' = lost \cup Edits
         /\ script' = [script EXCEPT !.over = "failed"]
  BY Zenon DEF QueryEdits
<1> HIDE DEF over
<1>2. CASE script' = [script EXCEPT !.last = TRUE, !.over = over]
  <2>1. SameRun /\ script'.mark = script.mark /\ script'.last = TRUE /\ script'.over = over
    BY <1>2 DEF Scripts, SameRun
  <2>2. held' = EditsPage => (over = IF held' = {} THEN "all" ELSE "no")
    BY DEF over
  <2>3. over # "failed"
    BY DEF over
  <2>4. script' # [script EXCEPT !.over = "failed"]
    <3>1. [script EXCEPT !.over = "failed"].over = "failed"
      BY DEF Scripts
    <3> QED
      BY <2>1, <2>3, <3>1
  <2> QED
    BY <1>1, <2>1, <2>2, <2>4
<1>3. CASE script' = [script EXCEPT !.over = "failed"]
  <2>1. SameRun /\ script'.mark = script.mark /\ script'.last = script.last /\ script'.over = "failed"
    BY <1>3 DEF Scripts, SameRun
  <2>2. script' # [script EXCEPT !.last = TRUE, !.over = over]
    <3>1. [script EXCEPT !.last = TRUE, !.over = over].over # "failed"
      BY DEF Scripts, over
    <3> QED
      BY <2>1, <3>1
  <2> QED
    BY <1>1, <2>1, <2>2
<1> QED
  BY <1>1, <1>2, <1>3

LEMMA ReadWindowFields ==
    ASSUME script \in Scripts, ReadWindow
    PROVE  /\ SameRun
           /\ script'.mark = script.mark /\ script'.last = script.last
           /\ \/ /\ held' = Newest(Below, WindowSize) /\ seen' = seen \cup held'
                 /\ script'.over = IF Below = {} THEN "all" ELSE "no"
              \/ held' = held /\ seen' = seen /\ script'.over = script.over
<1> DEFINE over == IF Below = {} THEN "all" ELSE "no"
           tries == script.tries + 1
<1>1. \/ /\ held' = Newest(Below, WindowSize) /\ seen' = seen \cup held'
         /\ script' = [script EXCEPT !.over = over]
      \/ /\ held' = held /\ seen' = seen
         /\ script' = [script EXCEPT !.tries = tries]
  BY DEF ReadWindow
<1> HIDE DEF over, tries
<1>2. CASE /\ held' = Newest(Below, WindowSize) /\ seen' = seen \cup held'
           /\ script' = [script EXCEPT !.over = over]
  <2>1. SameRun /\ script'.mark = script.mark /\ script'.last = script.last /\ script'.over = over
    BY <1>2 DEF Scripts, SameRun
  <2> QED
    BY <1>2, <2>1 DEF over
<1>3. CASE /\ held' = held /\ seen' = seen
           /\ script' = [script EXCEPT !.tries = tries]
  BY <1>3 DEF Scripts, SameRun
<1> QED
  BY <1>1, <1>2, <1>3

LEMMA StoreWindowFields ==
    ASSUME script \in Scripts, StoreWindow
    PROVE  /\ SameRun
           /\ script'.mark = IF Cardinality(held) = WindowSize THEN NextMaxId(held) ELSE script.mark
           /\ script'.over = IF Cardinality(held) = WindowSize THEN "no" ELSE "all"
           /\ script'.last = script.last
<1> DEFINE full == Cardinality(held) = WindowSize
           mark == IF full THEN NextMaxId(held) ELSE script.mark
           over == IF full THEN "no" ELSE "all"
<1>1. script' = [script EXCEPT !.mark = mark, !.tries = 1, !.over = over]
  BY DEF StoreWindow
<1> HIDE DEF mark, over
<1>2. SameRun /\ script'.mark = mark /\ script'.over = over /\ script'.last = script.last
  BY <1>1 DEF Scripts, SameRun
<1> QED
  BY <1>2 DEF mark, over

LEMMA StartFields ==
    ASSUME TypeInv, NEW kind \in Kinds, Start(kind)
    PROVE  /\ script'.kind = kind /\ script'.todo = Channels /\ script'.chan = "none"
           /\ script'.over = "none" /\ ~script'.last /\ script'.mark = 0
           /\ script'.since = IF ckpt = NoMark THEN [date |-> now - Lookback - 1, id |-> 0] ELSE ckpt
<1> DEFINE since == IF ckpt = NoMark THEN [date |-> now - Lookback - 1, id |-> 0] ELSE ckpt
<1>1. script' = [NoScript EXCEPT !.kind = kind, !.todo = Channels, !.since = since]
  BY DEF Start
<1> HIDE DEF since
<1>2. /\ script'.kind = kind /\ script'.todo = Channels /\ script'.chan = "none"
      /\ script'.over = "none" /\ script'.last = FALSE /\ script'.mark = 0 /\ script'.since = since
  BY <1>1 DEF NoScript
<1> QED
  BY <1>2 DEF since

LEMMA NextChannelFields ==
    ASSUME script \in Scripts, NEW c \in Channels, NextChannel(c)
    PROVE  /\ script'.kind = script.kind /\ script'.todo = script.todo \ {c} /\ script'.chan = c
           /\ script'.over = "no" /\ ~script'.last /\ script'.mark = 0 /\ script'.since = script.since
<1> DEFINE todo == script.todo \ {c}
<1>1. script' = [script EXCEPT !.chan = c, !.todo = todo, !.mark = 0, !.tries = 1, !.last = FALSE, !.over = "no"]
  BY DEF NextChannel
<1> HIDE DEF todo
<1>2. /\ script'.kind = script.kind /\ script'.todo = todo /\ script'.chan = c
      /\ script'.over = "no" /\ script'.last = FALSE /\ script'.mark = 0 /\ script'.since = script.since
  BY <1>1 DEF Scripts
<1> QED
  BY <1>2 DEF todo

(* A script, its page and what it was given change in its own steps only.   *)
LEMMA OthersLeaveScript ==
    ASSUME Others PROVE UNCHANGED <<scanVars, countVars, present, seen, refused>>
BY DEF Others, Tick, Post, Store, Edit, Delete, Change, scanVars, countVars, ghostVars

LEMMA RunInvInductive == ASSUME TypeInv, RunInv, Next PROVE RunInv'
<1>0. script \in Scripts
  BY DEF TypeInv, TypeOK
<1>1. CASE Others
  BY <1>1, OthersLeaveScript DEF RunInv, Resting, scanVars
<1>2. ASSUME NEW kind \in Kinds, Start(kind) PROVE RunInv'
  <2>1. kind # "none" /\ "none" \notin Channels
    BY ScanAssumption
  <2>2. held = {} /\ held' = held
    BY <1>2 DEF Start, RunInv, Resting, NoScript
  <2> QED
    BY <1>2, <2>1, <2>2, StartFields DEF RunInv
<1>3. ASSUME NEW c \in Channels, NextChannel(c) PROVE RunInv'
  BY <1>0, <1>3, NextChannelFields DEF RunInv, NextChannel
<1>4. CASE Finish \/ Killed \/ BackfillFails
  <2>1. EndScript
    BY <1>4 DEF Finish, Killed, BackfillFails
  <2>2. Resting'
    BY <2>1 DEF EndScript, Resting, NoScript, NoMark
  <2> QED
    BY <2>2 DEF RunInv, Resting, NoScript
<1>5. CASE Query
  <2>1. script.kind # "none" /\ held = {}
    BY <1>5 DEF Query, AtQuery
  <2> QED
    BY <1>0, <1>5, <2>1, QueryFields DEF RunInv, SameRun
<1>6. CASE EnqueuePage \/ EnqueueEdits
  <2>1. script' = PageOver /\ held' = {} /\ script.kind # "none"
    BY <1>6 DEF EnqueuePage, EnqueueEdits, InHand
  <2> QED
    BY <1>0, <2>1, PageOverFields DEF RunInv, SameRun
<1>7. CASE ReprocessRow
  BY <1>7 DEF ReprocessRow, RunInv, Resting, InHand
<1>8. CASE QueryEdits
  <2>1. script.kind # "none" /\ held = {}
    BY <1>8 DEF QueryEdits, AtQuery
  <2> QED
    BY <1>0, <1>8, <2>1, QueryEditsFields DEF RunInv, SameRun
<1>9. CASE ReadWindow
  <2>1. script.kind # "none" /\ held = {}
    BY <1>9 DEF ReadWindow, AtQuery
  <2>2. Below = {} => Newest(Below, WindowSize) = {}
    BY DEF Newest
  <2> QED
    BY <1>0, <1>9, <2>1, <2>2, ReadWindowFields DEF RunInv, SameRun
<1>10. CASE StoreWindow
  <2>1. script.kind # "none" /\ held' = {}
    BY <1>10 DEF StoreWindow, InHand
  <2> QED
    BY <1>0, <1>10, <2>1, StoreWindowFields DEF RunInv, SameRun
<1> QED
  BY <1>1, <1>2, <1>3, <1>4, <1>5, <1>6, <1>7, <1>8, <1>9, <1>10 DEF Next, Step

LEMMA BaseInvInit == Init => BaseInv
<1> SUFFICES ASSUME Init PROVE BaseInv
  OBVIOUS
<1>1. RunInv
  BY DEF Init, RunInv, Resting, NoScript
<1>2. RowInv
  <2>1. PICK posted \in SUBSET Msgs, stored \in SUBSET Msgs, edited \in SUBSET Msgs, first \in Kinds :
          /\ \A m \in posted, k \in Msgs : k < m => k \in posted
          /\ stored \subseteq posted
          /\ IF first = "edits" THEN stored = Msgs /\ edited \subseteq stored ELSE edited = {}
          /\ chat = [m \in Msgs |-> IF m \in posted THEN "there" ELSE "unposted"]
          /\ raw = [m \in Msgs |-> [id |-> IF m \in stored THEN Cardinality({k \in stored : k <= m}) ELSE 0,
                                    edit |-> IF m \in edited THEN 1 ELSE 0, deleted |-> FALSE]]
          /\ asked = [m \in Msgs |-> IF m \in stored /\ first # "enqueue" THEN 0 ELSE -1]
          /\ runs = [k \in Kinds |-> IF k = first THEN 0 ELSE MaxRuns[k]]
          /\ now = IF first = "edits" THEN 1 ELSE MaxTime
    BY Zenon DEF Init
  <2> DEFINE UpTo(m) == {k \in stored : k <= m}
  <2>2. raw = [m \in Msgs |-> [id |-> IF m \in stored THEN Cardinality(UpTo(m)) ELSE 0,
                               edit |-> IF m \in edited THEN 1 ELSE 0, deleted |-> FALSE]]
    BY <2>1, Zenon
  <2>3. \A m \in stored : Cardinality(UpTo(m)) \in Nat \ {0}
    <3> SUFFICES ASSUME NEW m \in stored PROVE Cardinality(UpTo(m)) \in Nat \ {0}
      OBVIOUS
    <3>1. m \in Nat /\ m <= m
      BY Bounds
    <3>2. m \in UpTo(m) /\ UpTo(m) \in SUBSET Msgs
      BY <3>1
    <3> HIDE DEF UpTo
    <3> QED
      BY <3>2, Countable, FS_EmptySet
  <2>4. edited \subseteq stored
    BY <2>1
  <2> HIDE DEF UpTo
  <2> QED
    BY <2>2, <2>3, <2>4 DEF RowInv, Stored
<1> QED
  BY <1>1, <1>2, TypeInit DEF BaseInv

LEMMA BaseInvInductive == BaseInv /\ [Next]_vars => BaseInv'
<1> SUFFICES ASSUME BaseInv, [Next]_vars PROVE BaseInv'
  OBVIOUS
<1>1. TypeInv'
  BY TypeInvInductive DEF BaseInv
<1>2. CASE UNCHANGED vars
  BY <1>1, <1>2 DEF BaseInv, RowInv, RunInv, Resting, Stored, vars, tableVars, scanVars, ghostVars
<1>3. CASE Next
  BY <1>1, <1>3, RowInvInductive, RunInvInductive DEF BaseInv
<1> QED
  BY <1>2, <1>3

(* The collector brings no message back and takes no row away, and asks for *)
(* no job of a stored row.                                                  *)
LEMMA OthersOnRows ==
    ASSUME TypeInv, Others, NEW m \in Msgs
    PROVE  /\ Stored(m) => Stored(m)' /\ asked'[m] = asked[m] /\ raw'[m].id = raw[m].id
           /\ chat[m] = "gone" => chat'[m] = "gone"
           /\ chat[m] # "unposted" => chat'[m] # "unposted"
<1>1. CASE Tick
  BY <1>1 DEF Tick, tableVars, Stored
<1>2. ASSUME NEW j \in Msgs, Post(j) PROVE UNCHANGED <<raw, asked>> /\ chat' = [chat EXCEPT ![j] = "there"] /\ chat[j] = "unposted"
  BY <1>2 DEF Post
<1>3. ASSUME NEW j \in Msgs, Store(j)
      PROVE  /\ chat' = chat /\ ~Stored(j) /\ raw' = [raw EXCEPT ![j].id = NewId]
             /\ \E a \in {-1, 0} : asked' = [asked EXCEPT ![j] = a]
  BY <1>3 DEF Store
<1>4. ASSUME NEW j \in Msgs, Edit(j)
      PROVE  /\ UNCHANGED <<chat, asked>>
             /\ \E date \in Time : raw' = [raw EXCEPT ![j] = [raw[j] EXCEPT !.edit = date]]
  BY <1>4 DEF Edit
<1>5. ASSUME NEW j \in Msgs, Delete(j)
      PROVE  /\ asked' = asked /\ chat' = [chat EXCEPT ![j] = "gone"]
             /\ raw' = [raw EXCEPT ![j].deleted = Stored(j)]
  BY <1>5 DEF Delete
<1> USE DEF TypeInv, TypeOK, Stored
<1>6. ASSUME NEW j \in Msgs, Post(j)
      PROVE  /\ Stored(m) => Stored(m)' /\ asked'[m] = asked[m] /\ raw'[m].id = raw[m].id
             /\ chat[m] = "gone" => chat'[m] = "gone"
             /\ chat[m] # "unposted" => chat'[m] # "unposted"
  BY <1>2, <1>6
<1>7. ASSUME NEW j \in Msgs, Store(j)
      PROVE  /\ Stored(m) => Stored(m)' /\ asked'[m] = asked[m] /\ raw'[m].id = raw[m].id
             /\ chat[m] = "gone" => chat'[m] = "gone"
             /\ chat[m] # "unposted" => chat'[m] # "unposted"
  <2>1. j # m => raw'[m] = raw[m] /\ asked'[m] = asked[m]
    BY <1>3, <1>7
  <2> QED
    BY <1>3, <1>7, <2>1
<1>8. ASSUME NEW j \in Msgs, Edit(j)
      PROVE  /\ Stored(m) => Stored(m)' /\ asked'[m] = asked[m] /\ raw'[m].id = raw[m].id
             /\ chat[m] = "gone" => chat'[m] = "gone"
             /\ chat[m] # "unposted" => chat'[m] # "unposted"
  BY <1>4, <1>8
<1>9. ASSUME NEW j \in Msgs, Delete(j)
      PROVE  /\ Stored(m) => Stored(m)' /\ asked'[m] = asked[m] /\ raw'[m].id = raw[m].id
             /\ chat[m] = "gone" => chat'[m] = "gone"
             /\ chat[m] # "unposted" => chat'[m] # "unposted"
  BY <1>5, <1>9
<1> QED
  BY <1>1, <1>6, <1>7, <1>8, <1>9 DEF Others

-----------------------------------------------------------------------------
(* The windows of a backfill.  What has not been read lies below the window *)
(* in hand, which is full if there is any; the next window starts above the *)
(* last message of this one.                                                *)

Unread == {m \in present \ held : (script.mark = 0 \/ m < script.mark) /\ chat[m] # "gone"}

CoverInv ==
    script.kind = "window" =>
        /\ script.mark \in Nat
        /\ \A m \in present : chat[m] # "unposted" /\ ChanOf[m] = script.chan
        /\ held # {} => \A m \in Unread : Cardinality(held) = WindowSize /\ \A k \in held : m < k
        /\ WindowsCover

LEMMA ReadWindowCovers == ASSUME BaseInv, CoverInv, ReadWindow PROVE CoverInv'
<1>1. /\ script.kind = "window" /\ script.over = "no" /\ held = {}
      /\ UNCHANGED <<chat, raw, present, refused>>
  BY DEF ReadWindow, AtQuery, tableVars
<1>2. script \in Scripts /\ present \in SUBSET Msgs /\ held' \in SUBSET Msgs
      /\ chat \in [Msgs -> {"unposted", "there", "gone"}]
  BY WindowType DEF BaseInv, TypeInv, TypeOK
<1>3. script'.kind = "window" /\ script'.chan = script.chan /\ script'.mark = script.mark
  BY <1>1, <1>2, ReadWindowFields DEF SameRun
<1>4. CASE held' = held /\ script'.over = script.over
  BY <1>1, <1>3, <1>4 DEF CoverInv, WindowsCover, Unread, Stored
<1>5. CASE held' = Newest(Below, WindowSize) /\ script'.over = IF Below = {} THEN "all" ELSE "no"
  <2>1. Below \in SUBSET Msgs
    BY DEF Below, Readable
  <2>2. \A m \in present : chat[m] # "gone" /\ (script.mark = 0 \/ m < script.mark) => m \in Below
    BY <1>1, <1>2 DEF CoverInv, Below, Readable, There
  <2>3. ASSUME NEW m \in Unread' PROVE Cardinality(held') = WindowSize /\ \A k \in held' : m < k
    <3>1. m \in Below \ Newest(Below, WindowSize)
      BY <1>1, <1>3, <1>5, <2>2, <2>3 DEF Unread
    <3>2. Below # Newest(Below, WindowSize) /\ WindowSize \in Nat \ {0}
      BY <3>1, Bounds
    <3> QED
      BY <1>5, <2>1, <3>1, <3>2, NewestOf, NewestFull
  <2>4. ASSUME NEW m \in present', m \notin held' \cup refused',
               (script'.mark > 0 /\ m >= script'.mark) \/ script'.over = "all"
        PROVE  Stored(m)' \/ chat'[m] = "gone"
    <3>1. m \in present \ (held \cup refused) /\ m \in Nat /\ script.mark \in Nat
      BY <1>1, <1>2, <2>4, Bounds DEF CoverInv
    <3>2. CASE script.mark > 0 /\ m >= script.mark
      BY <1>1, <3>1, <3>2 DEF CoverInv, WindowsCover, Stored
    <3>3. CASE script.mark = 0 \/ m < script.mark
      <4>1. ~(script.mark > 0 /\ m >= script.mark)
        BY <3>1, <3>3
      <4>2. Below = {}
        BY <1>3, <1>5, <2>4, <4>1
      <4> QED
        BY <1>1, <2>2, <3>1, <3>3, <4>2
    <3> QED
      BY <3>1, <3>2, <3>3
  <2>5. WindowsCover'
    BY <2>4 DEF WindowsCover
  <2> QED
    BY <1>1, <1>3, <2>3, <2>5 DEF CoverInv
<1> QED
  BY <1>2, <1>4, <1>5, ReadWindowFields

LEMMA StoreWindowCovers == ASSUME BaseInv, CoverInv, StoreWindow PROVE CoverInv'
<1>1. /\ script.kind = "window" /\ held # {} /\ held' = {}
      /\ UNCHANGED <<chat, present>>
  BY DEF StoreWindow, InHand
<1>2. script \in Scripts /\ present \in SUBSET Msgs /\ held \in SUBSET Msgs
  BY DEF BaseInv, TypeInv, TypeOK
<1> DEFINE full == Cardinality(held) = WindowSize
<1>3. /\ script'.kind = "window" /\ script'.chan = script.chan
      /\ script'.mark = IF full THEN NextMaxId(held) ELSE script.mark
      /\ script'.over = IF full THEN "no" ELSE "all"
  BY <1>1, <1>2, StoreWindowFields DEF SameRun
<1>4. full => /\ NextMaxId(held) \in Nat \ {0} /\ Min(held) \in held
              /\ Min(held) <= NextMaxId(held)
  BY <1>2, NextMaxIdType
<1>5. \A m \in Msgs : Stored(m) => Stored(m)'
  BY ScriptsKeepRows DEF BaseInv, Scripted, Step, RowsKept
<1>6. refused \subseteq refused' /\ \A m \in held : Stored(m)' \/ m \in refused'
  <2>1. CASE raw' = StoredRows(held) /\ refused' = refused
    BY <1>2, <2>1, WindowIds DEF BaseInv
  <2>2. CASE refused' = refused \cup held
    BY <2>2
  <2> QED
    BY <2>1, <2>2 DEF StoreWindow
<1>7. ASSUME NEW m \in present', m \notin held' \cup refused',
             (script'.mark > 0 /\ m >= script'.mark) \/ script'.over = "all"
      PROVE  Stored(m)' \/ chat'[m] = "gone"
  <2>1. m \in present /\ m \in Msgs /\ m \in Nat /\ script.mark \in Nat /\ m \notin refused
    BY <1>1, <1>2, <1>6, <1>7, Bounds DEF CoverInv
  <2>2. CASE m \in held
    BY <1>6, <1>7, <2>2
  <2>3. CASE m \notin held /\ m \in Unread
    <3>1. full /\ \A k \in held : m < k
      BY <1>1, <2>3 DEF CoverInv
    <3>2. m < Min(held) /\ Min(held) \in Nat
      BY <1>2, <1>4, <3>1, Bounds
    <3>3. script'.mark = NextMaxId(held) /\ script'.over = "no"
      BY <1>3, <3>1
    <3>4. ~(m >= NextMaxId(held))
      BY <1>4, <2>1, <3>1, <3>2
    <3> QED
      BY <1>7, <3>3, <3>4
  <2>4. CASE m \notin held /\ m \notin Unread
    <3>1. chat[m] = "gone" \/ (script.mark > 0 /\ m >= script.mark)
      BY <2>1, <2>4 DEF Unread
    <3>2. Stored(m) \/ chat[m] = "gone"
      BY <1>1, <2>1, <2>4, <3>1 DEF CoverInv, WindowsCover
    <3> QED
      BY <1>1, <1>5, <2>1, <3>2
  <2> QED
    BY <2>2, <2>3, <2>4
<1>8. WindowsCover'
  BY <1>7 DEF WindowsCover
<1>9. script'.mark \in Nat
  BY <1>1, <1>3, <1>4 DEF CoverInv
<1> QED
  BY <1>1, <1>3, <1>8, <1>9 DEF CoverInv

LEMMA CoverInvInductive == ASSUME BaseInv, CoverInv, Next PROVE CoverInv'
<1>0. script \in Scripts /\ present \in SUBSET Msgs
  BY DEF BaseInv, TypeInv, TypeOK
<1>1. CASE Others
  <2>1. UNCHANGED <<script, held, present, refused>>
    BY <1>1, OthersLeaveScript DEF scanVars
  <2>2. \A m \in Msgs : /\ Stored(m) => Stored(m)'
                        /\ chat[m] = "gone" => chat'[m] = "gone"
                        /\ chat[m] # "unposted" => chat'[m] # "unposted"
    BY <1>1, OthersOnRows DEF BaseInv
  <2>3. script.kind = "window" => Unread' \subseteq Unread
    BY <1>0, <2>1, <2>2 DEF Unread
  <2>4. CoverInv => WindowsCover'
    BY <1>0, <2>1, <2>2 DEF CoverInv, WindowsCover
  <2> QED
    BY <1>0, <2>1, <2>2, <2>3, <2>4 DEF CoverInv
<1>2. ASSUME NEW kind \in Kinds, Start(kind) PROVE CoverInv'
  <2>1. present' = {} /\ held' = {}
    BY <1>2 DEF Start, BaseInv, RunInv, Resting, NoScript, ghostVars
  <2>2. script'.mark = 0
    BY <1>2, StartFields DEF BaseInv
  <2> QED
    BY <2>1, <2>2 DEF CoverInv, WindowsCover
<1>3. ASSUME NEW c \in Channels, NextChannel(c) PROVE CoverInv'
  <2>1. held' = {} /\ script'.mark = 0 /\ script'.over = "no" /\ script'.kind = script.kind /\ script'.chan = c
    BY <1>0, <1>3, NextChannelFields DEF NextChannel, BaseInv, RunInv
  <2>2. script.kind = "window" => \A m \in present' : chat'[m] # "unposted" /\ ChanOf[m] = c
    BY <1>3 DEF NextChannel, Readable, There, tableVars
  <2> QED
    BY <2>1, <2>2 DEF CoverInv, WindowsCover
<1>4. CASE Finish \/ Killed \/ BackfillFails
  <2>1. script'.kind = "none"
    BY <1>4 DEF Finish, Killed, BackfillFails, EndScript, NoScript
  <2> QED
    BY <2>1 DEF CoverInv
<1>5. CASE Query \/ EnqueuePage \/ ReprocessRow \/ QueryEdits \/ EnqueueEdits
  <2>1. script.kind # "window"
    BY <1>5 DEF Query, EnqueuePage, ReprocessRow, QueryEdits, EnqueueEdits, AtQuery, InHand
  <2>2. script'.kind = script.kind
    BY <1>0, <1>5, QueryFields, PageOverFields, QueryEditsFields DEF SameRun, EnqueuePage, EnqueueEdits, ReprocessRow
  <2> QED
    BY <2>1, <2>2 DEF CoverInv
<1>6. CASE ReadWindow
  BY <1>6, ReadWindowCovers
<1>7. CASE StoreWindow
  BY <1>7, StoreWindowCovers
<1> QED
  BY <1>1, <1>2, <1>3, <1>4, <1>5, <1>6, <1>7 DEF Next, Step

(* No message of a channel's history is left out between the windows of a   *)
(* backfill, for any number of messages and any window of two or more,      *)
(* whatever is posted, stored and deleted meanwhile.                        *)
THEOREM NoneBetweenWindows == Spec => []WindowsCover
<1>1. Init => CoverInv
  BY DEF Init, CoverInv, NoScript
<1>2. BaseInv /\ CoverInv /\ [Next]_vars => CoverInv'
  <2>1. ASSUME BaseInv, CoverInv, UNCHANGED vars PROVE CoverInv'
    BY <2>1 DEF CoverInv, WindowsCover, Unread, Stored, vars, tableVars, scanVars, ghostVars
  <2> QED
    BY <2>1, CoverInvInductive
<1>3. CoverInv => WindowsCover
  BY DEF CoverInv, WindowsCover
<1> QED
  BY <1>1, <1>2, <1>3, BaseInvInit, BaseInvInductive, PTL DEF Spec

-----------------------------------------------------------------------------
(* What a scan or a backfill was given and has done with is stored, so that *)
(* the collector leaves its job as it is.                                   *)

SeenInv ==
    /\ script.kind \in {"enqueue", "window"} =>
          \A m \in seen \ (held \cup refused) : Stored(m) /\ (asked[m] # -1 \/ chat[m] = "gone")
    /\ script.kind = "enqueue" => \A m \in held : Stored(m)

LEMMA EnqueuedAreAsked == ASSUME BaseInv, SeenInv, EnqueuePage PROVE SeenInv'
<1>1. /\ script.kind = "enqueue" /\ held' = {} /\ script'.kind = "enqueue"
      /\ UNCHANGED <<chat, raw, seen>>
  BY PageOverFields DEF EnqueuePage, InHand, SameRun, BaseInv, TypeInv, TypeOK
<1>2. /\ seen \in SUBSET Msgs /\ asked \in [Msgs -> Time \cup {-1}]
      /\ \A m \in Msgs : raw[m].edit # -1 /\ (raw[m].deleted => chat[m] = "gone")
  BY Bounds DEF BaseInv, TypeInv, TypeOK, RowInv, Time
<1>3. CASE asked' = Asked(held, FALSE) /\ refused' = refused
  <2>1. \A m \in Msgs : asked'[m] = IF m \in held /\ Stored(m) /\ ~raw[m].deleted /\ asked[m] = -1
                                    THEN raw[m].edit ELSE asked[m]
    BY <1>3 DEF Asked
  <2>2. ASSUME NEW m \in seen, m \notin refused PROVE Stored(m) /\ (asked'[m] # -1 \/ chat[m] = "gone")
    <3>1. CASE m \in held
      <4>1. Stored(m)
        BY <1>1, <3>1 DEF SeenInv
      <4> QED
        BY <1>2, <2>1, <3>1, <4>1
    <3>2. CASE m \notin held
      BY <1>1, <1>2, <2>1, <2>2, <3>2 DEF SeenInv
    <3> QED
      BY <3>1, <3>2
  <2> QED
    BY <1>1, <1>3, <2>2 DEF SeenInv, Stored
<1>4. CASE asked' = asked /\ refused' = refused \cup held
  BY <1>1, <1>4 DEF SeenInv, Stored
<1> QED
  BY <1>3, <1>4, Zenon DEF EnqueuePage

LEMMA WindowIsAsked == ASSUME BaseInv, SeenInv, StoreWindow PROVE SeenInv'
<1>1. /\ script.kind = "window" /\ held' = {} /\ script'.kind = "window"
      /\ UNCHANGED <<chat, seen>>
  BY StoreWindowFields DEF StoreWindow, InHand, SameRun, BaseInv, TypeInv, TypeOK
<1>2. /\ seen \in SUBSET Msgs /\ asked \in [Msgs -> Time \cup {-1}]
      /\ \A m \in Msgs : raw[m].edit # -1 /\ (raw[m].deleted => chat[m] = "gone")
  BY Bounds DEF BaseInv, TypeInv, TypeOK, RowInv, Time
<1>3. CASE /\ raw' = StoredRows(held) /\ refused' = refused
           /\ asked' = [m \in Msgs |-> IF m \in held /\ ~raw[m].deleted /\ asked[m] = -1
                                       THEN raw[m].edit ELSE asked[m]]
  <2>1. \A m \in Msgs : asked'[m] = IF m \in held /\ ~raw[m].deleted /\ asked[m] = -1
                                    THEN raw[m].edit ELSE asked[m]
    BY <1>3
  <2>2. \A m \in Msgs : Stored(m)' <=> Stored(m) \/ m \in held
    BY <1>3, WindowIds DEF BaseInv
  <2>3. ASSUME NEW m \in seen, m \notin refused PROVE Stored(m)' /\ (asked'[m] # -1 \/ chat[m] = "gone")
    <3>1. CASE m \in held
      BY <1>2, <2>1, <2>2, <3>1
    <3>2. CASE m \notin held
      BY <1>1, <1>2, <2>1, <2>2, <2>3, <3>2 DEF SeenInv
    <3> QED
      BY <3>1, <3>2
  <2> QED
    BY <1>1, <1>3, <2>3 DEF SeenInv
<1>4. CASE UNCHANGED <<raw, asked>> /\ refused' = refused \cup held
  BY <1>1, <1>4 DEF SeenInv, Stored
<1> QED
  BY <1>3, <1>4, Zenon DEF StoreWindow

LEMMA SeenInvInductive == ASSUME BaseInv, SeenInv, Next PROVE SeenInv'
<1>0. script \in Scripts /\ seen \in SUBSET Msgs /\ held \in SUBSET Msgs
  BY DEF BaseInv, TypeInv, TypeOK
<1>1. CASE Others
  <2>1. UNCHANGED <<script, held, seen, refused>>
    BY <1>1, OthersLeaveScript DEF scanVars
  <2>2. \A m \in Msgs : /\ Stored(m) => Stored(m)' /\ asked'[m] = asked[m]
                        /\ chat[m] = "gone" => chat'[m] = "gone"
    BY <1>1, OthersOnRows DEF BaseInv
  <2> QED
    BY <1>0, <2>1, <2>2 DEF SeenInv
<1>2. ASSUME NEW kind \in Kinds, Start(kind) PROVE SeenInv'
  <2>1. seen' = {} /\ held' = {}
    BY <1>2 DEF Start, BaseInv, RunInv, Resting, NoScript, ghostVars
  <2> QED
    BY <2>1 DEF SeenInv
<1>3. ASSUME NEW c \in Channels, NextChannel(c) PROVE SeenInv'
  <2>1. held' = {} /\ seen' = {}
    BY <1>3 DEF NextChannel, BaseInv, RunInv
  <2> QED
    BY <2>1 DEF SeenInv
<1>4. CASE Finish \/ Killed \/ BackfillFails
  <2>1. script'.kind = "none"
    BY <1>4 DEF Finish, Killed, BackfillFails, EndScript, NoScript
  <2> QED
    BY <2>1 DEF SeenInv
<1>5. CASE Query \/ ReadWindow
  <2>1. held = {} /\ UNCHANGED <<chat, raw, asked, refused>>
    BY <1>5 DEF Query, ReadWindow, AtQuery, tableVars
  <2>2. script'.kind = script.kind
    BY <1>0, <1>5, QueryFields, ReadWindowFields DEF SameRun
  <2>3. (held' = {} /\ seen' = seen) \/ seen' = seen \cup held'
    BY <1>0, <1>5, <2>1, QueryFields, ReadWindowFields
  <2>4. script.kind = "enqueue" => \A m \in held' : Stored(m)
    <3>1. \A m \in PageAt(script.mark) : Stored(m)
      BY DEF PageAt, Visible
    <3>2. script.kind = "enqueue" => Query
      BY <1>5 DEF ReadWindow, AtQuery
    <3> QED
      BY <1>0, <2>1, <3>1, <3>2, QueryFields
  <2> QED
    BY <2>1, <2>2, <2>3, <2>4 DEF SeenInv, Stored
<1>6. CASE ReprocessRow \/ QueryEdits \/ EnqueueEdits
  <2>1. script.kind \notin {"enqueue", "window"}
    BY <1>6 DEF ReprocessRow, QueryEdits, EnqueueEdits, AtQuery, InHand
  <2>2. script'.kind = script.kind
    BY <1>0, <1>6, PageOverFields, QueryEditsFields DEF SameRun, EnqueueEdits, ReprocessRow
  <2> QED
    BY <2>1, <2>2 DEF SeenInv
<1>7. CASE EnqueuePage
  BY <1>7, EnqueuedAreAsked
<1>8. CASE StoreWindow
  BY <1>8, WindowIsAsked
<1> QED
  BY <1>1, <1>2, <1>3, <1>4, <1>5, <1>6, <1>7, <1>8 DEF Next, Step

(* What a scan or a backfill was given has a job once its page is done      *)
(* with, unless its enqueue or its upsert failed or the message has gone.   *)
THEOREM GivenHaveJobs == Spec => []GivenIsEnqueued
<1>1. Init => SeenInv
  BY DEF Init, SeenInv
<1>2. BaseInv /\ SeenInv /\ [Next]_vars => SeenInv'
  <2>1. ASSUME BaseInv, SeenInv, UNCHANGED vars PROVE SeenInv'
    BY <2>1 DEF SeenInv, Stored, vars, tableVars, scanVars, ghostVars
  <2> QED
    BY <2>1, SeenInvInductive
<1>3. SeenInv => GivenIsEnqueued
  BY DEF SeenInv, GivenIsEnqueued
<1> QED
  BY <1>1, <1>2, <1>3, BaseInvInit, BaseInvInductive, PTL DEF Spec

-----------------------------------------------------------------------------
(* The edits.  One that no job was asked for since is lost, or in hand, or  *)
(* after the checkpoint of a channel whose page is to come.                 *)

Unqueued == {m \in Msgs : raw[m].edit > 0 /\ ~raw[m].deleted /\ raw[m].edit > asked[m]}
ToCome(m) == ChanOf[m] \in script.todo \/ (ChanOf[m] = script.chan /\ script.over = "no" /\ ~script.last)

EditInv ==
    /\ EditsAreQueued
    /\ script.kind = "edits" =>
          /\ ckpt # NoMark => script.since = ckpt
          /\ \A m \in Unqueued \ lost : ~Behind(raw[m], script.since) /\ (m \in held \/ ToCome(m))

LEMMA NotBehindIsAfter ==
    ASSUME TypeInv, NEW m \in Msgs, NEW mark \in Marks, ~Behind(raw[m], mark)
    PROVE  AfterMark(raw[m], mark)
<1>1. /\ raw[m].edit \in Int /\ raw[m].id \in Nat /\ mark.date \in Int /\ mark.id \in Nat
  BY Bounds DEF TypeInv, TypeOK, Marks, Time
<1> QED
  BY <1>1 DEF Behind, AfterMark

(* Steps that ask for jobs of rows as they are leave none more to ask for.  *)
LEMMA FewerUnqueued ==
    ASSUME TypeInv, RowInv, RowsKept, \A m \in Msgs : asked'[m] = asked[m] \/ asked'[m] = raw[m].edit
    PROVE  /\ Unqueued' \subseteq Unqueued
           /\ \A m \in Unqueued' : raw'[m].edit = raw[m].edit /\ raw'[m].id = raw[m].id
<1>1. \A m \in Unqueued' : m \in Msgs /\ raw[m].edit > 0 /\ raw'[m].edit = raw[m].edit /\ ~raw[m].deleted
                           /\ raw[m].edit > asked'[m]
  BY DEF Unqueued, RowsKept
<1>2. \A m \in Unqueued' : raw'[m].id = raw[m].id
  BY <1>1 DEF RowInv, RowsKept
<1>3. \A m \in Msgs : raw[m].edit \in Int /\ ~(raw[m].edit > raw[m].edit)
  BY DEF TypeInv, TypeOK, Time
<1> QED
  BY <1>1, <1>2, <1>3 DEF Unqueued

LEMMA BehindOfSame ==
    ASSUME NEW r, NEW s, r.edit = s.edit, r.id = s.id, NEW mark
    PROVE  Behind(r, mark) <=> Behind(s, mark)
BY DEF Behind

(* What the collector does to a row between two pages. *)
LEMMA OthersKeepEdits == ASSUME BaseInv, EditInv, Others PROVE EditInv'
<1>0. /\ raw \in [Msgs -> [id : 0..MaxMsgs, edit : Time, deleted : BOOLEAN]]
      /\ asked \in [Msgs -> Time \cup {-1}]
      /\ UNCHANGED <<ckpt, script, held>>
  BY OthersLeaveScript DEF BaseInv, TypeInv, TypeOK, scanVars
<1>1. ASSUME UNCHANGED lost, Unqueued' \subseteq Unqueued,
             \A m \in Unqueued' : raw'[m] = raw[m]
      PROVE  EditInv'
  <2>1. \A m \in Msgs : m \in Unqueued' <=> raw'[m].edit > 0 /\ ~raw'[m].deleted /\ raw'[m].edit > asked'[m]
    BY DEF Unqueued
  <2>2. \A m \in Msgs : m \in Unqueued => m \in lost \/ ckpt = NoMark \/ ~Behind(raw[m], ckpt)
    BY DEF EditInv, EditsAreQueued, Unqueued
  <2>3. EditsAreQueued'
    BY <1>0, <1>1, <2>1, <2>2 DEF EditsAreQueued
  <2>4. \A m \in Msgs : ToCome(m)' <=> ToCome(m)
    BY <1>0 DEF ToCome
  <2>5. Unqueued' \subseteq Msgs
    BY DEF Unqueued
  <2> QED
    BY <1>0, <1>1, <2>3, <2>4, <2>5 DEF EditInv
<1>2. CASE Tick
  <2>1. UNCHANGED <<raw, asked, lost>>
    BY <1>2 DEF Tick, tableVars
  <2>2. Unqueued' = Unqueued
    BY <2>1 DEF Unqueued
  <2> QED
    BY <1>1, <2>1, <2>2
<1>3. ASSUME NEW j \in Msgs, Post(j) PROVE EditInv'
  <2>1. UNCHANGED <<raw, asked, lost>>
    BY <1>3 DEF Post
  <2>2. Unqueued' = Unqueued
    BY <2>1 DEF Unqueued
  <2> QED
    BY <1>1, <2>1, <2>2
<1>4. ASSUME NEW j \in Msgs, Store(j) PROVE EditInv'
  <2>1. /\ UNCHANGED lost /\ ~Stored(j) /\ raw' = [raw EXCEPT ![j].id = NewId]
        /\ \E a \in {-1, 0} : asked' = [asked EXCEPT ![j] = a]
    BY <1>4 DEF Store
  <2>2. raw'[j].edit = raw[j].edit /\ ~(raw[j].edit > 0)
    BY <1>0, <2>1 DEF BaseInv, RowInv
  <2>3. \A m \in Msgs \ {j} : raw'[m] = raw[m] /\ asked'[m] = asked[m]
    BY <1>0, <2>1
  <2>4. Unqueued' \subseteq Unqueued /\ j \notin Unqueued'
    BY <2>2, <2>3 DEF Unqueued
  <2> QED
    BY <1>1, <2>1, <2>3, <2>4 DEF Unqueued
<1>5. ASSUME NEW j \in Msgs, Delete(j) PROVE EditInv'
  <2>1. /\ UNCHANGED <<asked, lost>> /\ raw' = [raw EXCEPT ![j].deleted = Stored(j)]
    BY <1>5 DEF Delete
  <2>2. raw'[j].edit = raw[j].edit /\ raw'[j].deleted = Stored(j) /\ (raw[j].edit > 0 => Stored(j))
    BY <1>0, <2>1 DEF BaseInv, RowInv
  <2>3. \A m \in Msgs \ {j} : raw'[m] = raw[m]
    BY <1>0, <2>1
  <2>4. Unqueued' \subseteq Unqueued /\ j \notin Unqueued'
    BY <2>1, <2>2, <2>3 DEF Unqueued
  <2> QED
    BY <1>1, <2>1, <2>3, <2>4 DEF Unqueued
<1>6. ASSUME NEW j \in Msgs, Edit(j) PROVE EditInv'
  <2>1. PICK date \in Time :
          LET row == [raw[j] EXCEPT !.edit = date]
          IN /\ raw' = [raw EXCEPT ![j] = row]
             /\ lost' = IF Overlooked(j, row) THEN lost \cup {j} ELSE lost \ {j}
    BY <1>6, Zenon DEF Edit
  <2> DEFINE row == [raw[j] EXCEPT !.edit = date]
  <2>2. /\ raw'[j] = row /\ \A m \in Msgs \ {j} : raw'[m] = raw[m]
    BY <1>0, <2>1
  <2>3. lost' = IF Overlooked(j, row) THEN lost \cup {j} ELSE lost \ {j}
    BY <2>1
  <2> HIDE DEF row
  <2>4. asked' = asked
    BY <1>6 DEF Edit
  <2>5. \A m \in Msgs \ {j} : /\ m \in Unqueued' <=> m \in Unqueued
                              /\ m \in lost' <=> m \in lost
    BY <2>2, <2>3, <2>4 DEF Unqueued
  <2>6. \A m \in Msgs : m \in Unqueued => m \in lost \/ ckpt = NoMark \/ ~Behind(raw[m], ckpt)
    BY DEF EditInv, EditsAreQueued, Unqueued
  <2>7. \A m \in Msgs : m \in Unqueued' => m \in lost' \/ ckpt = NoMark \/ ~Behind(raw'[m], ckpt)
    <3> SUFFICES ASSUME NEW m \in Msgs, m \in Unqueued', m \notin lost', ckpt # NoMark
                 PROVE  ~Behind(raw'[m], ckpt)
      OBVIOUS
    <3>1. CASE m = j
      BY <2>2, <2>3, <3>1 DEF Overlooked
    <3>2. CASE m # j
      BY <2>2, <2>5, <2>6, <3>2
    <3> QED
      BY <3>1, <3>2
  <2>8. EditsAreQueued'
    BY <1>0, <2>7 DEF EditsAreQueued, Unqueued
  <2>9. script.kind = "edits" => \A m \in Unqueued' \ lost' :
            ~Behind(raw'[m], script.since) /\ (m \in held \/ ToCome(m))
    <3> SUFFICES ASSUME script.kind = "edits", NEW m \in Unqueued', m \notin lost'
                 PROVE  ~Behind(raw'[m], script.since) /\ (m \in held \/ ToCome(m))
      OBVIOUS
    <3>1. CASE m = j
      BY <2>2, <2>3, <3>1 DEF Overlooked, ToCome
    <3>2. CASE m # j
      <4>1. m \in Msgs /\ m \in Unqueued \ lost /\ raw'[m] = raw[m]
        BY <2>2, <2>5, <3>2 DEF Unqueued
      <4> QED
        BY <4>1 DEF EditInv
    <3> QED
      BY <3>1, <3>2
  <2>10. \A m \in Msgs : ToCome(m)' <=> ToCome(m)
    BY <1>0 DEF ToCome
  <2>11. Unqueued' \subseteq Msgs
    BY DEF Unqueued
  <2> QED
    BY <1>0, <2>8, <2>9, <2>10, <2>11 DEF EditInv
<1> QED
  BY <1>2, <1>3, <1>4, <1>5, <1>6 DEF Others

(* With the checkpoint where it was, the edits behind it stay queued or     *)
(* lost; what a script other than that of the edits does is no more.        *)
LEMMA CheckpointKept ==
    ASSUME BaseInv, EditInv, ckpt' = ckpt, lost \subseteq lost',
           Unqueued' \subseteq Unqueued,
           \A m \in Unqueued' : raw'[m].edit = raw[m].edit /\ raw'[m].id = raw[m].id
    PROVE  /\ EditsAreQueued'
           /\ script'.kind # "edits" => EditInv'
<1>1. \A m \in Msgs : m \in Unqueued => m \in lost \/ ckpt = NoMark \/ ~Behind(raw[m], ckpt)
  BY DEF EditInv, EditsAreQueued, Unqueued
<1>2. \A m \in Msgs : m \in Unqueued' <=> raw'[m].edit > 0 /\ ~raw'[m].deleted /\ raw'[m].edit > asked'[m]
  BY DEF Unqueued
<1>3. \A m \in Unqueued' : Behind(raw'[m], ckpt) <=> Behind(raw[m], ckpt)
  BY BehindOfSame
<1>4. EditsAreQueued'
  BY <1>1, <1>2, <1>3 DEF EditsAreQueued
<1> QED
  BY <1>4 DEF EditInv

LEMMA TablesKept ==
    ASSUME UNCHANGED <<raw, asked>>
    PROVE  Unqueued' = Unqueued /\ \A m \in Unqueued' : raw'[m].edit = raw[m].edit /\ raw'[m].id = raw[m].id
BY DEF Unqueued

LEMMA StartKeepsEdits ==
    ASSUME BaseInv, EditInv, NEW kind \in Kinds, Start(kind)
    PROVE  EditInv'
<1>1. UNCHANGED <<raw, asked, ckpt, held>> /\ lost \subseteq lost'
  BY DEF Start, tableVars
<1>2. Unqueued' = Unqueued /\ EditsAreQueued' /\ (script'.kind # "edits" => EditInv')
  BY <1>1, TablesKept, CheckpointKept
<1>3. ASSUME kind = "edits" PROVE EditInv'
  <2>1. /\ script'.todo = Channels
        /\ script'.since = IF ckpt = NoMark THEN [date |-> now - Lookback - 1, id |-> 0] ELSE ckpt
    BY StartFields DEF BaseInv
  <2>2. \A m \in Msgs : ToCome(m)'
    BY <2>1, Bounds DEF ToCome
  <2>3. ASSUME NEW m \in Unqueued', m \notin lost' PROVE ~Behind(raw[m], script'.since)
    <3>1. m \in Unqueued \ lost /\ m \in Msgs /\ raw[m].edit > 0 /\ raw[m].edit \in Nat
      BY <1>1, <1>2, <2>3, Bounds DEF Unqueued, BaseInv, TypeInv, TypeOK, Time
    <3>2. CASE ckpt # NoMark
      BY <2>1, <3>1, <3>2 DEF EditInv, EditsAreQueued, Unqueued
    <3>3. CASE ckpt = NoMark
      <4>1. lost' = lost \cup TooOld
        BY <1>3, <3>3 DEF Start
      <4>2. raw[m].edit \notin 1 .. now - Lookback - 1
        BY <2>3, <3>1, <4>1 DEF TooOld
      <4>3. now \in Nat /\ Lookback \in Nat
        BY Bounds DEF BaseInv, TypeInv, TypeOK, Time
      <4> DEFINE date == now - Lookback - 1
      <4>4. date \in Int /\ raw[m].edit > date
        BY <3>1, <4>2, <4>3
      <4>5. script'.since = [date |-> date, id |-> 0]
        BY <2>1, <3>3
      <4> HIDE DEF date
      <4>6. script'.since.date = date
        BY <4>5
      <4> QED
        BY <3>1, <4>4, <4>6 DEF Behind
    <3> QED
      BY <3>2, <3>3
  <2>4. Unqueued' \subseteq Msgs
    BY DEF Unqueued
  <2> QED
    BY <1>1, <1>2, <2>1, <2>2, <2>3, <2>4 DEF EditInv
<1>4. script'.kind = kind
  BY StartFields DEF BaseInv
<1> QED
  BY <1>2, <1>3, <1>4

LEMMA NextChannelKeepsEdits ==
    ASSUME BaseInv, EditInv, NEW c \in Channels, NextChannel(c)
    PROVE  EditInv'
<1>1. UNCHANGED <<raw, asked, ckpt, held, lost>> /\ held = {} /\ script.over # "no"
  BY DEF NextChannel, tableVars, BaseInv, RunInv
<1>2. Unqueued' = Unqueued /\ EditsAreQueued'
  BY <1>1, TablesKept, CheckpointKept
<1>3. /\ script'.kind = script.kind /\ script'.todo = script.todo \ {c} /\ script'.chan = c
      /\ script'.over = "no" /\ ~script'.last /\ script'.since = script.since
  BY NextChannelFields DEF BaseInv, TypeInv, TypeOK
<1>4. \A m \in Msgs : ToCome(m) => ToCome(m)'
  BY <1>1, <1>3 DEF ToCome
<1>5. Unqueued \subseteq Msgs
  BY DEF Unqueued
<1> QED
  BY <1>1, <1>2, <1>3, <1>4, <1>5 DEF EditInv

(* At the end of the script nothing is to come: what has no job is lost.    *)
LEMMA FinishKeepsEdits == ASSUME BaseInv, EditInv, Finish PROVE EditInv'
<1>1. UNCHANGED <<raw, asked>> /\ script'.kind = "none"
  BY DEF Finish, tableVars, EndScript, NoScript
<1>2. CASE script.kind # "edits"
  <2>1. UNCHANGED <<ckpt, lost>>
    BY <1>2 DEF Finish
  <2> QED
    BY <1>1, <2>1, TablesKept, CheckpointKept
<1>3. CASE script.kind = "edits"
  <2>1. ckpt' = latest /\ lost' = {m \in lost : Behind(raw[m], latest)}
    BY <1>3 DEF Finish
  <2>2. held = {} /\ script.todo = {} /\ script.over # "no"
    BY DEF Finish, BaseInv, RunInv
  <2>3. Unqueued \subseteq lost
    BY <1>3, <2>2 DEF EditInv, ToCome
  <2>4. \A m \in Unqueued : m \in lost' \/ ~Behind(raw[m], latest)
    BY <2>1, <2>3
  <2>5. EditsAreQueued'
    BY <1>1, <2>1, <2>4 DEF EditsAreQueued, Unqueued
  <2> QED
    BY <1>1, <2>5 DEF EditInv
<1> QED
  BY <1>2, <1>3

LEMMA QueryEditsKeepsEdits == ASSUME BaseInv, EditInv, QueryEdits PROVE EditInv'
<1>1. /\ UNCHANGED <<raw, asked, ckpt>> /\ held = {} /\ script.kind = "edits" /\ script.over = "no"
      /\ script \in Scripts
  BY DEF QueryEdits, tableVars, AtQuery, BaseInv, TypeInv, TypeOK
<1>2. /\ script'.kind = script.kind /\ script'.todo = script.todo
      /\ script'.chan = script.chan /\ script'.since = script.since
      /\ (held' = EditsPage /\ lost' = lost \cup (Edits \ EditsPage)) \/ (lost' = lost \cup Edits)
  BY <1>1, QueryEditsFields DEF SameRun
<1>3. Unqueued' = Unqueued /\ EditsAreQueued'
  BY <1>1, <1>2, TablesKept, CheckpointKept
<1>4. ASSUME NEW m \in Unqueued, m \notin lost'
      PROVE  ~Behind(raw[m], script.since) /\ (m \in held' \/ ToCome(m)')
  <2>1. m \in Msgs /\ m \in Unqueued \ lost
    BY <1>2, <1>4 DEF Unqueued
  <2>2. ~Behind(raw[m], script.since) /\ ToCome(m)
    BY <1>1, <2>1 DEF EditInv
  <2>3. CASE ChanOf[m] \in script.todo
    BY <1>2, <2>2, <2>3 DEF ToCome
  <2>4. CASE ChanOf[m] = script.chan
    <3>1. script.since \in Marks
      BY <1>1 DEF Scripts
    <3>2. AfterMark(raw[m], script.since)
      BY <2>1, <2>2, <3>1, NotBehindIsAfter DEF BaseInv
    <3>3. m \in Edits
      BY <2>1, <2>4, <3>2 DEF Edits, Visible, Unqueued, BaseInv, RowInv
    <3> QED
      BY <1>2, <1>4, <2>2, <3>3
  <2> QED
    BY <2>2, <2>3, <2>4 DEF ToCome
<1>5. ckpt # NoMark => script.since = ckpt
  BY <1>1 DEF EditInv
<1> QED
  BY <1>1, <1>2, <1>3, <1>4, <1>5 DEF EditInv

LEMMA EnqueueEditsKeepsEdits == ASSUME BaseInv, EditInv, EnqueueEdits PROVE EditInv'
<1>1. /\ UNCHANGED <<chat, raw, ckpt>> /\ script.kind = "edits" /\ held' = {} /\ held # {}
      /\ script \in Scripts /\ script' = PageOver /\ script.over = "no"
      /\ asked \in [Msgs -> Time \cup {-1}]
  BY DEF EnqueueEdits, InHand, BaseInv, RunInv, TypeInv, TypeOK
<1>2. /\ script'.kind = script.kind /\ script'.todo = script.todo
      /\ script'.chan = script.chan /\ script'.since = script.since /\ script'.last = script.last
      /\ ~script.last => script'.over = "no"
  BY <1>1, PageOverFields DEF SameRun
<1>3. \A m \in Msgs : ToCome(m) => ToCome(m)'
  BY <1>2 DEF ToCome
<1>4. RowsKept
  BY <1>1 DEF RowsKept, Stored
<1>5. CASE asked' = Asked(held, TRUE) /\ lost' = lost \ held
  <2>1. \A m \in Msgs : asked'[m] = IF m \in held /\ Stored(m) /\ ~raw[m].deleted THEN raw[m].edit ELSE asked[m]
    BY <1>5 DEF Asked
  <2>2. Unqueued' \subseteq Unqueued
    BY <1>4, <2>1, FewerUnqueued DEF BaseInv
  <2>3. \A m \in held : m \notin Unqueued'
    <3> SUFFICES ASSUME NEW m \in held, m \in Unqueued' PROVE FALSE
      OBVIOUS
    <3>1. m \in Msgs /\ raw[m].edit > 0 /\ ~raw[m].deleted /\ raw[m].edit > asked'[m] /\ raw[m].edit \in Int
      BY <1>1 DEF Unqueued, BaseInv, TypeInv, TypeOK, Time
    <3>2. asked'[m] = raw[m].edit
      BY <2>1, <3>1 DEF BaseInv, RowInv
    <3> QED
      BY <3>1, <3>2
  <2>4. \A m \in Unqueued' \ lost' : m \in Unqueued \ lost /\ m \in Msgs /\ m \notin held
    BY <1>5, <2>2, <2>3 DEF Unqueued
  <2>5. \A m \in Unqueued' \ lost' : ~Behind(raw[m], script.since) /\ ToCome(m)'
    BY <1>1, <1>3, <2>4 DEF EditInv
  <2>6. EditsAreQueued'
    <3>1. \A m \in Unqueued' \ lost' : ckpt = NoMark \/ ~Behind(raw[m], ckpt)
      BY <2>4 DEF EditInv, EditsAreQueued, Unqueued
    <3> QED
      BY <1>1, <3>1 DEF EditsAreQueued, Unqueued
  <2> QED
    BY <1>1, <1>2, <2>5, <2>6 DEF EditInv
<1>6. CASE asked' = asked /\ lost' = lost \cup held
  <2>1. Unqueued' = Unqueued /\ EditsAreQueued'
    BY <1>1, <1>6, TablesKept, CheckpointKept
  <2>2. \A m \in Unqueued \ lost' : m \in Msgs /\ m \in Unqueued \ lost /\ m \notin held
    BY <1>6 DEF Unqueued
  <2> QED
    BY <1>1, <1>2, <1>3, <1>6, <2>1, <2>2 DEF EditInv
<1> QED
  BY <1>5, <1>6, Zenon DEF EnqueueEdits

LEMMA EditInvInductive == ASSUME BaseInv, EditInv, Next PROVE EditInv'
<1>0. script \in Scripts
  BY DEF BaseInv, TypeInv, TypeOK
<1>1. CASE Others
  BY <1>1, OthersKeepEdits
<1>2. ASSUME NEW kind \in Kinds, Start(kind) PROVE EditInv'
  BY <1>2, StartKeepsEdits
<1>3. ASSUME NEW c \in Channels, NextChannel(c) PROVE EditInv'
  BY <1>3, NextChannelKeepsEdits
<1>4. CASE Finish
  BY <1>4, FinishKeepsEdits
<1>5. CASE Killed \/ BackfillFails
  <2>1. UNCHANGED <<raw, asked, ckpt, lost>> /\ script'.kind = "none"
    BY <1>5 DEF Killed, BackfillFails, EndScript, NoScript, tableVars
  <2> QED
    BY <2>1, TablesKept, CheckpointKept
<1>6. CASE Query \/ ReprocessRow \/ ReadWindow
  <2>1. UNCHANGED <<raw, asked, ckpt, lost>> /\ script.kind # "edits"
    BY <1>6 DEF Query, ReprocessRow, ReadWindow, AtQuery, InHand, tableVars
  <2>2. script'.kind = script.kind
    BY <1>0, <1>6, QueryFields, ReadWindowFields DEF SameRun, ReprocessRow
  <2> QED
    BY <2>1, <2>2, TablesKept, CheckpointKept
<1>7. CASE EnqueuePage \/ StoreWindow
  <2>1. UNCHANGED <<ckpt, lost>> /\ script.kind # "edits"
    BY <1>7 DEF EnqueuePage, StoreWindow, InHand
  <2>2. script'.kind = script.kind
    BY <1>0, <1>7, PageOverFields, StoreWindowFields DEF SameRun, EnqueuePage
  <2>3. RowsKept
    BY <1>7, ScriptsKeepRows DEF Scripted, Step, BaseInv
  <2>4. \A m \in Msgs : asked'[m] = asked[m] \/ asked'[m] = raw[m].edit
    <3>1. CASE EnqueuePage
      <4>1. asked' = Asked(held, FALSE) \/ asked' = asked
        BY <3>1, Zenon DEF EnqueuePage
      <4>2. \A m \in Msgs : Asked(held, FALSE)[m] = asked[m] \/ Asked(held, FALSE)[m] = raw[m].edit
        BY DEF Asked
      <4> QED
        BY <4>1, <4>2
    <3>2. CASE StoreWindow
      BY <3>2 DEF StoreWindow
    <3> QED
      BY <1>7, <3>1, <3>2
  <2>5. /\ Unqueued' \subseteq Unqueued
        /\ \A m \in Unqueued' : raw'[m].edit = raw[m].edit /\ raw'[m].id = raw[m].id
    BY <2>3, <2>4, FewerUnqueued DEF BaseInv
  <2> QED
    BY <2>1, <2>2, <2>5, CheckpointKept
<1>8. CASE QueryEdits
  BY <1>8, QueryEditsKeepsEdits
<1>9. CASE EnqueueEdits
  BY <1>9, EnqueueEditsKeepsEdits
<1> QED
  BY <1>1, <1>2, <1>3, <1>4, <1>5, <1>6, <1>7, <1>8, <1>9 DEF Next, Step

(* An edit behind the checkpoint has been forced back into the queue or is  *)
(* lost to something other than the checkpoint, for any channels, pages,    *)
(* look-back and runs of the script.                                        *)
THEOREM NoEditIsPassed == Spec => []EditsAreQueued
<1>1. Init => EditInv
  BY DEF Init, EditInv, EditsAreQueued, NoScript
<1>2. BaseInv /\ EditInv /\ [Next]_vars => EditInv'
  <2>1. ASSUME BaseInv, EditInv, UNCHANGED vars PROVE EditInv'
    BY <2>1 DEF EditInv, EditsAreQueued, Unqueued, ToCome, vars, tableVars, scanVars, ghostVars
  <2> QED
    BY <2>1, EditInvInductive
<1>3. EditInv => EditsAreQueued
  BY DEF EditInv
<1> QED
  BY <1>1, <1>2, <1>3, BaseInvInit, BaseInvInductive, PTL DEF Spec

-----------------------------------------------------------------------------
(* Positions in a set of messages: they grow with the message, the first n  *)
(* are n if there are more, and the next of them has position n.            *)

PosIn(V, m) == Cardinality({k \in V : k < m})
FirstOf(V, n) == {m \in V : PosIn(V, m) < n}

LEMMA PosType == ASSUME NEW V \in SUBSET Msgs PROVE \A m : PosIn(V, m) \in Nat
<1>1. \A m : {k \in V : k < m} \in SUBSET Msgs
  OBVIOUS
<1> QED
  BY <1>1, Countable DEF PosIn

LEMMA PosGrows ==
    ASSUME NEW V \in SUBSET Msgs, NEW m \in V, NEW k \in V, m < k
    PROVE  PosIn(V, m) < PosIn(V, k)
<1> DEFINE Under(i) == {j \in V : j < i}
<1>1. \A i, j : j \in Under(i) <=> j \in V /\ j < i
  OBVIOUS
<1>2. ~(m < m) /\ \A j \in V : j < m => j < k
  BY Bounds
<1>5. PosIn(V, m) = Cardinality(Under(m)) /\ PosIn(V, k) = Cardinality(Under(k))
  BY DEF PosIn
<1> HIDE DEF Under
<1>3. Under(m) \subseteq Under(k) /\ m \in Under(k) /\ m \notin Under(m)
  BY <1>1, <1>2
<1>4. Under(k) \in SUBSET Msgs /\ Under(m) \in SUBSET Under(k) /\ Under(m) # Under(k)
  BY <1>1, <1>3
<1> QED
  BY <1>4, <1>5, Fewer

LEMMA OnePerPosition ==
    ASSUME NEW V \in SUBSET Msgs, NEW m \in V, NEW k \in V, PosIn(V, m) = PosIn(V, k)
    PROVE  m = k
<1>1. ~(m < k) /\ ~(k < m)
  BY PosGrows, PosType
<1>2. m \in Int /\ k \in Int
  BY Bounds
<1> QED
  BY <1>1, <1>2

LEMMA FirstAtMost ==
    ASSUME NEW V \in SUBSET Msgs, NEW n \in Nat
    PROVE  Cardinality(FirstOf(V, n)) \in Nat /\ Cardinality(FirstOf(V, n)) <= n
<1> DEFINE A == FirstOf(V, n)
           Under(i) == {j \in V : j < i}
<1>1. A \in SUBSET V /\ A \in SUBSET Msgs
  BY DEF FirstOf
<1>2. Cardinality(A) \in Nat
  BY <1>1, Countable
<1>3. CASE A = {}
  BY <1>3, FS_EmptySet
<1>4. CASE A # {}
  <2>1. PICK g \in A : \A y \in A : g >= y
    <3>1. A \in SUBSET (0..MaxMsgs) /\ MaxMsgs \in Nat
      BY <1>1, Bounds
    <3> HIDE DEF A
    <3> QED
      BY <1>4, <3>1, GreatestExists
  <2>2. g \in V /\ g \in Msgs /\ PosIn(V, g) < n
    <3>1. \A j \in A : j \in V /\ PosIn(V, j) < n
      BY DEF FirstOf
    <3> HIDE DEF A
    <3> QED
      BY <2>1, <3>1
  <2>3. PosIn(V, g) = Cardinality(Under(g)) /\ \A j : j \in Under(g) <=> j \in V /\ j < g
    BY DEF PosIn
  <2>4. ~(g < g) /\ \A j \in A : j = g \/ j < g
    <3>1. A \subseteq Nat
      BY <1>1, Bounds
    <3> HIDE DEF A
    <3> QED
      BY <2>1, <3>1
  <2> HIDE DEF Under, A
  <2>5. Under(g) \in SUBSET Msgs /\ g \notin Under(g) /\ A \subseteq Under(g) \cup {g}
    BY <1>1, <2>3, <2>4
  <2>6. Cardinality(Under(g) \cup {g}) = Cardinality(Under(g)) + 1
    BY <2>2, <2>5, OneMore
  <2>7. Under(g) \cup {g} \in SUBSET Msgs
    BY <2>2, <2>5
  <2>8. Cardinality(A) <= Cardinality(Under(g) \cup {g})
    BY <2>5, <2>7, Fewer
  <2>9. PosIn(V, g) \in Nat
    BY PosType
  <2>10. Cardinality(A) <= n
    BY <1>2, <2>2, <2>3, <2>6, <2>8, <2>9
  <2> QED
    BY <1>2, <2>10 DEF A
<1> QED
  BY <1>3, <1>4

LEMMA FirstAll ==
    ASSUME NEW V \in SUBSET Msgs, NEW n \in Nat, NEW x \in V, ~(PosIn(V, x) < n)
    PROVE  Cardinality(FirstOf(V, n)) = n
<1> DEFINE A == FirstOf(V, n)
           R == V \ A
           Under(i) == {j \in V : j < i}
<1>1. A \in SUBSET V /\ x \in R /\ R \in SUBSET Nat /\ \A j \in V : j \in Int
  <2>1. V \subseteq Nat /\ A \in SUBSET V /\ x \notin A
    BY Bounds DEF FirstOf
  <2> HIDE DEF A
  <2> QED
    BY <2>1
<1>2. PICK h \in R : \A y \in R : h <= y
  <2>1. R # {}
    BY <1>1
  <2> HIDE DEF R
  <2> QED
    BY <1>1, <2>1, LeastExists
<1>3. \A j : j \in Under(h) <=> j \in V /\ j < h
  OBVIOUS
<1>4. h \in V /\ h \notin A /\ ~(PosIn(V, h) < n)
  BY <1>2 DEF FirstOf
<1>5. ASSUME NEW j \in V, j < h PROVE j \in A
  <2>1. ~(h <= j)
    BY <1>1, <1>4, <1>5
  <2> QED
    BY <1>2, <1>5, <2>1
<1>6. ASSUME NEW j \in A PROVE j < h
  <2>1. j \in V /\ PosIn(V, j) < n
    BY <1>6 DEF FirstOf
  <2>2. ~(h < j)
    <3> SUFFICES ASSUME h < j PROVE FALSE
      OBVIOUS
    <3>1. PosIn(V, h) < PosIn(V, j)
      BY <1>4, <2>1, PosGrows
    <3>2. PosIn(V, h) \in Nat /\ PosIn(V, j) \in Nat
      BY PosType
    <3> QED
      BY <1>4, <2>1, <3>1, <3>2
  <2>3. j # h
    BY <1>4, <1>6
  <2> QED
    BY <1>1, <1>4, <2>1, <2>2, <2>3
<1>8. PosIn(V, h) = Cardinality(Under(h))
  BY DEF PosIn
<1> HIDE DEF Under, R, A
<1>7. Under(h) = A
  BY <1>1, <1>3, <1>5, <1>6
<1>9. Cardinality(A) \in Nat /\ Cardinality(A) <= n
  BY FirstAtMost DEF A
<1>10. Cardinality(A) = n
  BY <1>4, <1>7, <1>8, <1>9
<1> QED
  BY <1>10 DEF A

(* A page behind which there are more rows is full.                         *)
LEMMA PageIsFull ==
    ASSUME NEW V \in SUBSET Msgs, NEW mark \in Nat, NEW size \in Nat,
           NEW x \in V, ~(PosIn(V, x) < mark + size)
    PROVE  Cardinality({m \in V : PosIn(V, m) \in mark .. mark + size - 1}) = size
<1> DEFINE page == {m \in V : PosIn(V, m) \in mark .. mark + size - 1}
           A == FirstOf(V, mark)
           B == FirstOf(V, mark + size)
<1>1. PosIn(V, x) \in Nat /\ mark + size \in Nat
  BY PosType
<1>2. Cardinality(B) = mark + size
  BY <1>1, FirstAll
<1>3. ~(PosIn(V, x) < mark)
  BY <1>1
<1>4. Cardinality(A) = mark
  BY <1>3, FirstAll
<1>5. \A m \in V : PosIn(V, m) \in Nat
  BY PosType
<1>6. \A m : /\ m \in A <=> m \in V /\ PosIn(V, m) < mark
             /\ m \in B <=> m \in V /\ PosIn(V, m) < mark + size
             /\ m \in page <=> m \in V /\ PosIn(V, m) \in mark .. mark + size - 1
  BY DEF FirstOf
<1>7. \A m \in V : m \in page <=> m \in B /\ m \notin A
  BY <1>5, <1>6
<1>8. \A m \in V : m \in A => m \in B
  BY <1>5, <1>6
<1>9. A \subseteq V /\ B \subseteq V /\ page \subseteq V
  BY <1>6
<1> HIDE DEF page, A, B
<1>10. page \cup A = B /\ page \cap A = {}
  BY <1>7, <1>8, <1>9
<1>11. IsFiniteSet(page) /\ IsFiniteSet(A) /\ Cardinality(page) \in Nat
  BY <1>9, Countable
<1>12. Cardinality(page \cup A) = Cardinality(page) + Cardinality(A) - Cardinality(page \cap A)
  BY <1>11, FS_Union
<1>13. Cardinality(page \cap A) = 0
  BY <1>10, FS_EmptySet
<1>14. Cardinality(page) = size
  BY <1>2, <1>4, <1>10, <1>11, <1>12, <1>13
<1> QED
  BY <1>14 DEF page

-----------------------------------------------------------------------------
(* Scans by offset.  A row that was there at the start and was not given is *)
(* passed over when its position falls below the offset, which only a row   *)
(* deleted before it can bring about, and each brings one at most there.    *)

Kept == present \cap Visible(script.chan)
Missed == Kept \ seen
Passed == {m \in Missed : PosIn(Visible(script.chan), m) < script.mark}

ShiftInv ==
    script.kind \in {"enqueue", "reprocess"} =>
        /\ script.mark \in Nat
        /\ \A m \in present : Stored(m) /\ ChanOf[m] = script.chan
        /\ Cardinality(Passed) <= shifted
        /\ script.last \/ script.over = "all" => Cardinality(Missed) <= shifted

LEMMA PositionIn ==
    ASSUME NEW c, NEW m \in Visible(c)
    PROVE  Position(m) = PosIn(Visible(c), m)
<1>1. ChanOf[m] = c
  BY DEF Visible
<1> QED
  BY <1>1 DEF Position, PosIn

LEMMA VisibleMsgs == \A c : Visible(c) \in SUBSET Msgs
BY DEF Visible

LEMMA ShiftInvGives == ASSUME TypeInv, ShiftInv PROVE ScanMissesOnlyShifted
<1> SUFFICES ASSUME script.kind \in {"enqueue", "reprocess"}
             PROVE  Cardinality({m \in (present \cap Visible(script.chan)) \ seen :
                                   Position(m) < script.mark \/ script.over = "all"}) <= shifted
  BY DEF ScanMissesOnlyShifted
<1> DEFINE G == {m \in (present \cap Visible(script.chan)) \ seen :
                                   Position(m) < script.mark \/ script.over = "all"}
<1>1. G \in SUBSET Missed /\ Missed \in SUBSET Msgs
  BY VisibleMsgs DEF Missed, Kept
<1>2. Cardinality(G) \in Nat /\ Cardinality(Missed) \in Nat /\ Cardinality(G) <= Cardinality(Missed)
  BY <1>1, Fewer
<1>3. shifted \in Nat
  BY DEF TypeInv, TypeOK
<1>4. CASE script.over = "all"
  <2>1. Cardinality(Missed) <= shifted
    BY <1>4 DEF ShiftInv
  <2> HIDE DEF G
  <2>2. Cardinality(G) <= shifted
    BY <1>2, <1>3, <2>1
  <2> QED
    BY <2>2 DEF G
<1>5. CASE script.over # "all"
  <2>1. \A m \in Missed : Position(m) = PosIn(Visible(script.chan), m)
    BY PositionIn DEF Missed, Kept
  <2>2. G = Passed
    BY <1>5, <2>1 DEF Passed, Missed, Kept
  <2>3. Cardinality(Passed) <= shifted
    BY DEF ShiftInv
  <2> HIDE DEF G
  <2>4. Cardinality(G) <= shifted
    BY <2>2, <2>3
  <2> QED
    BY <2>4 DEF G
<1> QED
  BY <1>4, <1>5

(* More rows before a row raise its position, one row less lowers it by one *)
(* at most.                                                                 *)
LEMMA PosOfMore ==
    ASSUME NEW V \in SUBSET Msgs, NEW W \in SUBSET V, NEW m
    PROVE  PosIn(W, m) <= PosIn(V, m) /\ PosIn(W, m) \in Nat /\ PosIn(V, m) \in Nat
<1>1. {k \in V : k < m} \in SUBSET Msgs /\ {k \in W : k < m} \in SUBSET {k \in V : k < m}
  OBVIOUS
<1> QED
  BY <1>1, Fewer DEF PosIn

LEMMA PosOfOneLess ==
    ASSUME NEW V \in SUBSET Msgs, NEW d \in Msgs, NEW m
    PROVE  /\ PosIn(V, m) <= PosIn(V \ {d}, m) + 1
           /\ PosIn(V \ {d}, m) \in Nat /\ PosIn(V, m) \in Nat
<1> DEFINE T == {k \in V \ {d} : k < m}
           U == {k \in V : k < m}
<1>1. T \in SUBSET Msgs /\ d \notin T /\ U \subseteq T \cup {d} /\ U \in SUBSET Msgs
  OBVIOUS
<1>2. PosIn(V \ {d}, m) = Cardinality(T) /\ PosIn(V, m) = Cardinality(U)
  BY DEF PosIn
<1> HIDE DEF T, U
<1>3. Cardinality(T \cup {d}) = Cardinality(T) + 1
  BY <1>1, OneMore
<1>4. T \cup {d} \in SUBSET Msgs
  BY <1>1
<1>5. Cardinality(U) <= Cardinality(T \cup {d})
  BY <1>1, <1>4, Fewer
<1>6. Cardinality(T) \in Nat /\ Cardinality(U) \in Nat
  BY <1>1, Countable
<1> QED
  BY <1>2, <1>3, <1>5, <1>6

(* Steps under which no more rows are passed over. *)
LEMMA NoMorePassed ==
    ASSUME TypeInv, TypeInv', ShiftInv, script.kind \in {"enqueue", "reprocess"},
           script'.kind = script.kind, script'.chan = script.chan,
           script'.mark \in Nat,
           \A m \in present' : Stored(m)' /\ ChanOf[m] = script.chan,
           Passed' \subseteq Passed, shifted' = shifted,
           script'.last \/ script'.over = "all" =>
               Missed' \subseteq Passed \/ (Missed' \subseteq Missed /\ (script.last \/ script.over = "all"))
    PROVE  ShiftInv'
<1>1. Passed \in SUBSET Msgs /\ Missed \in SUBSET Msgs
  BY VisibleMsgs DEF Passed, Missed, Kept
<1>2. shifted \in Nat /\ Cardinality(Passed) <= shifted
  BY DEF TypeInv, TypeOK, ShiftInv
<1>3. \A U \in SUBSET Msgs : \A T \in SUBSET U : Cardinality(T) \in Nat /\ Cardinality(U) \in Nat
                                                  /\ Cardinality(T) <= Cardinality(U)
  BY Fewer
<1>4. Cardinality(Passed') <= shifted
  BY <1>1, <1>2, <1>3
<1>5. script'.last \/ script'.over = "all" => Cardinality(Missed') <= shifted
  <2> SUFFICES ASSUME script'.last \/ script'.over = "all" PROVE Cardinality(Missed') <= shifted
    OBVIOUS
  <2>1. CASE Missed' \subseteq Passed
    BY <1>1, <1>2, <1>3, <2>1
  <2>2. CASE Missed' \subseteq Missed /\ (script.last \/ script.over = "all")
    <3>1. Cardinality(Missed) <= shifted
      BY <2>2 DEF ShiftInv
    <3> QED
      BY <1>1, <1>2, <1>3, <2>2, <3>1
  <2> QED
    BY <2>1, <2>2
<1> QED
  BY <1>4, <1>5 DEF ShiftInv

LEMMA QueryKeepsShift == ASSUME BaseInv, BaseInv', ShiftInv, Query PROVE ShiftInv'
<1> DEFINE V == Visible(script.chan)
           page == PageAt(script.mark)
<1>1. /\ script.kind \in {"enqueue", "reprocess"} /\ held = {}
      /\ UNCHANGED <<raw, present, shifted>> /\ script \in Scripts
      /\ script.mark \in Nat /\ \A m \in present : Stored(m) /\ ChanOf[m] = script.chan
      /\ script.over = "no"
  BY DEF Query, AtQuery, tableVars, ShiftInv, BaseInv, TypeInv, TypeOK
<1>2. script'.kind = script.kind /\ script'.chan = script.chan
  BY <1>1, QueryFields DEF SameRun
<1>3. Visible(script.chan)' = V
  BY <1>1, <1>2 DEF Visible, Stored
<1>4. V \in SUBSET Msgs /\ \A m \in V : PosIn(V, m) \in Nat
  BY VisibleMsgs, PosType
<1>5. CASE held' = held /\ seen' = seen /\ script'.mark = script.mark
           /\ script'.last = script.last /\ script'.over = "failed"
  <2>1. Passed' = Passed /\ Missed' = Missed
    BY <1>1, <1>2, <1>3, <1>5 DEF Passed, Missed, Kept
  <2> QED
    BY <1>1, <1>2, <1>5, <2>1, NoMorePassed DEF BaseInv, Stored
<1>6. CASE /\ held' = page /\ seen' = seen \cup held'
           /\ script'.mark = script.mark + Cardinality(held')
           /\ script'.last = LastPage(held')
           /\ script'.over = IF held' = {} THEN "all" ELSE "no"
  <2> DEFINE n == Cardinality(page)
  <2>1. page = {m \in V : PosIn(V, m) \in script.mark .. script.mark + PageSize - 1}
    BY PositionIn DEF PageAt
  <2>2. PageSize \in Nat \ {0} /\ page \in SUBSET Msgs /\ n \in Nat
    BY <1>4, <2>1, Bounds, Countable
  <2>3. ASSUME NEW m \in V, m \notin page, ~(PosIn(V, m) < script.mark)
        PROVE  n = PageSize /\ ~(PosIn(V, m) < script.mark + n)
    <3>1. PosIn(V, m) \in Nat
      BY <1>4
    <3>2. PosIn(V, m) \notin script.mark .. script.mark + PageSize - 1
      BY <2>1, <2>3
    <3>3. ~(PosIn(V, m) < script.mark + PageSize)
      BY <1>1, <2>2, <2>3, <3>1, <3>2
    <3>4. Cardinality({k \in V : PosIn(V, k) \in script.mark .. script.mark + PageSize - 1}) = PageSize
      BY <1>1, <1>4, <2>2, <3>3, PageIsFull
    <3>5. n = PageSize
      BY <2>1, <3>4
    <3> QED
      BY <3>3, <3>5
  <2> HIDE DEF page, n
  <2>4. Missed' = Missed \ page
    BY <1>1, <1>2, <1>3, <1>6 DEF Missed, Kept
  <2>5. script'.mark = script.mark + n
    BY <1>6 DEF n
  <2>6. Passed' \subseteq Passed
    <3> SUFFICES ASSUME NEW m \in Passed' PROVE m \in Passed
      OBVIOUS
    <3>1. m \in Missed /\ m \notin page /\ PosIn(V, m) < script.mark + n
      BY <1>2, <1>3, <2>4, <2>5 DEF Passed
    <3>2. m \in V
      BY <3>1 DEF Missed, Kept
    <3>3. PosIn(V, m) < script.mark
      BY <2>3, <3>1, <3>2
    <3> QED
      BY <3>1, <3>3 DEF Passed
  <2>7. ASSUME script'.last \/ script'.over = "all" PROVE Missed' \subseteq Passed
    <3>1. n # PageSize
      <4>1. page = {} \/ n < PageSize
        BY <1>6, <2>7 DEF LastPage, n
      <4>2. page = {} => n = 0
        BY FS_EmptySet DEF n
      <4> QED
        BY <2>2, <4>1, <4>2
    <3>2. ASSUME NEW m \in Missed' PROVE m \in Passed
      <4>1. m \in Missed /\ m \notin page /\ m \in V
        BY <2>4, <3>2 DEF Missed, Kept
      <4>2. PosIn(V, m) < script.mark
        BY <2>3, <3>1, <4>1
      <4> QED
        BY <4>1, <4>2 DEF Passed
    <3> QED
      BY <3>2
  <2>8. script'.mark \in Nat
    BY <1>1, <2>2, <2>5
  <2> QED
    BY <1>1, <1>2, <2>6, <2>7, <2>8, NoMorePassed DEF BaseInv, Stored
<1> QED
  BY <1>1, <1>5, <1>6, QueryFields

LEMMA DeleteKeepsShift ==
    ASSUME BaseInv, BaseInv', ShiftInv, NEW d \in Msgs, Delete(d)
    PROVE  ShiftInv'
<1> DEFINE V == Visible(script.chan)
<1> SUFFICES ASSUME script.kind \in {"enqueue", "reprocess"} PROVE ShiftInv'
  BY OthersLeaveScript DEF ShiftInv, scanVars, Others
<1>1. /\ UNCHANGED <<script, present, seen>> /\ script \in Scripts
      /\ raw' = [raw EXCEPT ![d].deleted = Stored(d)]
      /\ shifted' = IF script.chan = ChanOf[d] /\ Stored(d) THEN shifted + 1 ELSE shifted
      /\ shifted \in Nat
  BY DEF Delete, Change, scanVars, BaseInv, TypeInv, TypeOK
<1>2. /\ \A m \in Msgs : raw'[m].id = raw[m].id /\ (m # d => raw'[m] = raw[m])
      /\ raw'[d].deleted = Stored(d)
  BY <1>1 DEF BaseInv, TypeInv, TypeOK
<1>3. \A m \in Msgs : Stored(m)' <=> Stored(m)
  BY <1>2 DEF Stored
<1>4. /\ script.mark \in Nat /\ \A m \in present : Stored(m)' /\ ChanOf[m] = script.chan
      /\ present \in SUBSET Msgs
  BY <1>3 DEF ShiftInv, BaseInv, TypeInv, TypeOK
<1>5. V \in SUBSET Msgs
  BY VisibleMsgs
<1>6. CASE ~(script.chan = ChanOf[d] /\ Stored(d))
  <2>1. Visible(script.chan)' = V
    BY <1>1, <1>2, <1>3, <1>6 DEF Visible
  <2>2. Passed' = Passed /\ Missed' = Missed
    BY <1>1, <2>1 DEF Passed, Missed, Kept
  <2>3. shifted' = shifted
    BY <1>1, <1>6
  <2> QED
    BY <1>1, <1>4, <2>2, <2>3, NoMorePassed DEF BaseInv
<1>7. CASE script.chan = ChanOf[d] /\ Stored(d)
  <2>1. Visible(script.chan)' = V \ {d}
    BY <1>1, <1>2, <1>3, <1>7 DEF Visible
  <2> DEFINE At == {m \in V : PosIn(V, m) = script.mark}
  <2>2. Missed' \subseteq Missed
    BY <1>1, <2>1 DEF Missed, Kept
  <2>3. Passed' \subseteq Passed \cup At
    <3> SUFFICES ASSUME NEW m \in Passed' PROVE m \in Passed \cup At
      OBVIOUS
    <3>1. m \in Missed' /\ PosIn(V \ {d}, m) < script.mark
      BY <1>1, <2>1 DEF Passed
    <3>2. m \in Missed /\ m \in V
      BY <2>2, <3>1 DEF Missed, Kept
    <3>3. PosIn(V, m) <= PosIn(V \ {d}, m) + 1 /\ PosIn(V \ {d}, m) \in Nat /\ PosIn(V, m) \in Nat
      BY <1>5, PosOfOneLess
    <3>4. PosIn(V, m) < script.mark \/ PosIn(V, m) = script.mark
      BY <1>4, <3>1, <3>3
    <3> QED
      BY <3>2, <3>4 DEF Passed
  <2>4. At \in SUBSET Msgs /\ Passed \in SUBSET Msgs /\ Missed \in SUBSET Msgs
    BY <1>5, VisibleMsgs DEF Passed, Missed, Kept
  <2>5. \A m, k \in At : m = k
    BY <1>5, OnePerPosition
  <2> HIDE DEF At
  <2>6. Cardinality(Passed \cup At) <= Cardinality(Passed) + 1
    <3>1. CASE At \subseteq Passed
      <4>1. Passed \cup At = Passed
        BY <3>1
      <4>2. Cardinality(Passed) \in Nat
        BY <2>4, Countable
      <4> QED
        BY <4>1, <4>2
    <3>2. CASE ~(At \subseteq Passed)
      <4>1. PICK x \in At : x \notin Passed
        BY <3>2
      <4>2. Passed \cup At = Passed \cup {x}
        <5>1. \A y \in At : y = x
          BY <2>5, <4>1
        <5> QED
          BY <4>1, <5>1
      <4>3. Cardinality(Passed \cup {x}) = Cardinality(Passed) + 1
        BY <2>4, <4>1, OneMore
      <4> QED
        BY <2>4, <4>2, <4>3, Countable
    <3> QED
      BY <3>1, <3>2
  <2>7. Cardinality(Passed') <= shifted'
    <3>1. Passed \cup At \in SUBSET Msgs
      BY <2>4
    <3>2. /\ Cardinality(Passed') \in Nat /\ Cardinality(Passed \cup At) \in Nat
          /\ Cardinality(Passed') <= Cardinality(Passed \cup At)
      BY <2>3, <3>1, Fewer
    <3>3. Cardinality(Passed) <= shifted /\ Cardinality(Passed) \in Nat
      BY <2>4, Countable DEF ShiftInv
    <3> QED
      BY <1>1, <1>7, <2>6, <3>2, <3>3
  <2>8. script.last \/ script.over = "all" => Cardinality(Missed') <= shifted'
    <3>1. /\ Cardinality(Missed') \in Nat /\ Cardinality(Missed) \in Nat
          /\ Cardinality(Missed') <= Cardinality(Missed)
      BY <2>2, <2>4, Fewer
    <3>2. script.last \/ script.over = "all" => Cardinality(Missed) <= shifted
      BY DEF ShiftInv
    <3> QED
      BY <1>1, <1>7, <3>1, <3>2
  <2> QED
    BY <1>1, <1>4, <2>7, <2>8 DEF ShiftInv
<1> QED
  BY <1>6, <1>7

LEMMA StoreKeepsShift ==
    ASSUME BaseInv, BaseInv', ShiftInv, NEW d \in Msgs, Store(d)
    PROVE  ShiftInv'
<1> DEFINE V == Visible(script.chan)
<1> SUFFICES ASSUME script.kind \in {"enqueue", "reprocess"} PROVE ShiftInv'
  BY OthersLeaveScript DEF ShiftInv, scanVars, Others
<1>1. /\ UNCHANGED <<script, present, seen, shifted>> /\ script \in Scripts
      /\ ~Stored(d) /\ raw' = [raw EXCEPT ![d].id = NewId]
  BY DEF Store, Change, scanVars, ghostVars, BaseInv, TypeInv, TypeOK
<1>2. \A m \in Msgs : m # d => raw'[m] = raw[m]
  BY <1>1 DEF BaseInv, TypeInv, TypeOK
<1>3. V \subseteq Visible(script.chan)' /\ Visible(script.chan)' \subseteq V \cup {d}
  BY <1>1, <1>2 DEF Visible, Stored
<1>4. /\ script.mark \in Nat /\ \A m \in present : Stored(m) /\ Stored(m)' /\ ChanOf[m] = script.chan
      /\ d \notin present
  BY <1>1, <1>2 DEF ShiftInv, Stored, BaseInv, TypeInv, TypeOK
<1>5. Visible(script.chan)' \in SUBSET Msgs
  BY <1>1, VisibleMsgs DEF Visible
<1>6. Missed' = Missed
  BY <1>1, <1>3, <1>4 DEF Missed, Kept
<1>7. ASSUME NEW m \in Passed' PROVE m \in Passed
  <2> DEFINE W == Visible(script.chan)'
  <2>1. m \in Missed /\ PosIn(W, m) < script.mark
    BY <1>1, <1>6 DEF Passed, PosIn
  <2>2. PosIn(V, m) <= PosIn(W, m) /\ PosIn(V, m) \in Nat /\ PosIn(W, m) \in Nat
    BY <1>3, <1>5, PosOfMore
  <2>3. PosIn(V, m) < script.mark
    BY <1>4, <2>1, <2>2
  <2> QED
    BY <2>1, <2>3 DEF Passed
<1> QED
  BY <1>1, <1>4, <1>6, <1>7, NoMorePassed DEF BaseInv

LEMMA ShiftInvInductive == ASSUME BaseInv, BaseInv', ShiftInv, Next PROVE ShiftInv'
<1>0. script \in Scripts /\ present \in SUBSET Msgs
  BY DEF BaseInv, TypeInv, TypeOK
<1>1. ASSUME UNCHANGED <<present, seen, shifted>>, Visible(script.chan)' = Visible(script.chan),
             script'.kind = script.kind, script'.chan = script.chan, script'.mark = script.mark,
             \A m \in Msgs : Stored(m) => Stored(m)',
             script'.last \/ script'.over = "all" => script.last \/ script.over = "all"
      PROVE  ShiftInv'
  <2>1. Passed' = Passed /\ Missed' = Missed
    BY <1>1 DEF Passed, Missed, Kept
  <2>2. script.kind \in {"enqueue", "reprocess"} =>
          script.mark \in Nat /\ \A m \in present : Stored(m)' /\ ChanOf[m] = script.chan
    BY <1>0, <1>1 DEF ShiftInv
  <2>3. CASE script.kind \in {"enqueue", "reprocess"}
    BY <1>1, <2>1, <2>2, <2>3, NoMorePassed DEF BaseInv
  <2>4. CASE script.kind \notin {"enqueue", "reprocess"}
    BY <1>1, <2>4 DEF ShiftInv
  <2> QED
    BY <2>3, <2>4
<1>2. CASE Others
  <2>1. UNCHANGED <<script, present, seen>>
    BY <1>2, OthersLeaveScript DEF scanVars
  <2>2. CASE Tick \/ \E m \in Msgs : Post(m)
    <3>1. UNCHANGED <<raw, shifted>>
      BY <2>2 DEF Tick, Post, tableVars, ghostVars
    <3>2. Visible(script.chan)' = Visible(script.chan) /\ \A m \in Msgs : Stored(m)' <=> Stored(m)
      BY <2>1, <3>1 DEF Visible, Stored
    <3> QED
      BY <1>1, <2>1, <3>1, <3>2
  <2>3. ASSUME NEW d \in Msgs, Edit(d) PROVE ShiftInv'
    <3>1. PICK date \in Time : raw' = [raw EXCEPT ![d] = [raw[d] EXCEPT !.edit = date]]
      BY <2>3 DEF Edit
    <3>2. \A m \in Msgs : raw'[m].id = raw[m].id /\ raw'[m].deleted = raw[m].deleted
      BY <3>1 DEF BaseInv, TypeInv, TypeOK
    <3>3. Visible(script.chan)' = Visible(script.chan) /\ \A m \in Msgs : Stored(m)' <=> Stored(m)
      BY <2>1, <3>2 DEF Visible, Stored
    <3>4. shifted' = shifted
      BY <2>3 DEF Edit, ghostVars
    <3> QED
      BY <1>1, <2>1, <3>3, <3>4
  <2> QED
    BY <1>2, <2>2, <2>3, StoreKeepsShift, DeleteKeepsShift DEF Others
<1>3. ASSUME NEW kind \in Kinds, Start(kind) PROVE ShiftInv'
  <2>1. present' = {} /\ shifted' = shifted /\ shifted \in Nat
    BY <1>3 DEF Start, BaseInv, RunInv, Resting, NoScript, ghostVars, TypeInv, TypeOK
  <2>2. script'.mark = 0
    BY <1>3, StartFields DEF BaseInv
  <2>3. Passed' = {} /\ Missed' = {}
    BY <2>1 DEF Passed, Missed, Kept
  <2> QED
    BY <2>1, <2>2, <2>3, FS_EmptySet DEF ShiftInv
<1>4. ASSUME NEW c \in Channels, NextChannel(c) PROVE ShiftInv'
  <2>1. /\ script'.mark = 0 /\ script'.over = "no" /\ ~script'.last /\ script'.kind = script.kind /\ script'.chan = c
        /\ shifted' = 0 /\ raw' = raw
    BY <1>0, <1>4, NextChannelFields DEF NextChannel, tableVars
  <2>2. Passed' = {}
    <3>1. \A m \in Msgs : PosIn(Visible(script.chan), m)' \in Nat
      BY <2>1, VisibleMsgs, PosType DEF BaseInv, Visible, PosIn
    <3>2. Missed' \subseteq Msgs
      BY <2>1 DEF Missed, Kept, Visible
    <3> QED
      BY <2>1, <3>1, <3>2 DEF Passed
  <2>3. script.kind \in {"enqueue", "reprocess"} => \A m \in present' : Stored(m)' /\ ChanOf[m] = c
    BY <1>4, <2>1 DEF NextChannel, Visible, Stored
  <2> QED
    BY <2>1, <2>2, <2>3, FS_EmptySet DEF ShiftInv
<1>5. CASE Finish \/ Killed \/ BackfillFails
  <2>1. script'.kind = "none"
    BY <1>5 DEF Finish, Killed, BackfillFails, EndScript, NoScript
  <2> QED
    BY <2>1 DEF ShiftInv
<1>6. CASE Query
  BY <1>6, QueryKeepsShift
<1>7. CASE EnqueuePage \/ ReprocessRow
  <2>1. /\ UNCHANGED <<raw, present, seen, shifted>>
        /\ script'.kind = script.kind /\ script'.chan = script.chan /\ script'.mark = script.mark
        /\ script'.last \/ script'.over = "all" => script.last \/ script.over = "all"
    BY <1>0, <1>7, PageOverFields DEF EnqueuePage, ReprocessRow, tableVars, ghostVars, SameRun
  <2>2. Visible(script.chan)' = Visible(script.chan) /\ \A m \in Msgs : Stored(m)' <=> Stored(m)
    BY <2>1 DEF Visible, Stored
  <2> QED
    BY <1>1, <2>1, <2>2
<1>8. CASE QueryEdits \/ EnqueueEdits \/ ReadWindow \/ StoreWindow
  <2>1. script.kind \notin {"enqueue", "reprocess"}
    BY <1>8 DEF QueryEdits, EnqueueEdits, ReadWindow, StoreWindow, AtQuery, InHand
  <2>2. script'.kind = script.kind
    BY <1>0, <1>8, PageOverFields, QueryEditsFields, ReadWindowFields, StoreWindowFields DEF SameRun, EnqueueEdits
  <2> QED
    BY <2>1, <2>2 DEF ShiftInv
<1> QED
  BY <1>2, <1>3, <1>4, <1>5, <1>6, <1>7, <1>8 DEF Next, Step

(* A scan by offset misses no more rows than were deleted under it, for any *)
(* page size, whatever is posted, stored and edited meanwhile.              *)
THEOREM OnlyDeletionsShift == Spec => []ScanMissesOnlyShifted
<1>1. Init => ShiftInv
  BY DEF Init, ShiftInv, NoScript
<1>2. BaseInv /\ BaseInv' /\ ShiftInv /\ [Next]_vars => ShiftInv'
  <2>1. ASSUME UNCHANGED vars, ShiftInv PROVE ShiftInv'
    BY <2>1 DEF ShiftInv, Passed, Missed, Kept, PosIn, Visible, Stored, vars, tableVars, scanVars, ghostVars
  <2> QED
    BY <2>1, ShiftInvInductive
<1>3. BaseInv /\ ShiftInv => ScanMissesOnlyShifted
  BY ShiftInvGives DEF BaseInv
<1> QED
  BY <1>1, <1>2, <1>3, BaseInvInit, BaseInvInductive, PTL DEF Spec
=============================================================================
