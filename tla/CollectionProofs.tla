--------------------------- MODULE CollectionProofs ---------------------------
(***************************************************************************)
(* Theorems about the tail and the catchup of the live collector, for any  *)
(* channels, messages, windows, batches and failures.                      *)
(***************************************************************************)
EXTENDS Collection, FiniteSetTheorems, WellFoundedInduction, TLAPS

-----------------------------------------------------------------------------
(* Least and greatest elements. *)

LEMMA LeastExists ==
    ASSUME NEW S \in SUBSET Nat, S # {}
    PROVE  \E x \in S : \A y \in S : x <= y
<1> DEFINE Less == OpToRel(<, Nat)
<1>1. IsWellFoundedOn(Less, Nat)
  BY NatLessThanWellFounded
<1>2. \A a, b \in Nat : a < b => <<a, b>> \in Less
  BY DEF OpToRel
<1> HIDE DEF Less
<1>3. PICK x \in S : \A y \in S : ~(<<y, x>> \in Less)
  BY <1>1, WFMin
<1>4. ASSUME NEW y \in S PROVE x <= y
  <2>1. x \in Nat /\ y \in Nat /\ ~(<<y, x>> \in Less)
    BY <1>3
  <2>2. ~(y < x)
    BY <1>2, <2>1
  <2> QED
    BY <2>1, <2>2
<1> QED
  BY <1>4

LEMMA LeastOfNaturals ==
    ASSUME NEW S \in SUBSET Nat, S # {}
    PROVE  Min(S) \in S /\ \A y \in S : Min(S) <= y
<1>1. \E x \in S : \A y \in S : x <= y
  BY LeastExists
<1> QED
  BY <1>1 DEF Min

LEMMA GreatestExists ==
    ASSUME NEW n \in Nat, NEW S \in SUBSET (0..n), S # {}
    PROVE  \E x \in S : \A y \in S : x >= y
<1> DEFINE D == {n - x : x \in S}
<1>1. D \in SUBSET Nat /\ D # {}
  <2>1. \A x \in S : n - x \in Nat
    OBVIOUS
  <2> QED
    BY <2>1
<1>2. PICK d \in D : \A e \in D : d <= e
  BY <1>1, LeastExists
<1>3. PICK x \in S : d = n - x
  BY <1>2
<1>4. ASSUME NEW y \in S PROVE x >= y
  <2>1. n - y \in D /\ x \in 0..n /\ y \in 0..n
    OBVIOUS
  <2>2. n - x <= n - y
    BY <1>2, <1>3, <2>1
  <2> QED
    BY <2>1, <2>2
<1> QED
  BY <1>4

LEMMA GreatestOfBounded ==
    ASSUME NEW n \in Nat, NEW S \in SUBSET (0..n), S # {}
    PROVE  Max(S) \in S /\ \A y \in S : Max(S) >= y
<1>1. \E x \in S : \A y \in S : x >= y
  BY GreatestExists
<1> QED
  BY <1>1 DEF Max

LEMMA LeastOfTwo ==
    ASSUME NEW a \in Int, NEW b \in Int
    PROVE  Min({a, b}) \in {a, b} /\ Min({a, b}) <= a /\ Min({a, b}) <= b
<1>1. \E x \in {a, b} : \A y \in {a, b} : x <= y
  <2>1. a <= b \/ b <= a
    OBVIOUS
  <2> QED
    BY <2>1
<1> QED
  BY <1>1 DEF Min

(* The newest n of a set of messages: one at least, no older one without a  *)
(* newer one, and all of them when there are fewer than n.                  *)
LEMMA NewestOf ==
    ASSUME NEW S \in SUBSET Msgs, NEW n \in Nat \ {0}
    PROVE  /\ Newest(S, n) \subseteq S
           /\ S # {} => Newest(S, n) # {}
           /\ \A m \in S \ Newest(S, n) : \A k \in Newest(S, n) : m < k
           /\ Cardinality(Newest(S, n)) < n => Newest(S, n) = S
<1> DEFINE Above(m) == {k \in S : k > m}
           N == Newest(S, n)
<1>1. MaxMsgs \in Nat /\ Msgs \subseteq Int /\ Msgs \subseteq 0..MaxMsgs
  BY BoundsAssumption DEF Msgs
<1>2. IsFiniteSet(S)
  <2>1. IsFiniteSet(1..MaxMsgs)
    BY <1>1, FS_Interval
  <2> QED
    BY <2>1, FS_Subset DEF Msgs
<1>3. \A T \in SUBSET S : IsFiniteSet(T) /\ Cardinality(T) \in Nat
  BY <1>2, FS_Subset, FS_CardinalityType
<1>4. \A m : m \in N <=> m \in S /\ Cardinality(Above(m)) < n
  BY DEF Newest
<1>5. ASSUME NEW T \in SUBSET S, NEW U \in SUBSET T PROVE Cardinality(U) <= Cardinality(T)
  BY <1>3, FS_Subset
<1>6. ASSUME NEW T \in SUBSET S, T # {} PROVE \E x \in T : \A y \in T : x >= y
  <2>1. T \in SUBSET (0..MaxMsgs)
    BY <1>1
  <2> QED
    BY <1>1, <2>1, <1>6, GreatestExists
<1>11. \A m, k : k \in Above(m) <=> k \in S /\ k > m
  OBVIOUS
<1> HIDE DEF N, Above
<1>7. N \subseteq S
  BY <1>4
<1>8. ASSUME S # {} PROVE N # {}
  <2>1. PICK x \in S : \A y \in S : x >= y
    BY <1>6, <1>8
  <2>2. Above(x) = {}
    <3>1. \A k \in S : ~(k > x)
      BY <1>1, <2>1
    <3> QED
      BY <1>11, <3>1
  <2>3. Cardinality(Above(x)) < n
    BY <2>2, FS_EmptySet
  <2> QED
    BY <1>4, <2>1, <2>3
<1>9. ASSUME NEW m \in S \ N, NEW k \in N PROVE m < k
  <2>1. m \in Int /\ k \in Int /\ k \in S
    BY <1>1, <1>7
  <2>2. SUFFICES ASSUME m >= k PROVE FALSE
    BY <2>1
  <2>3. Above(m) \in SUBSET Above(k) /\ Above(k) \in SUBSET S /\ Above(m) \in SUBSET S
    <3>1. \A j \in S : j > m => j > k
      BY <1>1, <2>1, <2>2
    <3> QED
      BY <1>11, <3>1
  <2>4. Cardinality(Above(m)) <= Cardinality(Above(k))
    BY <1>5, <2>3
  <2>5. Cardinality(Above(k)) < n
    BY <1>4
  <2>6. Cardinality(Above(m)) \in Nat /\ Cardinality(Above(k)) \in Nat
    BY <1>3, <2>3
  <2>7. Cardinality(Above(m)) < n
    BY <2>4, <2>5, <2>6
  <2> QED
    BY <1>4, <2>7
<1>10. ASSUME Cardinality(N) < n PROVE N = S
  <2>1. SUFFICES ASSUME S \ N # {} PROVE FALSE
    BY <1>7
  <2>2. PICK x \in S \ N : \A y \in S \ N : x >= y
    BY <1>6, <2>1
  <2>3. Above(x) \in SUBSET N /\ N \in SUBSET S /\ Above(x) \in SUBSET S
    <3>1. \A k \in S : k > x => k \in N
      BY <1>1, <2>2
    <3> QED
      BY <1>7, <1>11, <3>1
  <2>4. Cardinality(Above(x)) <= Cardinality(N)
    BY <1>5, <2>3
  <2>5. Cardinality(Above(x)) \in Nat /\ Cardinality(N) \in Nat
    BY <1>3, <2>3
  <2>6. Cardinality(Above(x)) < n
    BY <1>10, <2>4, <2>5
  <2> QED
    BY <1>4, <2>2, <2>6
<1> QED
  BY <1>7, <1>8, <1>9, <1>10 DEF N

-----------------------------------------------------------------------------
(* Types.  A batch to be stored is never empty and has one copy of each of  *)
(* its messages.                                                            *)

BatchInv ==
    /\ place = "flush" => held # {}
    /\ \A r, s \in held : r.msg = s.msg => r = s

TypeInv == TypeOK /\ BatchInv /\ \A m \in Msgs : hist[m].date <= now

LEMMA Constants ==
    /\ MaxMsgs \in Nat /\ MaxTime \in Nat /\ Lag \in Nat /\ Overlap \in Nat /\ Lookback \in Nat
    /\ Chunk \in Nat \ {0} /\ MaxTries \in Nat \ {0} /\ BatchSize \in Nat \ {0}
    /\ MaxText \in Nat \ {0}
    /\ Msgs \subseteq Int /\ Msgs \subseteq Nat /\ Time \subseteq Int
    /\ "none" \notin Channels
BY BoundsAssumption, KindsAssumption DEF Msgs, Time

LEMMA UpsertedTyped ==
    ASSUME TypeOK, NEW copies \in SUBSET Copies
    PROVE  /\ Upserted(copies) \in [Msgs -> [text : 0..MaxText, deleted : BOOLEAN]]
           /\ \A m \in Msgs : m \notin MsgsOf(copies) => Upserted(copies)[m] = raw[m]
           /\ \A m \in MsgsOf(copies) :
                \E r \in copies : r.msg = m /\ Upserted(copies)[m].text = r.text
           /\ \A m \in Msgs : Upserted(copies)[m].deleted = raw[m].deleted
<1> DEFINE Table == [text : 0..MaxText, deleted : BOOLEAN]
           Chosen(m) == CHOOSE r \in copies : r.msg = m
           Set(m) == [raw[m] EXCEPT !.text = Chosen(m).text]
<1>1. \A m \in Msgs : raw[m] \in Table
  BY DEF TypeOK
<1>2. \A m : m \in MsgsOf(copies) <=> \E r \in copies : r.msg = m
  BY DEF MsgsOf
<1>3. ASSUME NEW m \in MsgsOf(copies)
      PROVE  Chosen(m) \in copies /\ Chosen(m).msg = m /\ Chosen(m).text \in 1..MaxText /\ m \in Msgs
  <2>1. Chosen(m) \in copies /\ Chosen(m).msg = m
    BY <1>2
  <2> QED
    BY <2>1 DEF Copies
<1>4. \A m \in Msgs : Upserted(copies)[m] = IF m \in MsgsOf(copies) THEN Set(m) ELSE raw[m]
  BY <1>2 DEF Upserted
<1>5. ASSUME NEW m \in MsgsOf(copies)
      PROVE  Set(m) \in Table /\ Set(m).text = Chosen(m).text /\ Set(m).deleted = raw[m].deleted
  <2> HIDE DEF Chosen
  <2> QED
    BY <1>1, <1>3, Constants
<1> HIDE DEF Set, Chosen
<1>6. Upserted(copies) \in [Msgs -> Table]
  <2>1. \A m \in Msgs : Upserted(copies)[m] \in Table
    BY <1>1, <1>4, <1>5
  <2>2. Upserted(copies) = [m \in Msgs |-> Upserted(copies)[m]]
    BY DEF Upserted
  <2> QED
    BY <2>1, <2>2
<1> QED
  BY <1>3, <1>4, <1>5, <1>6

LEMMA EnqueuedTyped ==
    ASSUME TypeOK, NEW ids, NEW force
    PROVE  Enqueued(ids, force) \in [Msgs -> {"none", "pending", "done"}]
BY DEF TypeOK, Enqueued

(* The window and its messages. *)
LEMMA WindowTyped ==
    ASSUME TypeOK, NEW c \in Channels
    PROVE  /\ WindowOf(c) \in Windows
           /\ WindowOf(c).chan = c /\ WindowOf(c).since <= file.cursor[c]
           /\ WindowOf(c).until <= file.target
<1>1. file.cursor[c] \in Int /\ file.target \in Int
  BY DEF TypeOK, States
<1>2. /\ Min({file.target, file.cursor[c] + Chunk}) \in Int
      /\ Min({file.target, file.cursor[c] + Chunk}) <= file.target
  <2> DEFINE a == file.target
             b == file.cursor[c] + Chunk
  <2>1. a \in Int /\ b \in Int
    BY <1>1, Constants
  <2> HIDE DEF a, b
  <2>2. Min({a, b}) \in {a, b} /\ Min({a, b}) <= a
    BY <2>1, LeastOfTwo
  <2>3. Min({a, b}) \in Int /\ Min({a, b}) <= a
    BY <2>1, <2>2
  <2> QED
    BY <2>3 DEF a, b
<1> QED
  BY <1>1, <1>2, Constants DEF WindowOf, Windows

LEMMA CursorTyped ==
    ASSUME TypeOK, NEW c \in Channels, \A m \in Msgs : hist[m].date <= now
    PROVE  LatestCursor(c) \in Int /\ LatestCursor(c) <= now
<1> DEFINE mine == {m \in Msgs : Stored(m) /\ hist[m].chan = c}
           dates == {hist[m].date : m \in mine}
<1>1. now \in Int /\ now \in Time
  BY Constants DEF TypeOK
<1>2. CASE mine = {}
  BY <1>1, <1>2, Constants DEF LatestCursor
<1>3. CASE mine # {}
  <2>1. dates \in SUBSET (0..MaxTime) /\ dates # {}
    <3>1. \A m \in mine : hist[m].date \in 0..MaxTime
      BY DEF TypeOK, Posts, Time
    <3> QED
      BY <1>3, <3>1
  <2>2. Max(dates) \in dates
    BY <2>1, GreatestOfBounded, Constants
  <2>3. Max(dates) \in Int /\ Max(dates) <= now
    BY <2>1, <2>2
  <2> QED
    BY <1>3, <2>3 DEF LatestCursor
<1> QED
  BY <1>2, <1>3

LEMMA InWindowTyped ==
    ASSUME TypeOK
    PROVE  /\ InWindow \in SUBSET Msgs
           /\ {Copy(m) : m \in Newest(InWindow, BatchSize)} \subseteq Copies
           /\ MsgsOf({Copy(m) : m \in Newest(InWindow, BatchSize)}) = Newest(InWindow, BatchSize)
<1>1. InWindow \in SUBSET Msgs
  BY DEF InWindow, Readable
<1>2. Newest(InWindow, BatchSize) \subseteq InWindow
  BY DEF Newest
<1>3. \A m \in InWindow : Copy(m) \in Copies /\ Copy(m).msg = m
  BY Constants DEF InWindow, Readable, Posted, Copy, Copies, TypeOK, Posts
<1>4. {Copy(m) : m \in Newest(InWindow, BatchSize)} \subseteq Copies
  BY <1>2, <1>3
<1>5. MsgsOf({Copy(m) : m \in Newest(InWindow, BatchSize)}) = Newest(InWindow, BatchSize)
  BY <1>2, <1>3 DEF MsgsOf
<1> QED
  BY <1>1, <1>4, <1>5

LEMMA TypeInit == Init => TypeInv
<1> SUFFICES ASSUME Init PROVE TypeInv
  OBVIOUS
<1>1. now \in Time /\ hist \in [Msgs -> Posts] /\ \A m \in Msgs : hist[m].date <= now
  BY Constants DEF Init, Time, Posts
<1>2. file \in States /\ win \in Windows /\ call \in [msgs : SUBSET Msgs, force : BOOLEAN]
  BY DEF Init, NoFile, NoWindow, NoCall, States, Windows
<1>3. raw \in [Msgs -> [text : 0..MaxText, deleted : BOOLEAN]]
  BY Constants DEF Init
<1>4. pos \in 0..MaxMsgs + 1 /\ begun \in [Channels -> Int] /\ jobs \in [Msgs -> {"none", "pending", "done"}]
  BY Constants DEF Init
<1> QED
  BY <1>1, <1>2, <1>3, <1>4 DEF Init, TypeInv, TypeOK, BatchInv

LEMMA PostTyped ==
    ASSUME TypeInv, NEW m \in Msgs, NEW h \in Posts, h.date <= now
    PROVE  LET next == [hist EXCEPT ![m] = h]
           IN  next \in [Msgs -> Posts] /\ \A k \in Msgs : next[k].date <= now
BY DEF TypeInv, TypeOK

LEMMA DeliverTyped ==
    ASSUME TypeOK, NEW kind \in {"new", "edit", "delete"}, NEW m \in Msgs, NEW text \in 1..MaxText,
           Deliver(kind, m, text)
    PROVE  inbox' \subseteq Events
BY DEF TypeOK, Deliver, Events

LEMMA TelegramTyped == ASSUME TypeInv, Telegram PROVE TypeInv'
<1>1. CASE Tick
  <2>1. now' \in Time /\ \A m \in Msgs : hist'[m].date <= now'
    BY <1>1, Constants DEF Tick, TypeInv, TypeOK, Time, Posts
  <2> QED
    BY <1>1, <2>1 DEF Tick, liveVars, storeVars, catchVars, ghostVars, TypeInv, TypeOK, BatchInv
<1>2. ASSUME NEW c \in Channels, Post(c) PROVE TypeInv'
  <2>1. PICK m \in Msgs :
          /\ hist' = [hist EXCEPT ![m] = [chan |-> c, date |-> now, text |-> 1, gone |-> FALSE]]
          /\ Deliver("new", m, 1)
    BY <1>2 DEF Post
  <2> DEFINE h == [chan |-> c, date |-> now, text |-> 1, gone |-> FALSE]
  <2>2. h \in Posts /\ h.date <= now
    BY Constants DEF Posts, TypeInv, TypeOK
  <2> HIDE DEF h
  <2>3. hist' \in [Msgs -> Posts] /\ \A k \in Msgs : hist'[k].date <= now
    BY <2>1, <2>2, PostTyped DEF h
  <2>4. inbox' \subseteq Events
    BY <2>1, DeliverTyped, Constants DEF TypeInv
  <2> QED
    BY <1>2, <2>3, <2>4 DEF Post, storeVars, catchVars, ghostVars, TypeInv, TypeOK, BatchInv
<1>3. ASSUME NEW m \in Msgs, Edit(m) PROVE TypeInv'
  <2> DEFINE h == [hist[m] EXCEPT !.text = hist[m].text + 1]
  <2>1. hist[m] \in Posts /\ hist[m].date <= now /\ hist[m].text \in 1..MaxText
        /\ hist[m].text + 1 \in 1..MaxText
    BY <1>3, Constants DEF Edit, Posted, TypeInv, TypeOK, Posts
  <2>2. h \in Posts /\ h.date <= now
    BY <2>1, Constants DEF Posts
  <2>3. hist' = [hist EXCEPT ![m] = h]
    BY <1>3 DEF Edit
  <2> HIDE DEF h
  <2>4. hist' \in [Msgs -> Posts] /\ \A k \in Msgs : hist'[k].date <= now
    BY <2>2, <2>3, PostTyped
  <2>5. inbox' \subseteq Events
    BY <1>3, <2>1, DeliverTyped DEF Edit, TypeInv
  <2>6. stale' \subseteq Msgs
    BY <1>3 DEF Edit, TypeInv, TypeOK
  <2> QED
    BY <1>3, <2>4, <2>5, <2>6 DEF Edit, storeVars, catchVars, TypeInv, TypeOK, BatchInv
<1>4. ASSUME NEW m \in Msgs, Delete(m) PROVE TypeInv'
  <2> DEFINE h == [hist[m] EXCEPT !.gone = TRUE]
  <2>1. hist[m] \in Posts /\ hist[m].date <= now /\ hist[m].text \in 1..MaxText
    BY <1>4, Constants DEF Delete, Posted, TypeInv, TypeOK, Posts
  <2>2. h \in Posts /\ h.date <= now
    BY <2>1 DEF Posts
  <2>3. hist' = [hist EXCEPT ![m] = h]
    BY <1>4 DEF Delete
  <2> HIDE DEF h
  <2>4. hist' \in [Msgs -> Posts] /\ \A k \in Msgs : hist'[k].date <= now
    BY <2>2, <2>3, PostTyped
  <2>5. inbox' \subseteq Events
    BY <1>4, <2>1, DeliverTyped DEF Delete, TypeInv
  <2> QED
    BY <1>4, <2>4, <2>5 DEF Delete, storeVars, catchVars, ghostVars, TypeInv, TypeOK, BatchInv
<1> QED
  BY <1>1, <1>2, <1>3, <1>4 DEF Telegram

LEMMA FailTyped ==
    ASSUME TypeOK PROVE (\A kind : Fail(kind) => faults' \in Nat) /\ (NoFault => faults' \in Nat)
BY DEF TypeOK, Fail, NoFault

LEMMA IdleTyped ==
    ASSUME Idle
    PROVE  win' \in Windows /\ pos' \in 0..MaxMsgs + 1 /\ held' = {} /\ tries' \in Nat
BY Constants DEF Idle, NoWindow, Windows

LEMMA StopTyped ==
    ASSUME Stop
    PROVE  /\ win' \in Windows /\ pos' \in 0..MaxMsgs + 1 /\ held' = {} /\ tries' \in Nat
           /\ place' = "off" /\ todo' \subseteq Channels /\ moved' \in BOOLEAN
BY IdleTyped DEF Stop

LEMMA TailTyped == ASSUME TypeInv, Tail PROVE TypeInv'
<1>1. CASE Subscribe
  BY <1>1 DEF Subscribe, storeVars, catchVars, ghostVars, TypeInv, TypeOK, BatchInv
<1>2. CASE Enqueue
  <2>1. call' \in [msgs : SUBSET Msgs, force : BOOLEAN]
    BY <1>2 DEF Enqueue, NoCall
  <2>2. jobs' \in [Msgs -> {"none", "pending", "done"}] /\ missed' \subseteq Msgs
    BY <1>2, EnqueuedTyped DEF Enqueue, TypeInv, TypeOK
  <2>3. faults' \in Nat
    BY <1>2, FailTyped DEF Enqueue, TypeInv
  <2> QED
    BY <1>2, <2>1, <2>2, <2>3 DEF Enqueue, liveVars, catchVars, TypeInv, TypeOK, BatchInv
<1>3. ASSUME NEW e \in inbox, Handle(e) PROVE TypeInv'
  <2>1. e.msg \in Msgs /\ e.text \in 1..MaxText
    BY DEF TypeInv, TypeOK, Events
  <2> DEFINE copy == {[msg |-> e.msg, text |-> e.text]}
  <2>2. copy \in SUBSET Copies
    BY <2>1 DEF Copies
  <2> HIDE DEF copy
  <2>3. faults' \in Nat /\ inbox' \subseteq Events
    BY <1>3, FailTyped DEF Handle, TypeInv, TypeOK
  <2>4. Upserted(copy) \in [Msgs -> [text : 0..MaxText, deleted : BOOLEAN]]
    BY <2>2, UpsertedTyped DEF TypeInv
  <2>5. raw' \in [Msgs -> [text : 0..MaxText, deleted : BOOLEAN]]
    BY <1>3, <2>4 DEF Handle, copy, TypeInv, TypeOK
  <2>6. call' \in [msgs : SUBSET Msgs, force : BOOLEAN]
    <3> DEFINE forced == e.kind = "edit"
    <3>1. forced \in BOOLEAN
      OBVIOUS
    <3>2. \/ call' = [msgs |-> {e.msg}, force |-> forced]
          \/ call' = call
      BY <1>3 DEF Handle
    <3> HIDE DEF forced
    <3> QED
      BY <2>1, <3>1, <3>2 DEF TypeInv, TypeOK
  <2>7. Outdated(copy) \subseteq Msgs
    BY <2>2 DEF Outdated, Copies
  <2>8. stale' \subseteq Msgs /\ missed' \subseteq Msgs
    BY <1>3, <2>1, <2>7 DEF Handle, copy, TypeInv, TypeOK
  <2> QED
    BY <1>3, <2>3, <2>5, <2>6, <2>8 DEF Handle, catchVars, TypeInv, TypeOK, BatchInv
<1>4. ASSUME NEW e \in inbox, HandleDelete(e) PROVE TypeInv'
  <2>1. e.msg \in Msgs
    BY DEF TypeInv, TypeOK, Events
  <2>2. faults' \in Nat /\ inbox' \subseteq Events
    BY <1>4, FailTyped DEF HandleDelete, TypeInv, TypeOK
  <2>3. raw' \in [Msgs -> [text : 0..MaxText, deleted : BOOLEAN]]
    <3> DEFINE gone == raw[e.msg].deleted \/ Stored(e.msg)
    <3>1. gone \in BOOLEAN
      OBVIOUS
    <3>2. raw' = raw \/ raw' = [raw EXCEPT ![e.msg].deleted = gone]
      BY <1>4 DEF HandleDelete
    <3> HIDE DEF gone
    <3> QED
      BY <2>1, <3>1, <3>2 DEF TypeInv, TypeOK
  <2> QED
    BY <1>4, <2>2, <2>3 DEF HandleDelete, catchVars, ghostVars, TypeInv, TypeOK, BatchInv
<1> QED
  BY <1>1, <1>2, <1>3, <1>4 DEF Tail

LEMMA CatchupTyped == ASSUME TypeInv, Catchup PROVE TypeInv'
<1>1. CASE AwaitQueue
  BY <1>1 DEF AwaitQueue, liveVars, storeVars, ghostVars, TypeInv, TypeOK, BatchInv
<1>2. CASE OpenWindow
  <2>1. PICK c \in Behind : win' = WindowOf(c) /\ todo' = todo \ {c}
    BY <1>2 DEF OpenWindow
  <2>2. c \in Channels
    BY DEF Behind, TypeInv, TypeOK
  <2>3. win' \in Windows /\ pos' \in 0..MaxMsgs + 1 /\ tries' \in Nat
    BY <1>2, <2>1, <2>2, WindowTyped, Constants DEF OpenWindow, TypeInv
  <2> QED
    BY <1>2, <2>1, <2>3 DEF OpenWindow, liveVars, storeVars, ghostVars, TypeInv, TypeOK, BatchInv
<1>3. CASE EndPass
  <2>1. CASE moved
    BY <1>3, <2>1 DEF EndPass, liveVars, storeVars, ghostVars, TypeInv, TypeOK, BatchInv
  <2>2. CASE ~moved
    <3>1. file' \in States /\ Stop
      BY <1>3, <2>2 DEF EndPass, TypeInv, TypeOK, States
    <3> QED
      BY <1>3, <3>1, StopTyped DEF EndPass, liveVars, storeVars, ghostVars, TypeInv, TypeOK, BatchInv
  <2> QED
    BY <2>1, <2>2
<1>4. CASE Fetch
  <2>1. CASE Fail("fetch") /\ tries < MaxTries
    <3>1. faults' \in Nat /\ tries' \in Nat /\ pos' \in 0..MaxMsgs + 1
      BY <1>4, <2>1, FailTyped, Constants DEF Fetch, NoFault, Fail, TypeInv, TypeOK
    <3>2. UNCHANGED <<place, todo, moved, win, held>>
      BY <1>4, <2>1 DEF Fetch, NoFault, Fail, TypeInv, TypeOK
    <3> QED
      BY <1>4, <3>1, <3>2 DEF Fetch, liveVars, storeVars, ghostVars, TypeInv, TypeOK, BatchInv
  <2>2. CASE Stop /\ Fail("fetch")
    BY <1>4, <2>2, StopTyped, FailTyped DEF Fetch, liveVars, storeVars, ghostVars, TypeInv, TypeOK, BatchInv
  <2>3. CASE /\ NoFault
             /\ held' = {Copy(m) : m \in Newest(InWindow, BatchSize)}
             /\ place' = IF InWindow = {} THEN "advance" ELSE "flush"
             /\ UNCHANGED <<todo, moved, win, pos, tries>>
    <3>1. /\ InWindow \in SUBSET Msgs /\ held' \subseteq Copies
          /\ MsgsOf(held') = Newest(InWindow, BatchSize)
      BY <2>3, InWindowTyped DEF TypeInv
    <3>2. InWindow # {} => Newest(InWindow, BatchSize) # {}
      BY <3>1, NewestOf, Constants
    <3>3. BatchInv'
      <4> DEFINE N == Newest(InWindow, BatchSize)
      <4>1. \A r \in held' : \E m \in N : r = Copy(m)
        BY <2>3
      <4>2. \A m, k : Copy(m).msg = Copy(k).msg => Copy(m) = Copy(k)
        BY DEF Copy
      <4>3. \A r, s \in held' : r.msg = s.msg => r = s
        BY <4>1, <4>2
      <4>4. InWindow # {} => N # {}
        BY <3>2
      <4> HIDE DEF N
      <4>5. place' = "flush" => N # {}
        BY <2>3, <4>4
      <4>6. held' = {Copy(m) : m \in N}
        BY <2>3 DEF N
      <4>7. place' = "flush" => held' # {}
        BY <4>5, <4>6
      <4> QED
        BY <4>3, <4>7 DEF BatchInv
    <3>4. place' \in {"advance", "flush"}
      BY <2>3
    <3> QED
      BY <1>4, <2>3, <3>1, <3>3, <3>4 DEF Fetch, NoFault, liveVars, storeVars, ghostVars, TypeInv, TypeOK
  <2> QED
    BY <1>4, <2>1, <2>2, <2>3 DEF Fetch
<1>5. CASE Flush
  <2>1. place = "flush" /\ held # {} /\ held \in SUBSET Copies
    BY <1>5 DEF Flush, TypeInv, TypeOK, BatchInv
  <2>2. MsgsOf(held) \in SUBSET Msgs /\ MsgsOf(held) # {} /\ MsgsOf(held) \in SUBSET Nat
    BY <2>1, Constants DEF MsgsOf, Copies
  <2>3. pos' \in 0..MaxMsgs + 1
    <3>1. pos' \in Msgs
      BY <1>5, <2>2, LeastOfNaturals DEF Flush
    <3> QED
      BY <3>1, Constants DEF Msgs
  <2>4. Upserted(held) \in [Msgs -> [text : 0..MaxText, deleted : BOOLEAN]]
    BY <2>1, UpsertedTyped DEF TypeInv
  <2>5. raw' \in [Msgs -> [text : 0..MaxText, deleted : BOOLEAN]]
    BY <1>5, <2>4 DEF Flush, TypeInv, TypeOK
  <2>6. call' \in [msgs : SUBSET Msgs, force : BOOLEAN]
    <3> DEFINE ids == MsgsOf(held)
    <3>1. ids \in SUBSET Msgs
      BY <2>2
    <3>2. \/ call' = [msgs |-> ids, force |-> FALSE]
          \/ call' = call
      BY <1>5 DEF Flush
    <3>3. call \in [msgs : SUBSET Msgs, force : BOOLEAN]
      BY DEF TypeInv, TypeOK
    <3> HIDE DEF ids
    <3>4. [msgs |-> ids, force |-> FALSE] \in [msgs : SUBSET Msgs, force : BOOLEAN]
      BY <3>1
    <3> QED
      BY <3>2, <3>3, <3>4
  <2>7. Outdated(held) \subseteq Msgs
    BY <2>1 DEF Outdated, Copies
  <2>8. stale' \subseteq Msgs /\ refused' \subseteq Msgs /\ missed' \subseteq Msgs
    BY <1>5, <2>2, <2>7 DEF Flush, TypeInv, TypeOK
  <2>9. faults' \in Nat
    BY <1>5, FailTyped DEF Flush, TypeInv
  <2>10. held' = {} /\ place' \in {"advance", "fetch"}
    BY <1>5 DEF Flush
  <2> QED
    BY <1>5, <2>3, <2>5, <2>6, <2>8, <2>9, <2>10 DEF Flush, liveVars, TypeInv, TypeOK, BatchInv
<1>6. CASE Advance
  <2>1. win.until \in Int /\ file \in States
    BY DEF TypeInv, TypeOK, Windows
  <2>2. file' \in States
    BY <1>6, <2>1 DEF Advance, States
  <2> QED
    BY <1>6, <2>2, IdleTyped DEF Advance, liveVars, storeVars, ghostVars, TypeInv, TypeOK, BatchInv
<1> QED
  BY <1>1, <1>2, <1>3, <1>4, <1>5, <1>6 DEF Catchup

LEMMA StartTyped == ASSUME TypeInv, Start PROVE TypeInv'
<1>1. now \in Int
  BY Constants DEF TypeInv, TypeOK
<1>2. \A broken \in SUBSET Channels :
        InitialState(broken) \in States /\ InitialState(broken).cursor \in [Channels -> Int]
  BY <1>1, CursorTyped, Constants DEF InitialState, States, TypeInv
<1>3. file' \in States /\ begun' \in [Channels -> Int]
  BY <1>2 DEF Start, TypeInv, TypeOK
<1>4. faults' \in Nat
  BY FailTyped DEF Start, TypeInv
<1> QED
  BY <1>3, <1>4 DEF Start, storeVars, ghostVars, TypeInv, TypeOK, BatchInv

LEMMA TypeStep == ASSUME TypeInv, [Next]_vars PROVE TypeInv'
<1>1. CASE Crash
  <2>1. faults' \in Nat /\ call' \in [msgs : SUBSET Msgs, force : BOOLEAN]
    BY <1>1, FailTyped DEF Crash, NoCall, TypeInv
  <2>2. missed' \subseteq Msgs /\ stale' \subseteq Msgs
    BY <1>1 DEF Crash, TypeInv, TypeOK, Events
  <2> QED
    BY <1>1, <2>1, <2>2, StopTyped DEF Crash, TypeInv, TypeOK, BatchInv
<1>2. CASE GiveUp
  BY <1>2, StopTyped, FailTyped DEF GiveUp, liveVars, storeVars, ghostVars, TypeInv, TypeOK, BatchInv
<1>3. CASE Drain
  <2>1. jobs' \in [Msgs -> {"none", "pending", "done"}]
    BY <1>3 DEF Drain, TypeInv, TypeOK
  <2> QED
    BY <1>3, <2>1 DEF Drain, liveVars, catchVars, ghostVars, TypeInv, TypeOK, BatchInv
<1>4. CASE UNCHANGED vars
  BY <1>4 DEF vars, liveVars, storeVars, catchVars, ghostVars, TypeInv, TypeOK, BatchInv
<1> QED
  BY <1>1, <1>2, <1>3, <1>4, TelegramTyped, TailTyped, CatchupTyped, StartTyped DEF Next

LEMMA TypeAlways == Spec => []TypeInv
<1>1. TypeInv /\ [Next]_vars => TypeInv'
  BY TypeStep
<1> QED
  BY <1>1, TypeInit, PTL DEF Spec

(* Every variable keeps its type: in particular no batch is stored with no  *)
(* row in it, whose lowest id would be the next position.                   *)
THEOREM TypeCorrect == Spec => []TypeOK
<1>1. TypeInv => TypeOK
  BY DEF TypeInv
<1> QED
  BY <1>1, TypeAlways, PTL

-----------------------------------------------------------------------------
(* The store.  An older text in it is accounted for by an event that brings *)
(* a text: a deletion on its way would not do.                              *)

EditInv ==
    \A m \in Msgs : Stored(m) /\ raw[m].text < hist[m].text
                       => m \in stale \/ \E e \in inbox : e.msg = m /\ e.kind # "delete"

StoreInv == StoredIsEnqueued /\ EditInv

(* Actions that touch neither the tables nor the events.                    *)
LEMMA StoreStays ==
    ASSUME StoreInv, UNCHANGED <<hist, inbox, raw, jobs, call, missed, stale>>
    PROVE  StoreInv'
BY DEF StoreInv, StoredIsEnqueued, EditInv, Stored

(* Telegram tells the tail, or nobody, of an edit. *)
LEMMA StoreTelegram == ASSUME TypeInv, StoreInv, Telegram PROVE StoreInv'
<1>1. CASE Tick
  BY <1>1, StoreStays DEF Tick, liveVars, storeVars, ghostVars
<1>2. ASSUME NEW c \in Channels, Post(c) PROVE StoreInv'
  <2>1. PICK m \in Msgs :
          /\ hist' = [hist EXCEPT ![m] = [chan |-> c, date |-> now, text |-> 1, gone |-> FALSE]]
          /\ Deliver("new", m, 1)
    BY <1>2 DEF Post
  <2>2. UNCHANGED <<raw, jobs, call, missed, stale>> /\ inbox \subseteq inbox'
    BY <1>2, <2>1 DEF Post, storeVars, ghostVars, Deliver
  <2>3. hist'[m].text = 1 /\ \A k \in Msgs : k # m => hist'[k] = hist[k]
    BY <2>1 DEF TypeInv, TypeOK
  <2>4. \A k \in Msgs : raw[k].text \in Nat
    BY Constants DEF TypeInv, TypeOK
  <2>5. EditInv'
    BY <2>2, <2>3, <2>4 DEF StoreInv, EditInv, Stored
  <2> QED
    BY <2>2, <2>5 DEF StoreInv, StoredIsEnqueued, Stored
<1>3. ASSUME NEW m \in Msgs, Edit(m) PROVE StoreInv'
  <2>1. UNCHANGED <<raw, jobs, call, missed>> /\ inbox \subseteq inbox' /\ stale \subseteq stale'
    BY <1>3 DEF Edit, storeVars, Deliver
  <2>2. \A k \in Msgs : k # m => hist'[k] = hist[k]
    BY <1>3 DEF Edit
  <2>3. m \in stale' \/ \E e \in inbox' : e.msg = m /\ e.kind # "delete"
    <3> DEFINE e == [kind |-> "edit", msg |-> m, text |-> hist[m].text + 1]
    <3>1. CASE up = "up"
      <4>1. e \in inbox'
        BY <1>3, <3>1 DEF Edit, Deliver
      <4> QED
        BY <4>1
    <3>2. CASE up # "up"
      BY <1>3, <3>2 DEF Edit
    <3> QED
      BY <3>1, <3>2
  <2>4. EditInv'
    BY <2>1, <2>2, <2>3 DEF StoreInv, EditInv, Stored
  <2> QED
    BY <2>1, <2>4 DEF StoreInv, StoredIsEnqueued, Stored
<1>4. ASSUME NEW m \in Msgs, Delete(m) PROVE StoreInv'
  <2>1. UNCHANGED <<raw, jobs, call, missed, stale>> /\ inbox \subseteq inbox'
    BY <1>4 DEF Delete, storeVars, ghostVars, Deliver
  <2>2. \A k \in Msgs : hist'[k].text = hist[k].text
    BY <1>4 DEF Delete, TypeInv, TypeOK, Posts
  <2>3. EditInv'
    BY <2>1, <2>2 DEF StoreInv, EditInv, Stored
  <2> QED
    BY <2>1, <2>3 DEF StoreInv, StoredIsEnqueued, Stored
<1> QED
  BY <1>1, <1>2, <1>3, <1>4 DEF Telegram

(* An upsert: its messages are enqueued next, unless its answer is lost,    *)
(* and one whose copy is older than the agency's text is stale.             *)
LEMMA StoreUpsert ==
    ASSUME TypeInv, StoreInv, NEW copies \in SUBSET Copies, call = NoCall,
           \A r, s \in copies : r.msg = s.msg => r = s,
           raw' = Upserted(copies), missed \subseteq missed',
           \A m \in MsgsOf(copies) : m \in call'.msgs \/ m \in missed',
           stale' = (stale \ MsgsOf(copies)) \cup Outdated(copies),
           \A e \in inbox : e \in inbox' \/ e.msg \in MsgsOf(copies),
           UNCHANGED <<hist, jobs>>
    PROVE  StoreInv'
<1>1. \A m \in Msgs : m \notin MsgsOf(copies) => raw'[m] = raw[m]
  BY UpsertedTyped DEF TypeInv
<1>2. \A m \in MsgsOf(copies) : \E r \in copies : r.msg = m /\ raw'[m].text = r.text
  BY UpsertedTyped DEF TypeInv
<1>3. \A r \in copies : r.text < hist[r.msg].text => r.msg \in Outdated(copies)
  BY DEF Outdated
<1>4. call.msgs = {}
  BY DEF NoCall
<1>5. StoredIsEnqueued'
  BY <1>1, <1>4 DEF StoreInv, StoredIsEnqueued, Stored
<1>6. ASSUME NEW m \in Msgs, Stored(m)', raw'[m].text < hist'[m].text
      PROVE  m \in stale' \/ \E e \in inbox' : e.msg = m /\ e.kind # "delete"
  <2>1. CASE m \in MsgsOf(copies)
    BY <1>2, <1>3, <1>6, <2>1
  <2>2. CASE m \notin MsgsOf(copies)
    <3>1. Stored(m) /\ raw[m].text < hist[m].text
      BY <1>1, <1>6, <2>2 DEF Stored
    <3>2. m \in stale \/ \E e \in inbox : e.msg = m /\ e.kind # "delete"
      BY <3>1 DEF StoreInv, EditInv
    <3> QED
      BY <2>2, <3>2
  <2> QED
    BY <2>1, <2>2
<1>7. EditInv'
  BY <1>6 DEF EditInv
<1> QED
  BY <1>5, <1>7 DEF StoreInv

LEMMA StoreTail == ASSUME TypeInv, StoreInv, Tail PROVE StoreInv'
<1>1. CASE Subscribe
  BY <1>1, StoreStays DEF Subscribe, storeVars, ghostVars
<1>2. CASE Enqueue
  <2>1. UNCHANGED <<hist, inbox, raw, stale>> /\ call'.msgs = {} /\ missed \subseteq missed'
    BY <1>2 DEF Enqueue, liveVars, NoCall
  <2>2. \/ jobs' = jobs /\ missed' = missed \cup call.msgs
        \/ jobs' = Enqueued(call.msgs, call.force)
    BY <1>2 DEF Enqueue
  <2>3. \A m \in Msgs : jobs'[m] = "none" => jobs[m] = "none"
    BY <2>2 DEF Enqueued
  <2>4. \A m \in call.msgs : m \in Msgs /\ Stored(m) /\ jobs'[m] = "none" => m \in missed' \/ raw[m].deleted
    BY <2>2, <2>3 DEF Enqueued
  <2>5. StoredIsEnqueued'
    BY <2>1, <2>3, <2>4 DEF StoreInv, StoredIsEnqueued, Stored
  <2> QED
    BY <2>1, <2>5 DEF StoreInv, EditInv, Stored
<1>3. ASSUME NEW e \in inbox, Handle(e) PROVE StoreInv'
  <2> DEFINE copy == {[msg |-> e.msg, text |-> e.text]}
  <2>1. e.msg \in Msgs /\ e.text \in 1..MaxText
    BY DEF TypeInv, TypeOK, Events
  <2>2. copy \in SUBSET Copies /\ MsgsOf(copy) = {e.msg}
    BY <2>1 DEF Copies, MsgsOf
  <2>3. UNCHANGED <<hist, jobs>> /\ inbox' = inbox \ {e} /\ call = NoCall
    BY <1>3 DEF Handle
  <2>4. CASE UNCHANGED <<raw, call, missed>> /\ stale' = stale \cup {e.msg}
    <3>1. EditInv'
      BY <2>3, <2>4 DEF StoreInv, EditInv, Stored
    <3> QED
      BY <2>3, <2>4, <3>1 DEF StoreInv, StoredIsEnqueued, Stored
  <2>5. CASE /\ raw' = Upserted(copy)
             /\ stale' = (stale \ {e.msg}) \cup Outdated(copy)
             /\ \/ call'.msgs = {e.msg} /\ UNCHANGED missed
                \/ missed' = missed \cup {e.msg}
    <3>1. /\ stale' = (stale \ MsgsOf(copy)) \cup Outdated(copy)
          /\ missed \subseteq missed' /\ \A m \in MsgsOf(copy) : m \in call'.msgs \/ m \in missed'
      BY <2>2, <2>5
    <3>2. \A f \in inbox : f \in inbox' \/ f.msg \in MsgsOf(copy)
      BY <2>2, <2>3
    <3>3. \A r, s \in copy : r.msg = s.msg => r = s
      OBVIOUS
    <3> HIDE DEF copy
    <3> QED
      BY <2>2, <2>3, <2>5, <3>1, <3>2, <3>3, StoreUpsert
  <2>6. \/ UNCHANGED <<raw, call, missed>> /\ stale' = stale \cup {e.msg}
        \/ /\ raw' = Upserted(copy)
           /\ stale' = (stale \ {e.msg}) \cup Outdated(copy)
           /\ \/ call'.msgs = {e.msg} /\ UNCHANGED missed
              \/ missed' = missed \cup {e.msg}
    BY <1>3 DEF Handle
  <2> QED
    BY <2>4, <2>5, <2>6
<1>4. ASSUME NEW e \in inbox, HandleDelete(e) PROVE StoreInv'
  <2>1. e.kind = "delete" /\ inbox' = inbox \ {e} /\ UNCHANGED <<hist, jobs, call, missed, stale>>
    BY <1>4 DEF HandleDelete, ghostVars
  <2>2. \A m \in Msgs : raw'[m].text = raw[m].text /\ (raw[m].deleted => raw'[m].deleted)
    BY <1>4 DEF HandleDelete, TypeInv, TypeOK
  <2> QED
    BY <2>1, <2>2 DEF StoreInv, StoredIsEnqueued, EditInv, Stored
<1> QED
  BY <1>1, <1>2, <1>3, <1>4 DEF Tail

LEMMA StoreFlush == ASSUME TypeInv, StoreInv, Flush PROVE StoreInv'
<1>1. UNCHANGED <<hist, inbox, jobs>> /\ call = NoCall
  BY DEF Flush, liveVars
<1>2. CASE UNCHANGED <<raw, call, stale, missed>>
  BY <1>1, <1>2, StoreStays
<1>3. CASE /\ raw' = Upserted(held)
           /\ stale' = (stale \ MsgsOf(held)) \cup Outdated(held)
           /\ \/ call'.msgs = MsgsOf(held) /\ UNCHANGED missed
              \/ missed' = missed \cup MsgsOf(held)
  <2>1. held \in SUBSET Copies /\ \A r, s \in held : r.msg = s.msg => r = s
    BY DEF TypeInv, TypeOK, BatchInv
  <2>2. missed \subseteq missed' /\ \A m \in MsgsOf(held) : m \in call'.msgs \/ m \in missed'
    BY <1>3
  <2> QED
    BY <1>1, <1>3, <2>1, <2>2, StoreUpsert
<1>4. \/ UNCHANGED <<raw, call, stale, missed>>
      \/ /\ raw' = Upserted(held)
         /\ stale' = (stale \ MsgsOf(held)) \cup Outdated(held)
         /\ \/ call'.msgs = MsgsOf(held) /\ UNCHANGED missed
            \/ missed' = missed \cup MsgsOf(held)
  BY DEF Flush
<1> QED
  BY <1>2, <1>3, <1>4

LEMMA StoreStep == ASSUME TypeInv, StoreInv, [Next]_vars PROVE StoreInv'
<1>1. CASE Crash
  <2>1. /\ UNCHANGED <<hist, raw, jobs>> /\ call'.msgs = {} /\ missed' = missed \cup call.msgs
        /\ stale' = stale \cup {e.msg : e \in inbox}
    BY <1>1 DEF Crash, NoCall
  <2> QED
    BY <2>1 DEF StoreInv, StoredIsEnqueued, EditInv, Stored
<1>2. CASE Drain
  <2>1. UNCHANGED <<hist, inbox, raw, call, missed, stale>>
    BY <1>2 DEF Drain, liveVars, ghostVars
  <2>2. \A m \in Msgs : jobs'[m] = "none" => jobs[m] = "none"
    BY <1>2 DEF Drain
  <2> QED
    BY <2>1, <2>2 DEF StoreInv, StoredIsEnqueued, EditInv, Stored
<1>3. CASE Start \/ GiveUp \/ UNCHANGED vars
  BY <1>3, StoreStays DEF Start, GiveUp, vars, liveVars, storeVars, ghostVars
<1>4. CASE Catchup /\ ~Flush
  BY <1>4, StoreStays
     DEF Catchup, AwaitQueue, OpenWindow, EndPass, Fetch, Advance, liveVars, storeVars, ghostVars
<1> QED
  BY <1>1, <1>2, <1>3, <1>4, StoreTelegram, StoreTail, StoreFlush DEF Next, Catchup

LEMMA StoreAlways == Spec => []StoreInv
<1>1. Init => StoreInv
  BY DEF Init, StoreInv, StoredIsEnqueued, EditInv, Stored
<1>2. TypeInv /\ StoreInv /\ [Next]_vars => StoreInv'
  BY StoreStep
<1> QED
  BY <1>1, <1>2, TypeAlways, PTL DEF Spec

(* The enqueue follows the upsert in every path: a stored message has a     *)
(* job, unless it is deleted or its enqueue failed, was lost, or was never  *)
(* made because the answer of its upsert was lost, for any interleaving of  *)
(* the handlers with the batches of the catchup.                            *)
THEOREM RowsAreEnqueued == Spec => []StoredIsEnqueued
<1>1. StoreInv => StoredIsEnqueued
  BY DEF StoreInv
<1> QED
  BY <1>1, StoreAlways, PTL

(* An older text stays in the store only where an event that brings the     *)
(* newer one is on its way, or it went unheard, failed or was overwritten.  *)
THEOREM TextsCatchUp == Spec => []EditsReachTheStore
<1>1. StoreInv => EditsReachTheStore
  BY DEF StoreInv, EditInv, EditsReachTheStore
<1> QED
  BY <1>1, StoreAlways, PTL

-----------------------------------------------------------------------------
(* Coverage.  A window begins at or before the cursor and ends no later     *)
(* than the target, which is not in the future; of the messages in it, those *)
(* from `pos' on are dealt with, and a batch takes the newest of the others. *)

Done(m) == Stored(m) \/ m \in refused
Reading == place \in {"fetch", "flush", "advance"}
InSpan(m) == m \in Readable(win.chan) /\ win.since <= hist[m].date /\ hist[m].date < win.until

ClockInv == file.target <= now /\ \A c \in Channels : file.cursor[c] <= now

WindowInv ==
    Reading => /\ win.chan \in Channels
               /\ win.since <= file.cursor[win.chan]
               /\ win.until <= file.target

FlushInv ==
    place = "flush" =>
        \A m \in Msgs : InSpan(m) /\ m < pos /\ m \notin MsgsOf(held) =>
            /\ \A k \in MsgsOf(held) : m < k
            /\ Cardinality(held) >= BatchSize

ReadInv ==
    Reading => \A m \in Msgs : InSpan(m) /\ (m >= pos \/ place = "advance") => Done(m)

CoverInv == ClockInv /\ WindowInv /\ FlushInv /\ ReadInv /\ CatchupCovers

LEMMA CoverTypes ==
    ASSUME TypeOK
    PROVE  /\ now \in Int /\ file.target \in Int /\ win.since \in Int /\ win.until \in Int
           /\ \A c \in Channels : file.cursor[c] \in Int /\ begun[c] \in Int
           /\ \A m \in Msgs : hist[m].date \in Int
           /\ pos \in Int /\ IsFiniteSet(held) /\ Cardinality(held) \in Nat
           /\ MsgsOf(held) \in SUBSET Msgs
<1>1. now \in Int /\ \A m \in Msgs : hist[m].date \in Int
  BY Constants DEF TypeOK, Posts
<1>2. /\ file.target \in Int /\ win.since \in Int /\ win.until \in Int
      /\ \A c \in Channels : file.cursor[c] \in Int /\ begun[c] \in Int
  BY DEF TypeOK, States, Windows
<1>3. pos \in Int
  BY Constants DEF TypeOK
<1>4. IsFiniteSet(Copies)
  <2>1. IsFiniteSet(Msgs) /\ IsFiniteSet(1..MaxText)
    BY FS_Interval, Constants DEF Msgs
  <2>2. IsFiniteSet(Msgs \X (1..MaxText))
    BY <2>1, FS_Product
  <2> DEFINE made == [mt \in Msgs \X (1..MaxText) |-> [msg |-> mt[1], text |-> mt[2]]]
  <2>3. made \in Surjection(Msgs \X (1..MaxText), Copies)
    <3>1. made \in [Msgs \X (1..MaxText) -> Copies]
      BY DEF Copies
    <3>2. ASSUME NEW r \in Copies PROVE \E mt \in Msgs \X (1..MaxText) : made[mt] = r
      <4>1. r.msg \in Msgs /\ r.text \in 1..MaxText /\ r = [msg |-> r.msg, text |-> r.text]
        BY DEF Copies
      <4>2. <<r.msg, r.text>> \in Msgs \X (1..MaxText) /\ made[<<r.msg, r.text>>] = r
        BY <4>1
      <4> QED
        BY <4>2
    <3> QED
      BY <3>1, <3>2 DEF Surjection
  <2> QED
    BY <2>2, <2>3, FS_Surjection
<1>5. IsFiniteSet(held) /\ Cardinality(held) \in Nat
  BY <1>4, FS_Subset, FS_CardinalityType DEF TypeOK
<1>6. MsgsOf(held) \in SUBSET Msgs
  BY DEF TypeOK, MsgsOf, Copies
<1> QED
  BY <1>1, <1>2, <1>3, <1>5, <1>6

(* Whatever happens outside the catchup: a message posted now is dated      *)
(* after every window and cursor.                                           *)
LEMMA CoverStays ==
    ASSUME TypeInv, TypeInv', CoverInv, now <= now',
           \A m \in Msgs : Done(m) => Done(m)',
           \A m \in Msgs : hist'[m].text > 0 /\ ~hist'[m].gone =>
               \/ /\ Posted(m) /\ ~hist[m].gone
                  /\ hist'[m].chan = hist[m].chan /\ hist'[m].date = hist[m].date
               \/ hist'[m].date = now',
           file'.cursor = file.cursor, file'.target = file.target, begun' = begun,
           ~Reading' \/ UNCHANGED <<place, win, pos, held>>
    PROVE  CoverInv'
<1>1. /\ now \in Int /\ now' \in Int /\ file.target \in Int /\ win.until \in Int
      /\ \A c \in Channels : file.cursor[c] \in Int
  <2>1. now' \in Int
    BY Constants DEF TypeInv, TypeOK
  <2> QED
    BY <2>1, CoverTypes DEF TypeInv
<1>2. ClockInv'
  BY <1>1 DEF CoverInv, ClockInv
<1>3. WindowInv'
  BY DEF CoverInv, WindowInv, Reading
<1>4. ASSUME NEW m \in Msgs, Reading', InSpan(m)' PROVE Reading /\ InSpan(m)
  <2>1. UNCHANGED <<place, win, pos, held>> /\ Reading
    BY <1>4 DEF Reading
  <2>2. hist'[m].text > 0 /\ ~hist'[m].gone /\ hist'[m].chan = win.chan
        /\ win.since <= hist'[m].date /\ hist'[m].date < win.until
    BY <1>4, <2>1 DEF InSpan, Readable, Posted
  <2>3. win.until <= now
    BY <1>1, <2>1 DEF CoverInv, WindowInv, ClockInv
  <2>4. hist'[m].date # now'
    BY <1>1, <2>2, <2>3
  <2>5. Posted(m) /\ ~hist[m].gone /\ hist'[m].chan = hist[m].chan /\ hist'[m].date = hist[m].date
    BY <2>2, <2>4
  <2> QED
    BY <2>1, <2>2, <2>5 DEF InSpan, Readable
<1>5. FlushInv'
  <2> SUFFICES ASSUME place' = "flush", NEW m \in Msgs, InSpan(m)', m < pos', m \notin MsgsOf(held')
               PROVE  (\A k \in MsgsOf(held') : m < k) /\ Cardinality(held') >= BatchSize
    BY DEF FlushInv
  <2>1. Reading'
    BY DEF Reading
  <2>2. InSpan(m) /\ UNCHANGED <<place, pos, held>>
    BY <1>4, <2>1
  <2> QED
    BY <2>2 DEF CoverInv, FlushInv
<1>6. ReadInv'
  BY <1>4 DEF CoverInv, ReadInv
<1>7. CatchupCovers'
  <2> SUFFICES ASSUME NEW c \in Channels, NEW m \in Readable(c)',
                      begun'[c] <= hist'[m].date, hist'[m].date < file'.cursor[c]
               PROVE  Done(m)'
    BY DEF CatchupCovers, Done
  <2>1. m \in Msgs /\ hist'[m].text > 0 /\ ~hist'[m].gone /\ hist'[m].chan = c
    BY DEF Readable, Posted
  <2>2. file.cursor[c] <= now
    BY DEF CoverInv, ClockInv
  <2>3. hist'[m].date # now'
    BY <1>1, <2>2
  <2>4. Posted(m) /\ ~hist[m].gone /\ hist'[m].chan = hist[m].chan /\ hist'[m].date = hist[m].date
    BY <2>1, <2>3
  <2>5. m \in Readable(c)
    BY <2>1, <2>4 DEF Readable
  <2> QED
    BY <2>1, <2>4, <2>5 DEF CoverInv, CatchupCovers, Done
<1> QED
  BY <1>2, <1>3, <1>5, <1>6, <1>7 DEF CoverInv

(* Telegram's history only grows at the present. *)
LEMMA HistGrows ==
    ASSUME TypeInv, Telegram
    PROVE  /\ now <= now' /\ UNCHANGED <<raw, refused, catchVars>>
           /\ \A m \in Msgs : hist'[m].text > 0 /\ ~hist'[m].gone =>
               \/ /\ Posted(m) /\ ~hist[m].gone
                  /\ hist'[m].chan = hist[m].chan /\ hist'[m].date = hist[m].date
               \/ hist'[m].date = now'
<1>0. now \in Int /\ \A m \in Msgs : hist[m] \in Posts
  BY Constants DEF TypeInv, TypeOK
<1>1. CASE Tick
  BY <1>0, <1>1 DEF Tick, storeVars, ghostVars, Posted
<1>2. ASSUME NEW c \in Channels, Post(c), NEW m \in Msgs, hist'[m].text > 0, ~hist'[m].gone
      PROVE  \/ /\ Posted(m) /\ ~hist[m].gone
                /\ hist'[m].chan = hist[m].chan /\ hist'[m].date = hist[m].date
             \/ hist'[m].date = now'
  <2>1. PICK k \in Msgs :
          hist' = [hist EXCEPT ![k] = [chan |-> c, date |-> now, text |-> 1, gone |-> FALSE]]
    BY <1>2 DEF Post
  <2>2. now' = now /\ \A j \in Msgs : hist'[j] = IF j = k THEN [chan |-> c, date |-> now, text |-> 1, gone |-> FALSE]
                                                 ELSE hist[j]
    BY <1>2, <2>1 DEF Post, TypeInv, TypeOK
  <2> QED
    BY <1>2, <2>2 DEF Posted
<1>3. ASSUME NEW k \in Msgs, Edit(k) \/ Delete(k), NEW m \in Msgs, ~hist'[m].gone, hist'[m].text > 0
      PROVE  /\ Posted(m) /\ ~hist[m].gone
             /\ hist'[m].chan = hist[m].chan /\ hist'[m].date = hist[m].date
  <2>1. Posted(k) /\ ~hist[k].gone
    BY <1>3 DEF Edit, Delete
  <2>2. hist'[m].chan = hist[m].chan /\ hist'[m].date = hist[m].date
        /\ (m # k => hist'[m] = hist[m])
    BY <1>0, <1>3 DEF Edit, Delete, Posts, TypeInv, TypeOK
  <2> QED
    BY <1>3, <2>1, <2>2 DEF Posted
<1>4. now <= now' /\ UNCHANGED <<raw, refused, catchVars>>
  BY <1>0 DEF Telegram, Tick, Post, Edit, Delete, storeVars, ghostVars
<1> QED
  BY <1>1, <1>2, <1>3, <1>4 DEF Telegram

(* The store never loses a row. *)
LEMMA RowsStay ==
    ASSUME TypeInv, [Next]_vars, NEW m \in Msgs, Done(m) PROVE Done(m)'
<1>1. ASSUME NEW copies \in SUBSET Copies, raw' = Upserted(copies), Stored(m) PROVE Stored(m)'
  <2>1. \A r \in copies : r.text \in 1..MaxText
    BY DEF Copies
  <2>2. CASE m \in MsgsOf(copies)
    <3>1. raw'[m].text \in 1..MaxText
      BY <1>1, <2>1, <2>2, UpsertedTyped DEF TypeInv
    <3> QED
      BY <3>1, Constants DEF Stored
  <2>3. CASE m \notin MsgsOf(copies)
    BY <1>1, <2>3, UpsertedTyped DEF TypeInv, Stored
  <2> QED
    BY <2>2, <2>3
<1>2. CASE Flush
  <2>1. held \in SUBSET Copies
    BY DEF TypeInv, TypeOK
  <2> QED
    BY <1>1, <1>2, <2>1 DEF Flush, Done, Stored
<1>3. ASSUME NEW e \in inbox, Handle(e) PROVE Done(m)'
  <2> DEFINE copy == {[msg |-> e.msg, text |-> e.text]}
  <2>1. copy \in SUBSET Copies
    BY DEF TypeInv, TypeOK, Events, Copies
  <2>2. raw' = raw \/ raw' = Upserted(copy)
    BY <1>3 DEF Handle
  <2>3. refused' = refused
    BY <1>3 DEF Handle
  <2> HIDE DEF copy
  <2> QED
    BY <1>1, <2>1, <2>2, <2>3 DEF Done, Stored
<1>4. ASSUME NEW e \in inbox, HandleDelete(e) PROVE Done(m)'
  <2>1. raw'[m].text = raw[m].text /\ refused' = refused
    BY <1>4 DEF HandleDelete, ghostVars, TypeInv, TypeOK
  <2> QED
    BY <2>1 DEF Done, Stored
<1>5. CASE Telegram
  BY <1>5, HistGrows DEF Done, Stored
<1>6. CASE Start \/ Crash \/ Subscribe \/ Enqueue \/ GiveUp \/ Drain \/ UNCHANGED vars
  BY <1>6 DEF Start, Crash, Subscribe, Enqueue, GiveUp, Drain, vars, storeVars, ghostVars, Done, Stored
<1>7. CASE Catchup /\ ~Flush
  BY <1>7 DEF Catchup, AwaitQueue, OpenWindow, EndPass, Fetch, Advance, storeVars, ghostVars, Done, Stored
<1> QED
  BY <1>2, <1>3, <1>4, <1>5, <1>6, <1>7 DEF Next, Tail, Catchup

(* A state file begins covering nothing; one that is resumed covers what it *)
(* did.                                                                     *)
LEMMA CoverStart == ASSUME TypeInv, TypeInv', CoverInv, Start PROVE CoverInv'
<1>1. UNCHANGED <<now, hist, raw, refused>> /\ ~Reading'
  BY DEF Start, storeVars, ghostVars, Reading
<1>2. CASE UNCHANGED <<file, begun>>
  <2>1. now <= now'
    BY <1>1, CoverTypes DEF TypeInv
  <2> QED
    BY <1>1, <1>2, <2>1, CoverStays DEF Done, Stored, Posted
<1>3. ASSUME NEW broken \in SUBSET Channels, file' = InitialState(broken), begun' = InitialState(broken).cursor
      PROVE  CoverInv'
  <2>1. now \in Int
    BY CoverTypes DEF TypeInv
  <2>2. file'.target = now - Lag /\ file'.cursor = begun'
        /\ \A c \in Channels : file'.cursor[c] \in {now - Lookback, LatestCursor(c)}
    BY <1>3 DEF InitialState
  <2>3. \A c \in Channels : LatestCursor(c) \in Int /\ LatestCursor(c) <= now
    BY CursorTyped DEF TypeInv
  <2>4. file'.target <= now
    BY <2>1, <2>2, Constants
  <2>5. \A c \in Channels : file'.cursor[c] \in Int /\ file'.cursor[c] <= now
    BY <2>1, <2>2, <2>3, Constants
  <2>6. CatchupCovers'
    <3>1. \A m \in Msgs : hist'[m].date \in Int
      BY Constants DEF TypeInv, TypeOK, Posts
    <3> QED
      BY <2>2, <2>5, <3>1 DEF CatchupCovers, Readable
  <2> QED
    BY <1>1, <2>4, <2>5, <2>6 DEF CoverInv, ClockInv, WindowInv, FlushInv, ReadInv, Reading
<1> QED
  BY <1>2, <1>3 DEF Start

LEMMA CoverOpen == ASSUME TypeInv, TypeInv', CoverInv, OpenWindow PROVE CoverInv'
<1>1. PICK c \in Behind : win' = WindowOf(c)
  BY DEF OpenWindow
<1>2. c \in Channels
  BY DEF Behind, TypeInv, TypeOK
<1>3. win'.chan = c /\ win'.since <= file.cursor[c] /\ win'.until <= file.target
  BY <1>1, <1>2, WindowTyped DEF TypeInv
<1>4. UNCHANGED <<now, hist, raw, refused, file, begun>> /\ place' = "fetch" /\ pos' = MaxMsgs + 1
  BY DEF OpenWindow, storeVars, ghostVars
<1>5. \A m \in Msgs : ~(m >= pos')
  BY <1>4, Constants DEF Msgs
<1> QED
  BY <1>2, <1>3, <1>4, <1>5
     DEF CoverInv, ClockInv, WindowInv, FlushInv, ReadInv, CatchupCovers, Readable, Posted, Stored

LEMMA CoverFetch == ASSUME TypeInv, TypeInv', CoverInv, Fetch PROVE CoverInv'
<1>1. UNCHANGED <<now, hist, raw, refused, file, begun>> /\ place = "fetch" /\ Reading
  BY DEF Fetch, storeVars, ghostVars, Reading
<1>2. CASE Stop
  <2>1. now <= now' /\ ~Reading'
    BY <1>1, <1>2, CoverTypes DEF TypeInv, Stop, Reading
  <2> QED
    BY <1>1, <2>1, CoverStays DEF Done, Stored, Posted
<1>3. CASE pos' = MaxMsgs + 1 /\ UNCHANGED <<place, win>>
  <2>1. \A m \in Msgs : ~(m >= pos')
    BY <1>3, Constants DEF Msgs
  <2> QED
    BY <1>1, <1>3, <2>1
       DEF CoverInv, ClockInv, WindowInv, FlushInv, ReadInv, CatchupCovers, Readable, Posted, Stored, Reading
<1>4. CASE /\ held' = {Copy(m) : m \in Newest(InWindow, BatchSize)}
           /\ place' = IF InWindow = {} THEN "advance" ELSE "flush"
           /\ UNCHANGED <<win, pos>>
  <2> DEFINE N == Newest(InWindow, BatchSize)
  <2>1. InWindow \in SUBSET Msgs /\ MsgsOf(held') = N
    BY <1>4, InWindowTyped DEF TypeInv
  <2>2. \A m \in Msgs : InSpan(m)' <=> InSpan(m)
    BY <1>1, <1>4 DEF InSpan, Readable, Posted
  <2>3. \A m \in Msgs : InSpan(m) /\ m < pos <=> m \in InWindow
    BY DEF InSpan, InWindow, Readable
  <2>4. \A m \in InWindow \ N : \A k \in N : m < k
    BY <2>1, NewestOf, Constants
  <2>5. Cardinality(N) < BatchSize => N = InWindow
    BY <2>1, NewestOf, Constants
  <2>6. Cardinality(N) <= Cardinality(held') /\ Cardinality(N) \in Nat /\ Cardinality(held') \in Nat
    <3> DEFINE msg == [r \in held' |-> r.msg]
    <3>1. IsFiniteSet(N)
      <4>1. IsFiniteSet(Msgs)
        BY FS_Interval, Constants DEF Msgs
      <4>2. N \in SUBSET Msgs
        BY <2>1, NewestOf, Constants
      <4> QED
        BY <4>1, <4>2, FS_Subset
    <3>2. IsFiniteSet(held')
      <4> DEFINE made == [m \in N |-> Copy(m)]
      <4>1. made \in Surjection(N, held')
        BY <1>4 DEF Surjection
      <4> QED
        BY <3>1, <4>1, FS_Surjection
    <3>3. msg \in Surjection(held', N)
      BY <2>1 DEF Surjection, MsgsOf
    <3> QED
      BY <3>1, <3>2, <3>3, FS_Surjection, FS_CardinalityType
  <2>8. FlushInv'
    <3> SUFFICES ASSUME place' = "flush", NEW m \in Msgs, InSpan(m)', m < pos', m \notin MsgsOf(held')
                 PROVE  (\A k \in MsgsOf(held') : m < k) /\ Cardinality(held') >= BatchSize
      BY DEF FlushInv
    <3>1. m \in InWindow \ N
      BY <1>4, <2>1, <2>2, <2>3
    <3>2. Cardinality(N) >= BatchSize
      BY <2>5, <2>6, <3>1, Constants
    <3> QED
      BY <2>1, <2>4, <2>6, <3>1, <3>2, Constants
  <2>9. ReadInv'
    <3> SUFFICES ASSUME NEW m \in Msgs, InSpan(m)', m >= pos' \/ place' = "advance"
                 PROVE  Done(m)'
      BY DEF ReadInv
    <3>1. InSpan(m) /\ m >= pos
      <4>1. place' = "advance" => InWindow = {}
        BY <1>4
      <4>2. m \in Int /\ pos \in Int
        BY Constants, CoverTypes DEF TypeInv
      <4> QED
        BY <1>4, <2>2, <2>3, <4>1, <4>2
    <3>2. Done(m)
      BY <1>1, <3>1 DEF CoverInv, ReadInv
    <3> QED
      BY <1>1, <3>2 DEF Done, Stored
  <2> QED
    BY <1>1, <1>4, <2>8, <2>9
       DEF CoverInv, ClockInv, WindowInv, CatchupCovers, Readable, Posted, Stored, Reading
<1> QED
  BY <1>2, <1>3, <1>4 DEF Fetch

LEMMA CoverFlush == ASSUME TypeInv, TypeInv', CoverInv, Flush, [Next]_vars PROVE CoverInv'
<1>1. UNCHANGED <<now, hist, file, begun, win>> /\ place = "flush" /\ Reading /\ held # {}
  BY DEF Flush, Reading, TypeInv, BatchInv
<1>2. pos' \in MsgsOf(held) /\ \A k \in MsgsOf(held) : pos' <= k
  <2>1. MsgsOf(held) \in SUBSET Msgs /\ MsgsOf(held) # {}
    BY <1>1, CoverTypes DEF TypeInv, MsgsOf
  <2>2. MsgsOf(held) \in SUBSET Nat
    BY <2>1, Constants
  <2> QED
    BY <2>1, <2>2, LeastOfNaturals DEF Flush
<1>3. \A m \in MsgsOf(held) : m \in Msgs /\ Done(m)'
  <2>1. held \in SUBSET Copies /\ MsgsOf(held) \in SUBSET Msgs
    BY CoverTypes DEF TypeInv, TypeOK
  <2>2. \A m \in MsgsOf(held) : \E r \in held : r.text \in 1..MaxText /\ Upserted(held)[m].text = r.text
    BY <2>1, UpsertedTyped DEF TypeInv, Copies
  <2>3. raw' = Upserted(held) \/ refused' = refused \cup MsgsOf(held)
    BY DEF Flush
  <2> QED
    BY <2>1, <2>2, <2>3, Constants DEF Done, Stored
<1>4. \A m \in Msgs : InSpan(m)' <=> InSpan(m)
  BY <1>1 DEF InSpan, Readable, Posted
<1>5. ReadInv'
  <2> SUFFICES ASSUME NEW m \in Msgs, InSpan(m), m >= pos' \/ place' = "advance"
               PROVE  Done(m)'
    BY <1>4 DEF ReadInv
  <2>1. m \in Int /\ pos \in Int /\ pos' \in Int /\ Cardinality(held) \in Nat
    BY <1>2, <1>3, Constants, CoverTypes DEF TypeInv
  <2>2. CASE m >= pos
    <3>1. Done(m)
      BY <1>1, <2>2 DEF CoverInv, ReadInv
    <3> QED
      BY <3>1, RowsStay
  <2>3. CASE m \in MsgsOf(held)
    BY <1>3, <2>3
  <2>4. CASE m < pos /\ m \notin MsgsOf(held)
    <3>1. (\A k \in MsgsOf(held) : m < k) /\ Cardinality(held) >= BatchSize
      BY <1>1, <2>4 DEF CoverInv, FlushInv
    <3>2. m < pos'
      BY <1>2, <3>1
    <3>3. place' # "advance"
      BY <2>1, <3>1, Constants DEF Flush
    <3> QED
      BY <2>1, <3>2, <3>3
  <2> QED
    BY <2>1, <2>2, <2>3, <2>4
<1>6. CatchupCovers'
  <2>1. \A c : Readable(c)' = Readable(c)
    BY <1>1 DEF Readable, Posted
  <2>2. \A m \in Msgs : Done(m) => Done(m)'
    BY RowsStay
  <2> QED
    BY <1>1, <2>1, <2>2 DEF CoverInv, CatchupCovers, Readable, Done
<1> QED
  BY <1>1, <1>5, <1>6 DEF Flush, CoverInv, ClockInv, WindowInv, FlushInv, Reading

(* The cursor moves to the end of a window of which nothing is left. *)
LEMMA CoverAdvance == ASSUME TypeInv, TypeInv', CoverInv, Advance PROVE CoverInv'
<1>1. /\ UNCHANGED <<now, hist, raw, refused, begun>> /\ Reading /\ ~Reading'
      /\ place = "advance" /\ place' = "pass"
  BY DEF Advance, storeVars, ghostVars, Reading
<1>2. /\ win.chan \in Channels /\ win.since <= file.cursor[win.chan] /\ win.until <= file.target
      /\ file.target <= now
  BY <1>1 DEF CoverInv, WindowInv, ClockInv
<1>3. /\ file'.target = file.target
      /\ \A c \in Channels : file'.cursor[c] = IF c = win.chan THEN win.until ELSE file.cursor[c]
  BY <1>2 DEF Advance, TypeInv, TypeOK, States
<1>4. /\ now \in Int /\ file.target \in Int /\ win.since \in Int /\ win.until \in Int
      /\ \A c \in Channels : file.cursor[c] \in Int
      /\ \A m \in Msgs : hist[m].date \in Int
  BY CoverTypes DEF TypeInv
<1>5. ClockInv'
  BY <1>1, <1>2, <1>3, <1>4 DEF CoverInv, ClockInv
<1>6. CatchupCovers'
  <2> SUFFICES ASSUME NEW c \in Channels, NEW m \in Readable(c),
                      begun[c] <= hist[m].date, hist[m].date < file'.cursor[c]
               PROVE  Done(m)
    BY <1>1 DEF CatchupCovers, Readable, Posted, Done, Stored
  <2>1. m \in Msgs
    BY DEF Readable
  <2>2. CASE hist[m].date < file.cursor[c]
    BY <2>2 DEF CoverInv, CatchupCovers, Done
  <2>3. CASE ~(hist[m].date < file.cursor[c])
    <3>1. c = win.chan /\ hist[m].date < win.until
      BY <1>3, <2>3
    <3>2. win.since <= hist[m].date
      BY <1>2, <1>4, <2>1, <2>3, <3>1
    <3>3. InSpan(m)
      BY <3>1, <3>2 DEF InSpan
    <3> QED
      BY <1>1, <2>1, <3>3 DEF CoverInv, ReadInv
  <2> QED
    BY <2>2, <2>3
<1> QED
  BY <1>1, <1>5, <1>6 DEF CoverInv, WindowInv, FlushInv, ReadInv, Reading

LEMMA CoverStep == ASSUME TypeInv, TypeInv', CoverInv, [Next]_vars PROVE CoverInv'
<1>1. \A m \in Msgs : Done(m) => Done(m)'
  BY RowsStay
<1>2. CASE Telegram
  BY <1>1, <1>2, HistGrows, CoverStays DEF catchVars
<1>3. now \in Int
  BY CoverTypes DEF TypeInv
<1>4. CASE Tail \/ Drain \/ UNCHANGED vars
  <2>1. UNCHANGED <<now, hist, file, begun, place, win, pos, held>>
    BY <1>4 DEF Tail, Subscribe, Enqueue, Handle, HandleDelete, Drain, catchVars, vars
  <2> QED
    BY <1>1, <1>3, <2>1, CoverStays DEF Posted
<1>5. CASE Crash \/ GiveUp \/ AwaitQueue \/ EndPass
  <2>1. /\ UNCHANGED <<now, hist, begun>> /\ file'.cursor = file.cursor /\ file'.target = file.target
        /\ ~Reading'
    BY <1>5 DEF Crash, GiveUp, AwaitQueue, EndPass, Stop, Reading, TypeInv, TypeOK, States
  <2> QED
    BY <1>1, <1>3, <2>1, CoverStays DEF Posted
<1> QED
  BY <1>2, <1>4, <1>5, CoverStart, CoverOpen, CoverFetch, CoverFlush, CoverAdvance DEF Next, Catchup

LEMMA CoverAlways == Spec => []CoverInv
<1>1. Init => CoverInv
  BY DEF Init, NoFile, CoverInv, ClockInv, WindowInv, FlushInv, ReadInv, CatchupCovers, Reading,
         Readable, Posted
<1>2. TypeInv /\ TypeInv' /\ CoverInv /\ [Next]_vars => CoverInv'
  BY CoverStep
<1> QED
  BY <1>1, <1>2, TypeAlways, PTL DEF Spec

(* The cursor of a channel never passes a message that is neither stored    *)
(* nor refused by the store, for any lengths of windows, overlaps and       *)
(* batches, and any failures, crashes, posts and deletions between the      *)
(* reads of a window.                                                       *)
THEOREM NothingIsPassed == Spec => []CatchupCovers
<1>1. CoverInv => CatchupCovers
  BY DEF CoverInv
<1> QED
  BY <1>1, CoverAlways, PTL
=============================================================================
