----------------------------- MODULE TutorsProofs -----------------------------
(***************************************************************************)
(* Theorems about link codes and direct messages, for any tutors, chats,   *)
(* codes, budgets and failures.                                            *)
(***************************************************************************)
EXTENDS Tutors, FiniteSetTheorems, SequenceTheorems, TLAPS

(* ----------------------------------------------------------------------- *)
(* The bot: what it handled was sent.                                      *)

Updates == Seq([chat : Chats, code : Codes])
BotFields == {"offset", "next", "todo"}

BotOK(b, n) ==
    /\ DOMAIN b = BotFields
    /\ b.offset \in Nat /\ b.next \in Nat /\ b.todo \in Nat
    /\ b.todo # 0 => 1 <= b.next /\ b.todo <= n

BotInv ==
    /\ updates \in Updates
    /\ attempted \subseteq 1..Len(updates)
    /\ BotOK(bot, Len(updates))
    /\ confirmed \in Nat /\ saved \in Nat

LEMMA Length == ASSUME NEW s \in Updates PROVE Len(s) \in Nat /\ DOMAIN s = 1..Len(s)
BY LenProperties DEF Updates

LEMMA BatchOver == ASSUME NEW o \in Nat, NEW n \in Nat PROVE BotOK(NoBatch(o), n)
BY DEF BotOK, NoBatch, BotFields

LEMMA BotInit == Init => BotInv
<1> SUFFICES ASSUME Init PROVE BotInv
  OBVIOUS
<1>1. updates = <<>> /\ updates \in Updates
  BY EmptySeq DEF Init, Updates
<1>2. Len(updates) = 0 /\ 0 \in Nat
  BY <1>1
<1>3. bot = NoBatch(0) /\ confirmed = 0 /\ saved = 0 /\ attempted = {}
  BY DEF Init
<1> QED
  BY <1>1, <1>2, <1>3, BatchOver DEF BotInv

LEMMA MaxOfTwo ==
    ASSUME NEW a \in Nat, NEW b \in Nat
    PROVE  Max({a, b}) \in Nat /\ Max({a, b}) >= a /\ Max({a, b}) >= b
<1>1. \E x \in {a, b} : \A y \in {a, b} : x >= y
  <2>1. CASE a >= b
    BY <2>1
  <2>2. CASE b >= a
    BY <2>2
  <2> QED
    BY <2>1, <2>2
<1> QED
  BY <1>1 DEF Max

LEMMA MaxOfThree ==
    ASSUME NEW a \in Nat, NEW b \in Nat, NEW c \in Nat
    PROVE  Max({a, b, c}) \in Nat /\ Max({a, b, c}) >= a
<1>1. \E x \in {a, b, c} : \A y \in {a, b, c} : x >= y
  <2>1. CASE a >= b /\ a >= c
    BY <2>1
  <2>2. CASE b >= a /\ b >= c
    BY <2>2
  <2>3. CASE c >= a /\ c >= b
    BY <2>3
  <2> QED
    BY <2>1, <2>2, <2>3
<1> QED
  BY <1>1 DEF Max

LEMMA MinOfTwo ==
    ASSUME NEW a \in Nat, NEW b \in Int
    PROVE  Min({a, b}) \in Int /\ Min({a, b}) <= a
<1>1. \E x \in {a, b} : \A y \in {a, b} : x <= y
  <2>1. CASE a <= b
    BY <2>1
  <2>2. CASE b <= a
    BY <2>2
  <2> QED
    BY <2>1, <2>2
<1> QED
  BY <1>1 DEF Min

LEMMA MessageKeepsBot ==
    ASSUME BotInv, NEW chat \in Chats, NEW c \in Codes, Message(chat, c)
    PROVE  BotInv'
<1> DEFINE u == [chat |-> chat, code |-> c]
<1>1. updates' = Append(updates, u) /\ u \in [chat : Chats, code : Codes]
  BY DEF Message
<1>2. Len(updates) \in Nat
  BY Length DEF BotInv
<1>3. updates' \in Updates /\ Len(updates') = Len(updates) + 1
  BY <1>1, AppendProperties DEF BotInv, Updates
<1>4. UNCHANGED <<attempted, bot, confirmed, saved>>
  BY DEF Message
<1>5. BotOK(bot, Len(updates) + 1)
  BY <1>2 DEF BotInv, BotOK
<1>6. attempted \subseteq 1..(Len(updates) + 1)
  BY <1>2 DEF BotInv
<1> QED
  BY <1>3, <1>4, <1>5, <1>6 DEF BotInv

LEMMA PollKeepsBot == ASSUME BotInv, Poll PROVE BotInv'
<1> DEFINE first == Max({1, confirmed, bot.offset})
           last == Min({Len(updates), first + BatchLimit - 1})
<1>1. Len(updates) \in Nat
  BY Length DEF BotInv
<1>2. first \in Nat /\ first >= 1
  BY MaxOfThree DEF BotInv, BotOK
<1>3. first <= last /\ bot' = [bot EXCEPT !.next = first, !.todo = last]
  BY DEF Poll
<1> HIDE DEF first
<1>4. first + BatchLimit - 1 \in Int
  BY <1>2, TutorsAssumption
<1>5. last \in Int /\ last <= Len(updates)
  BY <1>1, <1>4, MinOfTwo
<1> HIDE DEF last
<1>6. last \in Nat
  BY <1>2, <1>3, <1>5
<1>7. BotOK(bot', Len(updates))
  BY <1>2, <1>3, <1>5, <1>6 DEF BotInv, BotOK, BotFields
<1>8. confirmed' \in Nat
  BY MaxOfTwo DEF Poll, Confirms, BotInv, BotOK
<1>9. UNCHANGED <<updates, attempted, saved>>
  BY DEF Poll
<1> QED
  BY <1>7, <1>8, <1>9 DEF BotInv

(* What handling an update does to the bot. *)
LEMMA Handled ==
    ASSUME BotInv, Handle
    PROVE  /\ bot.next \in 1..Len(updates)
           /\ attempted' = attempted \cup {bot.next}
           /\ UNCHANGED updates
<1>1. Len(updates) \in Nat
  BY Length DEF BotInv
<1>2. bot.todo # 0 /\ bot.next <= bot.todo
  BY DEF Handle
<1> QED
  BY <1>1, <1>2 DEF Handle, BotInv, BotOK

LEMMA HandleKeepsBot == ASSUME BotInv, Handle PROVE BotInv'
<1> DEFINE u == bot.next
           offset == Max({bot.offset, u + 1})
<1>1. Len(updates) \in Nat /\ u \in Nat /\ bot.offset \in Nat
  BY Length DEF BotInv, BotOK
<1>2. u + 1 \in Nat
  BY <1>1
<1>3. offset \in Nat
  BY <1>1, <1>2, MaxOfTwo
<1> HIDE DEF offset
<1>4. \/ bot' = [bot EXCEPT !.offset = offset, !.next = u + 1]
      \/ bot' = NoBatch(offset)
  BY DEF Handle, offset
<1>5. BotOK(bot', Len(updates))
  <2>1. CASE bot' = [bot EXCEPT !.offset = offset, !.next = u + 1]
    BY <1>1, <1>2, <1>3, <2>1 DEF BotInv, BotOK, BotFields
  <2>2. CASE bot' = NoBatch(offset)
    BY <1>1, <1>3, <2>2, BatchOver
  <2> QED
    BY <1>4, <2>1, <2>2
<1>6. attempted' \subseteq 1..Len(updates)
  BY Handled DEF BotInv
<1>7. UNCHANGED <<updates, confirmed, saved>>
  BY DEF Handle
<1> QED
  BY <1>5, <1>6, <1>7 DEF BotInv

LEMMA BotStays == ASSUME BotInv, UNCHANGED botVars PROVE BotInv'
BY DEF BotInv, botVars

LEMMA BotInvStep == BotInv /\ [Next]_vars => BotInv'
<1> SUFFICES ASSUME BotInv, [Next]_vars PROVE BotInv'
  OBVIOUS
<1>0. Len(updates) \in Nat /\ bot.offset \in Nat /\ saved \in Nat
  BY Length DEF BotInv, BotOK
<1>1. CASE SaveOffset
  <2>1. bot' = NoBatch(bot.offset) /\ saved' \in {bot.offset, saved}
    BY <1>1 DEF SaveOffset
  <2>2. BotOK(bot', Len(updates)) /\ saved' \in Nat
    BY <1>0, <2>1, BatchOver
  <2>3. UNCHANGED <<updates, attempted, confirmed>>
    BY <1>1 DEF SaveOffset
  <2> QED
    BY <2>2, <2>3 DEF BotInv
<1>2. CASE BotRestart
  <2>1. BotOK(bot', Len(updates))
    BY <1>0, <1>2, BatchOver DEF BotRestart
  <2>2. UNCHANGED <<updates, attempted, confirmed, saved>>
    BY <1>2 DEF BotRestart
  <2> QED
    BY <2>1, <2>2 DEF BotInv
<1>3. CASE Poll
  BY <1>3, PollKeepsBot
<1>4. CASE Handle
  BY <1>4, HandleKeepsBot
<1>5. CASE \E chat \in Chats, c \in Codes : Message(chat, c)
  BY <1>5, MessageKeepsBot
<1>6. CASE UNCHANGED botVars
  BY <1>6, BotStays
<1>7. CASE \/ \E t \in Tutors, s \in Saves : Save(t, s)
           \/ \E t \in Tutors : Delete(t)
           \/ \E t \in Tutors, c \in Codes : CreateCode(t, c)
           \/ \E c \in Codes : Expire(c)
           \/ \E cl \in claims : SetChat(cl)
           \/ RedisDown \/ RedisUp \/ BackendRestart
           \/ \E a \in Adverts : StartDms(a)
           \/ \E t \in Tutors : MatchOne(t)
           \/ Matched
           \/ \E r \in dms.to : Send(r)
  BY <1>6, <1>7 DEF Save, Delete, CreateCode, Expire, SetChat, RedisDown, RedisUp, BackendRestart,
                    StartDms, MatchOne, Matched, Send
<1>8. CASE UNCHANGED vars
  BY <1>6, <1>8 DEF vars
<1> QED
  BY <1>1, <1>2, <1>3, <1>4, <1>5, <1>7, <1>8 DEF Next, BotStep

(* ----------------------------------------------------------------------- *)
(* Codes: each copy a code was written to is there to be spent once.       *)

In(k, c) == IF c \in stored[k] THEN 1 ELSE 0

CodeInv ==
    /\ owner \in [Codes -> Tutors \cup {None}]
    /\ stored = [k \in Copies |-> stored[k]]
    /\ \A k \in Copies : stored[k] \subseteq {c \in Codes : owner[c] # None}
    /\ written \in [Codes -> Nat] /\ spent \in [Codes -> Nat]
    /\ \A c \in Codes : owner[c] = None => written[c] = 0
    /\ \A c \in Codes : spent[c] + In("redis", c) + In("memory", c) <= written[c]

LEMMA CodeInit == Init => CodeInv
<1> SUFFICES ASSUME Init PROVE CodeInv
  OBVIOUS
<1>1. /\ owner = [c \in Codes |-> None] /\ stored = [k \in Copies |-> {}]
      /\ written = [c \in Codes |-> 0] /\ spent = [c \in Codes |-> 0]
  BY DEF Init
<1>2. \A c \in Codes : In("redis", c) = 0 /\ In("memory", c) = 0
  BY <1>1 DEF In, Copies
<1> QED
  BY <1>1, <1>2 DEF CodeInv

LEMMA LandingSize ==
    ASSUME NEW landing \in Landings
    PROVE  /\ landing \subseteq Copies
           /\ Cardinality(landing) \in Nat
           /\ Cardinality(landing) = (IF "redis" \in landing THEN 1 ELSE 0)
                                       + (IF "memory" \in landing THEN 1 ELSE 0)
<1>1. landing \in {{"redis"}, {"memory"}, {"redis"} \cup {"memory"}}
  BY DEF Landings, Copies
<1>2. IsFiniteSet({"redis"}) /\ Cardinality({"redis"}) = 1 /\ Cardinality({"memory"}) = 1
  BY FS_Singleton
<1>3. Cardinality({"redis"} \cup {"memory"}) = 2
  BY <1>2, FS_AddElement
<1>4. CASE landing = {"redis"}
  BY <1>2, <1>4 DEF Copies
<1>5. CASE landing = {"memory"}
  BY <1>2, <1>5 DEF Copies
<1>6. CASE landing = {"redis"} \cup {"memory"}
  <2>1. Cardinality(landing) = 2
    BY <1>3, <1>6
  <2>2. "redis" \in landing /\ "memory" \in landing /\ landing \subseteq Copies
    BY <1>6 DEF Copies
  <2> QED
    BY <2>1, <2>2
<1> QED
  BY <1>1, <1>4, <1>5, <1>6

LEMMA CreateKeepsCodes ==
    ASSUME CodeInv, NEW t \in Tutors, NEW c \in Codes, CreateCode(t, c)
    PROVE  CodeInv'
<1>1. PICK landing \in Landings :
        /\ stored' = [k \in Copies |-> IF k \in landing THEN stored[k] \cup {c} ELSE stored[k]]
        /\ written' = [written EXCEPT ![c] = Cardinality(landing)]
  BY DEF CreateCode
<1>2. owner[c] = None /\ owner' = [owner EXCEPT ![c] = t] /\ spent' = spent
  BY DEF CreateCode
<1>3. owner' \in [Codes -> Tutors \cup {None}] /\ t # None
  BY <1>2, TutorsAssumption DEF CodeInv
<1>4. written' \in [Codes -> Nat]
  BY <1>1, LandingSize DEF CodeInv
<1>5. \A k \in Copies : stored'[k] \subseteq {d \in Codes : owner'[d] # None}
  BY <1>1, <1>2, <1>3 DEF CodeInv
<1>6. \A d \in Codes : owner'[d] = None => written'[d] = 0
  BY <1>1, <1>2, <1>3 DEF CodeInv
<1>7. ASSUME NEW d \in Codes
      PROVE  spent'[d] + In("redis", d)' + In("memory", d)' <= written'[d]
  <2>1. CASE d # c
    <3>1. In("redis", d)' = In("redis", d) /\ In("memory", d)' = In("memory", d)
      BY <1>1, <2>1 DEF In, Copies
    <3>2. written'[d] = written[d]
      BY <1>1, <2>1 DEF CodeInv
    <3> QED
      BY <1>2, <3>1, <3>2 DEF CodeInv
  <2>2. CASE d = c
    <3>1. c \notin stored["redis"] /\ c \notin stored["memory"]
      BY <1>2 DEF CodeInv, Copies
    <3>2. /\ In("redis", c)' = IF "redis" \in landing THEN 1 ELSE 0
          /\ In("memory", c)' = IF "memory" \in landing THEN 1 ELSE 0
      BY <1>1, <3>1 DEF In, Copies
    <3>3. spent[c] = 0
      <4>1. written[c] = 0 /\ spent[c] \in Nat
        BY <1>2 DEF CodeInv
      <4>2. spent[c] + 0 + 0 <= written[c]
        BY <3>1 DEF CodeInv, In
      <4> QED
        BY <4>1, <4>2
    <3>4. written'[c] = Cardinality(landing)
      BY <1>1 DEF CodeInv
    <3> QED
      BY <1>2, <2>2, <3>2, <3>3, <3>4, LandingSize
  <2> QED
    BY <2>1, <2>2
<1> QED
  BY <1>1, <1>2, <1>3, <1>4, <1>5, <1>6, <1>7 DEF CodeInv

(* A step that adds no code and takes some out of the store. *)
LEMMA FewerCodes ==
    ASSUME CodeInv, UNCHANGED <<owner, written, spent>>,
           stored' = [k \in Copies |-> stored'[k]],
           \A k \in Copies : stored'[k] \subseteq stored[k]
    PROVE  CodeInv'
<1>1. ASSUME NEW c \in Codes
      PROVE  spent[c] + In("redis", c)' + In("memory", c)' <= written[c]
  <2>1. In("redis", c)' \in {0, In("redis", c)} /\ In("memory", c)' \in {0, In("memory", c)}
    BY DEF In, Copies
  <2>2. In("redis", c) \in Nat /\ In("memory", c) \in Nat
    BY DEF In
  <2>3. spent[c] \in Nat /\ written[c] \in Nat
    BY DEF CodeInv
  <2>4. spent[c] + In("redis", c) + In("memory", c) <= written[c]
    BY DEF CodeInv
  <2> HIDE DEF In
  <2> QED
    BY <2>1, <2>2, <2>3, <2>4
<1>2. \A k \in Copies : stored'[k] \subseteq {c \in Codes : owner[c] # None}
  BY DEF CodeInv
<1> QED
  BY <1>1, <1>2 DEF CodeInv

LEMMA ClaimKeepsCodes ==
    ASSUME CodeInv, NEW chat, NEW c \in Codes, NEW n, Claim(chat, c, n), UNCHANGED <<owner, written>>
    PROVE  CodeInv'
<1>1. PICK landing \in Landings :
        /\ stored' = Consumed(landing, c)
        /\ IF Accepted(landing, c)
           THEN spent' = [spent EXCEPT ![c] = spent[c] + 1]
           ELSE spent' = spent
  BY DEF Claim
<1>2. /\ stored' = [k \in Copies |-> stored'[k]]
      /\ \A k \in Copies : stored'[k] = IF k \in landing THEN stored[k] \ {c} ELSE stored[k]
  BY <1>1 DEF Consumed
<1>3. CASE ~Accepted(landing, c)
  BY <1>1, <1>2, <1>3, FewerCodes
<1>4. CASE Accepted(landing, c)
  <2>1. spent' = [spent EXCEPT ![c] = spent[c] + 1]
    BY <1>1, <1>4
  <2>2. spent' \in [Codes -> Nat]
    BY <2>1 DEF CodeInv
  <2>3. \A k \in Copies : stored'[k] \subseteq {d \in Codes : owner[d] # None}
    BY <1>2 DEF CodeInv
  <2>4. ASSUME NEW d \in Codes
        PROVE  spent'[d] + In("redis", d)' + In("memory", d)' <= written[d]
    <3>0. /\ spent[d] \in Nat /\ written[d] \in Nat
          /\ spent[d] + In("redis", d) + In("memory", d) <= written[d]
      BY DEF CodeInv
    <3>1. CASE d # c
      <4>1. In("redis", d)' = In("redis", d) /\ In("memory", d)' = In("memory", d)
        BY <1>2, <3>1 DEF In, Copies
      <4>2. spent'[d] = spent[d]
        BY <2>1, <3>1 DEF CodeInv
      <4> QED
        BY <3>0, <4>1, <4>2
    <3>2. CASE d = c
      <4>1. spent'[c] = spent[c] + 1
        BY <2>1 DEF CodeInv
      <4>2. \/ In("memory", c) = 1 /\ In("memory", c)' = 0
            \/ In("redis", c) = 1 /\ In("redis", c)' = 0
        BY <1>2, <1>4, LandingSize DEF Accepted, In, Copies, Landings
      <4>3. In("redis", c)' \in {0, In("redis", c)} /\ In("memory", c)' \in {0, In("memory", c)}
        BY <1>2 DEF In, Copies
      <4>4. In("redis", c) \in Nat /\ In("memory", c) \in Nat
        BY DEF In
      <4> HIDE DEF In
      <4>5. In("redis", c)' + In("memory", c)' + 1 <= In("redis", c) + In("memory", c)
        BY <4>2, <4>3, <4>4
      <4>6. In("redis", c)' \in Nat /\ In("memory", c)' \in Nat
        BY <4>3, <4>4
      <4> QED
        BY <3>0, <3>2, <4>1, <4>4, <4>5, <4>6
    <3> QED
      BY <3>1, <3>2
  <2> QED
    BY <1>2, <2>2, <2>3, <2>4 DEF CodeInv
<1> QED
  BY <1>3, <1>4

LEMMA CodesStay == ASSUME CodeInv, UNCHANGED <<owner, stored, written, spent>> PROVE CodeInv'
BY DEF CodeInv, In

LEMMA CodeStep == BotInv /\ CodeInv /\ [Next]_vars => CodeInv'
<1> SUFFICES ASSUME BotInv, CodeInv, [Next]_vars PROVE CodeInv'
  OBVIOUS
<1>1. CASE \E t \in Tutors, c \in Codes : CreateCode(t, c)
  BY <1>1, CreateKeepsCodes
<1>2. CASE \E c \in Codes : Expire(c)
  <2>1. PICK c \in Codes : stored' = [stored EXCEPT !["redis"] = stored["redis"] \ {c}]
    BY <1>2 DEF Expire
  <2>2. /\ stored' = [k \in Copies |-> stored'[k]]
        /\ \A k \in Copies : stored'[k] \subseteq stored[k]
    BY <2>1 DEF CodeInv, Copies
  <2>3. UNCHANGED <<owner, written, spent>>
    BY <1>2 DEF Expire
  <2> QED
    BY <2>2, <2>3, FewerCodes
<1>3. CASE BackendRestart
  <2>1. stored' = [stored EXCEPT !["memory"] = {}]
    BY <1>3 DEF BackendRestart
  <2>2. /\ stored' = [k \in Copies |-> stored'[k]]
        /\ \A k \in Copies : stored'[k] \subseteq stored[k]
    BY <2>1 DEF CodeInv, Copies
  <2>3. UNCHANGED <<owner, written, spent>>
    BY <1>3 DEF BackendRestart
  <2> QED
    BY <2>2, <2>3, FewerCodes
<1>4. CASE Handle
  <2>1. updates[bot.next].code \in Codes
    <3>1. updates \in Seq([chat : Chats, code : Codes]) /\ bot.next \in 1..Len(updates)
      BY <1>4, Handled DEF BotInv, Updates
    <3>2. updates[bot.next] \in [chat : Chats, code : Codes]
      BY <3>1, ElementOfSeq
    <3> QED
      BY <3>2
  <2>2. UNCHANGED <<owner, written>>
    BY <1>4 DEF Handle
  <2>3. CASE \E n \in 0..1 : Claim(updates[bot.next].chat, updates[bot.next].code, n)
    BY <2>1, <2>2, <2>3, ClaimKeepsCodes
  <2>4. CASE UNCHANGED <<stored, claims, spent>>
    BY <2>2, <2>4, CodesStay
  <2> QED
    BY <1>4, <2>3, <2>4 DEF Handle
<1>5. CASE UNCHANGED <<owner, stored, written, spent>>
  BY <1>5, CodesStay
<1>6. CASE \/ \E t \in Tutors, s \in Saves : Save(t, s)
           \/ \E t \in Tutors : Delete(t)
           \/ \E cl \in claims : SetChat(cl)
           \/ RedisDown \/ RedisUp
           \/ \E chat \in Chats, c \in Codes : Message(chat, c)
           \/ Poll \/ SaveOffset \/ BotRestart
           \/ \E a \in Adverts : StartDms(a)
           \/ \E t \in Tutors : MatchOne(t)
           \/ Matched
           \/ \E r \in dms.to : Send(r)
  BY <1>5, <1>6 DEF Save, Delete, SetChat, RedisDown, RedisUp, Message, Poll, SaveOffset,
                    BotRestart, StartDms, MatchOne, Matched, Send, storeVars
<1>7. CASE UNCHANGED vars
  BY <1>5, <1>7 DEF vars, storeVars
<1> QED
  BY <1>1, <1>2, <1>3, <1>4, <1>6, <1>7 DEF Next, BotStep

(* ----------------------------------------------------------------------- *)
(* Profiles and links.                                                     *)

Keys == {"chat", "postal", "coords", "radius", "pairs", "subjects", "levels"}

(* A profile, with the coordinates of its postal code. *)
Placed(p) == DOMAIN p = Keys /\ (p.coords # None => p.coords = p.postal)
Linked(p, t) == p.chat # None => ChatOf(p.chat, t)

LinkInv ==
    /\ profile = [k \in Copies |-> profile[k]]
    /\ \A k \in Copies : profile[k] = [t \in Tutors |-> profile[k][t]]
    /\ \A k \in Copies, t \in Tutors : Placed(profile[k][t]) /\ Linked(profile[k][t], t)
    /\ \A cl \in claims : cl.tutor \in Tutors /\ ChatOf(cl.chat, cl.tutor)

LEMMA BlankProfile == Placed(Blank) /\ Blank.chat = None
BY DEF Placed, Blank, Keys

LEMMA LinkInit == Init => LinkInv
<1> SUFFICES ASSUME Init PROVE LinkInv
  OBVIOUS
<1>1. profile = [k \in Copies |-> IF k = "redis" THEN Known ELSE [t \in Tutors |-> Blank]]
  BY DEF Init
<1>2. claims = {}
  BY DEF Init
<1>3. ASSUME NEW t \in Tutors PROVE Placed(Known[t]) /\ Known[t].chat = None
  <2>1. Known[t] \in Profile /\ Known[t].chat = None /\ Known[t].coords \in {None, Known[t].postal}
    BY TutorsAssumption
  <2> QED
    BY <2>1 DEF Placed, Profile, Keys
<1>4. Known = [t \in Tutors |-> Known[t]]
  BY TutorsAssumption
<1> QED
  BY <1>1, <1>2, <1>3, <1>4, BlankProfile DEF LinkInv, Linked

(* ChatOf in the next state, of a chat and a tutor of any state. *)
LinkedNext(chat, t) ==
    \/ \E u \in attempted' : updates'[u].chat = chat /\ owner'[updates'[u].code] = t
    \/ [tutor |-> t, chat |-> chat] \in declared'

(* Chats that were linked by a code stay linked by it. *)
LEMMA CodeLinkStays ==
    ASSUME BotInv, CodeInv, [Next]_vars, NEW chat, NEW t \in Tutors, LinkedBy(chat, t)
    PROVE  \E u \in attempted' : updates'[u].chat = chat /\ owner'[updates'[u].code] = t
<1>1. PICK u \in attempted : updates[u].chat = chat /\ owner[updates[u].code] = t
  BY DEF LinkedBy
<1>2. Len(updates) \in Nat /\ u \in 1..Len(updates) /\ t # None
  BY Length, TutorsAssumption DEF BotInv
<1>3. attempted \subseteq attempted'
  BY DEF Next, Save, Delete, CreateCode, Expire, SetChat, RedisDown, RedisUp, BackendRestart,
         Message, BotStep, Poll, Handle, SaveOffset, BotRestart, StartDms, MatchOne, Matched,
         Send, vars, botVars
<1>4. updates'[u] = updates[u]
  <2>1. CASE \E d \in Chats, c \in Codes : Message(d, c)
    <3>1. PICK d \in Chats, c \in Codes : updates' = Append(updates, [chat |-> d, code |-> c])
      BY <2>1 DEF Message
    <3> QED
      BY <1>2, <3>1, AppendProperties DEF BotInv, Updates
  <2>2. CASE UNCHANGED updates
    BY <2>2
  <2> QED
    BY <2>1, <2>2
       DEF Next, Save, Delete, CreateCode, Expire, SetChat, RedisDown, RedisUp, BackendRestart,
           BotStep, Poll, Handle, SaveOffset, BotRestart, StartDms, MatchOne, Matched, Send,
           vars, botVars
<1>5. updates[u].code \in Codes
  <2>1. updates \in Seq([chat : Chats, code : Codes])
    BY DEF BotInv, Updates
  <2>2. updates[u] \in [chat : Chats, code : Codes]
    BY <1>2, <2>1, ElementOfSeq
  <2> QED
    BY <2>2
<1>6. owner'[updates[u].code] = t
  <2>1. CASE \E s \in Tutors, c \in Codes : CreateCode(s, c)
    <3>1. PICK s \in Tutors, c \in Codes : owner[c] = None /\ owner' = [owner EXCEPT ![c] = s]
      BY <2>1 DEF CreateCode
    <3> QED
      BY <1>1, <1>2, <1>5, <3>1 DEF CodeInv
  <2>2. CASE UNCHANGED owner
    BY <1>1, <2>2
  <2> QED
    BY <2>1, <2>2
       DEF Next, Save, Delete, Expire, SetChat, RedisDown, RedisUp, BackendRestart, Message,
           BotStep, Poll, Handle, SaveOffset, BotRestart, StartDms, MatchOne, Matched, Send,
           vars, storeVars
<1> QED
  BY <1>1, <1>3, <1>4, <1>6

LEMMA LinkStays ==
    ASSUME BotInv, CodeInv, [Next]_vars, NEW chat, NEW t \in Tutors, ChatOf(chat, t)
    PROVE  LinkedNext(chat, t)
<1>1. declared \subseteq declared'
  BY DEF Next, Save, Delete, CreateCode, Expire, SetChat, RedisDown, RedisUp, BackendRestart,
         Message, BotStep, Poll, Handle, SaveOffset, BotRestart, StartDms, MatchOne, Matched,
         Send, vars, storeVars
<1> QED
  BY <1>1, CodeLinkStays DEF ChatOf, LinkedNext

LEMMA LinkedStays ==
    ASSUME BotInv, CodeInv, [Next]_vars, NEW p, NEW t \in Tutors, Linked(p, t)
    PROVE  p.chat # None => LinkedNext(p.chat, t)
BY LinkStays DEF Linked

LEMMA LinksNext ==
    ASSUME profile' = [k \in Copies |-> profile'[k]],
           \A k \in Copies : profile'[k] = [t \in Tutors |-> profile'[k][t]],
           \A k \in Copies, t \in Tutors :
              /\ Placed(profile'[k][t])
              /\ profile'[k][t].chat # None => LinkedNext(profile'[k][t].chat, t),
           \A cl \in claims' : cl.tutor \in Tutors /\ LinkedNext(cl.chat, cl.tutor)
    PROVE  LinkInv'
BY DEF LinkInv, Linked, ChatOf, LinkedBy, LinkedNext, Placed

(* A step that makes no claim and leaves each profile as it is, or writes  *)
(* one that is placed and linked.                                          *)
LEMMA ProfilesWritten ==
    ASSUME BotInv, CodeInv, LinkInv, [Next]_vars, claims' \subseteq claims,
           profile' = [k \in Copies |-> profile'[k]],
           \A k \in Copies : profile'[k] = [t \in Tutors |-> profile'[k][t]],
           \A k \in Copies, t \in Tutors :
              \/ profile'[k][t] = profile[k][t]
              \/ /\ Placed(profile'[k][t])
                 /\ \/ Linked(profile'[k][t], t)
                    \/ [tutor |-> t, chat |-> profile'[k][t].chat] \in declared'
    PROVE  LinkInv'
<1>1. ASSUME NEW k \in Copies, NEW t \in Tutors
      PROVE  /\ Placed(profile'[k][t])
             /\ profile'[k][t].chat # None => LinkedNext(profile'[k][t].chat, t)
  <2>1. /\ Placed(profile'[k][t])
        /\ \/ Linked(profile'[k][t], t)
           \/ [tutor |-> t, chat |-> profile'[k][t].chat] \in declared'
    BY DEF LinkInv
  <2> QED
    BY <2>1, LinkedStays DEF LinkedNext
<1>2. \A cl \in claims' : cl.tutor \in Tutors /\ LinkedNext(cl.chat, cl.tutor)
  BY LinkStays DEF LinkInv
<1> QED
  BY <1>1, <1>2, LinksNext

LEMMA SavedProfile ==
    ASSUME NEW t, NEW p, Placed(p), Linked(p, t), NEW s \in Saves,
           NEW coords, coords \in {None, IF "postal" \in DOMAIN s THEN s.postal ELSE None}
    PROVE  LET q == Saved(p, s, coords)
           IN  Placed(q) /\ (Linked(q, t) \/ q.chat \in ChatsIn(s))
<1> DEFINE q == Saved(p, s, coords)
<1>1. "coords" \notin DOMAIN s
  BY TutorsAssumption DEF Fields
<1>2. DOMAIN q = Keys /\ q.chat = IF "chat" \in DOMAIN s THEN s.chat ELSE p.chat
  BY <1>1 DEF Placed, Keys, Saved
<1>3. q.coords = IF "postal" \in DOMAIN s THEN coords ELSE p.coords
  BY DEF Placed, Keys, Saved
<1>4. q.postal = IF "postal" \in DOMAIN s THEN s.postal ELSE p.postal
  BY DEF Placed, Keys, Saved
<1>5. Placed(q) /\ (Linked(q, t) \/ q.chat \in ChatsIn(s))
  <2> HIDE DEF q
  <2> QED
    BY <1>2, <1>3, <1>4 DEF Placed, Linked, ChatsIn
<1> QED
  BY <1>5

LEMMA SaveKeepsLinks ==
    ASSUME BotInv, CodeInv, LinkInv, [Next]_vars, NEW t \in Tutors, NEW s \in Saves, Save(t, s)
    PROVE  LinkInv'
<1>1. PICK landing \in Landings,
           coords \in {None, IF "postal" \in DOMAIN s THEN s.postal ELSE None} :
        profile' = [k \in Copies |->
                     IF k \in landing
                     THEN [profile[k] EXCEPT ![t] = Saved(profile[k][t], s, coords)]
                     ELSE profile[k]]
  BY DEF Save
<1> DEFINE q(k) == Saved(profile[k][t], s, coords)
<1>2. \A k \in Copies, u \in Tutors :
        profile'[k][u] = IF k \in landing /\ u = t THEN q(k) ELSE profile[k][u]
  BY <1>1 DEF LinkInv
<1>3. \A k \in Copies : profile'[k] = [u \in Tutors |-> profile'[k][u]]
  BY <1>1 DEF LinkInv
<1>4. \A k \in Copies : Placed(q(k)) /\ (Linked(q(k), t) \/ q(k).chat \in ChatsIn(s))
  BY SavedProfile DEF LinkInv
<1>5. profile' = [k \in Copies |-> profile'[k]] /\ claims' = claims
  BY <1>1 DEF Save
<1>6. \A c \in ChatsIn(s) : [tutor |-> t, chat |-> c] \in declared'
  BY DEF Save
<1> HIDE DEF q
<1>7. ASSUME NEW k \in Copies, NEW u \in Tutors
      PROVE  \/ profile'[k][u] = profile[k][u]
             \/ /\ Placed(profile'[k][u])
                /\ \/ Linked(profile'[k][u], u)
                   \/ [tutor |-> u, chat |-> profile'[k][u].chat] \in declared'
  BY <1>2, <1>4, <1>6
<1> QED
  BY <1>3, <1>5, <1>7, ProfilesWritten

LEMMA DeleteKeepsLinks ==
    ASSUME BotInv, CodeInv, LinkInv, [Next]_vars, NEW t \in Tutors, Delete(t)
    PROVE  LinkInv'
<1>1. PICK landing \in Landings :
        profile' = [k \in Copies |-> IF k \in landing THEN [profile[k] EXCEPT ![t] = Blank]
                                     ELSE profile[k]]
  BY DEF Delete
<1>2. \A k \in Copies, u \in Tutors : profile'[k][u] \in {profile[k][u], Blank}
  BY <1>1 DEF LinkInv
<1>3. \A k \in Copies : profile'[k] = [u \in Tutors |-> profile'[k][u]]
  BY <1>1 DEF LinkInv
<1>4. profile' = [k \in Copies |-> profile'[k]] /\ claims' = claims
  BY <1>1 DEF Delete
<1>5. \A u \in Tutors : Placed(Blank) /\ Linked(Blank, u)
  BY BlankProfile DEF Linked
<1> QED
  BY <1>2, <1>3, <1>4, <1>5, ProfilesWritten

LEMMA RestartKeepsLinks ==
    ASSUME BotInv, CodeInv, LinkInv, [Next]_vars, BackendRestart
    PROVE  LinkInv'
<1>1. profile' = [profile EXCEPT !["memory"] = [t \in Tutors |-> Blank]] /\ claims' = {}
  BY DEF BackendRestart
<1>2. \A k \in Copies, u \in Tutors : profile'[k][u] \in {profile[k][u], Blank}
  BY <1>1 DEF LinkInv, Copies
<1>3. \A k \in Copies : profile'[k] = [u \in Tutors |-> profile'[k][u]]
  BY <1>1 DEF LinkInv, Copies
<1>4. profile' = [k \in Copies |-> profile'[k]]
  BY <1>1 DEF LinkInv
<1>5. \A u \in Tutors : Placed(Blank) /\ Linked(Blank, u)
  BY BlankProfile DEF Linked
<1> QED
  BY <1>1, <1>2, <1>3, <1>4, <1>5, ProfilesWritten

LEMMA SetChatKeepsLinks ==
    ASSUME BotInv, CodeInv, LinkInv, [Next]_vars, NEW cl \in claims, SetChat(cl)
    PROVE  LinkInv'
<1> DEFINE set(p) == [p EXCEPT !.chat = cl.chat]
<1>1. PICK landing \in Landings :
        profile' = [k \in Copies |->
                     IF k \in landing
                     THEN [profile[k] EXCEPT ![cl.tutor] = set(profile[k][cl.tutor])]
                     ELSE profile[k]]
  BY DEF SetChat
<1>2. ASSUME NEW p, Placed(p) PROVE Placed(set(p)) /\ set(p).chat = cl.chat
  BY <1>2 DEF Placed, Keys
<1> HIDE DEF set
<1>3. \A k \in Copies, u \in Tutors :
        profile'[k][u] = IF k \in landing /\ u = cl.tutor THEN set(profile[k][u])
                         ELSE profile[k][u]
  BY <1>1 DEF LinkInv
<1>4. \A k \in Copies : profile'[k] = [u \in Tutors |-> profile'[k][u]]
  BY <1>1 DEF LinkInv
<1>5. profile' = [k \in Copies |-> profile'[k]] /\ claims' \subseteq claims
  BY <1>1 DEF SetChat
<1>6. \A k \in Copies : Placed(set(profile[k][cl.tutor])) /\ Linked(set(profile[k][cl.tutor]), cl.tutor)
  BY <1>2 DEF LinkInv, Linked
<1> QED
  BY <1>3, <1>4, <1>5, <1>6, ProfilesWritten

LEMMA HandleKeepsLinks ==
    ASSUME BotInv, CodeInv, LinkInv, [Next]_vars, Handle
    PROVE  LinkInv'
<1> DEFINE u == bot.next
<1>1. u \in attempted' /\ u \in 1..Len(updates) /\ UNCHANGED <<updates, owner, profile>>
  BY Handled DEF Handle
<1>2. claims' \subseteq claims \cup {[tutor |-> owner[updates[u].code], chat |-> updates[u].chat]}
  BY DEF Handle, Claim
<1>3. claims' \subseteq claims \/ owner[updates[u].code] # None
  BY DEF Handle, Claim, Accepted, CodeInv, Copies
<1>4. owner[updates[u].code] \in Tutors \cup {None}
  <2>1. updates \in Seq([chat : Chats, code : Codes])
    BY DEF BotInv, Updates
  <2>2. updates[u] \in [chat : Chats, code : Codes]
    BY <1>1, <2>1, ElementOfSeq
  <2> QED
    BY <2>2 DEF CodeInv
<1>5. LinkedNext(updates[u].chat, owner[updates[u].code])
  BY <1>1 DEF LinkedNext
<1>6. ASSUME NEW cl \in claims' PROVE cl.tutor \in Tutors /\ LinkedNext(cl.chat, cl.tutor)
  <2>1. CASE cl \in claims
    BY <2>1, LinkStays DEF LinkInv
  <2>2. CASE cl \notin claims
    <3>1. cl = [tutor |-> owner[updates[u].code], chat |-> updates[u].chat]
      BY <1>2, <1>6, <2>2
    <3>2. cl.tutor = owner[updates[u].code] /\ cl.chat = updates[u].chat
      BY <3>1
    <3> QED
      BY <1>3, <1>4, <1>5, <1>6, <2>2, <3>2
  <2> QED
    BY <2>1, <2>2
<1>7. \A k \in Copies, t \in Tutors :
        /\ Placed(profile[k][t])
        /\ profile[k][t].chat # None => LinkedNext(profile[k][t].chat, t)
  BY LinkedStays DEF LinkInv
<1>8. /\ profile' = [k \in Copies |-> profile'[k]]
      /\ \A k \in Copies : profile'[k] = [t \in Tutors |-> profile'[k][t]]
  BY <1>1 DEF LinkInv
<1> QED
  BY <1>1, <1>6, <1>7, <1>8, LinksNext

LEMMA LinkStep == BotInv /\ CodeInv /\ LinkInv /\ [Next]_vars => LinkInv'
<1> SUFFICES ASSUME BotInv, CodeInv, LinkInv, [Next]_vars PROVE LinkInv'
  OBVIOUS
<1>1. CASE \E t \in Tutors, s \in Saves : Save(t, s)
  BY <1>1, SaveKeepsLinks
<1>2. CASE \E t \in Tutors : Delete(t)
  BY <1>2, DeleteKeepsLinks
<1>3. CASE \E cl \in claims : SetChat(cl)
  BY <1>3, SetChatKeepsLinks
<1>4. CASE BackendRestart
  BY <1>4, RestartKeepsLinks
<1>5. CASE Handle
  BY <1>5, HandleKeepsLinks
<1>6. CASE UNCHANGED <<profile, claims>>
  BY <1>6, ProfilesWritten DEF LinkInv
<1>7. CASE \/ \E t \in Tutors, c \in Codes : CreateCode(t, c)
           \/ \E c \in Codes : Expire(c)
           \/ RedisDown \/ RedisUp
           \/ \E chat \in Chats, c \in Codes : Message(chat, c)
           \/ Poll \/ SaveOffset \/ BotRestart
           \/ \E a \in Adverts : StartDms(a)
           \/ \E t \in Tutors : MatchOne(t)
           \/ Matched
           \/ \E r \in dms.to : Send(r)
  BY <1>6, <1>7 DEF CreateCode, Expire, RedisDown, RedisUp, Message, Poll, SaveOffset,
                    BotRestart, StartDms, MatchOne, Matched, Send, storeVars
<1>8. CASE UNCHANGED vars
  BY <1>6, <1>8 DEF vars, storeVars
<1> QED
  BY <1>1, <1>2, <1>3, <1>4, <1>5, <1>7, <1>8 DEF Next, BotStep

(* ----------------------------------------------------------------------- *)
(* Direct messages.                                                        *)

DmFields == {"phase", "advert", "coords", "rest", "to"}

(* A recipient's chat was its own and the recipient was near enough when it *)
(* was matched.                                                             *)
Fits(r, advert, coords) ==
    /\ r.tutor \in Tutors
    /\ ChatOf(r.as.chat, r.tutor)
    /\ r.as.coords # None => r.as.coords = r.as.postal
    /\ NearEnough(r.as, advert, coords)

DmInv ==
    /\ DOMAIN dms = DmFields
    /\ \A r \in dms.to : Fits(r, dms.advert, dms.coords)

LEMMA NoRecipients == DOMAIN NoDms = DmFields /\ NoDms.to = {}
BY DEF NoDms, DmFields

LEMMA DmInit == Init => DmInv
BY NoRecipients DEF Init, DmInv

(* A step that adds nobody to the recipients of the assignment in hand. *)
LEMMA NoNewRecipient ==
    ASSUME BotInv, CodeInv, DmInv, [Next]_vars, DOMAIN dms' = DmFields,
           dms'.to = {} \/ (dms'.to \subseteq dms.to /\ dms'.advert = dms.advert
                             /\ dms'.coords = dms.coords)
    PROVE  DmInv'
<1>1. ASSUME NEW r \in dms'.to
      PROVE  /\ r.tutor \in Tutors /\ LinkedNext(r.as.chat, r.tutor)
             /\ r.as.coords # None => r.as.coords = r.as.postal
             /\ NearEnough(r.as, dms'.advert, dms'.coords)
  <2>1. Fits(r, dms'.advert, dms'.coords)
    BY <1>1 DEF DmInv
  <2> QED
    BY <2>1, LinkStays DEF Fits
<1> QED
  BY <1>1 DEF DmInv, Fits, ChatOf, LinkedBy, LinkedNext, NearEnough

LEMMA MatchOneKeepsDms ==
    ASSUME BotInv, CodeInv, LinkInv, DmInv, [Next]_vars, NEW t \in Tutors, MatchOne(t)
    PROVE  DmInv'
<1> DEFINE p == profile[Reading][t]
           new == [tutor |-> t, as |-> p]
           to == IF Matches(p, dms.advert, dms.coords) THEN dms.to \cup {new} ELSE dms.to
<1>1. dms' = [dms EXCEPT !.rest = dms.rest \ {t}, !.to = to]
  BY DEF MatchOne
<1> HIDE DEF to
<1>2. DOMAIN dms' = DmFields /\ dms'.to = to /\ dms'.advert = dms.advert /\ dms'.coords = dms.coords
  BY <1>1 DEF DmInv, DmFields
<1>3. CASE to = dms.to
  BY <1>2, <1>3, NoNewRecipient
<1>4. CASE Matches(p, dms.advert, dms.coords) /\ to = dms.to \cup {new}
  <2>1. Placed(p) /\ ChatOf(p.chat, t) /\ NearEnough(p, dms.advert, dms.coords)
    BY <1>4 DEF LinkInv, Linked, Matches, Reading, Copies
  <2>2. new.tutor = t /\ new.as = p
    OBVIOUS
  <2> HIDE DEF new, p
  <2>3. ASSUME NEW r \in dms'.to PROVE Fits(r, dms.advert, dms.coords)
    <3>1. CASE r \in dms.to
      BY <3>1 DEF DmInv
    <3>2. CASE r = new
      BY <2>1, <2>2, <3>2 DEF Fits, Placed
    <3> QED
      BY <1>2, <1>4, <2>3, <3>1, <3>2
  <2>4. ASSUME NEW r \in dms'.to
        PROVE  /\ r.tutor \in Tutors /\ LinkedNext(r.as.chat, r.tutor)
               /\ r.as.coords # None => r.as.coords = r.as.postal
               /\ NearEnough(r.as, dms'.advert, dms'.coords)
    BY <1>2, <2>3, <2>4, LinkStays DEF Fits
  <2> QED
    BY <1>2, <2>4 DEF DmInv, Fits, ChatOf, LinkedBy, LinkedNext, NearEnough
<1> QED
  BY <1>3, <1>4 DEF to

LEMMA DmStep == BotInv /\ CodeInv /\ LinkInv /\ DmInv /\ [Next]_vars => DmInv'
<1> SUFFICES ASSUME BotInv, CodeInv, LinkInv, DmInv, [Next]_vars PROVE DmInv'
  OBVIOUS
<1>1. CASE \E a \in Adverts : StartDms(a)
  <2>1. PICK a \in Adverts : StartDms(a)
    BY <1>1
  <2>2. PICK coords \in Located(a) :
          dms' = [phase |-> "match", advert |-> a, coords |-> coords, to |-> {},
                  rest |-> {t \in Tutors : profile[Reading][t] # Blank}]
    BY <2>1 DEF StartDms
  <2>3. DOMAIN dms' = DmFields /\ dms'.to = {}
    BY <2>2 DEF DmFields
  <2> QED
    BY <2>3, NoNewRecipient
<1>2. CASE \E t \in Tutors : MatchOne(t)
  BY <1>2, MatchOneKeepsDms
<1>3. CASE dms' = NoDms \/ UNCHANGED dms
  <2>1. DOMAIN dms' = DmFields
    BY <1>3, NoRecipients DEF DmInv
  <2> QED
    BY <1>3, <2>1, NoRecipients, NoNewRecipient
<1>4. CASE Matched
  <2>1. CASE dms' = NoDms
    BY <1>3, <2>1
  <2>2. CASE dms' # NoDms
    <3>1. PICK to \in kSubset(Min({MaxRecipients, Cardinality(dms.to)}), dms.to) :
            dms' = [dms EXCEPT !.phase = "send", !.to = to]
      BY <1>4, <2>2 DEF Matched
    <3>2. to \subseteq dms.to
      BY DEF kSubset
    <3>3. /\ DOMAIN dms' = DmFields /\ dms'.to = to
          /\ dms'.advert = dms.advert /\ dms'.coords = dms.coords
      BY <3>1 DEF DmInv, DmFields
    <3> QED
      BY <3>2, <3>3, NoNewRecipient
  <2> QED
    BY <2>1, <2>2
<1>5. CASE \E r \in dms.to : Send(r)
  <2>1. PICK r \in dms.to : dms' = NoDms \/ dms' = [dms EXCEPT !.to = dms.to \ {r}]
    BY <1>5 DEF Send
  <2>2. CASE dms' = [dms EXCEPT !.to = dms.to \ {r}]
    <3>1. /\ DOMAIN dms' = DmFields /\ dms'.to \subseteq dms.to
          /\ dms'.advert = dms.advert /\ dms'.coords = dms.coords
      BY <2>2 DEF DmInv, DmFields
    <3> QED
      BY <3>1, NoNewRecipient
  <2> QED
    BY <1>3, <2>1, <2>2
<1>6. CASE BackendRestart
  BY <1>3, <1>6 DEF BackendRestart
<1>7. CASE \/ \E t \in Tutors, s \in Saves : Save(t, s)
           \/ \E t \in Tutors : Delete(t)
           \/ \E t \in Tutors, c \in Codes : CreateCode(t, c)
           \/ \E c \in Codes : Expire(c)
           \/ \E cl \in claims : SetChat(cl)
           \/ RedisDown \/ RedisUp
           \/ \E chat \in Chats, c \in Codes : Message(chat, c)
           \/ Poll \/ Handle \/ SaveOffset \/ BotRestart
  BY <1>3, <1>7 DEF Save, Delete, CreateCode, Expire, SetChat, RedisDown, RedisUp, Message, Poll,
                    Handle, SaveOffset, BotRestart
<1>8. CASE UNCHANGED vars
  BY <1>3, <1>8 DEF vars
<1> QED
  BY <1>1, <1>2, <1>4, <1>5, <1>6, <1>7, <1>8 DEF Next, BotStep

(* ----------------------------------------------------------------------- *)
(* The theorems.                                                           *)

IInv == BotInv /\ CodeInv /\ LinkInv /\ DmInv

LEMMA Invariant == Spec => []IInv
<1>1. Init => IInv
  BY BotInit, CodeInit, LinkInit, DmInit DEF IInv
<1>2. IInv /\ [Next]_vars => IInv'
  BY BotInvStep, CodeStep, LinkStep, DmStep DEF IInv
<1> QED
  BY <1>1, <1>2, PTL DEF Spec

(* A chat in a profile sent a code its tutor was given or was put there by  *)
(* a save of that profile, and a code is spent at most once for each copy   *)
(* of the store it was written to, under any outages, lost answers,         *)
(* restarts and replays.                                                    *)
THEOREM ChatsDoNotStray == Spec => []NoStrayChat
<1>1. IInv => NoStrayChat
  <2> SUFFICES ASSUME IInv PROVE NoStrayChat
    OBVIOUS
  <2>1. \A k \in Copies, t \in Tutors : profile[k][t].chat # None => ChatOf(profile[k][t].chat, t)
    BY DEF IInv, LinkInv, Linked
  <2>2. ASSUME NEW c \in Codes PROVE spent[c] <= written[c]
    <3>1. spent[c] \in Nat /\ written[c] \in Nat
      BY DEF IInv, CodeInv
    <3>2. In("redis", c) \in Nat /\ In("memory", c) \in Nat
      BY DEF In
    <3>3. spent[c] + In("redis", c) + In("memory", c) <= written[c]
      BY DEF IInv, CodeInv
    <3> HIDE DEF In
    <3> QED
      BY <3>1, <3>2, <3>3
  <2> QED
    BY <2>1, <2>2 DEF NoStrayChat
<1> QED
  BY <1>1, Invariant, PTL

(* The coordinates in a profile are those of the postal code beside them,   *)
(* in both copies of the store, whatever part of the profile was saved.     *)
THEOREM PlacedByCode == Spec => []CoordsFollowCode
<1>1. IInv => CoordsFollowCode
  BY DEF IInv, LinkInv, Placed, CoordsFollowCode
<1> QED
  BY <1>1, Invariant, PTL

(* A direct message goes to a chat its tutor linked or a save of that       *)
(* profile gave, and to a tutor near enough unless the assignment is online or the tutor has no place, for    *)
(* any profiles saved, deleted and lost while it is matched and sent.       *)
THEOREM MessagesAreJustified == Spec => []DmsJustified
<1>1. IInv => DmsJustified
  <2> SUFFICES ASSUME IInv, NEW r \in dms.to
               PROVE  /\ ChatOf(r.as.chat, r.tutor)
                      /\ r.as.coords # None /\ ~dms.advert.online =>
                           /\ dms.coords # None /\ r.as.postal # None
                           /\ Distance[r.as.postal, dms.coords] <= r.as.radius
    BY DEF DmsJustified
  <2>1. Fits(r, dms.advert, dms.coords)
    BY DEF IInv, DmInv
  <2> QED
    BY <2>1 DEF Fits, NearEnough
<1> QED
  BY <1>1, Invariant, PTL

(* ----------------------------------------------------------------------- *)
(* Types.                                                                  *)

LEMMA ClampedRadius == ASSUME NEW r \in Nat PROVE Clamped(r) \in Nat
<1>1. Min({MaxRadius, r}) \in Nat
  <2>1. \E x \in {MaxRadius, r} : \A y \in {MaxRadius, r} : x <= y
    <3>1. CASE MaxRadius <= r
      BY <3>1 DEF MaxRadius
    <3>2. CASE r <= MaxRadius
      BY <3>2 DEF MaxRadius
    <3> QED
      BY <3>1, <3>2 DEF MaxRadius
  <2> QED
    BY <2>1 DEF Min, MaxRadius
<1> DEFINE upper == Min({MaxRadius, r})
<1> HIDE DEF upper
<1>2. upper \in Nat
  BY <1>1 DEF upper
<1>3. Max({MinRadius, upper}) \in Nat
  BY <1>2, MaxOfTwo DEF MinRadius
<1> QED
  BY <1>3 DEF Clamped, upper

(* What a save gives, field by field. *)
LEMMA SavedType ==
    ASSUME NEW p \in Profile, NEW s \in Saves,
           NEW coords \in {None, IF "postal" \in DOMAIN s THEN s.postal ELSE None}
    PROVE  Saved(p, s, coords) \in Profile
<1> DEFINE q == Saved(p, s, coords)
<1>0. DOMAIN p = Keys
  BY DEF Profile, Keys
<1>1. /\ DOMAIN s \subseteq Fields
      /\ "chat" \in DOMAIN s => s.chat \in Chats \cup {None}
      /\ "postal" \in DOMAIN s => s.postal \in Postals \cup {None}
      /\ "radius" \in DOMAIN s => s.radius \in Nat
      /\ "pairs" \in DOMAIN s => s.pairs \subseteq Pairs
      /\ "subjects" \in DOMAIN s => s.subjects \subseteq Subjects
      /\ "levels" \in DOMAIN s => s.levels \subseteq Levels
  BY TutorsAssumption
<1>2. "coords" \notin DOMAIN s
  BY <1>1 DEF Fields
<1>3. /\ q.chat = (IF "chat" \in DOMAIN s THEN s.chat ELSE p.chat)
      /\ q.coords = (IF "postal" \in DOMAIN s THEN coords ELSE p.coords)
  BY <1>0, <1>2 DEF Saved, Keys
<1>4. q.postal = IF "postal" \in DOMAIN s THEN s.postal ELSE p.postal
  BY <1>0 DEF Saved, Keys
<1>5. q.radius = IF "radius" \in DOMAIN s THEN Clamped(s.radius) ELSE p.radius
  BY <1>0 DEF Saved, Keys
<1>6. q.pairs = IF "pairs" \in DOMAIN s THEN s.pairs ELSE p.pairs
  BY <1>0 DEF Saved, Keys
<1>7. /\ q.subjects = IF "subjects" \in DOMAIN s THEN s.subjects ELSE p.subjects
      /\ q.levels = IF "levels" \in DOMAIN s THEN s.levels ELSE p.levels
  BY <1>0 DEF Saved, Keys
<1>8. q = [chat |-> q.chat, postal |-> q.postal, coords |-> q.coords, radius |-> q.radius,
           pairs |-> q.pairs, subjects |-> q.subjects, levels |-> q.levels]
  BY <1>0 DEF Saved, Keys
<1> HIDE DEF q
<1>9. /\ q.chat \in Chats \cup {None} /\ q.postal \in Postals \cup {None}
      /\ q.coords \in Postals \cup {None}
  BY <1>1, <1>3, <1>4 DEF Profile
<1>10. q.radius \in Nat
  BY <1>1, <1>5, ClampedRadius DEF Profile
<1>11. /\ q.pairs \in SUBSET Pairs /\ q.subjects \in SUBSET Subjects
       /\ q.levels \in SUBSET Levels
  BY <1>1, <1>6, <1>7 DEF Profile
<1>12. q \in Profile
  BY <1>8, <1>9, <1>10, <1>11 DEF Profile
<1> QED
  BY <1>12 DEF q

LEMMA BlankType == Blank \in Profile
BY DEF Blank, Profile, DefaultRadius

(* What is left of a budget. *)
LEMMA SpentOnce == ASSUME left \in Budget, NEW k \in DOMAIN left, Spend(k) PROVE left' \in Budget
<1>1. left[k] \in Nat /\ left[k] > 0 /\ left' = [left EXCEPT ![k] = left[k] - 1]
  BY DEF Spend, Budget
<1> QED
  BY <1>1 DEF Budget

LEMMA LostOnce ==
    ASSUME left \in Budget, NEW landing \in Landings
    PROVE  left.faults - Lost(landing) \in Nat
<1>1. left.faults \in Nat
  BY DEF Budget
<1>2. landing = Copies => left.faults > 0
  BY DEF Landings, Copies
<1> QED
  BY <1>1, <1>2 DEF Lost

LEMMA BudgetStep == ASSUME left \in Budget, [Next]_vars PROVE left' \in Budget
<1>0. DOMAIN left = {"codes", "updates", "saves", "sends", "expiries", "faults"}
      /\ left.saves \in Nat /\ left.codes \in Nat
  BY DEF Budget
<1>1. ASSUME NEW landing \in Landings,
             \/ left' = [left EXCEPT !.faults = left.faults - Lost(landing)]
             \/ left.saves > 0 /\ left' = [left EXCEPT !.saves = left.saves - 1,
                                                      !.faults = left.faults - Lost(landing)]
             \/ left.codes > 0 /\ left' = [left EXCEPT !.codes = left.codes - 1,
                                                      !.faults = left.faults - Lost(landing)]
      PROVE  left' \in Budget
  <2> DEFINE f == left.faults - Lost(landing)
  <2>1. f \in Nat
    BY LostOnce
  <2> HIDE DEF f
  <2>2. CASE left' = [left EXCEPT !.faults = f]
    BY <2>1, <2>2 DEF Budget
  <2>3. CASE left.saves > 0 /\ left' = [left EXCEPT !.saves = left.saves - 1, !.faults = f]
    <3> DEFINE n == left.saves - 1
    <3>1. n \in Nat
      BY <1>0, <2>3
    <3>2. left' = [left EXCEPT !.saves = n, !.faults = f]
      BY <2>3
    <3> HIDE DEF n
    <3> QED
      BY <2>1, <3>1, <3>2 DEF Budget
  <2>4. CASE left.codes > 0 /\ left' = [left EXCEPT !.codes = left.codes - 1, !.faults = f]
    <3> DEFINE n == left.codes - 1
    <3>1. n \in Nat
      BY <1>0, <2>4
    <3>2. left' = [left EXCEPT !.codes = n, !.faults = f]
      BY <2>4
    <3> HIDE DEF n
    <3> QED
      BY <2>1, <3>1, <3>2 DEF Budget
  <2> QED
    BY <1>1, <2>2, <2>3, <2>4 DEF f
<1>2. ASSUME NEW t \in Tutors, NEW s \in Saves, Save(t, s) PROVE left' \in Budget
  BY <1>1, <1>2 DEF Save
<1>3. ASSUME NEW t \in Tutors, Delete(t) PROVE left' \in Budget
  BY <1>1, <1>3 DEF Delete
<1>4. ASSUME NEW t \in Tutors, NEW c \in Codes, CreateCode(t, c) PROVE left' \in Budget
  BY <1>1, <1>4 DEF CreateCode
<1>5. ASSUME NEW cl \in claims, SetChat(cl) PROVE left' \in Budget
  BY <1>1, <1>5 DEF SetChat
<1>6. CASE Handle
  <2>1. CASE Spend("faults")
    BY <1>0, <2>1, SpentOnce
  <2>2. CASE \E n \in 0..1 : Claim(updates[bot.next].chat, updates[bot.next].code, n)
    <3>1. PICK n \in 0..1, landing \in Landings :
            /\ left.faults >= Lost(landing) + n
            /\ left' = [left EXCEPT !.faults = left.faults - Lost(landing) - n]
      BY <2>2 DEF Claim
    <3> DEFINE f == left.faults - Lost(landing) - n
    <3>2. f \in Nat
      BY <3>1 DEF Budget, Lost
    <3> HIDE DEF f
    <3> QED
      BY <3>1, <3>2 DEF Budget, f
  <2> QED
    BY <1>6, <2>1, <2>2 DEF Handle
<1>7. ASSUME NEW k \in DOMAIN left, Spend(k) \/ UNCHANGED left PROVE left' \in Budget
  BY <1>7, SpentOnce
<1>8. CASE \/ \E c \in Codes : Expire(c)
           \/ RedisDown \/ RedisUp \/ BackendRestart
           \/ \E chat \in Chats, c \in Codes : Message(chat, c)
           \/ Poll \/ SaveOffset \/ BotRestart
           \/ \E a \in Adverts : StartDms(a)
           \/ \E t \in Tutors : MatchOne(t)
           \/ Matched
           \/ \E r \in dms.to : Send(r)
  BY <1>0, <1>7, <1>8 DEF Expire, RedisDown, RedisUp, BackendRestart, Message, Poll, SaveOffset,
                          BotRestart, StartDms, MatchOne, Matched, Send
<1>9. CASE UNCHANGED vars
  BY <1>9 DEF vars
<1> QED
  BY <1>2, <1>3, <1>4, <1>5, <1>6, <1>8, <1>9 DEF Next, BotStep

LEMMA ProfilesStep ==
    ASSUME profile \in [Copies -> [Tutors -> Profile]],
           claims \subseteq [tutor : Tutors, chat : Chats], [Next]_vars
    PROVE  profile' \in [Copies -> [Tutors -> Profile]]
<1>1. ASSUME NEW t \in Tutors, NEW s \in Saves, Save(t, s)
      PROVE  profile' \in [Copies -> [Tutors -> Profile]]
  <2>1. PICK landing \in Landings,
             coords \in {None, IF "postal" \in DOMAIN s THEN s.postal ELSE None} :
          profile' = [k \in Copies |->
                        IF k \in landing
                        THEN [profile[k] EXCEPT ![t] = Saved(profile[k][t], s, coords)]
                        ELSE profile[k]]
    BY <1>1 DEF Save
  <2>2. \A k \in Copies : Saved(profile[k][t], s, coords) \in Profile
    BY SavedType
  <2> QED
    BY <2>1, <2>2
<1>2. ASSUME NEW t \in Tutors, Delete(t) PROVE profile' \in [Copies -> [Tutors -> Profile]]
  BY <1>2, BlankType DEF Delete
<1>3. ASSUME NEW cl \in claims, SetChat(cl) PROVE profile' \in [Copies -> [Tutors -> Profile]]
  <2> DEFINE set(p) == [p EXCEPT !.chat = cl.chat]
  <2>1. PICK landing \in Landings :
          profile' = [k \in Copies |->
                        IF k \in landing
                        THEN [profile[k] EXCEPT ![cl.tutor] = set(profile[k][cl.tutor])]
                        ELSE profile[k]]
    BY <1>3 DEF SetChat
  <2>2. cl.tutor \in Tutors /\ cl.chat \in Chats
    OBVIOUS
  <2>3. ASSUME NEW p \in Profile PROVE set(p) \in Profile
    BY <2>2 DEF Profile
  <2> HIDE DEF set
  <2> QED
    BY <2>1, <2>2, <2>3
<1>4. CASE BackendRestart
  BY <1>4, BlankType DEF BackendRestart, Copies
<1>5. CASE UNCHANGED profile
  BY <1>5
<1>6. CASE \/ \E t \in Tutors, c \in Codes : CreateCode(t, c)
           \/ \E c \in Codes : Expire(c)
           \/ RedisDown \/ RedisUp
           \/ \E chat \in Chats, c \in Codes : Message(chat, c)
           \/ Poll \/ Handle \/ SaveOffset \/ BotRestart
           \/ \E a \in Adverts : StartDms(a)
           \/ \E t \in Tutors : MatchOne(t)
           \/ Matched
           \/ \E r \in dms.to : Send(r)
           \/ UNCHANGED vars
  BY <1>5, <1>6 DEF CreateCode, Expire, RedisDown, RedisUp, Message, Poll, Handle, SaveOffset,
                    BotRestart, StartDms, MatchOne, Matched, Send, storeVars, vars
<1> QED
  BY <1>1, <1>2, <1>3, <1>4, <1>6 DEF Next, BotStep

(* The update the bot is at. *)
LEMMA AtHand ==
    ASSUME BotInv, Handle
    PROVE  updates[bot.next].chat \in Chats /\ updates[bot.next].code \in Codes
<1>1. updates \in Seq([chat : Chats, code : Codes]) /\ bot.next \in 1..Len(updates)
  BY Handled DEF BotInv, Updates
<1>2. updates[bot.next] \in [chat : Chats, code : Codes]
  BY <1>1, ElementOfSeq
<1> QED
  BY <1>2

(* A claim is made of an update at hand and of the owner of its code. *)
LEMMA ClaimsStep ==
    ASSUME BotInv, CodeInv, claims \subseteq [tutor : Tutors, chat : Chats], [Next]_vars
    PROVE  claims' \subseteq [tutor : Tutors, chat : Chats]
<1>1. CASE Handle
  <2> DEFINE u == updates[bot.next]
  <2>1. u.chat \in Chats /\ u.code \in Codes
    BY <1>1, AtHand
  <2> HIDE DEF u
  <2>2. claims' \subseteq claims \/ owner[u.code] # None
    BY <1>1, <2>1 DEF Handle, Claim, Accepted, CodeInv, Copies, u
  <2>3. claims' \subseteq claims \cup {[tutor |-> owner[u.code], chat |-> u.chat]}
    BY <1>1 DEF Handle, Claim, u
  <2>4. owner[u.code] \in Tutors \cup {None}
    BY <2>1 DEF CodeInv
  <2> QED
    BY <2>1, <2>2, <2>3, <2>4
<1>2. CASE claims' \subseteq claims
  BY <1>2
<1>3. CASE \/ \E t \in Tutors, s \in Saves : Save(t, s)
           \/ \E t \in Tutors : Delete(t)
           \/ \E t \in Tutors, c \in Codes : CreateCode(t, c)
           \/ \E c \in Codes : Expire(c)
           \/ \E cl \in claims : SetChat(cl)
           \/ RedisDown \/ RedisUp \/ BackendRestart
           \/ \E chat \in Chats, c \in Codes : Message(chat, c)
           \/ Poll \/ SaveOffset \/ BotRestart
           \/ \E a \in Adverts : StartDms(a)
           \/ \E t \in Tutors : MatchOne(t)
           \/ Matched
           \/ \E r \in dms.to : Send(r)
           \/ UNCHANGED vars
  BY <1>2, <1>3 DEF Save, Delete, CreateCode, Expire, SetChat, RedisDown, RedisUp, BackendRestart,
                    Message, Poll, SaveOffset, BotRestart, StartDms, MatchOne, Matched, Send,
                    storeVars, vars
<1> QED
  BY <1>1, <1>3 DEF Next, BotStep

BotRecord == [offset : Nat, next : Nat, todo : Nat]

LEMMA BotRecordStep ==
    ASSUME BotInv, BotInv', bot \in BotRecord, [Next]_vars PROVE bot' \in BotRecord
<1>1. bot'.offset \in Nat /\ bot'.next \in Nat /\ bot'.todo \in Nat
  BY DEF BotInv, BotOK
<1>2. \/ bot' = bot
      \/ \E o : bot' = NoBatch(o)
      \/ \E x, y : bot' = [bot EXCEPT !.next = x, !.todo = y]
      \/ \E x, y : bot' = [bot EXCEPT !.offset = x, !.next = y]
  <2>1. CASE Poll
    <3>1. \E x, y : bot' = [bot EXCEPT !.next = x, !.todo = y]
      BY <2>1, Zenon DEF Poll
    <3> QED
      BY <3>1
  <2>2. CASE Handle
    <3> DEFINE x == Max({bot.offset, bot.next + 1})
               y == bot.next + 1
    <3>1. bot' = [bot EXCEPT !.offset = x, !.next = y] \/ bot' = NoBatch(x)
      BY <2>2 DEF Handle
    <3> QED
      BY <3>1
  <2>3. CASE SaveOffset
    BY <2>3 DEF SaveOffset
  <2>4. CASE BotRestart
    BY <2>4 DEF BotRestart
  <2>5. CASE \/ \E t \in Tutors, s \in Saves : Save(t, s)
             \/ \E t \in Tutors : Delete(t)
             \/ \E t \in Tutors, c \in Codes : CreateCode(t, c)
             \/ \E c \in Codes : Expire(c)
             \/ \E cl \in claims : SetChat(cl)
             \/ RedisDown \/ RedisUp \/ BackendRestart
             \/ \E chat \in Chats, c \in Codes : Message(chat, c)
             \/ \E a \in Adverts : StartDms(a)
             \/ \E t \in Tutors : MatchOne(t)
             \/ Matched
             \/ \E r \in dms.to : Send(r)
             \/ UNCHANGED vars
    BY <2>5 DEF Save, Delete, CreateCode, Expire, SetChat, RedisDown, RedisUp, BackendRestart,
                Message, StartDms, MatchOne, Matched, Send, botVars, vars
  <2> QED
    BY <2>1, <2>2, <2>3, <2>4, <2>5 DEF Next, BotStep
<1>3. CASE bot' = bot
  BY <1>3
<1>4. CASE \E o : bot' = NoBatch(o)
  BY <1>1, <1>4 DEF NoBatch, BotRecord
<1>5. CASE \E x, y : bot' = [bot EXCEPT !.next = x, !.todo = y]
  <2>1. PICK x, y : bot' = [bot EXCEPT !.next = x, !.todo = y]
    BY <1>5
  <2>2. x = bot'.next /\ y = bot'.todo
    BY <2>1 DEF BotRecord
  <2> QED
    BY <1>1, <2>1, <2>2 DEF BotRecord
<1>6. CASE \E x, y : bot' = [bot EXCEPT !.offset = x, !.next = y]
  <2>1. PICK x, y : bot' = [bot EXCEPT !.offset = x, !.next = y]
    BY <1>6
  <2>2. x = bot'.offset /\ y = bot'.next
    BY <2>1 DEF BotRecord
  <2> QED
    BY <1>1, <2>1, <2>2 DEF BotRecord
<1> QED
  BY <1>2, <1>3, <1>4, <1>5, <1>6

DmsTyped ==
    /\ dms.phase \in {"idle", "match", "send"} /\ dms.coords \in Postals \cup {None}
    /\ dms.rest \subseteq Tutors /\ dms.to \subseteq [tutor : Tutors, as : Profile]

LEMMA DmsStep ==
    ASSUME DmInv, DmsTyped, profile \in [Copies -> [Tutors -> Profile]], [Next]_vars
    PROVE  DmsTyped'
<1>0. DOMAIN dms = DmFields
  BY DEF DmInv
<1>1. ASSUME NEW a \in Adverts, StartDms(a) PROVE DmsTyped'
  <2>1. PICK coords \in Located(a) :
          dms' = [phase |-> "match", advert |-> a, coords |-> coords, to |-> {},
                  rest |-> {t \in Tutors : profile[Reading][t] # Blank}]
    BY <1>1 DEF StartDms
  <2>2. coords \in Postals \cup {None}
    <3>1. a \in Advert
      BY TutorsAssumption
    <3> QED
      BY <3>1 DEF Located, Advert
  <2> QED
    BY <2>1, <2>2 DEF DmsTyped
<1>2. ASSUME NEW t \in Tutors, MatchOne(t) PROVE DmsTyped'
  <2> DEFINE p == profile[Reading][t]
             new == [tutor |-> t, as |-> p]
             to == IF Matches(p, dms.advert, dms.coords) THEN dms.to \cup {new} ELSE dms.to
  <2>1. dms' = [dms EXCEPT !.rest = dms.rest \ {t}, !.to = to]
    BY <1>2 DEF MatchOne
  <2>2. p \in Profile
    BY DEF Reading, Copies
  <2>3. new \in [tutor : Tutors, as : Profile]
    BY <2>2
  <2> HIDE DEF new
  <2>4. to \subseteq [tutor : Tutors, as : Profile]
    BY <2>3 DEF DmsTyped
  <2> HIDE DEF to
  <2>5. /\ dms'.phase = dms.phase /\ dms'.coords = dms.coords
        /\ dms'.rest = dms.rest \ {t} /\ dms'.to = to
    BY <1>0, <2>1 DEF DmFields
  <2> QED
    BY <2>4, <2>5 DEF DmsTyped
<1>3. CASE dms' = NoDms
  BY <1>3 DEF NoDms, DmsTyped
<1>4. CASE UNCHANGED dms
  BY <1>4 DEF DmsTyped
<1>5. CASE Matched
  <2>1. CASE dms' # NoDms
    <3>1. PICK to \in kSubset(Min({MaxRecipients, Cardinality(dms.to)}), dms.to) :
            dms' = [dms EXCEPT !.phase = "send", !.to = to]
      BY <1>5, <2>1 DEF Matched
    <3>2. to \subseteq dms.to
      BY DEF kSubset
    <3>3. /\ dms'.phase = "send" /\ dms'.coords = dms.coords
          /\ dms'.rest = dms.rest /\ dms'.to = to
      BY <1>0, <3>1 DEF DmFields
    <3> QED
      BY <3>2, <3>3 DEF DmsTyped
  <2> QED
    BY <1>3, <2>1
<1>6. ASSUME NEW r \in dms.to, Send(r) PROVE DmsTyped'
  <2>1. CASE dms' = [dms EXCEPT !.to = dms.to \ {r}]
    <3>1. /\ dms'.phase = dms.phase /\ dms'.coords = dms.coords
          /\ dms'.rest = dms.rest /\ dms'.to = dms.to \ {r}
      BY <1>0, <2>1 DEF DmFields
    <3> QED
      BY <3>1 DEF DmsTyped
  <2> QED
    BY <1>3, <1>6, <2>1 DEF Send
<1>7. CASE BackendRestart
  BY <1>3, <1>4, <1>7 DEF BackendRestart
<1>8. CASE \/ \E t \in Tutors, s \in Saves : Save(t, s)
           \/ \E t \in Tutors : Delete(t)
           \/ \E t \in Tutors, c \in Codes : CreateCode(t, c)
           \/ \E c \in Codes : Expire(c)
           \/ \E cl \in claims : SetChat(cl)
           \/ RedisDown \/ RedisUp
           \/ \E chat \in Chats, c \in Codes : Message(chat, c)
           \/ Poll \/ Handle \/ SaveOffset \/ BotRestart
           \/ UNCHANGED vars
  BY <1>4, <1>8 DEF Save, Delete, CreateCode, Expire, SetChat, RedisDown, RedisUp, Message, Poll,
                    Handle, SaveOffset, BotRestart, vars
<1> QED
  BY <1>1, <1>2, <1>5, <1>6, <1>7, <1>8 DEF Next, BotStep

(* The chats saves gave are given for tutors. *)
LEMMA DeclaredStep ==
    ASSUME declared \subseteq [tutor : Tutors, chat : Chats], [Next]_vars
    PROVE  declared' \subseteq [tutor : Tutors, chat : Chats]
<1>1. ASSUME NEW t \in Tutors, NEW s \in Saves, Save(t, s)
      PROVE  declared' \subseteq [tutor : Tutors, chat : Chats]
  <2>1. ChatsIn(s) \subseteq Chats
    BY TutorsAssumption DEF ChatsIn
  <2> QED
    BY <1>1, <2>1 DEF Save
<1>2. CASE UNCHANGED declared
  BY <1>2
<1>3. CASE \/ \E t \in Tutors : Delete(t)
           \/ \E t \in Tutors, c \in Codes : CreateCode(t, c)
           \/ \E c \in Codes : Expire(c)
           \/ \E cl \in claims : SetChat(cl)
           \/ RedisDown \/ RedisUp \/ BackendRestart
           \/ \E chat \in Chats, c \in Codes : Message(chat, c)
           \/ Poll \/ Handle \/ SaveOffset \/ BotRestart
           \/ \E a \in Adverts : StartDms(a)
           \/ \E t \in Tutors : MatchOne(t)
           \/ Matched
           \/ \E r \in dms.to : Send(r)
           \/ UNCHANGED vars
  BY <1>2, <1>3 DEF Delete, CreateCode, Expire, SetChat, RedisDown, RedisUp, BackendRestart,
                    Message, Poll, Handle, SaveOffset, BotRestart, StartDms, MatchOne, Matched,
                    Send, storeVars, vars
<1> QED
  BY <1>1, <1>3 DEF Next, BotStep

(* A code is written to at most two copies. *)
LEMMA WrittenStep ==
    ASSUME written \in [Codes -> 0..2], reachable \in BOOLEAN, expired \subseteq Codes, [Next]_vars
    PROVE  written' \in [Codes -> 0..2] /\ reachable' \in BOOLEAN /\ expired' \subseteq Codes
<1>1. ASSUME NEW t \in Tutors, NEW c \in Codes, CreateCode(t, c)
      PROVE  written' \in [Codes -> 0..2] /\ UNCHANGED <<reachable, expired>>
  <2>1. PICK landing \in Landings : written' = [written EXCEPT ![c] = Cardinality(landing)]
    BY <1>1 DEF CreateCode
  <2>2. Cardinality(landing) \in 0..2
    BY LandingSize
  <2> QED
    BY <1>1, <2>1, <2>2 DEF CreateCode
<1>2. ASSUME NEW c \in Codes, Expire(c)
      PROVE  expired' = expired \cup {c} /\ UNCHANGED <<reachable, written>>
  BY <1>2 DEF Expire
<1>3. CASE RedisDown \/ RedisUp
  BY <1>3 DEF RedisDown, RedisUp
<1>4. CASE UNCHANGED <<written, reachable, expired>>
  BY <1>4
<1>5. CASE \/ \E t \in Tutors, s \in Saves : Save(t, s)
           \/ \E t \in Tutors : Delete(t)
           \/ \E cl \in claims : SetChat(cl)
           \/ BackendRestart
           \/ \E chat \in Chats, c \in Codes : Message(chat, c)
           \/ Poll \/ Handle \/ SaveOffset \/ BotRestart
           \/ \E a \in Adverts : StartDms(a)
           \/ \E t \in Tutors : MatchOne(t)
           \/ Matched
           \/ \E r \in dms.to : Send(r)
           \/ UNCHANGED vars
  BY <1>4, <1>5 DEF Save, Delete, SetChat, BackendRestart, Message, Poll, Handle, SaveOffset,
                    BotRestart, StartDms, MatchOne, Matched, Send, storeVars, vars
<1> QED
  BY <1>1, <1>2, <1>3, <1>5 DEF Next, BotStep

LEMMA TypeInit == Init => TypeOK
<1> SUFFICES ASSUME Init PROVE TypeOK
  OBVIOUS
<1>1. profile \in [Copies -> [Tutors -> Profile]]
  <2>1. Known \in [Tutors -> Profile]
    BY TutorsAssumption
  <2> QED
    BY <2>1, BlankType DEF Init
<1>2. DmsTyped
  BY DEF Init, NoDms, DmsTyped
<1>3. BotInv
  BY BotInit
<1>4. bot \in [offset : Nat, next : Nat, todo : Nat]
  BY DEF Init, NoBatch
<1>5. left \in Budget
  BY TutorsAssumption DEF Init
<1>6. DOMAIN updates = 1..Len(updates)
  BY <1>3, Length DEF BotInv
<1> QED
  BY <1>1, <1>2, <1>3, <1>4, <1>5, <1>6 DEF Init, TypeOK, DmsTyped, BotInv, Updates

LEMMA TypeStep == IInv /\ IInv' /\ TypeOK /\ [Next]_vars => TypeOK'
<1> SUFFICES ASSUME IInv, IInv', TypeOK, [Next]_vars PROVE TypeOK'
  OBVIOUS
<1>1. BotInv /\ BotInv' /\ CodeInv /\ CodeInv' /\ DmInv
  BY DEF IInv
<1>2. /\ profile' \in [Copies -> [Tutors -> Profile]]
      /\ claims' \subseteq [tutor : Tutors, chat : Chats]
      /\ left' \in Budget
  BY <1>1, ProfilesStep, ClaimsStep, BudgetStep DEF TypeOK
<1>3. bot' \in [offset : Nat, next : Nat, todo : Nat]
  BY <1>1, BotRecordStep DEF TypeOK, BotRecord
<1>4. DmsTyped'
  BY <1>1, DmsStep DEF TypeOK, DmsTyped
<1>5. /\ written' \in [Codes -> 0..2] /\ reachable' \in BOOLEAN /\ expired' \subseteq Codes
      /\ declared' \subseteq [tutor : Tutors, chat : Chats]
  BY WrittenStep, DeclaredStep DEF TypeOK
<1>6. /\ stored' \in [Copies -> SUBSET Codes] /\ owner' \in [Codes -> Tutors \cup {None}]
      /\ spent' \in [Codes -> Nat]
  <2>1. /\ stored' = [k \in Copies |-> stored'[k]]
        /\ \A k \in Copies : stored'[k] \subseteq Codes
    BY <1>1 DEF CodeInv
  <2> QED
    BY <1>1, <2>1 DEF CodeInv
<1>7. /\ updates' \in Seq([chat : Chats, code : Codes])
      /\ confirmed' \in Nat /\ saved' \in Nat /\ attempted' \subseteq DOMAIN updates'
  BY <1>1, Length DEF BotInv, Updates
<1> QED
  BY <1>2, <1>3, <1>4, <1>5, <1>6, <1>7 DEF TypeOK, DmsTyped

(* Every variable keeps its type: what a save gives is clamped and fits a   *)
(* profile, a claim names the owner of its code, no budget is overdrawn.    *)
THEOREM TypeCorrect == Spec => []TypeOK
<1> QED
  BY TypeInit, TypeStep, Invariant, PTL DEF Spec
=============================================================================
