------------------------------- MODULE Tutors -------------------------------
(***************************************************************************)
(* Tutors: the profiles and link codes TutorStore keeps in Redis, and in   *)
(* the memory of the backend whenever Redis cannot be reached; the bot     *)
(* that turns a code sent in a chat into a link between that chat and the  *)
(* tutor; the matching of an assignment against the profiles and the       *)
(* direct messages that follow.                                            *)
(*                                                                         *)
(* A postal code stands for itself and for the coordinates found for it.   *)
(* A code is drawn from 48 random bits: it was never drawn before.  A      *)
(* failed lookup of a postal code is an outcome of the lookup, whether the *)
(* service fails or its failure is remembered.                             *)
(***************************************************************************)
EXTENDS Naturals, Sequences, FiniteSets, FiniteSetsExt

CONSTANTS
    Tutors, Chats, Postals,
    Codes,      \* numbered in the order they are drawn
    None,
    Distance,   \* between two postal codes, in km
    Subjects, Levels, Specifics,
    Known,      \* the profiles saved before, no chat linked yet
    Saves,      \* what a profile save gives: these fields, the others are left alone
    Adverts,    \* the assignments direct messages are sent about
    Faults,     \* "lost": Redis does what it is told and the answer is lost
    Budgets,    \* bounds: what may happen beside the program, a behaviour has one of them
    BatchLimit,     \* updates one poll returns (50)
    MaxRecipients   \* DM_MAX_RECIPIENTS

Copies == {"redis", "memory"}
Fields == {"chat", "postal", "radius", "pairs", "subjects", "levels"}
MinRadius == 1    \* 0.5 km in the code
MaxRadius == 50
DefaultRadius == 5

Pairs == Subjects \X Levels \X (Specifics \cup {None})
Profile == [chat : Chats \cup {None}, postal : Postals \cup {None}, coords : Postals \cup {None},
            radius : Nat, pairs : SUBSET Pairs, subjects : SUBSET Subjects, levels : SUBSET Levels]
Blank == [chat |-> None, postal |-> None, coords |-> None, radius |-> DefaultRadius,
          pairs |-> {}, subjects |-> {}, levels |-> {}]
Budget == [codes : Nat, updates : Nat, saves : Nat, sends : Nat,
           expiries : Nat, faults : Nat]
Advert == [online : BOOLEAN, postal : Postals \cup {None}, estimated : Postals \cup {None},
           primary : BOOLEAN,
           subjects : SUBSET Subjects, levels : SUBSET Levels, specifics : SUBSET Specifics]

ASSUME TutorsAssumption ==
    /\ Distance \in [Postals \X Postals -> Nat]
    /\ None \notin Tutors \cup Chats \cup Postals \cup Specifics
    /\ Codes \subseteq Nat
    /\ \A s \in Saves :
        /\ DOMAIN s \subseteq Fields
        /\ "chat" \in DOMAIN s => s.chat \in Chats \cup {None}
        /\ "postal" \in DOMAIN s => s.postal \in Postals \cup {None}
        /\ "radius" \in DOMAIN s => s.radius \in Nat
        /\ "pairs" \in DOMAIN s => s.pairs \subseteq Pairs
        /\ "subjects" \in DOMAIN s => s.subjects \subseteq Subjects
        /\ "levels" \in DOMAIN s => s.levels \subseteq Levels
    /\ Known \in [Tutors -> Profile]
    /\ \A t \in Tutors : Known[t].chat = None /\ Known[t].coords \in {None, Known[t].postal}
    /\ Adverts \subseteq Advert
    /\ Faults \subseteq {"lost"}
    /\ Budgets \subseteq Budget
    /\ {BatchLimit, MaxRecipients} \subseteq Nat \ {0}

VARIABLES
    reachable,  \* the backend reaches Redis
    profile,    \* per copy of the store, the profile of each tutor
    stored,     \* per copy of the store, the link codes in it
    owner,      \* whom a code was given to
    expired,    \* the codes whose time is over
    claims,     \* claims that consumed their code and have not set the chat yet
    updates,    \* what was sent to the bot, in order
    confirmed,  \* Telegram serves no update below this one again
    bot,        \* offset, next update to handle, last update of the batch (0: none)
    saved,      \* the offset in the file
    dms,        \* the direct messages being sent
    left,       \* what is left of the budget
    written,    \* history: copies of the store a code was written to
    spent,      \* history: claims a code was accepted for
    declared,   \* history: the chats profile saves gave, and for whom
    attempted   \* history: updates the bot handled

storeVars == <<reachable, profile, stored, owner, expired, claims, written, spent, declared>>
botVars == <<updates, confirmed, bot, saved, attempted>>
vars == <<storeVars, botVars, dms, left>>

NoBatch(offset) == [offset |-> offset, next |-> 0, todo |-> 0]
NoDms == [phase |-> "idle", advert |-> None, coords |-> None, rest |-> {}, to |-> {}]

TypeOK ==
    /\ reachable \in BOOLEAN
    /\ profile \in [Copies -> [Tutors -> Profile]]
    /\ stored \in [Copies -> SUBSET Codes]
    /\ owner \in [Codes -> Tutors \cup {None}]
    /\ expired \subseteq Codes
    /\ claims \subseteq [tutor : Tutors, chat : Chats]
    /\ updates \in Seq([chat : Chats, code : Codes])
    /\ confirmed \in Nat /\ saved \in Nat
    /\ bot \in [offset : Nat, next : Nat, todo : Nat]
    /\ dms.phase \in {"idle", "match", "send"} /\ dms.coords \in Postals \cup {None}
    /\ dms.rest \subseteq Tutors /\ dms.to \subseteq [tutor : Tutors, as : Profile]
    /\ written \in [Codes -> 0..2] /\ spent \in [Codes -> Nat]
    /\ declared \subseteq [tutor : Tutors, chat : Chats]
    /\ attempted \subseteq DOMAIN updates
    /\ left \in Budget

Init ==
    /\ reachable = TRUE
    /\ profile = [k \in Copies |-> IF k = "redis" THEN Known ELSE [t \in Tutors |-> Blank]]
    /\ stored = [k \in Copies |-> {}]
    /\ owner = [c \in Codes |-> None]
    /\ expired = {} /\ claims = {}
    /\ updates = <<>> /\ confirmed = 0
    /\ bot = NoBatch(0) /\ saved = 0
    /\ dms = NoDms
    /\ left \in Budgets
    /\ written = [c \in Codes |-> 0] /\ spent = [c \in Codes |-> 0]
    /\ declared = {} /\ attempted = {}

-----------------------------------------------------------------------------
Spend(kind) ==
    /\ left[kind] > 0
    /\ left' = [left EXCEPT ![kind] = @ - 1]

(* TutorStore: each call goes to Redis and, when that raises, to the memory *)
(* of the process.                                                          *)

(* The copies a call changes: with a lost answer, both. *)
Landings ==
    IF ~reachable THEN {{"memory"}}
    ELSE {{"redis"}} \cup (IF "lost" \in Faults /\ left.faults > 0 THEN {Copies} ELSE {})
Lost(landing) == IF landing = Copies THEN 1 ELSE 0
Reading == IF reachable THEN "redis" ELSE "memory"

Clamped(r) == Max({MinRadius, Min({MaxRadius, r})})

(* Mutant: a postal code that could not be placed keeps the coordinates *)
(* the profile had. *)
SavedOverCoords(p, s, coords) ==
    [f \in DOMAIN p |->
        CASE f = "coords" -> IF "postal" \in DOMAIN s /\ coords # None THEN coords ELSE p.coords
          [] f \notin DOMAIN s \cup {"coords"} -> p[f]
          [] f = "radius" /\ f \in DOMAIN s -> Clamped(s.radius)
          [] OTHER -> s[f]]

(* The chat a save gives, if it gives one. *)
ChatsIn(s) == IF "chat" \in DOMAIN s THEN {s.chat} \ {None} ELSE {}

(* upsert_tutor: fields not given stay as they are; a new postal code comes *)
(* with its coordinates or clears them.                                     *)
Saved(p, s, coords) ==
    [f \in DOMAIN p |->
        CASE f = "coords" -> IF "postal" \in DOMAIN s THEN coords ELSE p.coords
          [] f \notin DOMAIN s \cup {"coords"} -> p[f]
          [] f = "radius" /\ f \in DOMAIN s -> Clamped(s.radius)
          [] OTHER -> s[f]]

(* PUT /me/tutor, and PUT /tutors/{tutor_id} for an administrator, who      *)
(* gives no postal code.  Either may set or clear the chat without a code.  *)
Save(t, s) ==
    /\ left.saves > 0
    /\ declared' = declared \cup {[tutor |-> t, chat |-> c] : c \in ChatsIn(s)}
    /\ \E landing \in Landings, coords \in {None, IF "postal" \in DOMAIN s THEN s.postal ELSE None} :
        /\ profile' = [k \in Copies |->
                        IF k \in landing THEN [profile[k] EXCEPT ![t] = Saved(@, s, coords)]
                        ELSE profile[k]]
        /\ left' = [left EXCEPT !.saves = @ - 1, !.faults = @ - Lost(landing)]
    /\ UNCHANGED <<reachable, stored, owner, expired, claims, written, spent, botVars, dms>>

(* delete_tutor, by an administrator. *)
Delete(t) ==
    /\ left.saves > 0
    /\ \E landing \in Landings :
        /\ profile' = [k \in Copies |->
                        IF k \in landing THEN [profile[k] EXCEPT ![t] = Blank] ELSE profile[k]]
        /\ left' = [left EXCEPT !.saves = @ - 1, !.faults = @ - Lost(landing)]
    /\ UNCHANGED <<reachable, stored, owner, expired, claims, written, spent, declared, botVars, dms>>

(* create_telegram_link_code, asked for by the tutor on the website. *)
CreateCode(t, c) ==
    /\ owner[c] = None /\ left.codes > 0
    /\ \A d \in Codes : d < c => owner[d] # None
    /\ owner' = [owner EXCEPT ![c] = t]
    /\ \E landing \in Landings :
        /\ stored' = [k \in Copies |-> IF k \in landing THEN stored[k] \cup {c} ELSE stored[k]]
        /\ written' = [written EXCEPT ![c] = Cardinality(landing)]
        /\ left' = [left EXCEPT !.codes = @ - 1, !.faults = @ - Lost(landing)]
    /\ UNCHANGED <<reachable, profile, expired, claims, spent, declared, botVars, dms>>

(* The time of a code is over: Redis drops it, the entry in memory stays. *)
Expire(c) ==
    /\ owner[c] # None /\ c \notin expired
    /\ Spend("expiries")
    /\ expired' = expired \cup {c}
    /\ stored' = [stored EXCEPT !["redis"] = @ \ {c}]
    /\ UNCHANGED <<reachable, profile, owner, claims, written, spent, declared, botVars, dms>>

(* Mutant: the code is read and stays in the store until its time is over. *)
ConsumedNothing(landing, c) == stored

(* consume_telegram_link_code, first half of telegram_claim: what is read   *)
(* is removed, in the copies the call reaches.                              *)
Consumed(landing, c) == [k \in Copies |-> IF k \in landing THEN stored[k] \ {c} ELSE stored[k]]
Accepted(landing, c) ==
    IF "memory" \in landing THEN c \in stored["memory"] /\ c \notin expired
    ELSE c \in stored["redis"]

(* unsent: a reply the bot could not send, counted with the faults. *)
Claim(chat, c, unsent) ==
    \E landing \in Landings :
        /\ left.faults >= Lost(landing) + unsent
        /\ stored' = Consumed(landing, c)
        /\ IF Accepted(landing, c)
           THEN /\ claims' = claims \cup {[tutor |-> owner[c], chat |-> chat]}
                /\ spent' = [spent EXCEPT ![c] = @ + 1]
           ELSE UNCHANGED <<claims, spent>>
        /\ left' = [left EXCEPT !.faults = @ - Lost(landing) - unsent]

(* set_chat_id, second half of telegram_claim. *)
SetChat(cl) ==
    /\ claims' = claims \ {cl}
    /\ \E landing \in Landings :
        /\ profile' = [k \in Copies |->
                        IF k \in landing THEN [profile[k] EXCEPT ![cl.tutor].chat = cl.chat]
                        ELSE profile[k]]
        /\ left' = [left EXCEPT !.faults = @ - Lost(landing)]
    /\ UNCHANGED <<reachable, stored, owner, expired, written, spent, declared, botVars, dms>>

(* Redis goes away and comes back with what it had; the backend restarts    *)
(* and loses its memory and the claims it was working on.                   *)
RedisDown ==
    /\ reachable /\ Spend("faults")
    /\ reachable' = FALSE
    /\ UNCHANGED <<profile, stored, owner, expired, claims, written, spent, declared, botVars, dms>>

RedisUp ==
    /\ ~reachable
    /\ reachable' = TRUE
    /\ UNCHANGED <<profile, stored, owner, expired, claims, written, spent, declared, botVars, dms, left>>

BackendRestart ==
    /\ Spend("faults")
    /\ profile' = [profile EXCEPT !["memory"] = [t \in Tutors |-> Blank]]
    /\ stored' = [stored EXCEPT !["memory"] = {}]
    /\ claims' = {}
    /\ dms' = IF dms.phase = "match" THEN NoDms ELSE dms
    /\ UNCHANGED <<reachable, owner, expired, written, spent, declared, botVars>>

-----------------------------------------------------------------------------
(* The link bot: it polls Telegram for updates, handles them in order and   *)
(* saves the offset after each batch.                                       *)

(* Someone sends a code to the bot. *)
Message(chat, c) ==
    /\ owner[c] # None
    /\ Spend("updates")
    /\ updates' = Append(updates, [chat |-> chat, code |-> c])
    /\ UNCHANGED <<storeVars, confirmed, bot, saved, attempted, dms>>

(* Mutant: the poll confirms the batch it is about to return. *)
ConfirmsBatch(offset) == Len(updates) + 1

(* getUpdates: asking from an offset confirms every update below it. *)
Confirms(offset) == Max({confirmed, offset})

Poll ==
    /\ bot.todo = 0
    /\ LET first == Max({1, confirmed, bot.offset})
           last  == Min({Len(updates), first + BatchLimit - 1})
       IN  /\ first <= last
           /\ bot' = [bot EXCEPT !.next = first, !.todo = last]
    /\ confirmed' = Confirms(bot.offset)
    /\ UNCHANGED <<storeVars, updates, saved, attempted, dms, left>>

(* One update: the offset moves first, then the code is claimed; the claim  *)
(* may not reach the backend.  If no reply can be sent, after a claim or    *)
(* after none, the rest of the batch is left for the next poll.             *)
Handle ==
    /\ bot.todo # 0 /\ bot.next <= bot.todo
    /\ LET u == bot.next
           offset == Max({bot.offset, u + 1})
       IN  /\ attempted' = attempted \cup {u}
           /\ \/ \E unsent \in 0..1 :
                    /\ Claim(updates[u].chat, updates[u].code, unsent)
                    /\ bot' = IF unsent = 0 THEN [bot EXCEPT !.offset = offset, !.next = u + 1]
                              ELSE NoBatch(offset)
              \/ /\ Spend("faults")
                 /\ bot' \in {[bot EXCEPT !.offset = offset, !.next = u + 1], NoBatch(offset)}
                 /\ UNCHANGED <<stored, claims, spent>>
    /\ UNCHANGED <<reachable, profile, owner, expired, written, declared, updates,
                   confirmed, saved, dms>>

(* _save_offset after the batch; the file may not be writable. *)
SaveOffset ==
    /\ bot.todo # 0 /\ bot.next > bot.todo
    /\ bot' = NoBatch(bot.offset)
    /\ \/ saved' = bot.offset /\ UNCHANGED left
       \/ Spend("faults") /\ UNCHANGED saved
    /\ UNCHANGED <<storeVars, updates, confirmed, attempted, dms>>

BotRestart ==
    /\ Spend("faults")
    /\ bot' = NoBatch(saved)
    /\ UNCHANGED <<storeVars, updates, confirmed, saved, attempted, dms>>

-----------------------------------------------------------------------------
(* match_from_payload: which tutors an assignment is for. *)

(* _tutor_subject_level_match: a tutor who gave pairs is matched by them    *)
(* alone, and a pair with a specific level by that level alone.             *)
Teaches(p, a) ==
    IF p.pairs # {}
    THEN \E pair \in p.pairs :
            /\ pair[1] \in a.subjects
            /\ IF pair[3] # None THEN pair[3] \in a.specifics ELSE pair[2] \in a.levels
    ELSE p.subjects \cap a.subjects # {} /\ p.levels \cap a.levels # {}

(* _passes_distance_filter *)
NearEnough(p, a, coords) ==
    \/ p.coords = None
    \/ a.online
    \/ coords # None /\ Distance[p.coords, coords] <= p.radius

Matches(p, a, coords) == p.chat # None /\ Teaches(p, a) /\ NearEnough(p, a, coords)

(* _get_or_geocode_assignment_coords: the explicit code, else the estimated *)
(* one; either lookup may fail.                                             *)
Located(a) ==
    IF a.online THEN {None}
    ELSE {None} \cup ({a.postal, a.estimated} \ {None})

(* send_dms up to the call of the backend; only for the representative of a *)
(* group of duplicates.                                                     *)
StartDms(a) ==
    /\ dms.phase = "idle" /\ Spend("sends")
    /\ a.primary
    /\ \E coords \in Located(a) :
        dms' = [phase |-> "match", advert |-> a, coords |-> coords, to |-> {},
                rest |-> {t \in Tutors : profile[Reading][t] # Blank}]
    /\ UNCHANGED <<storeVars, botVars>>

(* The backend reads one tutor after another, each from the store it reaches. *)
MatchOne(t) ==
    /\ dms.phase = "match" /\ t \in dms.rest
    /\ LET p == profile[Reading][t]
       IN  dms' = [dms EXCEPT !.rest = @ \ {t},
                              !.to = IF Matches(p, dms.advert, dms.coords)
                                     THEN @ \cup {[tutor |-> t, as |-> p]} ELSE @]
    /\ UNCHANGED <<storeVars, botVars, left>>

(* The answer reaches send_dms, which cuts it at MaxRecipients, or is lost. *)
Matched ==
    /\ dms.phase = "match" /\ dms.rest = {}
    /\ \/ \E to \in kSubset(Min({MaxRecipients, Cardinality(dms.to)}), dms.to) :
            dms' = IF to = {} THEN NoDms ELSE [dms EXCEPT !.phase = "send", !.to = to]
       \/ dms' = NoDms
    /\ UNCHANGED <<storeVars, botVars, left>>

(* One message: accepted or refused, after one retry when the bot is rate   *)
(* limited; an exception leaves the others without theirs.                  *)
Send(r) ==
    /\ dms.phase = "send"
    /\ dms' \in {IF dms.to = {r} THEN NoDms ELSE [dms EXCEPT !.to = @ \ {r}], NoDms}
    /\ UNCHANGED <<storeVars, botVars, left>>

-----------------------------------------------------------------------------
BotStep == Poll \/ Handle \/ SaveOffset
Next ==
    \/ \E t \in Tutors, s \in Saves : Save(t, s)
    \/ \E t \in Tutors : Delete(t)
    \/ \E t \in Tutors, c \in Codes : CreateCode(t, c)
    \/ \E c \in Codes : Expire(c)
    \/ \E cl \in claims : SetChat(cl)
    \/ RedisDown \/ RedisUp \/ BackendRestart
    \/ \E chat \in Chats, c \in Codes : Message(chat, c)
    \/ BotStep \/ BotRestart
    \/ \E a \in Adverts : StartDms(a)
    \/ \E t \in Tutors : MatchOne(t)
    \/ Matched
    \/ \E r \in dms.to : Send(r)

Spec == Init /\ [][Next]_vars

(* The bot keeps running, and a poll does not fail for ever. *)
FairSpec == Spec /\ WF_vars(BotStep)

-----------------------------------------------------------------------------
(* Properties. *)

(* The chat sent, in a message the bot handled, a code given to the tutor. *)
LinkedBy(chat, t) ==
    \E u \in attempted : updates[u].chat = chat /\ owner[updates[u].code] = t

(* The chat is the tutor's own, as far as the store can know: linked by a   *)
(* code, or given by a save of that tutor's profile.                        *)
ChatOf(chat, t) == LinkedBy(chat, t) \/ [tutor |-> t, chat |-> chat] \in declared

(* No chat strays to a profile: every chat in either copy of the store sent *)
(* a code its tutor was given or was put there by a save of that profile,   *)
(* and a code is accepted at most once for each copy it was written to,     *)
(* whatever outages, replays after a crash and edited profiles lie between. *)
(* That a chat comes by a code alone does not hold: both profile routes     *)
(* store the chat_id they are sent.  About telegram_claim, set_chat_id,     *)
(* consume_telegram_link_code, upsert_tutor and the bot's replays.          *)
NoStrayChat ==
    /\ \A k \in Copies, t \in Tutors : profile[k][t].chat # None => ChatOf(profile[k][t].chat, t)
    /\ \A c \in Codes : spent[c] <= written[c]

(* The coordinates of a profile are those of the postal code it has. *)
CoordsFollowCode ==
    \A k \in Copies, t \in Tutors :
        profile[k][t].coords # None => profile[k][t].coords = profile[k][t].postal

(* A direct message goes to a chat its tutor linked or a save of that       *)
(* profile gave and, unless the assignment is online or the tutor's postal  *)
(* code could not be placed, to a tutor whose postal code at the time of    *)
(* the match lies within the radius of the place of the assignment.  About  *)
(* match_from_payload over a store that profiles are saved to, in part, and *)
(* that falls back.                                                         *)
DmsJustified ==
    \A r \in dms.to :
        /\ ChatOf(r.as.chat, r.tutor)
        /\ r.as.coords # None /\ ~dms.advert.online =>
            /\ dms.coords # None /\ r.as.postal # None
            /\ Distance[r.as.postal, dms.coords] <= r.as.radius

MaxUpdates == Max({b.updates : b \in Budgets})

(* Every code sent to the bot is handled, although the bot may crash, lose  *)
(* its offset file or fail in the middle of a batch: the offset never       *)
(* confirms an update that was not handled.  About the loop of main in      *)
(* telegram_link_bot.                                                       *)
EveryUpdateHandled ==
    \A u \in 1..MaxUpdates : (u \in DOMAIN updates) ~> (u \in attempted)
=============================================================================
