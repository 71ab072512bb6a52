--------------------------- MODULE SettingsProofs ---------------------------
(***************************************************************************)
(* Proofs about Settings, for any calls, any setters of the table, and any *)
(* number of arguments, faults and attempts.                               *)
(***************************************************************************)
EXTENDS Settings, TLAPS, FiniteSetTheorems

USE SettingsAssumption

Names == {"pc", "setter", "asked", "bad", "alias", "body", "via", "taken", "seen", "fresh", "tries", "gets",
          "wrote", "since", "stored", "rewritten", "out"}
IsRecord(r) == r = [x \in Names |-> r[x]]

Sending == {"bc", "bcread", "bcwrite", "bclast"}
After   == {"posted", "refresh", "refreshed"}

(* Another call has asked for the field, or the answer to another task's   *)
(* read has changed it in the dict that c held.                            *)
Excused(c, f) == (\E d \in Call \ {c} : f \in calls[d].asked) \/ f \in calls[c].rewritten

(* Whoever sends part sends what c was asked, but for what is excused.     *)
Mine(c, part) == \A f \in calls[c].asked : f \in DOMAIN part /\ (part[f] = c \/ Excused(c, f))

(* What c was asked of the fields has been stored.                         *)
Kept(c, fields) == \A f \in calls[c].asked \cap fields : f \in calls[c].stored \/ Excused(c, f)

(* A call that runs is one of a setter of the document, and what its last  *)
(* answer showed and what the camera has is noted.                         *)
Noticed(c) ==
    /\ calls[c].pc = "idle" => calls[c].asked = {} /\ calls[c].rewritten = {}
    /\ Running(c) => /\ calls[c].setter \in Used \cap SettersOf[section]
                     /\ calls[c].asked \subseteq ToSet(RowOf(calls[c]).args)
                     /\ calls[c].out = "none"
                     /\ \A f \in Field : device[f] \in calls[c].since[f]
    /\ calls[c].pc = "refreshed" => \A f \in Field : calls[c].seen[f] \in calls[c].since[f]
    /\ calls[c].pc \in {"got", "bcwrite", "refreshed"} => DOMAIN calls[c].seen = Field

(* How a call sends, and which calls hold the cached dict.                 *)
Ways(r) ==
    /\ r.alias => r.pc \in Sending \cup {"post"} /\ RowOf(r).body # "own"
    /\ r.pc \in {"get", "got"} => r.via = "http" /\ r.gets = 0
    /\ r.pc = "post" => r.via \in {"http", "failed"} /\ r.gets = 0
    /\ r.pc \in Sending => HasHandler /\ r.via \in {"first", "fallback", "only", "direct"} /\ r.gets = 0

(* How far a call has come with what it was asked.                         *)
Progress(c) ==
    LET r == calls[c] IN
    /\ r.pc = "post" => Mine(c, Content(c))
    /\ r.pc \in Sending => Mine(c, r.taken) /\ (r.via # "direct" => Mine(c, Content(c)))
    /\ r.pc \in Sending \ {"bc"} => Kept(c, Handler.first \cap Handles)
    /\ r.pc = "bclast" => Kept(c, Handles \ Handler.last)
    /\ r.pc \in After => Kept(c, Carried(r))

Global ==
    /\ section \in Docs
    /\ DOMAIN calls = Call /\ calls = [c \in Call |-> calls[c]]
    /\ DOMAIN device = Field
    /\ cache = NoDoc \/ DOMAIN cache = Field
    /\ poll = NoDoc \/ DOMAIN poll = Field

CallInv(c) == IsRecord(calls[c]) /\ Noticed(c) /\ Ways(calls[c]) /\ Progress(c)

IInv == Global /\ \A c \in Call : CallInv(c)

-----------------------------------------------------------------------------
(* A call that another one's step leaves where it is.                      *)
Stays(d) ==
    LET r == calls[d]
        n == calls'[d]
    IN  /\ IsRecord(n)
        /\ n.pc = r.pc /\ n.setter = r.setter /\ n.asked = r.asked /\ n.via = r.via /\ n.taken = r.taken
        /\ n.seen = r.seen /\ n.gets = r.gets /\ n.stored = r.stored /\ n.out = r.out
        /\ (n.alias => r.alias) /\ (r.pc = "idle" => n.rewritten = r.rewritten)
        /\ Running(d) => \A f \in Field : device'[f] \in n.since[f] /\ r.since[f] \subseteq n.since[f]
        /\ r.pc \in Sending \cup {"post"} /\ Mine(d, Content(d)) => Mine(d, Content(d))'

(* What was asked stays on record.                                         *)
Asked == /\ section' = section /\ baichuan_only' = baichuan_only /\ lacks' = lacks
         /\ \A e \in Call : /\ calls[e].asked \subseteq calls'[e].asked
                           /\ calls[e].rewritten \subseteq calls'[e].rewritten

LEMMA ExcusedStays ==
  ASSUME Asked, NEW d \in Call, NEW f, Excused(d, f)
  PROVE  Excused(d, f)'
BY DEF Asked, Excused

LEMMA StaysKeeps ==
  ASSUME NEW d \in Call, CallInv(d), Stays(d), Asked
  PROVE  CallInv(d)'
<1> DEFINE r == calls[d]
           n == calls'[d]
<1>1. /\ n.pc = r.pc /\ n.setter = r.setter /\ n.asked = r.asked /\ n.via = r.via /\ n.taken = r.taken
      /\ n.seen = r.seen /\ n.gets = r.gets /\ n.stored = r.stored /\ n.out = r.out
      /\ (n.alias => r.alias) /\ (r.pc = "idle" => n.rewritten = r.rewritten)
      /\ IsRecord(n)
  BY DEF Stays
<1>2. Field' = Field /\ (HasHandler' <=> HasHandler) /\ Handler' = Handler /\ Handles' = Handles
  BY DEF Field, HasHandler, Handler, Handles, Asked
<1>3. RowOf(n) = RowOf(r) /\ Carried(calls[d])' = Carried(r)
  BY <1>1, <1>2 DEF RowOf, Carried, Asked
<1>4. Noticed(d)'
  BY <1>1, <1>2 DEF CallInv, Noticed, Stays, Running, RowOf, Asked
<1>5. Ways(calls[d])'
  BY <1>1, <1>2, <1>3 DEF CallInv, Ways, RowOf
<1>6. Progress(d)'
  <2>1. Progress(d)
    BY DEF CallInv
  <2>2. n.pc = "post" => Mine(d, Content(d))'
    BY <1>1, <2>1 DEF Progress, Stays
  <2>3. ASSUME n.pc \in Sending PROVE Mine(d, calls[d].taken)' /\ (n.via # "direct" => Mine(d, Content(d))')
    <3>1. Mine(d, r.taken) /\ (r.via # "direct" => Mine(d, Content(d)))
      BY <1>1, <2>1, <2>3 DEF Progress
    <3>2. Mine(d, calls[d].taken)'
      BY <1>1, <3>1, ExcusedStays DEF Mine
    <3> QED
      BY <1>1, <2>3, <3>1, <3>2 DEF Stays
  <2>4. ASSUME NEW fields, Kept(d, fields) PROVE \A f \in n.asked \cap fields : f \in n.stored \/ Excused(d, f)'
    BY <1>1, <2>4, ExcusedStays DEF Kept
  <2>5. n.pc \in Sending \ {"bc"} => Kept(d, Handler.first \cap Handles)'
    BY <1>1, <1>2, <2>1, <2>4 DEF Progress, Kept
  <2>6. n.pc = "bclast" => Kept(d, Handles \ Handler.last)'
    BY <1>1, <1>2, <2>1, <2>4 DEF Progress, Kept
  <2>7. n.pc \in After => Kept(d, Carried(calls[d]))'
    BY <1>1, <1>3, <2>1, <2>4 DEF Progress, Kept
  <2> QED
    BY <2>2, <2>3, <2>5, <2>6, <2>7 DEF Progress
<1> QED
  BY <1>1, <1>4, <1>5, <1>6 DEF CallInv

-----------------------------------------------------------------------------
(* The cached dict has become document, with what call c was asked perhaps *)
(* written into it.                                                        *)
Became(c, document) == \/ cache' = document
                       \/ \E fields \in SUBSET calls'[c].asked : cache' = Put(document, [f \in fields |-> c])

LEMMA BecameFields ==
  ASSUME NEW c \in Call, NEW d \in Call \ {c}, NEW document, Became(c, document), NEW f \in DOMAIN document
  PROVE  f \in DOMAIN (cache') /\ (cache'[f] = document[f] \/ Excused(d, f)')
<1>1. CASE cache' = document
  BY <1>1
<1>2. CASE cache' # document
  <2>1. PICK fields \in SUBSET calls'[c].asked : cache' = Put(document, [g \in fields |-> c])
    BY <1>2 DEF Became
  <2>2. f \in DOMAIN cache' /\ (f \notin fields => cache'[f] = document[f])
    BY <2>1 DEF Put
  <2>3. f \in fields => Excused(d, f)'
    BY <2>1 DEF Excused
  <2> QED
    BY <2>2, <2>3
<1> QED
  BY <1>1, <1>2

(* Nothing happens to d but that another call c may write what it was      *)
(* asked into the cached dict.                                             *)
LEMMA UntouchedStays ==
  ASSUME NEW c \in Call, NEW d \in Call \ {c}, CallInv(d), Asked, calls'[d] = calls[d], device' = device,
         Became(c, cache)
  PROVE  Stays(d)
<1>1. ASSUME Running(d)
      PROVE  \A f \in Field : device'[f] \in calls'[d].since[f] /\ calls[d].since[f] \subseteq calls'[d].since[f]
  BY <1>1 DEF CallInv, Noticed
<1>2. ASSUME Mine(d, Content(d)) PROVE Mine(d, Content(d))'
  <2> SUFFICES ASSUME NEW f \in calls[d].asked
               PROVE  f \in DOMAIN (Content(d)') /\ (Content(d)'[f] = d \/ Excused(d, f)')
    BY DEF Mine
  <2>1. f \in DOMAIN Content(d) /\ (Content(d)[f] = d \/ Excused(d, f))
    BY <1>2 DEF Mine
  <2>2. CASE calls[d].alias
    <3>1. Content(d) = cache /\ Content(d)' = cache'
      BY <2>2 DEF Content
    <3> QED
      BY <2>1, <3>1, BecameFields, ExcusedStays
  <2>3. CASE ~calls[d].alias
    <3>1. Content(d)' = Content(d)
      BY <2>3 DEF Content
    <3> QED
      BY <2>1, <3>1, ExcusedStays
  <2> QED
    BY <2>2, <2>3
<1> QED
  BY <1>1, <1>2 DEF Stays, CallInv

(* An answer is mapped into the cache.                                     *)
Landed(d, answer) == cache' = answer \/ \E c \in Call \ {d} : Became(c, answer)

LEMMA RemappedRecord ==
  ASSUME NEW r, IsRecord(r), NEW answer, NEW b
  PROVE  LET n == Remapped(r, answer, b)
         IN  /\ IsRecord(n) /\ n.pc = r.pc /\ n.setter = r.setter /\ n.asked = r.asked /\ n.via = r.via
             /\ n.taken = r.taken /\ n.seen = r.seen /\ n.gets = r.gets /\ n.stored = r.stored /\ n.out = r.out
             /\ n.since = r.since /\ r.rewritten \subseteq n.rewritten
             /\ ~r.alias => n = r
             /\ r.alias /\ InPlace(b) =>
                   n.alias /\ n.rewritten = r.rewritten \cup {f \in Field : answer[f] # cache[f]}
             /\ r.alias /\ ~InPlace(b) => ~n.alias /\ n.body = cache /\ n.rewritten = r.rewritten
<1> DEFINE n == Remapped(r, answer, b)
           new == {f \in Field : answer[f] # cache[f]}
<1>1. CASE ~r.alias
  BY <1>1 DEF Remapped
<1>2. CASE r.alias /\ InPlace(b)
  <2>1. n = [r EXCEPT !.rewritten = @ \cup new]
    BY <1>2 DEF Remapped
  <2> HIDE DEF n, new
  <2>2. /\ IsRecord(n) /\ n.pc = r.pc /\ n.setter = r.setter /\ n.asked = r.asked /\ n.via = r.via
        /\ n.taken = r.taken /\ n.seen = r.seen /\ n.gets = r.gets /\ n.stored = r.stored /\ n.out = r.out
        /\ n.since = r.since /\ n.rewritten = r.rewritten \cup new /\ n.alias = r.alias
    BY <2>1 DEF IsRecord, Names
  <2> USE DEF n
  <2> QED
    BY <1>2, <2>2 DEF new
<1>3. CASE r.alias /\ ~InPlace(b)
  <2>1. n = [r EXCEPT !.alias = FALSE, !.body = cache]
    BY <1>3 DEF Remapped
  <2> HIDE DEF n
  <2>2. /\ IsRecord(n) /\ n.pc = r.pc /\ n.setter = r.setter /\ n.asked = r.asked /\ n.via = r.via
        /\ n.taken = r.taken /\ n.seen = r.seen /\ n.gets = r.gets /\ n.stored = r.stored /\ n.out = r.out
        /\ n.since = r.since /\ n.rewritten = r.rewritten /\ ~n.alias /\ n.body = cache
    BY <2>1 DEF IsRecord, Names
  <2> USE DEF n
  <2> QED
    BY <1>3, <2>2
<1> QED
  BY <1>1, <1>2, <1>3

(* What a call with its record remapped would send: where the answer has   *)
(* changed it, that is on record.                                          *)
LEMMA RemappedMine ==
  ASSUME NEW d \in Call, IsRecord(calls[d]), calls[d].asked \subseteq Field, Asked, NEW answer,
         DOMAIN answer = Field, NEW b, Landed(d, answer), NEW n, n = Remapped(calls[d], answer, b),
         calls'[d].alias = n.alias, calls'[d].body = n.body, calls'[d].asked = n.asked,
         calls'[d].rewritten = n.rewritten, Mine(d, Content(d))
  PROVE  Mine(d, Content(d))'
<1> SUFFICES ASSUME NEW f \in calls[d].asked
             PROVE  f \in DOMAIN (Content(d)') /\ (Content(d)'[f] = d \/ Excused(d, f)')
  BY RemappedRecord DEF Mine
<1>1. f \in DOMAIN Content(d) /\ (Content(d)[f] = d \/ Excused(d, f))
  BY DEF Mine
<1>2. CASE ~calls[d].alias
  <2>1. Content(d)' = Content(d)
    BY <1>2, RemappedRecord DEF Content
  <2> QED
    BY <1>1, <2>1, ExcusedStays
<1>3. CASE calls[d].alias /\ InPlace(b)
  <2>1. Content(d) = cache /\ Content(d)' = cache'
    BY <1>3, RemappedRecord DEF Content
  <2>2. f \in DOMAIN cache' /\ (cache'[f] = answer[f] \/ Excused(d, f)')
    BY BecameFields DEF Landed
  <2>3. answer[f] # cache[f] => Excused(d, f)'
    BY <1>3, RemappedRecord DEF Excused
  <2> QED
    BY <1>1, <2>1, <2>2, <2>3, ExcusedStays
<1>4. CASE calls[d].alias /\ ~InPlace(b)
  <2>1. Content(d)' = Content(d)
    BY <1>4, RemappedRecord DEF Content
  <2> QED
    BY <1>1, <2>1, ExcusedStays
<1> QED
  BY <1>2, <1>3, <1>4

LEMMA DetachedStays ==
  ASSUME NEW d \in Call, CallInv(d), calls[d].asked \subseteq Field, Asked, NEW answer, DOMAIN answer = Field,
         NEW b, calls'[d] = Detached(calls, answer, b)[d], Landed(d, answer), device' = device
  PROVE  Stays(d)
<1> DEFINE r == calls[d]
           n == Remapped(r, answer, b)
<1>1. calls'[d] = n /\ IsRecord(r)
  BY DEF Detached, CallInv
<1> HIDE DEF n
<1>2. /\ IsRecord(n) /\ n.pc = r.pc /\ n.setter = r.setter /\ n.asked = r.asked /\ n.via = r.via
      /\ n.taken = r.taken /\ n.seen = r.seen /\ n.gets = r.gets /\ n.stored = r.stored /\ n.out = r.out
      /\ n.since = r.since /\ (n.alias => r.alias) /\ (~r.alias => n = r)
  BY <1>1, RemappedRecord DEF n
<1>3. ASSUME Running(d) PROVE \A f \in Field : device'[f] \in n.since[f] /\ r.since[f] \subseteq n.since[f]
  BY <1>2, <1>3 DEF CallInv, Noticed
<1>4. ASSUME Mine(d, Content(d)) PROVE Mine(d, Content(d))'
  BY <1>1, <1>4, RemappedMine DEF n
<1>5. r.pc = "idle" => n.rewritten = r.rewritten
  BY <1>2 DEF CallInv, Ways, Sending
<1> QED
  BY <1>1, <1>2, <1>3, <1>4, <1>5 DEF Stays

(* The document changes on the camera.                                     *)
LEMMA NotedStays ==
  ASSUME NEW d \in Call, CallInv(d), Asked, calls'[d] = Noted(calls, device')[d], cache' = cache
  PROVE  Stays(d)
<1>1. CASE ~Running(d)
  <2>1. calls'[d] = calls[d]
    BY <1>1 DEF Noted, Running
  <2> QED
    BY <1>1, <2>1 DEF Stays, CallInv, Running, Sending
<1>2. CASE Running(d)
  <2> DEFINE r == calls[d]
             n == calls'[d]
             s == [f \in Field |-> r.since[f] \cup {device'[f]}]
  <2>1. n = [r EXCEPT !.since = s] /\ IsRecord(r)
    <3>1. IsRecord(r)
      BY DEF CallInv
    <3>2. n = [r EXCEPT !.since = [f \in Field |-> @[f] \cup {device'[f]}]]
      BY <1>2 DEF Noted, Running
    <3> QED
      BY <3>1, <3>2
  <2>2. /\ IsRecord(n) /\ n.alias = r.alias /\ n.body = r.body
        /\ n.pc = r.pc /\ n.setter = r.setter /\ n.asked = r.asked /\ n.rewritten = r.rewritten
        /\ n.via = r.via /\ n.taken = r.taken
        /\ n.seen = r.seen /\ n.gets = r.gets /\ n.stored = r.stored /\ n.out = r.out /\ n.since = s
    <3> HIDE DEF r, n, s
    <3> QED
      BY <2>1 DEF IsRecord, Names
  <2>3. \A f \in Field : device'[f] \in n.since[f] /\ r.since[f] \subseteq n.since[f]
    BY <2>2
  <2>4. ASSUME Mine(d, Content(d)) PROVE Mine(d, Content(d))'
    <3>1. Content(d)' = Content(d)
      BY <2>2 DEF Content
    <3> QED
      BY <2>2, <2>4, <3>1, ExcusedStays DEF Mine
  <2> QED
    BY <2>2, <2>3, <2>4 DEF Stays
<1> QED
  BY <1>1, <1>2

-----------------------------------------------------------------------------
(* From one call to all: the invariant, and what the two properties need.  *)
Promise ==
    \A c \in Call : Running(c) /\ calls'[c].out = "ok"
                      => calls[c].pc \in After /\ (calls[c].pc = "refreshed" => cache' = calls[c].seen)

LEMMA AllStay ==
  ASSUME IInv, Asked, Global', \A d \in Call : Stays(d)
  PROVE  IInv' /\ Promise
<1>1. \A d \in Call : CallInv(d)'
  BY StaysKeeps DEF IInv
<1>2. Promise
  BY DEF Promise, Stays, IInv, CallInv, Noticed
<1> QED
  BY <1>1, <1>2 DEF IInv

LEMMA OneMoves ==
  ASSUME IInv, Asked, Global', NEW c \in Call, \A d \in Call \ {c} : Stays(d), CallInv(c)',
         Running(c) /\ calls'[c].out = "ok"
            => calls[c].pc \in After /\ (calls[c].pc = "refreshed" => cache' = calls[c].seen)
  PROVE  IInv' /\ Promise
<1>1. \A d \in Call \ {c} : CallInv(d)'
  BY StaysKeeps DEF IInv
<1>2. Promise
  BY DEF Promise, Stays, IInv, CallInv, Noticed
<1> QED
  BY <1>1, <1>2 DEF IInv

(* A call ends.                                                            *)
LEMMA EndedRecord ==
  ASSUME NEW r, IsRecord(r), NEW o
  PROVE  LET w == Ended(r, o)
         IN  /\ IsRecord(w) /\ w.pc = "end" /\ w.out = o /\ ~w.alias /\ w.via = "http"
             /\ w.setter = r.setter /\ w.asked = r.asked /\ w.rewritten = r.rewritten /\ w.stored = {}
<1>1. IsRecord(Idle)
  BY DEF IsRecord, Names, Idle
<1> QED
  BY <1>1 DEF IsRecord, Names, Ended, Idle

LEMMA EndedInv ==
  ASSUME NEW c \in Call, IsRecord(calls'[c]), calls'[c].pc = "end", ~calls'[c].alias, calls'[c].via = "http"
  PROVE  CallInv(c)'
<1>1. Noticed(c)'
  BY DEF Noticed, Running
<1>2. Ways(calls[c])'
  BY DEF Ways, Sending
<1>3. Progress(c)'
  BY DEF Progress, Sending, After
<1> QED
  BY <1>1, <1>2, <1>3 DEF CallInv

(* The fields of a setter of the document are fields of the document.      *)
LEMMA RowFields ==
  ASSUME section \in Docs, NEW s \in Used \cap SettersOf[section]
  PROVE  ToSet(Setter[s].args) \subseteq Field /\ Setter[s].doc = section
<1>1. section \in Documents
  BY DEF Docs, Documents
<1>2. Setter[s].doc = section
  BY <1>1 DEF SettersOf
<1>3. ToSet(Setter[s].args) \subseteq Field
  BY DEF Field, FieldsUsed
<1> QED
  BY <1>2, <1>3

(* Nothing is written while one call goes on.                              *)
LEMMA QuietMove ==
  ASSUME IInv, NEW c \in Call, NEW w, calls' = [calls EXCEPT ![c] = w],
         UNCHANGED <<section, baichuan_only, lacks, device, cache>>,
         poll' = NoDoc \/ DOMAIN poll' = DOMAIN device \/ poll' = poll,
         calls[c].asked \subseteq w.asked, calls[c].rewritten \subseteq w.rewritten
  PROVE  Asked /\ Global' /\ (\A d \in Call \ {c} : Stays(d)) /\ calls'[c] = w
<1>1. Global /\ calls'[c] = w
  BY DEF IInv, Global
<1>2. Asked
  BY <1>1 DEF Asked, Global
<1>3. Global'
  <2>1. Field' = Field
    BY DEF Field
  <2> QED
    BY <1>1, <2>1 DEF Global, Docs
<1>4. ASSUME NEW d \in Call \ {c} PROVE Stays(d)
  <2>1. calls'[d] = calls[d] /\ CallInv(d) /\ Became(c, cache)
    BY <1>1 DEF IInv, Global, Became
  <2> QED
    BY <1>2, <2>1, UntouchedStays
<1> QED
  BY <1>1, <1>2, <1>3, <1>4

(* The camera stores what call c sends.                                    *)
LEMMA StoreMove ==
  ASSUME IInv, NEW c \in Call, NEW r, NEW part, IsRecord(r), r.asked = calls[c].asked,
         r.rewritten = calls[c].rewritten, Store(c, r, part),
         UNCHANGED <<section, baichuan_only, lacks, cache, poll>>
  PROVE  /\ Asked /\ Global' /\ \A d \in Call \ {c} : Stays(d)
         /\ LET w == calls'[c]
            IN  /\ IsRecord(w) /\ w.pc = r.pc /\ w.setter = r.setter /\ w.asked = r.asked
                /\ w.rewritten = r.rewritten /\ w.alias = r.alias
                /\ w.body = r.body /\ w.via = r.via /\ w.taken = r.taken /\ w.gets = r.gets /\ w.out = r.out
                /\ w.seen = r.seen
                /\ \A f \in Field : device'[f] \in w.since[f]
                /\ w.stored = r.stored \cup {f \in DOMAIN part : part[f] = c}
<1> DEFINE w == calls'[c]
           s == [f \in Field |-> (IF f \in DOMAIN part \cap r.asked THEN {} ELSE calls[c].since[f]) \cup {device'[f]}]
           t == {f \in DOMAIN part : part[f] = c}
<1>1. /\ w = [r EXCEPT !.wrote = part, !.since = s, !.stored = @ \cup t]
      /\ \A d \in Call \ {c} : calls'[d] = Noted(calls, device')[d]
      /\ DOMAIN calls' = Call /\ calls' = [d \in Call |-> calls'[d]]
  BY DEF Store, Noted
<1>2. /\ IsRecord(w) /\ w.pc = r.pc /\ w.setter = r.setter /\ w.asked = r.asked /\ w.rewritten = r.rewritten
      /\ w.alias = r.alias
      /\ w.body = r.body /\ w.via = r.via /\ w.taken = r.taken /\ w.gets = r.gets /\ w.out = r.out
      /\ w.seen = r.seen /\ w.since = s /\ w.stored = r.stored \cup t
  <2> HIDE DEF w, s, t
  <2> QED
    BY <1>1 DEF IsRecord, Names
<1>3. Asked
  <2>1. ASSUME NEW d \in Call \ {c}
        PROVE  calls'[d].asked = calls[d].asked /\ calls'[d].rewritten = calls[d].rewritten
    <3>1. IsRecord(calls[d]) /\ calls'[d] = Noted(calls, device')[d]
      BY <1>1 DEF IInv, CallInv
    <3>2. calls'[d] = calls[d] \/ calls'[d] = [calls[d] EXCEPT !.since = [f \in Field |-> @[f] \cup {device'[f]}]]
      BY <3>1 DEF Noted
    <3> QED
      BY <3>1, <3>2 DEF IsRecord, Names
  <2> QED
    BY <1>2, <2>1 DEF Asked
<1>4. Global'
  <2>1. Field' = Field /\ DOMAIN device' = DOMAIN device
    BY DEF Field, Store, Put
  <2> QED
    BY <1>1, <2>1 DEF IInv, Global, Docs
<1>5. \A d \in Call \ {c} : Stays(d)
  BY <1>1, <1>3, NotedStays DEF IInv
<1>6. \A f \in Field : device'[f] \in w.since[f]
  BY <1>2
<1> QED
  BY <1>2, <1>3, <1>4, <1>5, <1>6

-----------------------------------------------------------------------------
(* The steps of a call that write nothing.                                 *)
LEMMA QuietCall ==
  ASSUME IInv, NEW c \in Call, Running(c), NEW w, IsRecord(w), calls' = [calls EXCEPT ![c] = w],
         UNCHANGED <<section, baichuan_only, lacks, device, cache, poll>>,
         w.setter = calls[c].setter, w.asked = calls[c].asked, w.rewritten = calls[c].rewritten,
         w.since = calls[c].since, w.out = "none",
         w.stored = calls[c].stored, w.alias = calls[c].alias, w.body = calls[c].body,
         w.pc \notin {"idle", "end"}, w.pc \in {"refreshed", "got", "bcwrite"} => w.seen = device,
         Ways(w),
         w.pc = "post" => Mine(c, Content(c)),
         w.pc \in Sending => w.pc = "bc" /\ Mine(c, w.taken) /\ Mine(c, Content(c)),
         w.pc \in After => Kept(c, Carried(w))
  PROVE  IInv' /\ Promise
<1>1. /\ Asked /\ Global' /\ \A d \in Call \ {c} : Stays(d)
      /\ calls'[c] = w
  BY QuietMove
<1>2. Field' = Field /\ (HasHandler' <=> HasHandler) /\ Handler' = Handler /\ Handles' = Handles
  BY DEF Field, HasHandler, Handler, Handles
<1>3. Global /\ Noticed(c)
  BY DEF IInv, CallInv
<1>4. Noticed(c)'
  BY <1>1, <1>2, <1>3 DEF Noticed, Running, RowOf, Global
<1>5. Ways(calls[c])'
  BY <1>1, <1>2 DEF Ways, RowOf
<1>6. Progress(c)'
  <2>1. ASSUME NEW part, Mine(c, part) PROVE Mine(c, part)'
    BY <2>1, <1>1, ExcusedStays DEF Mine
  <2>2. Content(c)' = Content(c)
    BY <1>1 DEF Content
  <2>3. w.pc = "post" => Mine(c, Content(c))'
    BY <2>1, <2>2 DEF Mine
  <2>4. w.pc \in Sending => w.pc = "bc" /\ Mine(c, calls[c].taken)' /\ Mine(c, Content(c))'
    BY <1>1, <2>1, <2>2 DEF Mine
  <2>5. w.pc \in After => Kept(c, Carried(calls[c]))'
    <3>1. Carried(calls[c])' = Carried(w)
      BY <1>1, <1>2 DEF Carried
    <3> QED
      BY <1>1, <3>1, ExcusedStays DEF Kept
  <2> QED
    BY <1>1, <2>3, <2>4, <2>5 DEF Progress, Sending
<1>7. CallInv(c)'
  BY <1>1, <1>4, <1>5, <1>6 DEF CallInv
<1> QED
  BY <1>1, <1>7, OneMoves

(* Nobody is told, or an error is raised.                                  *)
LEMMA CallEnds ==
  ASSUME IInv, NEW c \in Call, Running(c), NEW o, calls' = [calls EXCEPT ![c] = Ended(calls[c], o)],
         UNCHANGED <<section, baichuan_only, lacks, device, cache, poll>>,
         o = "ok" => calls[c].pc \in After \ {"refreshed"}
  PROVE  IInv' /\ Promise
<1> DEFINE w == Ended(calls[c], o)
<1>1. /\ IsRecord(w) /\ w.pc = "end" /\ w.out = o /\ ~w.alias /\ w.via = "http"
      /\ w.asked = calls[c].asked /\ w.rewritten = calls[c].rewritten
  BY EndedRecord DEF IInv, CallInv
<1>2. /\ Asked /\ Global' /\ \A d \in Call \ {c} : Stays(d)
      /\ calls'[c] = w
  BY <1>1, QuietMove
<1>3. CallInv(c)'
  BY <1>1, <1>2, EndedInv
<1> QED
  BY <1>1, <1>2, <1>3, OneMoves

LEMMA GetAnsweredInv ==
  ASSUME IInv, NEW c \in Call, GetAnswered(c)
  PROVE  IInv' /\ Promise
<1> DEFINE r == calls[c]
           w == [r EXCEPT !.pc = "got", !.seen = device]
<1>1. IsRecord(r) /\ r.pc = "get" /\ Running(c) /\ Noticed(c) /\ Ways(r)
  BY DEF IInv, CallInv, GetAnswered, Running
<1>2. calls' = [calls EXCEPT ![c] = w] /\ UNCHANGED <<section, baichuan_only, lacks, device, cache, poll>>
  BY DEF GetAnswered, fixed, IInv, Global
<1>3. /\ IsRecord(w) /\ w.pc = "got" /\ w.seen = device /\ w.setter = r.setter /\ w.asked = r.asked
      /\ w.rewritten = r.rewritten
      /\ w.since = r.since /\ w.out = r.out /\ w.stored = r.stored /\ w.alias = r.alias /\ w.body = r.body
      /\ w.via = r.via /\ w.gets = r.gets
  <2> HIDE DEF r
  <2> QED
    BY <1>1 DEF IsRecord, Names
<1>4. Ways(w)
  BY <1>1, <1>3 DEF Ways, RowOf, Sending
<1>5. w.out = "none"
  BY <1>1, <1>3 DEF Noticed
<1> HIDE DEF w
<1> QED
  BY <1>1, <1>2, <1>3, <1>4, <1>5, QuietCall DEF Sending, After

(* Another attempt, or one too many.                                       *)
LEMMA CallRetries ==
  ASSUME IInv, NEW c \in Call, calls[c].pc \in {"get", "refresh", "post"}, NEW n,
         calls' = [calls EXCEPT ![c] = [calls[c] EXCEPT !.tries = n]],
         UNCHANGED <<section, baichuan_only, lacks, device, cache, poll>>
  PROVE  IInv' /\ Promise
<1> DEFINE r == calls[c]
           w == [r EXCEPT !.tries = n]
<1>1. IsRecord(r) /\ Running(c) /\ Noticed(c) /\ Ways(r) /\ Progress(c)
  BY DEF IInv, CallInv, Running
<1>2. /\ IsRecord(w) /\ w.pc = r.pc /\ w.setter = r.setter /\ w.asked = r.asked /\ w.rewritten = r.rewritten
      /\ w.since = r.since /\ w.out = r.out /\ w.stored = r.stored /\ w.alias = r.alias /\ w.body = r.body
      /\ w.via = r.via /\ w.gets = r.gets
  <2> HIDE DEF r
  <2> QED
    BY <1>1 DEF IsRecord, Names
<1>3. Ways(w)
  BY <1>1, <1>2 DEF Ways, RowOf, Sending
<1>4. w.out = "none"
  BY <1>1, <1>2 DEF Noticed
<1>5. calls' = [calls EXCEPT ![c] = w]
  OBVIOUS
<1>6. /\ w.pc = "post" => Mine(c, Content(c))
      /\ w.pc \in After => Kept(c, Carried(w))
  BY <1>1, <1>2 DEF Progress, Carried
<1>7. w.pc \notin Sending \cup {"idle", "end", "got", "refreshed"}
  BY <1>2 DEF Sending
<1> HIDE DEF w
<1> QED
  BY <1>1, <1>2, <1>3, <1>4, <1>5, <1>6, <1>7, QuietCall DEF Sending

LEMMA NotAnsweredInv ==
  ASSUME IInv, NEW c \in Call, calls[c].pc \in {"get", "refresh", "post"},
         calls' = [calls EXCEPT ![c] = NotAnswered(calls[c])],
         UNCHANGED <<section, baichuan_only, lacks, device, cache, poll>>
  PROVE  IInv' /\ Promise
<1>1. CASE Again(calls[c])
  BY <1>1, CallRetries DEF NotAnswered
<1>2. CASE ~Again(calls[c])
  BY <1>2, CallEnds DEF NotAnswered, Running
<1> QED
  BY <1>1, <1>2

LEMMA LostInv ==
  ASSUME IInv, NEW c \in Call, GetLost(c) \/ PostLost(c)
  PROVE  IInv' /\ Promise
BY NotAnsweredInv DEF GetLost, PostLost, Posts, fixed, IInv, Global

LEMMA PostedInv ==
  ASSUME IInv, NEW c \in Call, Posted(c)
  PROVE  IInv' /\ Promise
<1> DEFINE r == calls[c]
           n == r.gets + (IF ReadsAgain(r) THEN 1 ELSE 0)
           w == [r EXCEPT !.pc = "refresh", !.gets = n, !.tries = 0, !.wrote = NoDoc]
<1>1. /\ IsRecord(r) /\ Running(c) /\ Noticed(c) /\ Ways(r) /\ Progress(c) /\ r.pc = "posted"
      /\ UNCHANGED <<section, baichuan_only, lacks, device, cache, poll>>
      /\ calls' = [calls EXCEPT ![c] = AfterSet(r)]
  BY DEF IInv, Global, CallInv, Running, Posted, fixed
<1>2. CASE n = 0
  BY <1>1, <1>2, CallEnds DEF AfterSet, After
<1>3. CASE n # 0
  <2>1. calls' = [calls EXCEPT ![c] = w]
    BY <1>1, <1>3 DEF AfterSet
  <2>2. /\ IsRecord(w) /\ w.pc = "refresh" /\ w.setter = r.setter /\ w.asked = r.asked
        /\ w.rewritten = r.rewritten
        /\ w.since = r.since /\ w.out = r.out /\ w.stored = r.stored /\ w.alias = r.alias /\ w.body = r.body
        /\ w.via = r.via
    <3> HIDE DEF r, n
    <3> QED
      BY <1>1 DEF IsRecord, Names
  <2>4. Ways(w)
    BY <1>1, <2>2 DEF Ways, RowOf, Sending
  <2>5. w.out = "none"
    BY <1>1, <2>2 DEF Noticed
  <2>6. Kept(c, Carried(w))
    BY <1>1, <2>2 DEF Progress, Carried, After
  <2> HIDE DEF w
  <2> QED
    BY <1>1, <2>1, <2>2, <2>4, <2>5, <2>6, QuietCall DEF Sending, After
<1> QED
  BY <1>2, <1>3

LEMMA RefreshAnsweredInv ==
  ASSUME IInv, NEW c \in Call, RefreshAnswered(c)
  PROVE  IInv' /\ Promise
<1> DEFINE r == calls[c]
           w == [r EXCEPT !.pc = "refreshed", !.seen = device]
<1>1. IsRecord(r) /\ r.pc = "refresh" /\ Running(c) /\ Noticed(c) /\ Ways(r) /\ Progress(c)
  BY DEF IInv, CallInv, RefreshAnswered, Running
<1>2. calls' = [calls EXCEPT ![c] = w] /\ UNCHANGED <<section, baichuan_only, lacks, device, cache, poll>>
  BY DEF RefreshAnswered, fixed, IInv, Global
<1>3. /\ IsRecord(w) /\ w.pc = "refreshed" /\ w.seen = device /\ w.setter = r.setter /\ w.asked = r.asked
      /\ w.rewritten = r.rewritten
      /\ w.since = r.since /\ w.out = r.out /\ w.stored = r.stored /\ w.alias = r.alias /\ w.body = r.body
      /\ w.via = r.via /\ w.gets = r.gets
  <2> HIDE DEF r
  <2> QED
    BY <1>1 DEF IsRecord, Names
<1>4. Ways(w)
  BY <1>1, <1>3 DEF Ways, RowOf, Sending
<1>5. w.out = "none"
  BY <1>1, <1>3 DEF Noticed
<1>6. Kept(c, Carried(w))
  BY <1>1, <1>3 DEF Progress, Carried, After
<1> HIDE DEF w
<1> QED
  BY <1>1, <1>2, <1>3, <1>4, <1>5, <1>6, QuietCall DEF Sending, After

(* One read is done: the call ends or reads once more.                     *)
LEMMA OneReadRecord ==
  ASSUME NEW r, IsRecord(r), r.gets # 1
  PROVE  LET w == OneRead(r)
         IN  /\ IsRecord(w) /\ w.pc = "refresh" /\ w.setter = r.setter /\ w.asked = r.asked
             /\ w.rewritten = r.rewritten
             /\ w.since = r.since /\ w.out = r.out /\ w.stored = r.stored /\ w.alias = r.alias
             /\ w.body = r.body /\ w.via = r.via
BY DEF OneRead, IsRecord, Names

LEMMA RefreshSkippedInv ==
  ASSUME IInv, NEW c \in Call, RefreshSkipped(c)
  PROVE  IInv' /\ Promise
<1> DEFINE r == calls[c]
           w == OneRead(r)
<1>1. /\ IsRecord(r) /\ r.pc = "refresh" /\ Running(c) /\ Noticed(c) /\ Ways(r) /\ Progress(c)
      /\ calls' = [calls EXCEPT ![c] = w] /\ UNCHANGED <<section, baichuan_only, lacks, device, cache, poll>>
  BY DEF IInv, Global, CallInv, RefreshSkipped, Running, fixed
<1>2. CASE r.gets = 1
  BY <1>1, <1>2, CallEnds DEF OneRead, After
<1>3. CASE r.gets # 1
  <2>1. /\ IsRecord(w) /\ w.pc = "refresh" /\ w.setter = r.setter /\ w.asked = r.asked
        /\ w.rewritten = r.rewritten
        /\ w.since = r.since /\ w.out = r.out /\ w.stored = r.stored /\ w.alias = r.alias
        /\ w.body = r.body /\ w.via = r.via
    BY <1>1, <1>3, OneReadRecord
  <2>2. Ways(w)
    BY <1>1, <2>1 DEF Ways, RowOf, Sending
  <2>3. w.out = "none"
    BY <1>1, <2>1 DEF Noticed
  <2>4. Kept(c, Carried(w))
    BY <1>1, <2>1 DEF Progress, Carried, After
  <2> HIDE DEF w
  <2> QED
    BY <1>1, <2>1, <2>2, <2>3, <2>4, QuietCall DEF Sending, After
<1> QED
  BY <1>2, <1>3

-----------------------------------------------------------------------------
(* Between HTTP and Baichuan.                                              *)
LEMMA HandedInv ==
  ASSUME IInv, NEW c \in Call, calls[c].pc = "post", HasHandler, NEW via \in {"first", "fallback", "only"},
         calls' = [calls EXCEPT ![c] = Handed(calls[c], via, Content(c))],
         UNCHANGED <<section, baichuan_only, lacks, device, cache, poll>>
  PROVE  IInv' /\ Promise
<1> DEFINE r == calls[c]
           part == Content(c)
           w == Handed(r, via, part)
<1>1. IsRecord(r) /\ Running(c) /\ Noticed(c) /\ Ways(r) /\ Progress(c)
  BY DEF IInv, CallInv, Running
<1>2. /\ IsRecord(w) /\ w.pc = "bc" /\ w.via = via /\ w.taken = part
      /\ w.setter = r.setter /\ w.asked = r.asked /\ w.rewritten = r.rewritten /\ w.since = r.since
      /\ w.out = r.out /\ w.stored = r.stored
      /\ w.alias = r.alias /\ w.body = r.body /\ w.gets = r.gets
  <2> HIDE DEF r, part
  <2> QED
    BY <1>1 DEF IsRecord, Names, Handed
<1>3. Ways(w)
  BY <1>1, <1>2 DEF Ways, RowOf, Sending
<1>4. w.out = "none"
  BY <1>1, <1>2 DEF Noticed
<1>5. Mine(c, w.taken) /\ Mine(c, Content(c))
  BY <1>1, <1>2 DEF Progress
<1>6. calls' = [calls EXCEPT ![c] = w]
  OBVIOUS
<1> HIDE DEF w
<1> QED
  BY <1>1, <1>2, <1>3, <1>4, <1>5, <1>6, QuietCall DEF Sending, After

LEMMA PostRejectedInv ==
  ASSUME IInv, NEW c \in Call, PostRejected(c)
  PROVE  IInv' /\ Promise
<1>1. calls[c].pc = "post" /\ Running(c) /\ UNCHANGED <<section, baichuan_only, lacks, device, cache, poll>>
  BY DEF PostRejected, Posts, Running, fixed
<1>2. CASE HasHandler /\ calls' = [calls EXCEPT ![c] = Handed(@, "fallback", Content(c))]
  <2>1. calls' = [calls EXCEPT ![c] = Handed(calls[c], "fallback", Content(c))]
    BY <1>2 DEF IInv, Global
  <2> QED
    BY <1>1, <1>2, <2>1, HandedInv
<1>3. CASE calls' = [calls EXCEPT ![c].tries = @ + 1]
  <2>1. calls' = [calls EXCEPT ![c] = [calls[c] EXCEPT !.tries = calls[c].tries + 1]]
    BY <1>3 DEF IInv, Global
  <2> QED
    BY <1>1, <2>1, CallRetries
<1>4. CASE calls' = [calls EXCEPT ![c] = Ended(@, "raised")]
  <2>1. calls' = [calls EXCEPT ![c] = Ended(calls[c], "raised")]
    BY <1>4 DEF IInv, Global
  <2> QED
    BY <1>1, <2>1, CallEnds
<1> QED
  BY <1>2, <1>3, <1>4 DEF PostRejected

LEMMA PostByBaichuanInv ==
  ASSUME IInv, NEW c \in Call, PostByBaichuan(c)
  PROVE  IInv' /\ Promise
<1>1. calls[c].pc = "post" /\ Running(c) /\ UNCHANGED <<section, baichuan_only, lacks, device, cache, poll>>
  BY DEF PostByBaichuan, Running, fixed
<1>2. CASE ~HasHandler
  BY <1>1, <1>2, CallEnds DEF PostByBaichuan, IInv, Global
<1>3. CASE HasHandler
  <2>1. \E via \in {"first", "only"} : calls' = [calls EXCEPT ![c] = Handed(calls[c], via, Content(c))]
    BY <1>3 DEF PostByBaichuan, IInv, Global
  <2> QED
    BY <1>1, <1>3, <2>1, HandedInv
<1> QED
  BY <1>2, <1>3

LEMMA BcRefusedInv ==
  ASSUME IInv, NEW c \in Call, BcRefused(c)
  PROVE  IInv' /\ Promise
BY CallEnds DEF BcRefused, Running, fixed, IInv, Global

LEMMA FailingRecord ==
  ASSUME NEW r, IsRecord(r), r.via = "first"
  PROVE  LET w == Failing(r)
         IN  /\ IsRecord(w) /\ w.pc = "post" /\ w.via = "failed"
             /\ w.setter = r.setter /\ w.asked = r.asked /\ w.rewritten = r.rewritten /\ w.since = r.since
             /\ w.out = r.out /\ w.stored = r.stored /\ w.alias = r.alias /\ w.body = r.body /\ w.gets = r.gets
BY DEF IsRecord, Names, Failing

LEMMA BcFailedInv ==
  ASSUME IInv, NEW c \in Call, BcFailed(c)
  PROVE  IInv' /\ Promise
<1> DEFINE r == calls[c]
           w == Failing(r)
<1>1. /\ IsRecord(r) /\ Running(c) /\ Noticed(c) /\ Ways(r) /\ Progress(c) /\ r.pc \in Sending
      /\ UNCHANGED <<section, baichuan_only, lacks, device, cache, poll>> /\ calls' = [calls EXCEPT ![c] = w]
  BY DEF IInv, Global, CallInv, Running, BcFailed, fixed, Sending
<1>2. CASE r.via # "first"
  BY <1>1, <1>2, CallEnds DEF Failing
<1>3. CASE r.via = "first"
  <2>1. /\ IsRecord(w) /\ w.pc = "post" /\ w.via = "failed"
        /\ w.setter = r.setter /\ w.asked = r.asked /\ w.rewritten = r.rewritten /\ w.since = r.since
        /\ w.out = r.out /\ w.stored = r.stored /\ w.alias = r.alias /\ w.body = r.body /\ w.gets = r.gets
    BY <1>1, <1>3, FailingRecord
  <2>2. Ways(w)
    BY <1>1, <2>1 DEF Ways, RowOf, Sending
  <2>3. w.out = "none"
    BY <1>1, <2>1 DEF Noticed
  <2>4. Mine(c, Content(c))
    BY <1>1, <1>3 DEF Progress
  <2> HIDE DEF w
  <2> QED
    BY <1>1, <2>1, <2>2, <2>3, <2>4, QuietCall DEF Sending, After
<1> QED
  BY <1>2, <1>3

-----------------------------------------------------------------------------
(* Polls, and a change made with another client.                           *)
LEMMA PollInv ==
  ASSUME IInv, Poll
  PROVE  IInv' /\ Promise
<1>1. Asked /\ UNCHANGED <<section, baichuan_only, lacks, device, cache, calls>>
  BY DEF Poll, fixed, Asked
<1>2. Global'
  <2>1. Field' = Field
    BY <1>1 DEF Field
  <2> QED
    BY <1>1, <2>1 DEF IInv, Global, Docs, Poll
<1>3. ASSUME NEW d \in Call PROVE Stays(d)
  <2>1. CallInv(d)
    BY DEF IInv
  <2>2. ASSUME Mine(d, Content(d)) PROVE Mine(d, Content(d))'
    BY <1>1, <2>2 DEF Mine, Content, Excused
  <2> QED
    BY <1>1, <2>1, <2>2 DEF Stays, CallInv, Noticed
<1> QED
  BY <1>1, <1>2, <1>3, AllStay

LEMMA AskedFields ==
  ASSUME IInv, NEW c \in Call
  PROVE  calls[c].pc # "end" => calls[c].asked \subseteq Field
<1>1. Global /\ Noticed(c)
  BY DEF IInv, CallInv
<1> QED
  BY <1>1, RowFields DEF Global, Noticed, RowOf, Running

(* Those whose body an answer may touch are not done.                      *)
LEMMA DetachedAll ==
  ASSUME IInv, Asked, NEW d \in Call, NEW answer, DOMAIN answer = Field, NEW b,
         calls'[d] = Detached(calls, answer, b)[d], Landed(d, answer), device' = device
  PROVE  Stays(d)
<1>1. CallInv(d)
  BY DEF IInv
<1>2. CASE calls[d].pc # "end"
  BY <1>1, <1>2, AskedFields, DetachedStays
<1>3. CASE calls[d].pc = "end"
  <2>1. calls'[d] = calls[d]
    BY <1>1, <1>3 DEF Detached, Remapped, CallInv, Ways, Sending
  <2> QED
    BY <1>1, <1>3, <2>1 DEF Stays, CallInv, Running, Sending
<1> QED
  BY <1>2, <1>3

LEMMA PollMappedInv ==
  ASSUME IInv, PollMapped
  PROVE  IInv' /\ Promise
<1>1. PICK b \in Routes : calls' = Detached(calls, poll, b)
  BY DEF PollMapped
<1>2. /\ UNCHANGED <<section, baichuan_only, lacks, device>>
      /\ poll # NoDoc /\ cache' = poll /\ poll' = NoDoc
  BY DEF PollMapped, fixed
<1>3. DOMAIN poll = Field
  BY <1>2 DEF IInv, Global
<1>4. \A d \in Call : calls'[d] = Detached(calls, poll, b)[d] /\ IsRecord(calls[d])
  BY <1>1 DEF IInv, CallInv
<1>5. Asked
  BY <1>2, <1>4, RemappedRecord DEF Asked, Detached
<1>6. Global'
  <2>1. Field' = Field
    BY <1>2 DEF Field
  <2>2. DOMAIN calls' = Call /\ calls' = [d \in Call |-> calls'[d]]
    BY <1>1 DEF Detached
  <2> QED
    BY <1>2, <1>3, <2>1, <2>2 DEF IInv, Global, Docs
<1>7. \A d \in Call : Stays(d)
  BY <1>2, <1>3, <1>4, <1>5, DetachedAll DEF Landed
<1> QED
  BY <1>5, <1>6, <1>7, AllStay

LEMMA AppChangesInv ==
  ASSUME IInv, AppChanges
  PROVE  IInv' /\ Promise
<1>1. /\ UNCHANGED <<section, baichuan_only, lacks, cache, poll>>
      /\ calls' = Noted(calls, device') /\ DOMAIN device' = Field
  BY DEF AppChanges, fixed
<1>2. Asked
  <2>1. ASSUME NEW d \in Call
        PROVE  calls'[d].asked = calls[d].asked /\ calls'[d].rewritten = calls[d].rewritten
    <3>1. IsRecord(calls[d])
      BY DEF IInv, CallInv
    <3>2. calls'[d] = calls[d] \/ calls'[d] = [calls[d] EXCEPT !.since = [f \in Field |-> @[f] \cup {device'[f]}]]
      BY <1>1 DEF Noted
    <3> QED
      BY <3>1, <3>2 DEF IsRecord, Names
  <2> QED
    BY <1>1, <2>1 DEF Asked
<1>3. Global'
  <2>1. Field' = Field
    BY <1>1 DEF Field
  <2>2. DOMAIN calls' = Call /\ calls' = [d \in Call |-> calls'[d]]
    BY <1>1 DEF Noted
  <2> QED
    BY <1>1, <2>1, <2>2 DEF IInv, Global, Docs
<1>4. \A d \in Call : Stays(d)
  BY <1>1, <1>2, NotedStays DEF IInv
<1> QED
  BY <1>2, <1>3, <1>4, AllStay

-----------------------------------------------------------------------------
(* The steps that have the camera store something.                         *)
NowStored(c, r, part, f) == f \in r.stored \/ (f \in DOMAIN part /\ part[f] = c) \/ Excused(c, f)

LEMMA StoredCall ==
  ASSUME IInv, NEW c \in Call, Running(c), NEW r, IsRecord(r), NEW part, Store(c, r, part),
         UNCHANGED <<section, baichuan_only, lacks, cache, poll>>,
         r.pc \in {"posted", "bcread", "bclast", "post"}, r.setter = calls[c].setter, r.asked = calls[c].asked,
         r.rewritten = calls[c].rewritten, r.out = "none", Ways(r),
         r.pc = "posted" => \A f \in Carried(r) : NowStored(c, r, part, f),
         r.pc \in Sending =>
            /\ Mine(c, r.taken)
            /\ \A f \in r.asked \cap Handler.first \cap Handles : NowStored(c, r, part, f),
         r.pc = "bclast" => \A f \in r.asked \cap (Handles \ Handler.last) : NowStored(c, r, part, f),
         r.pc = "post" \/ (r.pc \in Sending /\ r.via # "direct") =>
            r.alias = calls[c].alias /\ r.body = calls[c].body /\ Mine(c, Content(c))
  PROVE  IInv' /\ Promise
<1> DEFINE w == calls'[c]
<1>1. /\ Asked /\ Global' /\ \A d \in Call \ {c} : Stays(d)
      /\ IsRecord(w) /\ w.pc = r.pc /\ w.setter = r.setter /\ w.asked = r.asked /\ w.rewritten = r.rewritten
      /\ w.alias = r.alias /\ w.body = r.body /\ w.via = r.via /\ w.taken = r.taken /\ w.gets = r.gets
      /\ w.out = r.out
      /\ \A f \in Field : device'[f] \in w.since[f]
      /\ w.stored = r.stored \cup {f \in DOMAIN part : part[f] = c}
  BY StoreMove
<1>2. Field' = Field /\ (HasHandler' <=> HasHandler) /\ Handler' = Handler /\ Handles' = Handles
  BY DEF Field, HasHandler, Handler, Handles
<1>3. Noticed(c)'
  BY <1>1, <1>2 DEF IInv, CallInv, Noticed, Running, RowOf, Sending
<1>4. Ways(calls[c])'
  BY <1>1, <1>2 DEF Ways, RowOf
<1>5. Progress(c)'
  <2>1. ASSUME NEW part2, Mine(c, part2) PROVE Mine(c, part2)'
    BY <2>1, <1>1, ExcusedStays DEF Mine
  <2>2. ASSUME NEW f, NowStored(c, r, part, f) PROVE f \in w.stored \/ Excused(c, f)'
    BY <2>2, <1>1, ExcusedStays DEF NowStored
  <2>3. w.pc = "posted" => Kept(c, Carried(calls[c]))'
    <3>1. Carried(calls[c])' = Carried(r)
      BY <1>1, <1>2 DEF Carried
    <3> QED
      BY <1>1, <2>2, <3>1 DEF Kept
  <2>4. w.pc \in Sending => Mine(c, calls[c].taken)'
    BY <1>1, <2>1 DEF Mine
  <2>5. w.pc \in Sending => Kept(c, Handler.first \cap Handles)'
    BY <1>1, <1>2, <2>2 DEF Kept
  <2>6. w.pc = "bclast" => Kept(c, Handles \ Handler.last)'
    BY <1>1, <1>2, <2>2 DEF Kept
  <2>7. w.pc = "post" \/ (w.pc \in Sending /\ w.via # "direct") => Mine(c, Content(c))'
    <3> SUFFICES ASSUME w.pc = "post" \/ (w.pc \in Sending /\ w.via # "direct") PROVE Mine(c, Content(c))'
      OBVIOUS
    <3>1. Content(c)' = Content(c) /\ Mine(c, Content(c))
      BY <1>1 DEF Content
    <3> QED
      BY <2>1, <3>1 DEF Mine
  <2> QED
    BY <1>1, <2>3, <2>4, <2>5, <2>6, <2>7 DEF Progress, Sending, After
<1>6. CallInv(c)'
  BY <1>1, <1>3, <1>4, <1>5 DEF CallInv
<1> QED
  BY <1>1, <1>6, OneMoves

(* Stored as far as the camera is concerned, but an error for the caller.  *)
LEMMA StoredEnds ==
  ASSUME IInv, NEW c \in Call, NEW part, Store(c, Ended(calls[c], "raised"), part),
         UNCHANGED <<section, baichuan_only, lacks, cache, poll>>
  PROVE  IInv' /\ Promise
<1> DEFINE w == Ended(calls[c], "raised")
<1>1. /\ IsRecord(w) /\ w.pc = "end" /\ w.out = "raised" /\ ~w.alias /\ w.via = "http"
      /\ w.asked = calls[c].asked /\ w.rewritten = calls[c].rewritten
  BY EndedRecord DEF IInv, CallInv
<1> HIDE DEF w
<1>2. /\ Asked /\ Global' /\ \A d \in Call \ {c} : Stays(d)
      /\ IsRecord(calls'[c]) /\ calls'[c].pc = w.pc /\ calls'[c].alias = w.alias
      /\ calls'[c].via = w.via /\ calls'[c].out = w.out
  BY <1>1, StoreMove DEF w
<1>3. CallInv(c)'
  BY <1>1, <1>2, EndedInv
<1> QED
  BY <1>1, <1>2, <1>3, OneMoves

LEMMA PostServedInv ==
  ASSUME IInv, NEW c \in Call, PostServed(c)
  PROVE  IInv' /\ Promise
<1> DEFINE r == calls[c]
           w == [r EXCEPT !.pc = "posted", !.alias = FALSE, !.body = NoDoc]
           part == Content(c)
<1>1. IsRecord(r) /\ Running(c) /\ Noticed(c) /\ Ways(r) /\ Progress(c) /\ r.pc = "post"
  BY DEF IInv, CallInv, Running, PostServed, Posts
<1>2. Store(c, w, part) /\ UNCHANGED <<section, baichuan_only, lacks, cache, poll>>
  BY DEF PostServed, fixed
<1>3. /\ IsRecord(w) /\ w.pc = "posted" /\ w.via = r.via /\ w.setter = r.setter /\ w.asked = r.asked
      /\ w.rewritten = r.rewritten
      /\ w.out = r.out /\ ~w.alias /\ w.gets = r.gets
  <2> HIDE DEF r
  <2> QED
    BY <1>1 DEF IsRecord, Names
<1>4. Ways(w)
  BY <1>1, <1>3 DEF Ways, RowOf, Sending
<1>5. w.out = "none"
  BY <1>1, <1>3 DEF Noticed
<1>6. \A f \in Carried(w) : NowStored(c, w, part, f)
  <2> SUFFICES ASSUME NEW f \in Carried(w) PROVE NowStored(c, w, part, f)
    OBVIOUS
  <2>1. f \in r.asked
    BY <1>3 DEF Carried
  <2>2. Mine(c, part)
    BY <1>1 DEF Progress
  <2> QED
    BY <2>1, <2>2 DEF Mine, NowStored
<1> HIDE DEF w, part
<1> QED
  BY <1>1, <1>2, <1>3, <1>4, <1>5, <1>6, StoredCall DEF Sending

LEMMA PostAnswerLostInv ==
  ASSUME IInv, NEW c \in Call, PostAnswerLost(c)
  PROVE  IInv' /\ Promise
<1> DEFINE r == calls[c]
           part == Content(c)
<1>1. IsRecord(r) /\ Running(c) /\ Noticed(c) /\ Ways(r) /\ Progress(c) /\ r.pc = "post"
  BY DEF IInv, CallInv, Running, PostAnswerLost, Posts
<1>2. Store(c, NotAnswered(r), part) /\ UNCHANGED <<section, baichuan_only, lacks, cache, poll>>
  BY DEF PostAnswerLost, fixed
<1>3. CASE Again(r)
  <2> DEFINE w == [r EXCEPT !.tries = r.tries + 1]
  <2>1. Store(c, w, part)
    BY <1>1, <1>2, <1>3 DEF NotAnswered
  <2>2. /\ IsRecord(w) /\ w.pc = "post" /\ w.via = r.via /\ w.setter = r.setter /\ w.asked = r.asked
        /\ w.rewritten = r.rewritten
        /\ w.out = r.out /\ w.alias = r.alias /\ w.body = r.body /\ w.gets = r.gets
    <3> HIDE DEF r
    <3> QED
      BY <1>1 DEF IsRecord, Names
  <2>3. Ways(w)
    BY <1>1, <2>2 DEF Ways, RowOf, Sending
  <2>4. w.out = "none"
    BY <1>1, <2>2 DEF Noticed
  <2>5. Mine(c, Content(c))
    BY <1>1 DEF Progress
  <2> HIDE DEF w
  <2> QED
    BY <1>1, <1>2, <2>1, <2>2, <2>3, <2>4, <2>5, StoredCall DEF Sending
<1>4. CASE ~Again(r)
  BY <1>2, <1>4, StoredEnds DEF NotAnswered
<1> QED
  BY <1>3, <1>4

-----------------------------------------------------------------------------
(* The handler of Baichuan.                                                *)
LEMMA WhatIsGiven ==
  ASSUME IInv, NEW c \in Call, calls[c].pc \in Sending, NEW f \in calls[c].asked, f \in Handles
  PROVE  /\ f \in DOMAIN Given(c)
         /\ f \in Handler.first => f \in DOMAIN First(c) /\ (First(c)[f] = c \/ Excused(c, f))
         /\ f \in Handler.last => f \in DOMAIN Final(c) /\ (Final(c)[f] = c \/ Excused(c, f))
         /\ f \notin Handler.first \cup Handler.last => f \in DOMAIN Rest(c) /\ (Rest(c)[f] = c \/ Excused(c, f))
<1>1. Progress(c)
  BY DEF IInv, CallInv
<1>2. Mine(c, Given(c))
  BY <1>1 DEF Progress, Given
<1>3. f \in DOMAIN Given(c) /\ (Given(c)[f] = c \/ Excused(c, f))
  BY <1>2 DEF Mine
<1>4. f \in DOMAIN Known(c) /\ Known(c)[f] = Given(c)[f]
  BY <1>3 DEF Known, Only
<1> QED
  BY <1>3, <1>4 DEF First, Final, Rest, Only

LEMMA ServedRecord ==
  ASSUME NEW r, IsRecord(r)
  PROVE  LET w == Served(r)
         IN  /\ IsRecord(w) /\ w.pc = "posted" /\ w.via = r.via /\ w.setter = r.setter /\ w.asked = r.asked
             /\ w.rewritten = r.rewritten
             /\ w.out = r.out /\ ~w.alias /\ w.stored = r.stored /\ (r.via = "direct" => w.gets = 0)
BY DEF IsRecord, Names, Served

LEMMA ServedInv ==
  ASSUME IInv, NEW c \in Call, calls[c].pc \in Sending, NEW part, Store(c, Served(calls[c]), part),
         UNCHANGED <<section, baichuan_only, lacks, cache, poll>>,
         \A f \in calls[c].asked \cap Handles : NowStored(c, calls[c], part, f)
  PROVE  IInv' /\ Promise
<1> DEFINE r == calls[c]
           w == Served(r)
<1>1. IsRecord(r) /\ Running(c) /\ Noticed(c) /\ Ways(r)
  BY DEF IInv, CallInv, Running, Sending
<1>2. Store(c, w, part)
  OBVIOUS
<1>3. /\ IsRecord(w) /\ w.pc = "posted" /\ w.via = r.via /\ w.setter = r.setter /\ w.asked = r.asked
      /\ w.rewritten = r.rewritten
      /\ w.out = r.out /\ ~w.alias /\ w.stored = r.stored /\ (r.via = "direct" => w.gets = 0)
  BY <1>1, ServedRecord
<1>4. Ways(w)
  BY <1>1, <1>3 DEF Ways, RowOf, Sending
<1>5. w.out = "none"
  BY <1>1, <1>3 DEF Noticed
<1>6. \A f \in Carried(w) : NowStored(c, w, part, f)
  <2>1. Carried(w) = r.asked \cap Handles
    BY <1>1, <1>3 DEF Carried, Ways
  <2> QED
    BY <1>3, <2>1 DEF NowStored
<1> HIDE DEF w
<1> QED
  BY <1>1, <1>2, <1>3, <1>4, <1>5, <1>6, StoredCall DEF Sending

(* The handler goes on with another command.                               *)
LEMMA GoesOnInv ==
  ASSUME IInv, NEW c \in Call, calls[c].pc \in Sending, NEW pc \in {"bcread", "bclast"}, NEW part,
         Store(c, [calls[c] EXCEPT !.pc = pc], part), UNCHANGED <<section, baichuan_only, lacks, cache, poll>>,
         \A f \in calls[c].asked \cap Handler.first \cap Handles : NowStored(c, calls[c], part, f),
         pc = "bclast" => \A f \in calls[c].asked \cap (Handles \ Handler.last) : NowStored(c, calls[c], part, f)
  PROVE  IInv' /\ Promise
<1> DEFINE r == calls[c]
           w == [r EXCEPT !.pc = pc]
<1>1. IsRecord(r) /\ Running(c) /\ Noticed(c) /\ Ways(r) /\ Progress(c)
  BY DEF IInv, CallInv, Running, Sending
<1>2. Store(c, w, part)
  OBVIOUS
<1>3. /\ IsRecord(w) /\ w.pc = pc /\ w.via = r.via /\ w.setter = r.setter /\ w.asked = r.asked
      /\ w.rewritten = r.rewritten /\ w.out = r.out /\ w.alias = r.alias /\ w.body = r.body /\ w.gets = r.gets
      /\ w.taken = r.taken /\ w.stored = r.stored
  <2> HIDE DEF r
  <2> QED
    BY <1>1 DEF IsRecord, Names
<1>4. Ways(w)
  BY <1>1, <1>3 DEF Ways, RowOf, Sending
<1>5. w.out = "none"
  BY <1>1, <1>3 DEF Noticed
<1>6. Mine(c, w.taken) /\ (w.via # "direct" => Mine(c, Content(c)))
  BY <1>1, <1>3 DEF Progress
<1>7. /\ \A f \in w.asked \cap Handler.first \cap Handles : NowStored(c, w, part, f)
      /\ w.pc = "bclast" => \A f \in w.asked \cap (Handles \ Handler.last) : NowStored(c, w, part, f)
  BY <1>3 DEF NowStored
<1> HIDE DEF w
<1> QED
  BY <1>1, <1>2, <1>3, <1>4, <1>5, <1>6, <1>7, StoredCall

(* What has been stored when a command of the handler is.                  *)
LEMMA FirstStores ==
  ASSUME IInv, NEW c \in Call, calls[c].pc \in Sending, NEW f \in calls[c].asked \cap Handler.first \cap Handles
  PROVE  NowStored(c, calls[c], First(c), f)
BY WhatIsGiven DEF NowStored

LEMMA WriteStores ==
  ASSUME IInv, NEW c \in Call, Writes(c), NEW f \in calls[c].asked \cap Handles,
         f \in Handler.first \/ f \notin Handler.last
  PROVE  NowStored(c, calls[c], Sent(c), f)
<1> DEFINE r == calls[c]
<1>1. /\ IsRecord(r) /\ Running(c) /\ Noticed(c) /\ Ways(r) /\ Progress(c)
      /\ r.pc \in Sending /\ (r.pc = "bcwrite" \/ (r.pc = "bc" /\ ~Handler.reads))
  BY DEF IInv, CallInv, Running, Writes, Sending
<1>2. CASE f \in Handler.first
  <2>1. Handler.reads
    <3>1. section \in DOMAIN cmd_funcs
      BY <1>1 DEF Ways, HasHandler
    <3> QED
      BY <3>1, <1>2, RowsAssumption DEF Handler
  <2>2. Kept(c, Handler.first \cap Handles)
    BY <1>1, <2>1 DEF Progress
  <2> QED
    BY <1>2, <2>2 DEF Kept, NowStored
<1>3. CASE f \notin Handler.first
  <2>1. f \in DOMAIN Rest(c) /\ (Rest(c)[f] = c \/ Excused(c, f))
    BY <1>1, <1>3, WhatIsGiven
  <2>2. f \in DOMAIN Sent(c) /\ Sent(c)[f] = Rest(c)[f]
    <3>1. CASE Handler.reads
      <4>1. DOMAIN r.seen = Field /\ f \in Field
        BY <1>1, <3>1, AskedFields DEF Noticed, Running
      <4>2. f \in DOMAIN Only(r.seen, Field \ Handler.last)
        BY <1>3, <4>1 DEF Only
      <4> QED
        BY <2>1, <3>1, <4>2 DEF Put, Sent
    <3>2. CASE ~Handler.reads
      BY <2>1, <3>2 DEF Sent
    <3> QED
      BY <3>1, <3>2
  <2> QED
    BY <2>1, <2>2 DEF NowStored
<1> QED
  BY <1>2, <1>3

LEMMA LastStores ==
  ASSUME IInv, NEW c \in Call, calls[c].pc = "bclast", NEW f \in calls[c].asked \cap Handles
  PROVE  NowStored(c, calls[c], Final(c), f)
<1>1. Kept(c, Handles \ Handler.last)
  BY DEF IInv, CallInv, Progress
<1>2. CASE f \in Handler.last
  BY <1>2, WhatIsGiven DEF NowStored, Sending
<1>3. CASE f \notin Handler.last
  BY <1>1, <1>3 DEF Kept, NowStored
<1> QED
  BY <1>2, <1>3

(* What is not asked of the handler was not asked of the call.             *)
LEMMA NotAsked ==
  ASSUME IInv, NEW c \in Call, calls[c].pc \in Sending, NEW fields, ~Asks(c, fields)
  PROVE  calls[c].asked \cap Handles \cap fields = {}
BY WhatIsGiven DEF Asks

LEMMA BcFirstInv ==
  ASSUME IInv, NEW c \in Call, BcFirst(c)
  PROVE  IInv' /\ Promise
<1> DEFINE rest == Handler.handles \ Handler.first
<1>1. /\ calls[c].pc = "bc" /\ calls[c].pc \in Sending
      /\ UNCHANGED <<section, baichuan_only, lacks, cache, poll>>
      /\ Store(c, IF Asks(c, rest) THEN [calls[c] EXCEPT !.pc = "bcread"] ELSE Served(calls[c]), First(c))
  BY DEF BcFirst, Stored, fixed, Sending
<1>2. CASE Asks(c, rest)
  BY <1>1, <1>2, FirstStores, GoesOnInv
<1>3. CASE ~Asks(c, rest)
  <2>1. calls[c].asked \cap Handles \subseteq Handler.first
    BY <1>1, <1>3, NotAsked DEF Handles
  <2> QED
    BY <1>1, <1>3, <2>1, FirstStores, ServedInv
<1> QED
  BY <1>2, <1>3

LEMMA BcWriteInv ==
  ASSUME IInv, NEW c \in Call, BcWrite(c)
  PROVE  IInv' /\ Promise
<1>1. /\ Writes(c) /\ calls[c].pc \in Sending
      /\ UNCHANGED <<section, baichuan_only, lacks, cache, poll>>
      /\ Store(c, IF Asks(c, Handler.last) THEN [calls[c] EXCEPT !.pc = "bclast"] ELSE Served(calls[c]), Sent(c))
  BY DEF BcWrite, Writes, Stored, fixed, Sending
<1>2. CASE Asks(c, Handler.last)
  BY <1>1, <1>2, WriteStores, GoesOnInv
<1>3. CASE ~Asks(c, Handler.last)
  <2>1. calls[c].asked \cap Handles \subseteq Handles \ Handler.last
    BY <1>1, <1>3, NotAsked
  <2> QED
    BY <1>1, <1>3, <2>1, WriteStores, ServedInv
<1> QED
  BY <1>2, <1>3

LEMMA BcLastInv ==
  ASSUME IInv, NEW c \in Call, BcLast(c)
  PROVE  IInv' /\ Promise
<1>1. /\ calls[c].pc = "bclast" /\ calls[c].pc \in Sending
      /\ UNCHANGED <<section, baichuan_only, lacks, cache, poll>>
      /\ Store(c, Served(calls[c]), Final(c))
  BY DEF BcLast, Stored, fixed, Sending
<1> QED
  BY <1>1, LastStores, ServedInv

LEMMA BcAnswerLostInv ==
  ASSUME IInv, NEW c \in Call, BcAnswerLost(c)
  PROVE  IInv' /\ Promise
<1> DEFINE r == calls[c]
           w == Failing(r)
<1>1. /\ IsRecord(r) /\ Running(c) /\ Noticed(c) /\ Ways(r) /\ Progress(c) /\ r.pc \in Sending
      /\ UNCHANGED <<section, baichuan_only, lacks, cache, poll>>
  BY DEF IInv, CallInv, Running, BcAnswerLost, Writes, fixed, Sending
<1>2. PICK part : Store(c, w, part)
  BY DEF BcAnswerLost
<1>3. CASE r.via # "first"
  BY <1>1, <1>2, <1>3, StoredEnds DEF Failing
<1>4. CASE r.via = "first"
  <2>1. /\ IsRecord(w) /\ w.pc = "post" /\ w.via = "failed"
        /\ w.setter = r.setter /\ w.asked = r.asked /\ w.rewritten = r.rewritten /\ w.since = r.since
        /\ w.out = r.out /\ w.stored = r.stored /\ w.alias = r.alias /\ w.body = r.body /\ w.gets = r.gets
    BY <1>1, <1>4, FailingRecord
  <2>2. Ways(w)
    BY <1>1, <2>1 DEF Ways, RowOf, Sending
  <2>3. w.out = "none"
    BY <1>1, <2>1 DEF Noticed
  <2>4. Mine(c, Content(c))
    BY <1>1, <1>4 DEF Progress
  <2> HIDE DEF w
  <2> QED
    BY <1>1, <1>2, <2>1, <2>2, <2>3, <2>4, StoredCall DEF Sending
<1> QED
  BY <1>3, <1>4

-----------------------------------------------------------------------------
(* An answer is mapped into the cache while call c goes on.                *)
LEMMA MapMove ==
  ASSUME IInv, NEW c \in Call, NEW w, NEW answer, DOMAIN answer = Field, NEW b,
         calls' = [Detached(calls, answer, b) EXCEPT ![c] = w],
         UNCHANGED <<section, baichuan_only, lacks, device, poll>>, calls[c].asked \subseteq w.asked,
         calls[c].rewritten \subseteq w.rewritten, Became(c, answer)
  PROVE  Asked /\ Global' /\ (\A d \in Call \ {c} : Stays(d)) /\ calls'[c] = w
<1>1. /\ DOMAIN calls' = Call /\ calls' = [d \in Call |-> calls'[d]] /\ calls'[c] = w
      /\ \A d \in Call \ {c} : calls'[d] = Detached(calls, answer, b)[d]
  BY DEF Detached
<1>2. Asked
  <2>1. ASSUME NEW d \in Call \ {c}
        PROVE  calls[d].asked \subseteq calls'[d].asked /\ calls[d].rewritten \subseteq calls'[d].rewritten
    <3>1. calls'[d] = Remapped(calls[d], answer, b) /\ IsRecord(calls[d])
      BY <1>1 DEF Detached, IInv, CallInv
    <3> QED
      BY <3>1, RemappedRecord
  <2> QED
    BY <1>1, <2>1 DEF Asked
<1>3. Global'
  <2>1. Field' = Field
    BY DEF Field
  <2>2. DOMAIN cache' = Field
    BY DEF Became, Put
  <2> QED
    BY <1>1, <2>1, <2>2 DEF IInv, Global, Docs
<1>4. ASSUME NEW d \in Call \ {c} PROVE Stays(d)
  <2>1. Landed(d, answer)
    BY DEF Landed
  <2> QED
    BY <1>1, <1>2, <2>1, DetachedAll
<1> QED
  BY <1>1, <1>2, <1>3, <1>4

LEMMA WriteMove ==
  ASSUME IInv, NEW c \in Call, NEW w, calls' = [calls EXCEPT ![c] = w],
         UNCHANGED <<section, baichuan_only, lacks, device, poll>>, Became(c, cache),
         calls[c].asked \subseteq w.asked, calls[c].rewritten \subseteq w.rewritten
  PROVE  Asked /\ Global' /\ (\A d \in Call \ {c} : Stays(d)) /\ calls'[c] = w
<1>1. Global /\ calls'[c] = w /\ \A d \in Call \ {c} : calls'[d] = calls[d]
  BY DEF IInv, Global
<1>2. Asked
  BY <1>1 DEF Asked, Global
<1>3. Global'
  <2>1. Field' = Field
    BY DEF Field
  <2>2. CASE cache' = cache
    BY <1>1, <2>1, <2>2 DEF Global, Docs
  <2>3. CASE cache' # cache
    <3>1. DOMAIN cache' = DOMAIN cache
      BY <2>3 DEF Became, Put
    <3>2. cache # NoDoc
      BY <2>3 DEF Became, Put, NoDoc
    <3> QED
      BY <1>1, <2>1, <3>1, <3>2 DEF Global, Docs
  <2> QED
    BY <2>2, <2>3
<1>4. ASSUME NEW d \in Call \ {c} PROVE Stays(d)
  BY <1>1, <1>2, UntouchedStays DEF IInv
<1> QED
  BY <1>1, <1>2, <1>3, <1>4

LEMMA RefreshedInv ==
  ASSUME IInv, NEW c \in Call, Refreshed(c)
  PROVE  IInv' /\ Promise
<1> DEFINE r == calls[c]
           w == OneRead(r)
<1>1. /\ IsRecord(r) /\ r.pc = "refreshed" /\ Running(c) /\ Noticed(c) /\ Ways(r) /\ Progress(c)
      /\ UNCHANGED <<section, baichuan_only, lacks, device, poll>> /\ cache' = r.seen /\ DOMAIN r.seen = Field
  BY DEF IInv, CallInv, Refreshed, Running, fixed, Noticed
<1>2. PICK b : calls' = [Detached(calls, r.seen, b) EXCEPT ![c] = w]
  <2>1. PICK b \in Routes : calls' = [Detached(calls, r.seen, b) EXCEPT ![c] = OneRead(@)]
    BY DEF Refreshed
  <2>2. ~r.alias
    BY <1>1 DEF Ways, Sending
  <2>3. Detached(calls, r.seen, b)[c] = r
    BY <2>2 DEF Detached, Remapped
  <2> QED
    BY <2>1, <2>3
<1>3. w.asked = r.asked /\ w.rewritten = r.rewritten /\ IsRecord(w) /\ (w.out = "ok" \/ w.out = r.out)
  <2>1. CASE r.gets = 1
    BY <1>1, <2>1, EndedRecord DEF OneRead
  <2>2. CASE r.gets # 1
    BY <1>1, <2>2, OneReadRecord
  <2> QED
    BY <2>1, <2>2
<1>4. Became(c, r.seen)
  BY <1>1 DEF Became
<1>5. Asked /\ Global' /\ (\A d \in Call \ {c} : Stays(d)) /\ calls'[c] = w
  <2> HIDE DEF w
  <2> QED
    BY <1>1, <1>2, <1>3, <1>4, MapMove
<1>6. CallInv(c)'
  <2>1. CASE r.gets = 1
    <3>1. IsRecord(w) /\ w.pc = "end" /\ ~w.alias /\ w.via = "http"
      BY <1>1, <2>1, EndedRecord DEF OneRead
    <3> QED
      BY <1>5, <3>1, EndedInv
  <2>2. CASE r.gets # 1
    <3>1. /\ IsRecord(w) /\ w.pc = "refresh" /\ w.setter = r.setter /\ w.asked = r.asked
          /\ w.rewritten = r.rewritten
          /\ w.since = r.since /\ w.out = r.out /\ w.stored = r.stored /\ w.alias = r.alias
          /\ w.body = r.body /\ w.via = r.via
      BY <1>1, <2>2, OneReadRecord
    <3> HIDE DEF w
    <3>2. Field' = Field /\ (HasHandler' <=> HasHandler) /\ Handler' = Handler /\ Handles' = Handles
      BY <1>1 DEF Field, HasHandler, Handler, Handles
    <3>3. Noticed(c)'
      BY <1>1, <1>5, <3>1, <3>2 DEF Noticed, Running, RowOf
    <3>4. Ways(calls[c])'
      BY <1>1, <1>5, <3>1, <3>2 DEF Ways, RowOf, Sending
    <3>5. Progress(c)'
      <4>1. Carried(calls[c])' = Carried(r)
        BY <1>1, <1>5, <3>1, <3>2 DEF Carried
      <4>2. Kept(c, Carried(r))
        BY <1>1 DEF Progress, After
      <4>3. Kept(c, Carried(calls[c]))'
        BY <1>5, <3>1, <4>1, <4>2, ExcusedStays DEF Kept
      <4> QED
        BY <1>5, <3>1, <4>3 DEF Progress, Sending
    <3> QED
      BY <1>5, <3>1, <3>3, <3>4, <3>5 DEF CallInv
  <2> QED
    BY <2>1, <2>2
<1> QED
  BY <1>1, <1>5, <1>6, OneMoves DEF After

HasSeen(r, document) == [r EXCEPT !.pc = "bcwrite", !.seen = document]

LEMMA ReadRecord ==
  ASSUME NEW r, IsRecord(r), NEW document
  PROVE  LET w == HasSeen(r, document)
         IN  /\ IsRecord(w) /\ w.pc = "bcwrite" /\ w.seen = document /\ w.setter = r.setter
             /\ w.asked = r.asked /\ w.rewritten = r.rewritten
             /\ w.via = r.via /\ w.taken = r.taken /\ w.gets = r.gets /\ w.stored = r.stored /\ w.out = r.out
             /\ w.since = r.since /\ w.alias = r.alias /\ w.body = r.body
BY DEF IsRecord, Names, HasSeen

LEMMA BcReadInv ==
  ASSUME IInv, NEW c \in Call, BcRead(c)
  PROVE  IInv' /\ Promise
<1> DEFINE r == calls[c]
<1>b. PICK b \in BOOLEAN :
         calls' = [IF Handler.parses THEN Detached(calls, device, b) ELSE calls
                     EXCEPT ![c].pc = "bcwrite", ![c].seen = device]
  BY Zenon DEF BcRead
<1> DEFINE now == IF Handler.parses THEN Remapped(r, device, b) ELSE r
           w == HasSeen(now, device)
<1>1. /\ IsRecord(r) /\ Running(c) /\ Noticed(c) /\ Ways(r) /\ Progress(c) /\ Global
      /\ r.pc = "bcread" \/ (r.pc = "bc" /\ ~Asks(c, Handler.first))
      /\ UNCHANGED <<section, baichuan_only, lacks, device, poll>> /\ DOMAIN device = Field
      /\ cache' = IF Handler.parses THEN device ELSE cache
  BY DEF IInv, CallInv, Running, BcRead, fixed, Global
<1>2. /\ Handler.parses => calls' = [Detached(calls, device, b) EXCEPT ![c] = w]
      /\ ~Handler.parses => calls' = [calls EXCEPT ![c] = w]
  BY <1>b DEF Detached, HasSeen, IInv, Global
<1>3. /\ IsRecord(now) /\ now.pc = r.pc /\ now.setter = r.setter /\ now.asked = r.asked /\ now.via = r.via
      /\ now.taken = r.taken /\ now.gets = r.gets /\ now.stored = r.stored /\ now.out = r.out
      /\ now.since = r.since /\ r.rewritten \subseteq now.rewritten /\ (now.alias => r.alias)
  <2>1. now = r \/ now = Remapped(r, device, b)
    OBVIOUS
  <2> HIDE DEF now
  <2> QED
    BY <1>1, <2>1, RemappedRecord
<1> HIDE DEF now
<1>4. /\ IsRecord(w) /\ w.pc = "bcwrite" /\ w.seen = device /\ w.setter = now.setter /\ w.asked = now.asked
      /\ w.rewritten = now.rewritten /\ w.via = now.via /\ w.taken = now.taken /\ w.gets = now.gets
      /\ w.stored = now.stored /\ w.out = now.out /\ w.since = now.since /\ w.alias = now.alias
      /\ w.body = now.body
  BY <1>3, ReadRecord
<1> HIDE DEF w
<1>5. Asked /\ Global' /\ (\A d \in Call \ {c} : Stays(d)) /\ calls'[c] = w
  <2>1. CASE Handler.parses
    <3>1. Became(c, device)
      BY <1>1, <2>1 DEF Became
    <3>2. calls' = [Detached(calls, device, b) EXCEPT ![c] = w]
      BY <1>2, <2>1
    <3>3. calls[c].asked \subseteq w.asked /\ calls[c].rewritten \subseteq w.rewritten
      BY <1>3, <1>4
    <3> QED
      BY <1>1, <3>1, <3>2, <3>3, MapMove
  <2>2. CASE ~Handler.parses
    <3>1. Became(c, cache)
      BY <1>1, <2>2 DEF Became
    <3> QED
      BY <1>1, <1>2, <1>3, <1>4, <2>2, <3>1, WriteMove
  <2> QED
    BY <2>1, <2>2
<1>6. ASSUME Mine(c, Content(c)) PROVE Mine(c, Content(c))'
  <2>1. CASE Handler.parses
    <3>1. now = Remapped(r, device, b) /\ Landed(c, device)
      BY <1>1, <2>1 DEF now, Landed
    <3>2. r.asked \subseteq Field
      BY <1>1, AskedFields DEF Running
    <3> QED
      BY <1>1, <1>3, <1>4, <1>5, <1>6, <3>1, <3>2, RemappedMine
  <2>2. CASE ~Handler.parses
    <3>1. now = r
      BY <2>2 DEF now
    <3>2. Content(c)' = Content(c)
      BY <1>1, <1>4, <1>5, <2>2, <3>1 DEF Content
    <3> QED
      BY <1>3, <1>4, <1>5, <1>6, <3>2, ExcusedStays DEF Mine
  <2> QED
    BY <2>1, <2>2
<1>7. Field' = Field /\ (HasHandler' <=> HasHandler) /\ Handler' = Handler /\ Handles' = Handles
  BY <1>1 DEF Field, HasHandler, Handler, Handles
<1>8. Noticed(c)'
  BY <1>1, <1>3, <1>4, <1>5, <1>7 DEF Noticed, Running, RowOf
<1>9. Ways(calls[c])'
  BY <1>1, <1>3, <1>4, <1>5, <1>7 DEF Ways, RowOf, Sending
<1>10. Progress(c)'
  <2>1. Mine(c, r.taken) /\ (r.via # "direct" => Mine(c, Content(c)))
    BY <1>1 DEF Progress, Sending
  <2>2. Mine(c, calls[c].taken)' /\ (calls'[c].via # "direct" => Mine(c, Content(c))')
    BY <1>3, <1>4, <1>5, <1>6, <2>1, ExcusedStays DEF Mine
  <2>3. Kept(c, Handler.first \cap Handles)
    <3>1. CASE r.pc = "bcread"
      BY <1>1, <3>1 DEF Progress, Sending
    <3>2. CASE r.pc = "bc" /\ ~Asks(c, Handler.first)
      BY <3>2, NotAsked DEF Kept, Sending
    <3> QED
      BY <1>1, <3>1, <3>2
  <2>4. Kept(c, Handler.first \cap Handles)'
    BY <1>3, <1>4, <1>5, <1>7, <2>3, ExcusedStays DEF Kept
  <2> QED
    BY <1>4, <1>5, <2>2, <2>4 DEF Progress, After
<1>11. CallInv(c)'
  BY <1>4, <1>5, <1>8, <1>9, <1>10 DEF CallInv
<1>12. calls'[c].out # "ok"
  BY <1>1, <1>3, <1>4, <1>5 DEF Noticed
<1> QED
  BY <1>5, <1>11, <1>12, OneMoves

-----------------------------------------------------------------------------
(* Making the body.                                                        *)
LEMMA BodyMade ==
  ASSUME NEW c \in Call, UNCHANGED <<section, baichuan_only, lacks, device>>, NEW w, calls'[c] = w, IsRecord(w),
         w.pc \in {"post", "bc"}, w.setter \in Used \cap SettersOf[section],
         w.asked \subseteq ToSet(RowOf(w).args), w.out = "none", \A f \in Field : device[f] \in w.since[f],
         Ways(w),
         w.pc = "post" => \A f \in w.asked : f \in DOMAIN (Content(c)') /\ Content(c)'[f] = c,
         w.pc = "bc" => w.via = "direct" /\ \A f \in w.asked : f \in DOMAIN w.taken /\ w.taken[f] = c
  PROVE  CallInv(c)'
<1>1. Field' = Field /\ (HasHandler' <=> HasHandler) /\ Handler' = Handler /\ Handles' = Handles
  BY DEF Field, HasHandler, Handler, Handles
<1>2. Noticed(c)'
  BY <1>1 DEF Noticed, Running, RowOf
<1>3. Ways(calls[c])'
  BY <1>1 DEF Ways, RowOf
<1>4. w.pc = "post" => Mine(c, Content(c))'
  BY DEF Mine
<1>5. w.pc = "bc" => Mine(c, calls[c].taken)'
  BY DEF Mine
<1>6. Progress(c)'
  BY <1>4, <1>5 DEF Progress, Sending, After
<1> QED
  BY <1>2, <1>3, <1>6 DEF CallInv

(* A call that is about to make its body.                                  *)
Ready(c, r) ==
    /\ IsRecord(r) /\ ~r.alias /\ r.via = "http" /\ r.gets = 0 /\ r.out = "none"
    /\ r.setter \in Used \cap SettersOf[section] /\ r.asked \subseteq ToSet(RowOf(r).args)
    /\ \A f \in Field : device[f] \in r.since[f]
    /\ calls[c].asked \subseteq r.asked /\ calls[c].rewritten \subseteq r.rewritten

(* What is cached meanwhile: as before, or the answer that c has just got. *)
Source(current, cs) == \/ cs = calls /\ current = cache
                       \/ (\E b : cs = Detached(calls, current, b)) /\ DOMAIN current = Field

LEMMA AcceptedAll ==
  ASSUME NEW r, r.asked \subseteq ToSet(RowOf(r).args)
  PROVE  Accepted(r) \subseteq r.asked /\ (r.bad = {} => Accepted(r) = r.asked)
BY DEF Accepted, ToSet

LEMMA ComposeMove ==
  ASSUME IInv, NEW c \in Call, NEW current, NEW cs, Source(current, cs), NEW w,
         calls' = [cs EXCEPT ![c] = w], calls[c].asked \subseteq w.asked,
         calls[c].rewritten \subseteq w.rewritten,
         UNCHANGED <<section, baichuan_only, lacks, device, poll>>, NEW fields, fields \subseteq w.asked,
         cache' = current \/ cache' = Put(current, [f \in fields |-> c])
  PROVE  Asked /\ Global' /\ (\A d \in Call \ {c} : Stays(d)) /\ calls'[c] = w
<1>1. calls'[c] = w
  BY DEF Source, IInv, Global, Detached
<1>2. Became(c, current)
  BY <1>1 DEF Became
<1>3. CASE cs = calls /\ current = cache
  BY <1>2, <1>3, WriteMove
<1>4. ASSUME NEW b, cs = Detached(calls, current, b), DOMAIN current = Field
      PROVE  Asked /\ Global' /\ (\A d \in Call \ {c} : Stays(d)) /\ calls'[c] = w
  BY <1>2, <1>4, MapMove
<1> QED
  BY <1>3, <1>4 DEF Source

LEMMA ComposeInv ==
  ASSUME IInv, NEW c \in Call, NEW r, Ready(c, r), NEW current, NEW cs, Source(current, cs),
         Compose(c, r, current, cs), UNCHANGED <<section, baichuan_only, lacks, device, poll>>
  PROVE  IInv' /\ Promise
<1> DEFINE own == OwnBody(c, r, current)
           straight == [r EXCEPT !.pc = "bc", !.via = "direct", !.taken = own]
           posts == [r EXCEPT !.pc = "post", !.body = own]
           shares == [r EXCEPT !.pc = "post", !.alias = TRUE]
           Goes(w) == calls' = [cs EXCEPT ![c] = w]
<1>1. /\ Global /\ IsRecord(r) /\ ~r.alias /\ r.via = "http" /\ r.gets = 0 /\ r.out = "none"
      /\ r.setter \in Used \cap SettersOf[section] /\ r.asked \subseteq ToSet(RowOf(r).args)
      /\ \A f \in Field : device[f] \in r.since[f]
      /\ calls[c].asked \subseteq r.asked /\ calls[c].rewritten \subseteq r.rewritten
  BY DEF Ready, IInv
<1>2. Setter[r.setter].doc = section /\ r.asked \subseteq Field
  BY <1>1, RowFields DEF Global, RowOf
<1>3. \/ cache' = current
      \/ cache' = Put(current, [f \in Accepted(r) |-> c])
  BY DEF Compose
<1>4. ASSUME NEW w, Goes(w), w.asked = r.asked, w.rewritten = r.rewritten
      PROVE  Asked /\ Global' /\ (\A d \in Call \ {c} : Stays(d)) /\ calls'[c] = w
  <2>1. Accepted(r) \subseteq r.asked
    BY <1>1, AcceptedAll
  <2>2. calls' = [cs EXCEPT ![c] = w]
    BY <1>4
  <2>3. calls[c].asked \subseteq w.asked /\ calls[c].rewritten \subseteq w.rewritten /\ Accepted(r) \subseteq w.asked
    BY <1>1, <1>4, <2>1
  <2> HIDE DEF own, straight, posts, shares, Goes
  <2> QED
    BY <1>3, <2>2, <2>3, ComposeMove
<1>5. ASSUME NEW w, Goes(w), w.asked = r.asked, w.rewritten = r.rewritten, w.out # "ok",
             CallInv(c)' PROVE IInv' /\ Promise
  BY <1>4, <1>5, OneMoves
<1>6. ASSUME NEW o \in {"unsupported", "refused"}, Goes(Ended(r, o)) PROVE IInv' /\ Promise
  <2> DEFINE w == Ended(r, o)
  <2>1. /\ IsRecord(w) /\ w.pc = "end" /\ w.out = o /\ ~w.alias /\ w.via = "http"
        /\ w.asked = r.asked /\ w.rewritten = r.rewritten
    BY <1>1, EndedRecord
  <2>2. Goes(w)
    BY <1>6
  <2> HIDE DEF w, Goes
  <2>3. CallInv(c)'
    BY <1>4, <2>1, <2>2, EndedInv
  <2> QED
    BY <1>5, <2>1, <2>2, <2>3
<1>7. \A f \in r.asked : f \in DOMAIN own /\ own[f] = c
  BY DEF OwnBody
<1>8. ASSUME Goes(straight), HasHandler PROVE IInv' /\ Promise
  <2>1. /\ IsRecord(straight) /\ straight.pc = "bc" /\ straight.via = "direct" /\ straight.taken = own
        /\ straight.setter = r.setter /\ straight.asked = r.asked /\ straight.rewritten = r.rewritten
        /\ straight.out = r.out
        /\ straight.since = r.since /\ straight.alias = r.alias /\ straight.gets = r.gets
    <3> HIDE DEF own
    <3> QED
      BY <1>1 DEF IsRecord, Names
  <2> HIDE DEF straight, Goes, own
  <2>2. Ways(straight)
    BY <1>1, <1>8, <2>1 DEF Ways, RowOf, Sending
  <2>3. RowOf(straight) = RowOf(r)
    BY <2>1 DEF RowOf
  <2>4. CallInv(c)'
    BY <1>1, <1>4, <1>7, <1>8, <2>1, <2>2, <2>3, BodyMade
  <2> QED
    BY <1>1, <1>5, <1>8, <2>1, <2>4
<1>9. ASSUME Goes(posts) PROVE IInv' /\ Promise
  <2>1. /\ IsRecord(posts) /\ posts.pc = "post" /\ posts.via = r.via /\ posts.body = own
        /\ posts.setter = r.setter /\ posts.asked = r.asked /\ posts.rewritten = r.rewritten
        /\ posts.out = r.out
        /\ posts.since = r.since /\ posts.alias = r.alias /\ posts.gets = r.gets
    <3> HIDE DEF own
    <3> QED
      BY <1>1 DEF IsRecord, Names
  <2> HIDE DEF posts, Goes, own
  <2>2. Ways(posts)
    BY <1>1, <2>1 DEF Ways, RowOf, Sending
  <2>3. RowOf(posts) = RowOf(r)
    BY <2>1 DEF RowOf
  <2>4. calls'[c] = posts
    BY <1>4, <1>9, <2>1
  <2>5. Content(c)' = own
    BY <1>1, <2>1, <2>4 DEF Content
  <2>6. CallInv(c)'
    BY <1>1, <1>7, <2>1, <2>2, <2>3, <2>4, <2>5, BodyMade
  <2> QED
    BY <1>1, <1>5, <1>9, <2>1, <2>6
<1>10. ASSUME Goes(shares), RowOf(r).body # "own", r.bad = {}, current # NoDoc,
              cache' = Put(current, [f \in Accepted(r) |-> c])
       PROVE  IInv' /\ Promise
  <2>1. /\ IsRecord(shares) /\ shares.pc = "post" /\ shares.via = r.via /\ shares.alias
        /\ shares.setter = r.setter /\ shares.asked = r.asked /\ shares.rewritten = r.rewritten
        /\ shares.out = r.out
        /\ shares.since = r.since /\ shares.gets = r.gets
    BY <1>1 DEF IsRecord, Names
  <2> HIDE DEF shares, Goes
  <2>2. Ways(shares)
    BY <1>1, <1>10, <2>1 DEF Ways, RowOf, Sending
  <2>3. RowOf(shares) = RowOf(r)
    BY <2>1 DEF RowOf
  <2>4. calls'[c] = shares
    BY <1>4, <1>10, <2>1
  <2>5. Content(c)' = cache'
    BY <2>1, <2>4 DEF Content
  <2>6. DOMAIN current = Field
    BY <1>1, <1>10 DEF Source, Global
  <2>7. \A f \in r.asked : f \in DOMAIN cache' /\ cache'[f] = c
    BY <1>1, <1>2, <1>10, <2>6, AcceptedAll DEF Put
  <2>8. CallInv(c)'
    BY <1>1, <2>1, <2>2, <2>3, <2>4, <2>5, <2>7, BodyMade
  <2> QED
    BY <1>1, <1>5, <1>10, <2>1, <2>8
<1>11. CASE RowOf(r).body = "own"
  <2>1. \/ \E o \in {"unsupported", "refused"} : Goes(Ended(r, o))
        \/ IsDirect(r) /\ Goes(straight)
        \/ Goes(posts)
    BY <1>11 DEF Compose
  <2>2. IsDirect(r) => HasHandler
    BY <1>1, <1>2, RowsAssumption DEF IsDirect, RowOf, HasHandler
  <2> HIDE DEF Goes, straight, posts
  <2> QED
    BY <1>6, <1>8, <1>9, <2>1, <2>2
<1>12. CASE RowOf(r).body # "own"
  <2>1. \/ \E o \in {"unsupported", "refused"} : Goes(Ended(r, o))
        \/ section = "NetPort" /\ Goes(straight)
        \/ /\ Goes(shares) /\ r.bad = {} /\ current # NoDoc
           /\ cache' = Put(current, [f \in Accepted(r) |-> c])
    BY <1>12 DEF Compose
  <2>2. section = "NetPort" => HasHandler
    BY RowsAssumption DEF HasHandler
  <2> HIDE DEF Goes, straight, shares
  <2> QED
    BY <1>6, <1>8, <1>10, <1>12, <2>1, <2>2
<1> QED
  BY <1>11, <1>12

LEMMA BeginInv ==
  ASSUME IInv, NEW c \in Call, NEW s \in Used \cap SettersOf[section], NEW asked \in AskedOf(Setter[s]),
         NEW bad,
         calls[c].pc = "idle", Begin(c, s, asked, bad)
  PROVE  IInv' /\ Promise
<1> DEFINE all == asked \cup Setter[s].always
           now == [f \in Field |-> {device[f]}]
           r == [Idle EXCEPT !.setter = s, !.asked = all, !.bad = bad, !.since = now]
           w == [r EXCEPT !.pc = "get"]
<1>1. /\ IsRecord(calls[c]) /\ Noticed(c) /\ calls[c].pc = "idle"
      /\ UNCHANGED <<section, baichuan_only, lacks, device, poll>>
      /\ Global
  BY DEF IInv, CallInv, Begin, fixed
<1>2. /\ IsRecord(r) /\ ~r.alias /\ r.via = "http" /\ r.gets = 0 /\ r.out = "none"
      /\ r.setter = s /\ r.asked = all /\ r.since = now /\ r.stored = {} /\ r.rewritten = {}
  <2>1. /\ IsRecord(Idle) /\ ~Idle.alias /\ Idle.via = "http" /\ Idle.gets = 0 /\ Idle.out = "none"
        /\ Idle.stored = {} /\ Idle.rewritten = {}
    BY DEF IsRecord, Names, Idle
  <2> HIDE DEF all, now
  <2> QED
    BY <2>1 DEF IsRecord, Names
<1>3. all \subseteq ToSet(RowOf(r).args)
  <2>1. asked \subseteq ToSet(Setter[s].args) /\ Setter[s].always \subseteq ToSet(Setter[s].args)
    BY RowsAssumption DEF AskedOf
  <2> QED
    BY <1>2, <2>1 DEF RowOf
<1>4. Ready(c, r)
  <2>1. \A f \in Field : device[f] \in now[f]
    OBVIOUS
  <2> HIDE DEF r, all, now
  <2> QED
    BY <1>1, <1>2, <1>3, <2>1 DEF Ready, Noticed
<1>5. CASE Compose(c, r, cache, calls)
  <2> HIDE DEF r
  <2>1. Source(cache, calls)
    BY DEF Source
  <2> QED
    BY <1>1, <1>4, <1>5, <2>1, ComposeInv
<1>6. CASE calls' = [calls EXCEPT ![c] = w] /\ cache' = cache
  <2>1. /\ IsRecord(w) /\ w.pc = "get" /\ ~w.alias /\ w.via = "http" /\ w.gets = 0 /\ w.out = "none"
        /\ w.setter = s /\ w.asked = all /\ w.since = now /\ w.rewritten = {}
    <3> HIDE DEF r, all, now
    <3> QED
      BY <1>2 DEF IsRecord, Names
  <2> HIDE DEF w
  <2>2. Asked /\ Global' /\ (\A d \in Call \ {c} : Stays(d)) /\ calls'[c] = w
    BY <1>1, <1>6, <2>1, WriteMove DEF Noticed, Became
  <2>3. Noticed(c)'
    <3>1. Field' = Field
      BY <1>1 DEF Field
    <3>2. RowOf(w) = RowOf(r)
      BY <1>2, <2>1 DEF RowOf
    <3> QED
      BY <1>1, <1>3, <2>1, <2>2, <3>1, <3>2 DEF Noticed, Running, RowOf
  <2>4. Ways(calls[c])'
    BY <2>1, <2>2 DEF Ways, Sending
  <2>5. Progress(c)'
    BY <2>1, <2>2 DEF Progress, Sending, After
  <2>6. CallInv(c)'
    BY <2>1, <2>2, <2>3, <2>4, <2>5 DEF CallInv
  <2> QED
    BY <2>1, <2>2, <2>6, OneMoves
<1> QED
  BY <1>5, <1>6 DEF Begin

(* A call that has read, or has skipped an answer, makes its body.         *)
LEMMA ReadyAgain ==
  ASSUME IInv, NEW c \in Call, calls[c].pc \in {"get", "got"}, NEW fresh, NEW seen
  PROVE  /\ Ready(c, [calls[c] EXCEPT !.fresh = fresh, !.tries = 0, !.seen = seen])
         /\ Ready(c, [calls[c] EXCEPT !.tries = 0])
<1> DEFINE r == calls[c]
           u == [r EXCEPT !.fresh = fresh, !.tries = 0, !.seen = seen]
           v == [r EXCEPT !.tries = 0]
<1>1. IsRecord(r) /\ Noticed(c) /\ Ways(r) /\ Running(c)
  BY DEF IInv, CallInv, Running
<1>2. \A w \in {u, v} : /\ IsRecord(w) /\ w.alias = r.alias /\ w.via = r.via /\ w.gets = r.gets /\ w.out = r.out
                         /\ w.setter = r.setter /\ w.asked = r.asked /\ w.rewritten = r.rewritten
                         /\ w.since = r.since
  <2> HIDE DEF r
  <2> QED
    BY <1>1 DEF IsRecord, Names
<1>3. ASSUME NEW w, IsRecord(w), w.alias = r.alias, w.via = r.via, w.gets = r.gets, w.out = r.out,
             w.setter = r.setter, w.asked = r.asked, w.rewritten = r.rewritten, w.since = r.since
      PROVE  Ready(c, w)
  <2>1. RowOf(w) = RowOf(r)
    BY <1>3 DEF RowOf
  <2> QED
    BY <1>1, <1>3, <2>1 DEF Ready, Noticed, Ways, Sending
<1> HIDE DEF u, v
<1>4. Ready(c, u) /\ Ready(c, v)
  BY <1>2, <1>3
<1> QED
  BY <1>4 DEF u, v

LEMMA GetSkippedInv ==
  ASSUME IInv, NEW c \in Call, GetSkipped(c)
  PROVE  IInv' /\ Promise
<1> DEFINE r == [calls[c] EXCEPT !.tries = 0]
<1>1. Compose(c, r, cache, calls) /\ UNCHANGED <<section, baichuan_only, lacks, device, poll>>
  BY DEF GetSkipped, fixed
<1>2. Ready(c, r)
  BY ReadyAgain DEF GetSkipped
<1>3. Source(cache, calls)
  BY DEF Source
<1> HIDE DEF r
<1> QED
  BY <1>1, <1>2, <1>3, ComposeInv

LEMMA GotInv ==
  ASSUME IInv, NEW c \in Call, Got(c)
  PROVE  IInv' /\ Promise
<1> DEFINE r == [calls[c] EXCEPT !.fresh = TRUE, !.tries = 0, !.seen = NoDoc]
           current == calls[c].seen
<1>1. PICK b \in Routes : Compose(c, r, current, Detached(calls, current, b))
  BY DEF Got
<1>2. UNCHANGED <<section, baichuan_only, lacks, device, poll>> /\ calls[c].pc = "got"
  BY DEF Got, fixed
<1>3. Ready(c, r)
  BY <1>2, ReadyAgain
<1>4. Source(current, Detached(calls, current, b))
  BY <1>2 DEF Source, IInv, CallInv, Noticed
<1> HIDE DEF r, current
<1> QED
  BY <1>1, <1>2, <1>3, <1>4, ComposeInv

-----------------------------------------------------------------------------
(* The invariant.                                                          *)
LEMMA InitInv ==
  ASSUME Init
  PROVE  IInv
<1>1. /\ IsRecord(Idle) /\ Idle.pc = "idle" /\ Idle.asked = {} /\ Idle.rewritten = {}
      /\ ~Idle.alias /\ Idle.via = "http"
  BY DEF IsRecord, Names, Idle
<1>2. Global
  BY DEF Init, Global
<1>3. ASSUME NEW c \in Call PROVE CallInv(c)
  <2>1. calls[c] = Idle
    BY DEF Init
  <2> QED
    BY <1>1, <2>1 DEF CallInv, Noticed, Ways, Progress, Running, Sending, After
<1> QED
  BY <1>2, <1>3 DEF IInv

LEMMA NextInv ==
  ASSUME IInv, [Next]_vars
  PROVE  IInv' /\ Promise
<1>1. CASE UNCHANGED vars
  <2>1. Asked /\ UNCHANGED <<section, baichuan_only, lacks, device, cache, calls, poll>>
    BY <1>1 DEF vars, Asked
  <2>2. Global'
    <3>1. Field' = Field
      BY <2>1 DEF Field
    <3> QED
      BY <2>1, <3>1 DEF IInv, Global, Docs
  <2>3. ASSUME NEW d \in Call PROVE Stays(d)
    <3>1. CallInv(d)
      BY DEF IInv
    <3>2. ASSUME Mine(d, Content(d)) PROVE Mine(d, Content(d))'
      BY <2>1, <3>2 DEF Mine, Content, Excused
    <3> QED
      BY <2>1, <3>1, <3>2 DEF Stays, CallInv, Noticed
  <2> QED
    BY <2>1, <2>2, <2>3, AllStay
<1>2. ASSUME NEW c \in Call, Called(c) PROVE IInv' /\ Promise
  BY <1>2, BeginInv DEF Called
<1>3. ASSUME NEW c \in Call,
             \/ GetAnswered(c) \/ GetSkipped(c) \/ GetLost(c) \/ Got(c)
             \/ PostServed(c) \/ Posted(c) \/ PostAnswerLost(c) \/ PostLost(c)
             \/ PostRejected(c) \/ PostByBaichuan(c)
             \/ BcFirst(c) \/ BcRead(c) \/ BcRefused(c) \/ BcWrite(c) \/ BcLast(c) \/ BcFailed(c)
             \/ BcAnswerLost(c)
             \/ RefreshAnswered(c) \/ RefreshSkipped(c) \/ Refreshed(c)
      PROVE  IInv' /\ Promise
  BY <1>3, GetAnsweredInv, GetSkippedInv, LostInv, GotInv, PostServedInv, PostedInv, PostAnswerLostInv,
     PostRejectedInv, PostByBaichuanInv, BcFirstInv, BcReadInv, BcRefusedInv, BcWriteInv, BcLastInv,
     BcFailedInv, BcAnswerLostInv, RefreshAnsweredInv, RefreshSkippedInv, RefreshedInv
<1>4. CASE Poll \/ PollMapped \/ AppChanges
  BY <1>4, PollInv, PollMappedInv, AppChangesInv
<1> QED
  BY <1>1, <1>2, <1>3, <1>4 DEF Next

LEMMA AlwaysIInv == Spec => []IInv
<1>1. Init => IInv
  BY InitInv
<1>2. IInv /\ [Next]_vars => IInv'
  BY NextInv
<1> QED
  BY <1>1, <1>2, PTL DEF Spec

-----------------------------------------------------------------------------
(* A setter that returns has had the camera store what it was asked,       *)
(* whatever requests and answers were lost and whoever polled or changed   *)
(* the same document meanwhile, except for fields that Baichuan leaves     *)
(* out, that another call was asked for as well, or that the answer to     *)
(* another task's read changed in the cached dict before the call sent it  *)
(* (send_setting, _parse_json and the handlers of baichuan.py).            *)
THEOREM AcknowledgedIsStored == Spec => Acknowledged
<1> DEFINE Step == \A c \in Call :
                      Running(c) /\ calls'[c].out = "ok"
                         => \A f \in Carried(calls[c]) \ calls[c].rewritten :
                               f \in calls[c].stored \/ \E d \in Call \ {c} : f \in calls[d].asked
<1>1. ASSUME IInv, [Next]_vars PROVE [Step]_vars
  <2> SUFFICES ASSUME NEW c \in Call, Running(c), calls'[c].out = "ok",
                      NEW f \in Carried(calls[c]) \ calls[c].rewritten
               PROVE  f \in calls[c].stored \/ \E d \in Call \ {c} : f \in calls[d].asked
    OBVIOUS
  <2>1. calls[c].pc \in After
    BY <1>1, NextInv DEF Promise
  <2>2. Kept(c, Carried(calls[c]))
    BY <1>1, <2>1 DEF IInv, CallInv, Progress
  <2>3. f \in calls[c].asked
    BY DEF Carried
  <2> QED
    BY <2>2, <2>3 DEF Kept, Excused
<1>2. IInv /\ [Next]_vars => [Step]_vars
  BY <1>1
<1> QED
  BY <1>2, AlwaysIInv, PTL DEF Spec, Acknowledged

(* After the last read of a setter the cache shows what it was asked as    *)
(* the camera has had it since the write, though polls that began before   *)
(* the write may have been mapped in between (get_state, get_states).      *)
THEOREM OwnWritesAreRead == Spec => ReadYourWrites
<1> DEFINE Step == \A c \in Call :
                      calls[c].pc = "refreshed" /\ calls'[c].out = "ok"
                         => \A f \in Carried(calls[c]) : cache'[f] \in calls[c].since[f]
<1>1. ASSUME IInv, [Next]_vars PROVE [Step]_vars
  <2> SUFFICES ASSUME NEW c \in Call, calls[c].pc = "refreshed", calls'[c].out = "ok",
                      NEW f \in Carried(calls[c])
               PROVE  cache'[f] \in calls[c].since[f]
    OBVIOUS
  <2>1. Running(c) /\ cache' = calls[c].seen
    BY <1>1, NextInv DEF Promise, Running
  <2>2. f \in Field
    BY <1>1, <2>1, AskedFields DEF Carried
  <2> QED
    BY <1>1, <2>1, <2>2 DEF IInv, CallInv, Noticed
<1>2. IInv /\ [Next]_vars => [Step]_vars
  BY <1>1
<1> QED
  BY <1>2, AlwaysIInv, PTL DEF Spec, ReadYourWrites

-----------------------------------------------------------------------------
(* Types.  What is sent or kept is a part of the document; a call that has *)
(* not made its body has stored nothing; one that has a body of its own    *)
(* and fills in nothing sends only what it was asked.                      *)
Doc == [Field -> Value]
Part(x) == DOMAIN x \subseteq Field /\ \A f \in DOMAIN x : x[f] \in Value

TypedCall(c) ==
    LET r == calls[c] IN
    /\ Part(r.body) /\ Part(r.taken)
    /\ r.pc \in {"got", "bcwrite", "refreshed"} => r.seen \in Doc
    /\ r.alias => cache # NoDoc
    /\ r.pc = "posted" => r.gets \in 0..1
    /\ r.pc \in {"refresh", "refreshed"} => r.gets \in 1..2
    /\ Running(c) /\ r.via \notin {"http", "failed"} => HasHandler
    /\ r.pc \in {"idle", "get", "got"} => DOMAIN r.body = {} /\ DOMAIN r.taken = {} /\ r.stored = {}
    /\ r.pc = "get" => ~r.fresh
    /\ Running(c) /\ RowOf(r).body = "own" /\ RowOf(r).fill = {}
          => DOMAIN r.body \subseteq r.asked /\ DOMAIN r.taken \subseteq r.asked

Typed == /\ device \in Doc /\ {cache, poll} \subseteq Doc \cup {NoDoc}
         /\ \A c \in Call : TypedCall(c)

(* A value of call d may be in the body of another call while d has not    *)
(* had it stored; or d is excused.                                         *)
Live(d, f) ==
    /\ calls[d].pc # "idle" /\ f \in calls[d].asked
    /\ \/ Excused(d, f)
       \/ /\ f \notin calls[d].stored
          /\ calls[d].out = "ok" => HasHandler /\ f \notin Handles

Explained(v, f, since) == v \in since[f] \/ \E d \in Call : v = d /\ Live(d, f)
Good(doc, r) == \A f \in DOMAIN doc \ (r.asked \cup r.rewritten) : f \in Field /\ Explained(doc[f], f, r.since)

(* The document that a call has seen, or sends back, shows no field it was *)
(* not asked for as the camera did not have it meanwhile.                  *)
CleanCall(c) ==
    LET r == calls[c] IN
    /\ r.pc \in {"got", "bcwrite"} => \A f \in Field : r.seen[f] \in r.since[f]
    /\ HasRead(r) => /\ r.pc \in Sending \cup {"post"} => Good(Content(c), r)
                     /\ r.pc \in Sending => Good(r.taken, r)

Clean == \A c \in Call : CleanCall(c)

Whole == IInv /\ Typed /\ Clean

-----------------------------------------------------------------------------
(* What a step leaves of a record, and of the calls that do not take it.   *)
Alters(r, w, names) == IsRecord(w) /\ \A x \in Names \ names : w[x] = r[x]

Follows(d) ==
    LET r == calls[d]
        n == calls'[d]
    IN  /\ Alters(r, n, {"since", "alias", "body", "rewritten"}) /\ r.rewritten \subseteq n.rewritten
        /\ \/ n.alias = r.alias /\ n.body = r.body
           \/ r.alias /\ ~n.alias /\ n.body = cache
        /\ Running(d) => \A f \in Field : r.since[f] \subseteq n.since[f] /\ device'[f] \in n.since[f]

LEMMA UntouchedFollows ==
  ASSUME IInv, NEW d \in Call, calls'[d] = calls[d], device' = device
  PROVE  Follows(d)
<1>1. IsRecord(calls[d]) /\ Noticed(d)
  BY DEF IInv, CallInv
<1> QED
  BY <1>1 DEF Follows, Alters, Noticed

LEMMA DetachedFollows ==
  ASSUME IInv, NEW d \in Call, NEW answer, NEW b, calls'[d] = Detached(calls, answer, b)[d], device' = device
  PROVE  /\ Follows(d)
         /\ calls'[d].alias => \A f \in Field \ calls'[d].rewritten : answer[f] = cache[f]
<1> DEFINE r == calls[d]
           n == Remapped(r, answer, b)
<1>1. IsRecord(r) /\ Noticed(d)
  BY DEF IInv, CallInv
<1>2. calls'[d] = n
  BY DEF Detached
<1>3. CASE ~r.alias
  <2>1. n = r
    BY <1>3 DEF Remapped
  <2> QED
    BY <1>1, <1>2, <1>3, <2>1 DEF Follows, Alters, Noticed
<1>4. CASE r.alias /\ InPlace(b)
  <2> DEFINE new == {f \in Field : answer[f] # cache[f]}
  <2>1. n = [r EXCEPT !.rewritten = @ \cup new]
    BY <1>4 DEF Remapped
  <2> HIDE DEF n, r, new
  <2>2. Alters(r, n, {"rewritten"}) /\ n.rewritten = r.rewritten \cup new
    BY <1>1, <2>1 DEF IsRecord, Names, Alters
  <2>3. /\ Alters(r, n, {"since", "alias", "body", "rewritten"})
        /\ n.since = r.since /\ n.alias = r.alias /\ n.body = r.body
    BY <2>2 DEF Alters, Names
  <2> USE DEF r
  <2>4. Follows(d)
    BY <1>1, <1>2, <2>2, <2>3 DEF Follows, Noticed
  <2> QED
    BY <1>2, <2>2, <2>4 DEF new
<1>5. CASE r.alias /\ ~InPlace(b)
  <2>1. n = [r EXCEPT !.alias = FALSE, !.body = cache]
    BY <1>5 DEF Remapped
  <2> HIDE DEF n, r
  <2>2. Alters(r, n, {"alias", "body"}) /\ ~n.alias /\ n.body = cache
    BY <1>1, <2>1 DEF IsRecord, Names, Alters
  <2>3. /\ Alters(r, n, {"since", "alias", "body", "rewritten"})
        /\ n.since = r.since /\ n.rewritten = r.rewritten
    BY <2>2 DEF Alters, Names
  <2> USE DEF r
  <2> QED
    BY <1>1, <1>2, <1>5, <2>2, <2>3 DEF Follows, Noticed
<1> QED
  BY <1>3, <1>4, <1>5

LEMMA NotedFollows ==
  ASSUME IInv, NEW d \in Call, calls'[d] = Noted(calls, device')[d]
  PROVE  Follows(d)
<1> DEFINE r == calls[d]
           n == calls'[d]
           s == [f \in Field |-> r.since[f] \cup {device'[f]}]
<1>1. IsRecord(r) /\ Noticed(d)
  BY DEF IInv, CallInv
<1>2. CASE ~Running(d)
  <2>1. n = r
    BY <1>2 DEF Noted, Running
  <2> QED
    BY <1>1, <1>2, <2>1 DEF Follows, Alters
<1>3. CASE Running(d)
  <2>1. n = [r EXCEPT !.since = s]
    <3>1. n = [r EXCEPT !.since = [f \in Field |-> @[f] \cup {device'[f]}]]
      BY <1>3 DEF Noted, Running
    <3> QED
      BY <1>1, <3>1
  <2>2. Alters(r, n, {"since"}) /\ n.since = s
    <3> HIDE DEF n, r, s
    <3> QED
      BY <1>1, <2>1 DEF IsRecord, Names, Alters
  <2>3. n.alias = r.alias /\ n.body = r.body /\ n.rewritten = r.rewritten
        /\ Alters(r, n, {"since", "alias", "body", "rewritten"})
    BY <2>2 DEF Alters, Names
  <2>4. \A f \in Field : r.since[f] \subseteq n.since[f] /\ device'[f] \in n.since[f]
    BY <2>2
  <2> QED
    BY <2>3, <2>4 DEF Follows
<1> QED
  BY <1>2, <1>3

-----------------------------------------------------------------------------
(* The call that takes a step: what it has had stored is on the camera, and*)
(* it returns "ok" only when it has come to its end.                       *)
Moves(c) ==
    LET r == calls[c]
        w == calls'[c]
    IN  /\ w.pc # "idle" /\ (r.pc # "idle" => w.setter = r.setter)
        /\ r.asked \subseteq w.asked /\ r.rewritten \subseteq w.rewritten
        /\ \A f \in Field : f \in w.stored => f \in r.stored \/ device'[f] = c
        /\ w.out = "ok" => r.pc \in After

(* A step of call c, or of nobody.                                         *)
Taken(c) == IInv /\ Typed /\ Asked /\ \A d \in Call : Follows(d) \/ (d = c /\ Moves(c))

LEMMA LiveStays ==
  ASSUME NEW c, Taken(c), NEW d \in Call, NEW f \in Field, Live(d, f)
  PROVE  Live(d, f)' \/ device'[f] = d
<1> DEFINE r == calls[d]
           n == calls'[d]
<1>1. /\ r.pc # "idle" /\ f \in r.asked
      /\ Excused(d, f) \/ (f \notin r.stored /\ (r.out = "ok" => HasHandler /\ f \notin Handles))
  BY DEF Live
<1>2. Asked /\ (HasHandler' <=> HasHandler) /\ Handles' = Handles /\ CallInv(d) /\ TypedCall(d)
  BY DEF Taken, Asked, HasHandler, Handler, Handles, IInv, Typed
<1>3. CASE Follows(d)
  <2>1. n.pc = r.pc /\ n.asked = r.asked /\ n.stored = r.stored /\ n.out = r.out
    BY <1>3 DEF Follows, Alters, Names
  <2> QED
    BY <1>1, <1>2, <2>1, ExcusedStays DEF Live
<1>4. CASE d = c /\ Moves(c)
  <2>1. n.pc # "idle" /\ f \in n.asked
    BY <1>1, <1>4 DEF Moves
  <2>2. CASE Excused(d, f)
    BY <1>2, <2>1, <2>2, ExcusedStays DEF Live
  <2>3. CASE f \in n.stored /\ ~Excused(d, f)
    BY <1>1, <1>4, <2>3 DEF Moves
  <2>4. CASE ~Excused(d, f) /\ f \notin n.stored
    <3>1. f \notin r.stored /\ (r.out = "ok" => HasHandler /\ f \notin Handles)
      BY <1>1, <2>4
    <3>2. ASSUME n.out = "ok" PROVE HasHandler /\ f \notin Handles
      <4>1. r.pc \in After
        BY <1>4, <3>2 DEF Moves
      <4>2. Kept(d, Carried(r))
        BY <1>1, <1>2, <4>1 DEF CallInv, Progress
      <4>3. f \notin Carried(r)
        BY <1>1, <2>4, <3>1, <4>2 DEF Kept
      <4>4. r.via \notin {"http", "failed"} /\ f \notin Handles
        BY <1>1, <4>3 DEF Carried
      <4> QED
        BY <1>2, <4>1, <4>4 DEF TypedCall, Running, After
    <3> QED
      BY <1>2, <2>1, <2>4, <3>2 DEF Live
  <2> QED
    BY <2>2, <2>3, <2>4
<1> QED
  BY <1>3, <1>4 DEF Taken

(* What a document is after a step, but for the fields of others: nobody   *)
(* else than c writes to it.                                               *)
Turned(c, doc, new, others) ==
    \A f \in DOMAIN new \ others :
       f \in DOMAIN doc /\ (new[f] = doc[f] \/ (c \in Call /\ new[f] = c /\ Live(c, f)'))

(* w is the record of a call after the step that was r before it.          *)
Notes(r, w) ==
    /\ w.asked = r.asked /\ r.rewritten \subseteq w.rewritten
    /\ \A f \in Field \ r.asked : r.since[f] \subseteq w.since[f] /\ device'[f] \in w.since[f]

GoodNext(new, w) == \A f \in DOMAIN new \ (w.asked \cup w.rewritten) :
    f \in Field /\ (new[f] \in w.since[f] \/ \E d \in Call : new[f] = d /\ Live(d, f)')

LEMMA GoodStays ==
  ASSUME NEW c, Taken(c), NEW doc, NEW new, NEW r, NEW w, Good(doc, r), Turned(c, doc, new, w.rewritten),
         Notes(r, w)
  PROVE  GoodNext(new, w)
<1> SUFFICES ASSUME NEW f \in DOMAIN new \ (w.asked \cup w.rewritten)
             PROVE  f \in Field /\ (new[f] \in w.since[f] \/ \E d \in Call : new[f] = d /\ Live(d, f)')
  BY DEF GoodNext
<1>1. f \in DOMAIN doc /\ (new[f] = doc[f] \/ (c \in Call /\ new[f] = c /\ Live(c, f)'))
  BY DEF Turned
<1>2. f \in Field /\ Explained(doc[f], f, r.since)
  BY <1>1 DEF Good, Notes
<1>3. r.since[f] \subseteq w.since[f] /\ device'[f] \in w.since[f]
  BY <1>2 DEF Notes
<1>4. CASE new[f] = doc[f]
  <2>1. CASE doc[f] \in r.since[f]
    BY <1>2, <1>3, <1>4, <2>1
  <2>2. ASSUME NEW d \in Call, doc[f] = d, Live(d, f)
        PROVE  new[f] \in w.since[f] \/ \E e \in Call : new[f] = e /\ Live(e, f)'
    BY <1>2, <1>3, <1>4, <2>2, LiveStays
  <2> QED
    BY <1>2, <2>1, <2>2 DEF Explained
<1> QED
  BY <1>1, <1>2, <1>4

(* The cached dict is as it was, has been written to by c, or is noted to  *)
(* be rewritten by an answer, for the calls that still hold it.            *)
CacheStep(c) ==
    \A d \in Call : Follows(d) /\ calls'[d].alias => Turned(c, cache, cache', calls'[d].rewritten)

(* What a call that goes on sending shows after the step.                  *)
SentTurned(c, d) ==
    \A f \in DOMAIN (Content(d)') \ calls'[d].rewritten :
       /\ f \in DOMAIN Content(d)
       /\ Content(d)'[f] = Content(d)[f] \/ (c \in Call /\ Content(d)'[f] = c /\ Live(c, f)')

LEMMA SendsClean ==
  ASSUME NEW c, Taken(c), NEW d \in Call, CleanCall(d), calls[d].pc \in Sending \cup {"post"},
         calls'[d].pc \in Sending \cup {"post"}, calls'[d].setter = calls[d].setter,
         calls'[d].fresh = calls[d].fresh,
         Notes(calls[d], calls'[d]), SentTurned(c, d),
         calls'[d].pc = "bcwrite" => \A f \in Field : calls'[d].seen[f] \in calls'[d].since[f],
         calls'[d].pc \in Sending => \/ calls[d].pc \in Sending /\ calls'[d].taken = calls[d].taken
                                     \/ calls'[d].taken = Content(d)
  PROVE  CleanCall(d)'
<1> DEFINE r == calls[d]
           n == calls'[d]
<1>1. Field' = Field /\ Asked
  BY DEF Field, Taken, Asked
<1>2. HasRead(calls[d])' <=> HasRead(r)
  BY <1>1 DEF HasRead, RowOf
<1>3. ASSUME HasRead(r) PROVE Good(Content(d), calls[d])'
  <2>1. Good(Content(d), r)
    BY <1>3 DEF CleanCall
  <2> HIDE DEF r, n
  <2>2. GoodNext(Content(d)', n)
    BY <2>1, GoodStays DEF r, n, SentTurned, Turned
  <2> QED
    BY <1>1, <2>2 DEF Good, GoodNext, Explained, n
<1>4. ASSUME HasRead(r), n.pc \in Sending PROVE Good(calls[d].taken, calls[d])'
  <2>1. Good(n.taken, r)
    BY <1>4 DEF CleanCall
  <2>2. Turned(c, n.taken, n.taken, n.rewritten)
    BY DEF Turned
  <2> HIDE DEF r, n
  <2>3. GoodNext(n.taken, n)
    BY <2>1, <2>2, GoodStays DEF r, n
  <2> QED
    BY <1>1, <2>3 DEF Good, GoodNext, Explained, n
<1> QED
  BY <1>1, <1>2, <1>3, <1>4 DEF CleanCall, Sending

LEMMA FollowsClean ==
  ASSUME NEW c, Taken(c), CacheStep(c), NEW d \in Call, CleanCall(d), Follows(d)
  PROVE  CleanCall(d)'
<1> DEFINE r == calls[d]
           n == calls'[d]
<1>1. /\ n.pc = r.pc /\ n.asked = r.asked /\ r.rewritten \subseteq n.rewritten /\ n.setter = r.setter
      /\ n.seen = r.seen /\ n.fresh = r.fresh /\ n.taken = r.taken
      /\ (n.alias = r.alias /\ n.body = r.body) \/ (r.alias /\ ~n.alias /\ n.body = cache)
      /\ Running(d) => \A f \in Field : r.since[f] \subseteq n.since[f] /\ device'[f] \in n.since[f]
  BY DEF Follows, Alters, Names
<1>2. Field' = Field
  BY DEF Field, Taken, Asked
<1>3. n.pc \in {"got", "bcwrite"} => \A f \in Field : n.seen[f] \in n.since[f]
  BY <1>1 DEF CleanCall, Running
<1>4. CASE r.pc \in Sending \cup {"post"}
  <2>1. Turned(c, Content(d), Content(d)', n.rewritten)
    BY <1>1 DEF Content, CacheStep, Turned
  <2>2. Notes(r, n)
    BY <1>1, <1>4 DEF Running, Sending, Notes
  <2> QED
    BY <1>1, <1>3, <1>4, <2>1, <2>2, SendsClean DEF SentTurned, Turned
<1>5. CASE r.pc \notin Sending \cup {"post"}
  BY <1>1, <1>2, <1>3, <1>5 DEF CleanCall
<1> QED
  BY <1>4, <1>5

LEMMA FollowsTyped ==
  ASSUME IInv, Typed, Asked, NEW d \in Call, Follows(d), cache # NoDoc => cache' # NoDoc
  PROVE  TypedCall(d)'
<1> DEFINE r == calls[d]
           n == calls'[d]
<1>1. /\ n.pc = r.pc /\ n.asked = r.asked /\ n.setter = r.setter /\ n.seen = r.seen /\ n.fresh = r.fresh
      /\ n.taken = r.taken /\ n.gets = r.gets /\ n.via = r.via /\ n.stored = r.stored
      /\ (n.alias = r.alias /\ n.body = r.body) \/ (r.alias /\ ~n.alias /\ n.body = cache)
  BY DEF Follows, Alters, Names
<1>2. Field' = Field /\ (HasHandler' <=> HasHandler) /\ Doc' = Doc
  BY DEF Field, Asked, HasHandler, Doc
<1>3. TypedCall(d) /\ Ways(r) /\ cache \in Doc \cup {NoDoc}
  BY DEF Typed, IInv, CallInv
<1>4. r.alias => r.pc \notin {"idle", "get", "got"} /\ RowOf(r).body # "own" /\ cache \in Doc
  BY <1>3 DEF Ways, Sending, TypedCall
<1>5. Part(calls[d].body)' /\ Part(calls[d].taken)'
  BY <1>1, <1>2, <1>3, <1>4 DEF Part, TypedCall, Doc
<1>6. Running(d) => Running(d) /\ (Running(d)' <=> Running(d)) /\ RowOf(n) = RowOf(r)
  BY <1>1 DEF Running, RowOf
<1> QED
  BY <1>1, <1>2, <1>3, <1>4, <1>5 DEF TypedCall, Running, RowOf

-----------------------------------------------------------------------------
(* From one call to all.                                                   *)

\* What UnnamedKept asks of the step of call c.
News(c) ==
    LET r == calls[c]
        wrote == calls'[c].wrote
    IN  wrote # r.wrote /\ HasRead(r)
           => \A f \in DOMAIN wrote \ (r.asked \cup r.rewritten) : Explained(wrote[f], f, r.since)

Settled == Typed' /\ Clean' /\ \A d \in Call : News(d)

GlobalTypes == /\ device' \in Doc /\ {cache', poll'} \subseteq Doc \cup {NoDoc}
               /\ cache # NoDoc => cache' # NoDoc

LEMMA FollowsNews ==
  ASSUME NEW d \in Call, Follows(d)
  PROVE  News(d)
BY DEF Follows, Alters, Names, News

LEMMA AllSettled ==
  ASSUME Whole, Asked, NEW c, \A d \in Call : Follows(d), CacheStep(c), GlobalTypes
  PROVE  Settled
<1>1. Taken(c) /\ Doc' = Doc
  BY DEF Taken, Whole, Doc, Field, Asked
<1>2. Typed'
  BY <1>1, FollowsTyped DEF Whole, Typed, GlobalTypes
<1>3. Clean'
  BY <1>1, FollowsClean DEF Whole, Clean
<1> QED
  BY <1>2, <1>3, FollowsNews DEF Settled

LEMMA OneSettled ==
  ASSUME Whole, Asked, NEW c \in Call, \A d \in Call \ {c} : Follows(d), CacheStep(c), GlobalTypes,
         Moves(c), TypedCall(c)', CleanCall(c)', News(c)
  PROVE  Settled
<1>1. Taken(c) /\ Doc' = Doc
  BY DEF Taken, Whole, Doc, Field, Asked
<1>2. Typed'
  <2>1. \A d \in Call \ {c} : TypedCall(d)'
    BY FollowsTyped DEF Whole, GlobalTypes
  <2> QED
    BY <1>1, <2>1 DEF Typed, GlobalTypes
<1>3. Clean'
  <2>1. \A d \in Call \ {c} : CleanCall(d)'
    BY <1>1, FollowsClean DEF Whole, Clean
  <2> QED
    BY <2>1 DEF Clean
<1>4. \A d \in Call : News(d)
  BY FollowsNews
<1> QED
  BY <1>2, <1>3, <1>4 DEF Settled

-----------------------------------------------------------------------------
(* The steps of a call that write nothing.                                 *)
Still == UNCHANGED <<section, baichuan_only, lacks, device, cache, poll>>

LEMMA StillMove ==
  ASSUME Whole, NEW c \in Call, NEW w, calls' = [calls EXCEPT ![c] = w], Still,
         calls[c].asked \subseteq w.asked,
         calls[c].rewritten \subseteq w.rewritten
  PROVE  /\ Asked /\ (\A d \in Call \ {c} : Follows(d)) /\ CacheStep(c) /\ GlobalTypes /\ calls'[c] = w
         /\ Field' = Field /\ (HasHandler' <=> HasHandler)
<1>1. Global /\ calls'[c] = w /\ \A d \in Call \ {c} : calls'[d] = calls[d]
  BY DEF Whole, IInv, Global
<1>2. Asked
  BY <1>1 DEF Asked, Global, Still
<1>3. \A d \in Call \ {c} : Follows(d)
  BY <1>1, UntouchedFollows DEF Still, Whole
<1>4. CacheStep(c) /\ GlobalTypes
  BY DEF CacheStep, Turned, Still, GlobalTypes, Whole, Typed
<1> QED
  BY <1>1, <1>2, <1>3, <1>4 DEF Still, Field, HasHandler

LEMMA EndedFields ==
  ASSUME NEW r, NEW o
  PROVE  LET w == Ended(r, o)
         IN  /\ IsRecord(w) /\ w.pc = "end" /\ w.out = o /\ ~w.alias /\ DOMAIN w.body = {}
             /\ DOMAIN w.taken = {}
             /\ w.setter = r.setter /\ w.asked = r.asked /\ w.rewritten = r.rewritten /\ w.stored = {}
             /\ DOMAIN w.wrote = {}
<1> DEFINE w == Ended(r, o)
<1>1. DOMAIN NoDoc = {}
  BY DEF NoDoc
<1>0. /\ IsRecord(Idle) /\ ~Idle.alias /\ Idle.body = NoDoc /\ Idle.taken = NoDoc
      /\ Idle.stored = {} /\ Idle.wrote = NoDoc
  BY DEF IsRecord, Names, Idle
<1>2. /\ IsRecord(w) /\ w.pc = "end" /\ w.out = o /\ ~w.alias /\ w.body = NoDoc /\ w.taken = NoDoc
      /\ w.setter = r.setter /\ w.asked = r.asked /\ w.rewritten = r.rewritten /\ w.stored = {}
      /\ w.wrote = NoDoc
  BY <1>0 DEF IsRecord, Names, Ended
<1> QED
  BY <1>1, <1>2

LEMMA EndedSettled ==
  ASSUME Whole, NEW c \in Call, Running(c), NEW o, calls' = [calls EXCEPT ![c] = Ended(calls[c], o)], Still,
         o = "ok" => calls[c].pc \in After
  PROVE  Settled
<1> DEFINE r == calls[c]
           w == Ended(r, o)
<1>1. /\ w.pc = "end" /\ w.out = o /\ ~w.alias /\ DOMAIN w.body = {} /\ DOMAIN w.taken = {}
      /\ w.setter = r.setter /\ w.asked = r.asked /\ w.rewritten = r.rewritten /\ w.stored = {}
      /\ DOMAIN w.wrote = {}
  BY EndedFields
<1>2. /\ Asked /\ (\A d \in Call \ {c} : Follows(d)) /\ CacheStep(c) /\ GlobalTypes /\ calls'[c] = w
  BY <1>1, StillMove
<1> HIDE DEF w
<1>3. Moves(c) /\ News(c)
  BY <1>1, <1>2 DEF Moves, News
<1>4. TypedCall(c)'
  BY <1>1, <1>2 DEF TypedCall, Part, Running
<1>5. CleanCall(c)'
  BY <1>1, <1>2 DEF CleanCall, Sending
<1> QED
  BY <1>2, <1>3, <1>4, <1>5, OneSettled

\* A call goes on with the same body.
LEMMA OnSettled ==
  ASSUME Whole, NEW c \in Call, Running(c), NEW w, calls' = [calls EXCEPT ![c] = w], Still,
         w.setter = calls[c].setter, w.asked = calls[c].asked, w.rewritten = calls[c].rewritten,
         w.since = calls[c].since, w.out = calls[c].out,
         w.stored = calls[c].stored, w.alias = calls[c].alias, w.body = calls[c].body, w.fresh = calls[c].fresh,
         w.pc \in {"get", "got", "post", "bc", "refresh", "refreshed"},
         w.pc \in {"get", "got"} => calls[c].pc = "get" /\ w.taken = calls[c].taken,
         w.pc \in {"got", "refreshed"} => w.seen = device,
         w.pc = "post" => calls[c].pc = "post" \/ calls[c].pc \in Sending,
         w.pc = "bc" => calls[c].pc = "post",
         w.pc = "bc" => w.taken = Content(c) /\ HasHandler,
         w.pc # "bc" => w.taken = calls[c].taken \/ DOMAIN w.taken = {},
         w.via \in {calls[c].via, "http", "failed"} \/ HasHandler,
         w.pc \in {"refresh", "refreshed"} => w.gets \in 1..2,
         DOMAIN w.wrote = {} \/ w.wrote = calls[c].wrote
  PROVE  Settled
<1> DEFINE r == calls[c]
<1>1. /\ Asked /\ (\A d \in Call \ {c} : Follows(d)) /\ CacheStep(c) /\ GlobalTypes /\ calls'[c] = w
      /\ Field' = Field /\ (HasHandler' <=> HasHandler)
  BY StillMove
<1>2. CallInv(c) /\ Noticed(c) /\ Ways(r) /\ TypedCall(c) /\ CleanCall(c) /\ device \in Doc
  BY DEF Whole, IInv, CallInv, Typed, Clean
<1>3. Moves(c) /\ News(c)
  BY <1>1, <1>2 DEF Moves, News, Noticed
<1>4. Doc' = Doc /\ (Running(c) <=> Running(c)') /\ RowOf(w) = RowOf(r)
  BY <1>1 DEF Doc, Running, RowOf
<1>5. Part(Content(c)) /\ (RowOf(r).body = "own" /\ RowOf(r).fill = {} => DOMAIN Content(c) \subseteq r.asked \/ r.alias)
  BY <1>2 DEF Content, TypedCall, Typed, Whole, Part, Doc
<1>6. Part(w.body) /\ Part(w.taken)
  BY <1>2, <1>5 DEF TypedCall, Part
<1>7. RowOf(r).body = "own" /\ RowOf(r).fill = {}
           => DOMAIN w.body \subseteq r.asked /\ DOMAIN w.taken \subseteq r.asked
  BY <1>2, <1>5 DEF TypedCall, Ways
<1>8. TypedCall(c)'
  <2>1. Part(calls[c].body)' /\ Part(calls[c].taken)'
    BY <1>1, <1>6 DEF Part
  <2>2. w.pc \in {"got", "bcwrite", "refreshed"} => w.seen \in Doc
    BY <1>2
  <2>3. w.alias => cache' # NoDoc
    BY <1>2 DEF TypedCall, Still
  <2>4. w.via \notin {"http", "failed"} => HasHandler
    BY <1>2 DEF TypedCall
  <2>5. w.pc \in {"idle", "get", "got"} => DOMAIN w.body = {} /\ DOMAIN w.taken = {} /\ w.stored = {}
    BY <1>2 DEF TypedCall
  <2>6. w.pc = "get" => ~w.fresh
    BY <1>2 DEF TypedCall
  <2> QED
    BY <1>1, <1>4, <1>7, <2>1, <2>2, <2>3, <2>4, <2>5, <2>6 DEF TypedCall, Running, RowOf
<1>9. CleanCall(c)'
  <2>1. w.pc = "got" => \A f \in Field : w.seen[f] \in w.since[f]
    BY <1>2 DEF Noticed
  <2>2. CASE w.pc \in {"post", "bc"}
    <3>1. Taken(c)
      BY <1>1, <1>3 DEF Taken, Whole
    <3>2. Notes(r, w)
      BY <1>2 DEF Notes, Noticed, Still
    <3>3. Content(c)' = Content(c)
      BY <1>1 DEF Content, Still
    <3>4. Turned(c, Content(c), Content(c)', w.rewritten)
      BY <3>3 DEF Turned
    <3>5. w.pc = "bc" => w.taken = Content(c)
      BY <2>2
    <3> QED
      BY <1>1, <1>2, <2>2, <3>1, <3>2, <3>4, <3>5, SendsClean DEF SentTurned, Turned, Sending
  <2>3. CASE w.pc \notin {"post", "bc"}
    BY <1>1, <2>1, <2>3 DEF CleanCall, Sending
  <2> QED
    BY <2>2, <2>3
<1> QED
  BY <1>1, <1>3, <1>8, <1>9, OneSettled

LEMMA GetAnsweredSettled ==
  ASSUME Whole, NEW c \in Call, GetAnswered(c)
  PROVE  Settled
<1> DEFINE r == calls[c]
           w == [r EXCEPT !.pc = "got", !.seen = device]
<1>1. IsRecord(r) /\ r.pc = "get" /\ Running(c) /\ Still /\ calls' = [calls EXCEPT ![c] = w]
  BY DEF Whole, IInv, Global, CallInv, GetAnswered, Running, fixed, Still
<1>2. Alters(r, w, {"pc", "seen"}) /\ w.pc = "got" /\ w.seen = device
  <2> HIDE DEF r
  <2> QED
    BY <1>1 DEF IsRecord, Names, Alters
<1> HIDE DEF w
<1> QED
  BY <1>1, <1>2, OnSettled DEF Alters, Names

LEMMA RetriesSettled ==
  ASSUME Whole, NEW c \in Call, calls[c].pc \in {"get", "refresh", "post"}, NEW n,
         calls' = [calls EXCEPT ![c] = [calls[c] EXCEPT !.tries = n]], Still
  PROVE  Settled
<1> DEFINE r == calls[c]
           w == [r EXCEPT !.tries = n]
<1>1. IsRecord(r) /\ Running(c) /\ TypedCall(c)
  BY DEF Whole, IInv, CallInv, Running, Typed
<1>2. Alters(r, w, {"tries"}) /\ calls' = [calls EXCEPT ![c] = w]
  <2> HIDE DEF r
  <2> QED
    BY <1>1 DEF IsRecord, Names, Alters, r
<1>3. r.pc = "refresh" => r.gets \in 1..2
  BY <1>1 DEF TypedCall
<1> HIDE DEF w
<1> QED
  BY <1>1, <1>2, <1>3, OnSettled DEF Alters, Names

LEMMA NotAnsweredSettled ==
  ASSUME Whole, NEW c \in Call, calls[c].pc \in {"get", "refresh", "post"},
         calls' = [calls EXCEPT ![c] = NotAnswered(calls[c])], Still
  PROVE  Settled
<1>1. CASE Again(calls[c])
  BY <1>1, RetriesSettled DEF NotAnswered
<1>2. CASE ~Again(calls[c])
  BY <1>2, EndedSettled DEF NotAnswered, Running
<1> QED
  BY <1>1, <1>2

LEMMA LostSettled ==
  ASSUME Whole, NEW c \in Call, GetLost(c) \/ PostLost(c)
  PROVE  Settled
BY NotAnsweredSettled DEF GetLost, PostLost, Posts, fixed, Whole, IInv, Global, Still

LEMMA PostedSettled ==
  ASSUME Whole, NEW c \in Call, Posted(c)
  PROVE  Settled
<1> DEFINE r == calls[c]
           n == r.gets + (IF ReadsAgain(r) THEN 1 ELSE 0)
           w == [r EXCEPT !.pc = "refresh", !.gets = n, !.tries = 0, !.wrote = NoDoc]
<1>1. /\ IsRecord(r) /\ Running(c) /\ TypedCall(c) /\ r.pc = "posted" /\ Still
      /\ calls' = [calls EXCEPT ![c] = AfterSet(r)]
  BY DEF Whole, IInv, Global, CallInv, Running, Posted, fixed, Still, Typed
<1>2. CASE n = 0
  BY <1>1, <1>2, EndedSettled DEF AfterSet, After
<1>3. CASE n # 0
  <2>1. calls' = [calls EXCEPT ![c] = w]
    BY <1>1, <1>3 DEF AfterSet
  <2>2. n \in 1..2
    BY <1>1, <1>3 DEF TypedCall
  <2>3. Alters(r, w, {"pc", "gets", "tries", "wrote"}) /\ w.pc = "refresh" /\ w.gets = n /\ DOMAIN w.wrote = {}
    <3> HIDE DEF r, n
    <3>1. DOMAIN NoDoc = {}
      BY DEF NoDoc
    <3> QED
      BY <1>1, <3>1 DEF IsRecord, Names, Alters
  <2>4. w.gets \in 1..2
    BY <2>2, <2>3
  <2> HIDE DEF w, n
  <2>5. /\ w.setter = r.setter /\ w.asked = r.asked /\ w.rewritten = r.rewritten /\ w.since = r.since
        /\ w.out = r.out /\ w.via = r.via
        /\ w.stored = r.stored /\ w.alias = r.alias /\ w.body = r.body /\ w.fresh = r.fresh /\ w.taken = r.taken
    BY <2>3 DEF Alters, Names
  <2> QED
    BY <1>1, <2>1, <2>3, <2>4, <2>5, OnSettled
<1> QED
  BY <1>2, <1>3

LEMMA RefreshAnsweredSettled ==
  ASSUME Whole, NEW c \in Call, RefreshAnswered(c)
  PROVE  Settled
<1> DEFINE r == calls[c]
           w == [r EXCEPT !.pc = "refreshed", !.seen = device]
<1>1. IsRecord(r) /\ r.pc = "refresh" /\ Running(c) /\ Still /\ calls' = [calls EXCEPT ![c] = w] /\ TypedCall(c)
  BY DEF Whole, IInv, Global, CallInv, RefreshAnswered, Running, fixed, Still, Typed
<1>2. Alters(r, w, {"pc", "seen"}) /\ w.pc = "refreshed" /\ w.seen = device
  <2> HIDE DEF r
  <2> QED
    BY <1>1 DEF IsRecord, Names, Alters
<1>3. r.gets \in 1..2
  BY <1>1 DEF TypedCall
<1> HIDE DEF w
<1> QED
  BY <1>1, <1>2, <1>3, OnSettled DEF Alters, Names

LEMMA OneReadFields ==
  ASSUME NEW r, IsRecord(r), r.gets # 1, r.gets \in 1..2
  PROVE  LET w == OneRead(r)
         IN  Alters(r, w, {"pc", "gets", "tries", "seen"}) /\ w.pc = "refresh" /\ w.gets = 1
<1> DEFINE w == [r EXCEPT !.pc = "refresh", !.gets = 1, !.tries = 0, !.seen = NoDoc]
<1>1. r.gets - 1 = 1
  OBVIOUS
<1>2. OneRead(r) = [r EXCEPT !.pc = "refresh", !.gets = r.gets - 1, !.tries = 0, !.seen = NoDoc]
  BY DEF OneRead
<1>3. OneRead(r) = w
  BY <1>1, <1>2
<1>4. Alters(r, w, {"pc", "gets", "tries", "seen"}) /\ w.pc = "refresh" /\ w.gets = 1
  BY DEF IsRecord, Names, Alters
<1> QED
  BY <1>3, <1>4

LEMMA RefreshSkippedSettled ==
  ASSUME Whole, NEW c \in Call, RefreshSkipped(c)
  PROVE  Settled
<1> DEFINE r == calls[c]
           w == OneRead(r)
<1>1. /\ IsRecord(r) /\ r.pc = "refresh" /\ Running(c) /\ Still /\ TypedCall(c)
      /\ calls' = [calls EXCEPT ![c] = w]
  BY DEF Whole, IInv, Global, CallInv, RefreshSkipped, Running, fixed, Still, Typed
<1>2. CASE r.gets = 1
  BY <1>1, <1>2, EndedSettled DEF OneRead, After
<1>3. CASE r.gets # 1
  <2>1. r.gets \in 1..2
    BY <1>1 DEF TypedCall
  <2>2. Alters(r, w, {"pc", "gets", "tries", "seen"}) /\ w.pc = "refresh" /\ w.gets = 1
    BY <1>1, <1>3, <2>1, OneReadFields
  <2> HIDE DEF w
  <2>3. /\ w.setter = r.setter /\ w.asked = r.asked /\ w.rewritten = r.rewritten /\ w.since = r.since
        /\ w.out = r.out /\ w.via = r.via
        /\ w.stored = r.stored /\ w.alias = r.alias /\ w.body = r.body /\ w.fresh = r.fresh /\ w.taken = r.taken
        /\ w.wrote = r.wrote
    BY <2>2 DEF Alters, Names
  <2>4. w.gets \in 1..2
    BY <2>2
  <2> QED
    BY <1>1, <2>2, <2>3, <2>4, OnSettled
<1> QED
  BY <1>2, <1>3

-----------------------------------------------------------------------------
(* Between HTTP and Baichuan.                                              *)
LEMMA HandedSettled ==
  ASSUME Whole, NEW c \in Call, calls[c].pc = "post", HasHandler, NEW via \in {"first", "fallback", "only"},
         calls' = [calls EXCEPT ![c] = Handed(calls[c], via, Content(c))], Still
  PROVE  Settled
<1> DEFINE r == calls[c]
           part == Content(c)
           w == Handed(r, via, part)
<1>1. IsRecord(r) /\ Running(c) /\ calls' = [calls EXCEPT ![c] = w]
  BY DEF Whole, IInv, CallInv, Running
<1>2. Alters(r, w, {"pc", "via", "taken"}) /\ w.pc = "bc" /\ w.taken = part
  <2> HIDE DEF r, part
  <2> QED
    BY <1>1 DEF IsRecord, Names, Handed, Alters
<1> HIDE DEF w
<1>3. /\ w.setter = r.setter /\ w.asked = r.asked /\ w.rewritten = r.rewritten /\ w.since = r.since
      /\ w.out = r.out /\ w.wrote = r.wrote
      /\ w.stored = r.stored /\ w.alias = r.alias /\ w.body = r.body /\ w.fresh = r.fresh
  BY <1>2 DEF Alters, Names
<1> QED
  BY <1>1, <1>2, <1>3, OnSettled

LEMMA PostRejectedSettled ==
  ASSUME Whole, NEW c \in Call, PostRejected(c)
  PROVE  Settled
<1>1. calls[c].pc = "post" /\ Running(c) /\ Still
  BY DEF PostRejected, Posts, Running, fixed, Still
<1>2. CASE HasHandler /\ calls' = [calls EXCEPT ![c] = Handed(@, "fallback", Content(c))]
  <2>1. calls' = [calls EXCEPT ![c] = Handed(calls[c], "fallback", Content(c))]
    BY <1>2 DEF Whole, IInv, Global
  <2> QED
    BY <1>1, <1>2, <2>1, HandedSettled
<1>3. CASE calls' = [calls EXCEPT ![c].tries = @ + 1]
  <2>1. calls' = [calls EXCEPT ![c] = [calls[c] EXCEPT !.tries = calls[c].tries + 1]]
    BY <1>3 DEF Whole, IInv, Global
  <2> QED
    BY <1>1, <2>1, RetriesSettled
<1>4. CASE calls' = [calls EXCEPT ![c] = Ended(@, "raised")]
  <2>1. calls' = [calls EXCEPT ![c] = Ended(calls[c], "raised")]
    BY <1>4 DEF Whole, IInv, Global
  <2> QED
    BY <1>1, <2>1, EndedSettled
<1> QED
  BY <1>2, <1>3, <1>4 DEF PostRejected

LEMMA PostByBaichuanSettled ==
  ASSUME Whole, NEW c \in Call, PostByBaichuan(c)
  PROVE  Settled
<1>1. calls[c].pc = "post" /\ Running(c) /\ Still
  BY DEF PostByBaichuan, Running, fixed, Still
<1>2. CASE ~HasHandler
  BY <1>1, <1>2, EndedSettled DEF PostByBaichuan, Whole, IInv, Global
<1>3. CASE HasHandler
  <2>1. \E via \in {"first", "only"} : calls' = [calls EXCEPT ![c] = Handed(calls[c], via, Content(c))]
    BY <1>3 DEF PostByBaichuan, Whole, IInv, Global
  <2> QED
    BY <1>1, <1>3, <2>1, HandedSettled
<1> QED
  BY <1>2, <1>3

LEMMA BcRefusedSettled ==
  ASSUME Whole, NEW c \in Call, BcRefused(c)
  PROVE  Settled
BY EndedSettled DEF BcRefused, Running, fixed, Whole, IInv, Global, Still

LEMMA FailingFields ==
  ASSUME NEW r, IsRecord(r), r.via = "first"
  PROVE  LET w == Failing(r)
         IN  /\ Alters(r, w, {"pc", "via", "taken", "seen"})
             /\ w.pc = "post" /\ w.via = "failed" /\ DOMAIN w.taken = {}
<1>1. DOMAIN NoDoc = {}
  BY DEF NoDoc
<1> QED
  BY <1>1 DEF IsRecord, Names, Alters, Failing

LEMMA BcFailedSettled ==
  ASSUME Whole, NEW c \in Call, BcFailed(c)
  PROVE  Settled
<1> DEFINE r == calls[c]
           w == Failing(r)
<1>1. /\ IsRecord(r) /\ Running(c) /\ r.pc \in Sending /\ Still
      /\ calls' = [calls EXCEPT ![c] = w]
  BY DEF Whole, IInv, Global, CallInv, Running, BcFailed, fixed, Sending, Still
<1>2. CASE r.via # "first"
  BY <1>1, <1>2, EndedSettled DEF Failing
<1>3. CASE r.via = "first"
  <2>1. /\ Alters(r, w, {"pc", "via", "taken", "seen"})
        /\ w.pc = "post" /\ w.via = "failed" /\ DOMAIN w.taken = {}
    BY <1>1, <1>3, FailingFields
  <2> HIDE DEF w
  <2> QED
    BY <1>1, <2>1, OnSettled DEF Alters, Names
<1> QED
  BY <1>2, <1>3

-----------------------------------------------------------------------------
(* The steps that have the camera store something.                         *)
LEMMA StoredFields ==
  ASSUME NEW c \in Call, NEW r, NEW part, IsRecord(r), Store(c, r, part)
  PROVE  LET w == calls'[c]
         IN  /\ Alters(r, w, {"wrote", "since", "stored"}) /\ w.wrote = part
             /\ w.stored = r.stored \cup {f \in DOMAIN part : part[f] = c}
             /\ \A f \in Field \ r.asked : calls[c].since[f] \subseteq w.since[f] /\ device'[f] \in w.since[f]
             /\ \A d \in Call \ {c} : calls'[d] = Noted(calls, device')[d]
<1> DEFINE w == calls'[c]
           s == [f \in Field |-> (IF f \in DOMAIN part \cap r.asked THEN {} ELSE calls[c].since[f]) \cup {device'[f]}]
           t == {f \in DOMAIN part : part[f] = c}
<1>1. /\ w = [r EXCEPT !.wrote = part, !.since = s, !.stored = @ \cup t]
      /\ \A d \in Call \ {c} : calls'[d] = Noted(calls, device')[d]
  BY DEF Store, Noted
<1>2. Alters(r, w, {"wrote", "since", "stored"}) /\ w.wrote = part /\ w.since = s /\ w.stored = r.stored \cup t
  <2> HIDE DEF w, s, t
  <2> QED
    BY <1>1 DEF IsRecord, Names, Alters
<1>3. \A f \in Field \ r.asked : calls[c].since[f] \subseteq w.since[f] /\ device'[f] \in w.since[f]
  BY <1>2
<1> QED
  BY <1>1, <1>2, <1>3

\* What is left to show of a step that stores part.
Stores(c, part) ==
    LET r == calls[c]
        w == calls'[c]
    IN  /\ w.setter = r.setter /\ w.wrote = part /\ Notes(r, w) /\ Taken(c)
        /\ device' = Put(device, part) /\ device' \in Doc /\ cache' = cache
        /\ (HasHandler' <=> HasHandler) /\ Doc' = Doc /\ Field' = Field /\ RowOf(w) = RowOf(r)

LEMMA StoreSettled ==
  ASSUME Whole, NEW c \in Call, NEW r, IsRecord(r), NEW part, Part(part), Store(c, r, part),
         UNCHANGED <<section, baichuan_only, lacks, cache, poll>>,
         r.pc # "idle", r.asked = calls[c].asked, r.rewritten = calls[c].rewritten, r.setter = calls[c].setter,
         r.pc = "end" \/ r.fresh = calls[c].fresh,
         r.stored \subseteq calls[c].stored, r.out # "ok",
         HasRead(calls[c]) => Good(part, calls[c]),
         Stores(c, part) => TypedCall(c)' /\ CleanCall(c)'
  PROVE  Settled
<1> DEFINE w == calls'[c]
<1>1. /\ Alters(r, w, {"wrote", "since", "stored"}) /\ w.wrote = part
      /\ w.stored = r.stored \cup {f \in DOMAIN part : part[f] = c}
      /\ \A f \in Field \ r.asked : calls[c].since[f] \subseteq w.since[f] /\ device'[f] \in w.since[f]
      /\ \A d \in Call \ {c} : calls'[d] = Noted(calls, device')[d]
  BY StoredFields
<1>2. /\ w.pc = r.pc /\ w.setter = r.setter /\ w.asked = r.asked /\ w.rewritten = r.rewritten
      /\ w.fresh = r.fresh /\ w.out = r.out
  BY <1>1 DEF Alters, Names
<1>3. \A d \in Call \ {c} : Follows(d)
  BY <1>1, NotedFollows DEF Whole
<1>4. Asked
  <2>1. \A d \in Call \ {c} : calls'[d].asked = calls[d].asked /\ calls[d].rewritten \subseteq calls'[d].rewritten
    BY <1>3 DEF Follows, Alters, Names
  <2> QED
    BY <1>2, <2>1 DEF Asked
<1>5. device' = Put(device, part) /\ device' \in Doc
  <2>1. device \in Doc
    BY DEF Whole, Typed
  <2>2. device' = Put(device, part)
    BY DEF Store
  <2> QED
    BY <2>1, <2>2 DEF Put, Part, Doc
<1>6. CacheStep(c) /\ GlobalTypes
  BY <1>5 DEF CacheStep, Turned, GlobalTypes, Whole, Typed
<1>7. Moves(c)
  <2>1. ASSUME NEW f \in Field, f \in w.stored PROVE f \in calls[c].stored \/ device'[f] = c
    <3>1. f \in DOMAIN device
      BY DEF Whole, Typed, Doc
    <3> QED
      BY <1>1, <1>5, <2>1, <3>1 DEF Put
  <2> QED
    BY <1>2, <2>1 DEF Moves
<1>8. News(c)
  <2> SUFFICES ASSUME HasRead(calls[c]), NEW f \in DOMAIN part \ (calls[c].asked \cup calls[c].rewritten)
               PROVE  Explained(part[f], f, calls[c].since)
    BY <1>1 DEF News
  <2> QED
    BY DEF Good
<1>9. Stores(c, part)
  <2>1. Field' = Field /\ (HasHandler' <=> HasHandler) /\ RowOf(w) = RowOf(calls[c])
    BY <1>2 DEF Field, HasHandler, RowOf
  <2>2. Doc' = Doc
    BY <2>1 DEF Doc
  <2>3. Notes(calls[c], w)
    BY <1>1, <1>2 DEF Notes
  <2>4. Taken(c)
    BY <1>3, <1>4, <1>7 DEF Taken, Whole
  <2> QED
    BY <1>1, <1>2, <1>5, <2>1, <2>2, <2>3, <2>4 DEF Stores
<1> QED
  BY <1>3, <1>4, <1>6, <1>7, <1>8, <1>9, OneSettled

(* What a call has at hand to send.                                        *)
LEMMA SentParts ==
  ASSUME Whole, NEW c \in Call, Running(c)
  PROVE  /\ IsRecord(calls[c]) /\ TypedCall(c) /\ CleanCall(c) /\ Ways(calls[c]) /\ Noticed(c)
         /\ Part(Content(c)) /\ Part(calls[c].taken) /\ calls[c].out # "ok"
<1>1. IsRecord(calls[c]) /\ TypedCall(c) /\ CleanCall(c) /\ Ways(calls[c]) /\ Noticed(c)
  BY DEF Whole, IInv, CallInv, Typed, Clean
<1>2. Part(Content(c))
  BY <1>1 DEF Content, TypedCall, Typed, Whole, Part, Doc
<1> QED
  BY <1>1, <1>2 DEF TypedCall, Noticed

(* The end of a call whose request was stored.                             *)
LEMMA ThenPosted ==
  ASSUME Whole, NEW c \in Call, Running(c), NEW part, Stores(c, part), calls'[c].pc = "posted",
         ~calls'[c].alias,
         DOMAIN calls'[c].body = {}, DOMAIN calls'[c].taken = {} \/ calls'[c].taken = calls[c].taken,
         calls'[c].gets \in 0..1, calls'[c].via = calls[c].via
  PROVE  TypedCall(c)' /\ CleanCall(c)'
<1>1. TypedCall(c) /\ Part(calls[c].taken)
  BY SentParts
<1>2. Part(calls[c].body)' /\ Part(calls[c].taken)'
  BY <1>1 DEF Part, Stores
<1>3. calls'[c].asked = calls[c].asked
  BY DEF Stores, Notes
<1>4. RowOf(calls[c]).body = "own" /\ RowOf(calls[c]).fill = {} => DOMAIN calls'[c].taken \subseteq calls[c].asked
  BY <1>1 DEF TypedCall
<1>5. HasHandler' \/ calls'[c].via \in {"http", "failed"}
  BY <1>1 DEF TypedCall, Stores
<1>6. TypedCall(c)'
  BY <1>2, <1>3, <1>4, <1>5 DEF TypedCall, Stores, RowOf
<1> QED
  BY <1>6 DEF CleanCall, Sending

(* A call that sends once more what it has.                                *)
LEMMA ThenSends ==
  ASSUME Whole, NEW c \in Call, calls[c].pc \in Sending \cup {"post"}, NEW part, Stores(c, part),
         calls'[c].pc \in {"post", "bcread", "bclast"}, calls'[c].fresh = calls[c].fresh,
         calls'[c].alias = calls[c].alias, calls'[c].body = calls[c].body,
         calls'[c].pc = "post" => calls'[c].via \in {calls[c].via, "failed"}
                                  /\ (DOMAIN calls'[c].taken = {} \/ calls'[c].taken = calls[c].taken),
         calls'[c].pc # "post" => calls[c].pc \in Sending /\ calls'[c].taken = calls[c].taken /\ HasHandler
  PROVE  TypedCall(c)' /\ CleanCall(c)'
<1>1. TypedCall(c) /\ CleanCall(c) /\ Running(c)
  BY SentParts DEF Running, Sending
<1>2. Part(calls[c].body)' /\ Part(calls[c].taken)'
  BY <1>1 DEF Part, Stores, TypedCall
<1>3. calls'[c].asked = calls[c].asked
  BY DEF Stores, Notes
<1>4. RowOf(calls[c]).body = "own" /\ RowOf(calls[c]).fill = {}
         => DOMAIN calls'[c].body \subseteq calls[c].asked /\ DOMAIN calls'[c].taken \subseteq calls[c].asked
  BY <1>1 DEF TypedCall
<1>5. (calls[c].alias => cache # NoDoc)' /\ (HasHandler' \/ calls'[c].via \in {"http", "failed"})
  BY <1>1 DEF TypedCall, Stores
<1>6. TypedCall(c)'
  BY <1>2, <1>3, <1>4, <1>5 DEF TypedCall, Stores, RowOf
<1>7. Content(c)' = Content(c) /\ Turned(c, Content(c), Content(c)', calls'[c].rewritten)
  BY DEF Content, Stores, Turned
<1>8. CleanCall(c)'
  BY <1>1, <1>7, SendsClean DEF SentTurned, Turned, Stores, Sending
<1> QED
  BY <1>6, <1>8

LEMMA PostServedSettled ==
  ASSUME Whole, NEW c \in Call, PostServed(c)
  PROVE  Settled
<1> DEFINE r == calls[c]
           part == Content(c)
           w == [r EXCEPT !.pc = "posted", !.alias = FALSE, !.body = NoDoc]
<1>1. /\ r.pc = "post" /\ Running(c) /\ Store(c, w, part)
      /\ UNCHANGED <<section, baichuan_only, lacks, cache, poll>>
  BY DEF PostServed, Posts, Running, fixed
<1>2. IsRecord(r) /\ TypedCall(c) /\ CleanCall(c) /\ Ways(r) /\ Part(part) /\ r.out # "ok"
  BY <1>1, SentParts
<1>3. Alters(r, w, {"pc", "alias", "body"}) /\ w.pc = "posted" /\ ~w.alias /\ DOMAIN w.body = {}
  <2>1. DOMAIN NoDoc = {}
    BY DEF NoDoc
  <2> HIDE DEF r
  <2> QED
    BY <1>2, <2>1 DEF IsRecord, Names, Alters
<1> HIDE DEF w
<1>4. /\ IsRecord(w) /\ w.setter = r.setter /\ w.asked = r.asked /\ w.rewritten = r.rewritten
      /\ w.fresh = r.fresh /\ w.stored = r.stored
      /\ w.out = r.out /\ w.taken = r.taken /\ w.via = r.via /\ w.gets = r.gets
  BY <1>3 DEF Alters, Names
<1>5. HasRead(r) => Good(part, r)
  BY <1>1, <1>2 DEF CleanCall
<1>6. ASSUME Stores(c, part) PROVE TypedCall(c)' /\ CleanCall(c)'
  <2>1. Alters(w, calls'[c], {"wrote", "since", "stored"})
    BY <1>1, <1>4, StoredFields
  <2>2. /\ calls'[c].pc = "posted" /\ ~calls'[c].alias /\ DOMAIN calls'[c].body = {}
        /\ calls'[c].taken = r.taken /\ calls'[c].via = r.via /\ calls'[c].gets = r.gets
    BY <1>3, <1>4, <2>1 DEF Alters, Names
  <2>3. r.gets = 0
    BY <1>1, <1>2 DEF Ways
  <2> QED
    BY <1>1, <1>6, <2>2, <2>3, ThenPosted
<1> HIDE DEF part
<1> QED
  BY <1>1, <1>2, <1>3, <1>4, <1>5, <1>6, StoreSettled

(* A call that ends without knowing that its request was stored.           *)
LEMMA StoredEndsSettled ==
  ASSUME Whole, NEW c \in Call, Running(c), NEW part, Part(part), Store(c, Ended(calls[c], "raised"), part),
         UNCHANGED <<section, baichuan_only, lacks, cache, poll>>, HasRead(calls[c]) => Good(part, calls[c])
  PROVE  Settled
<1> DEFINE r == calls[c]
           w == Ended(r, "raised")
<1>1. Store(c, w, part)
  OBVIOUS
<1>2. /\ IsRecord(w) /\ w.pc = "end" /\ w.out = "raised" /\ ~w.alias /\ DOMAIN w.body = {}
      /\ DOMAIN w.taken = {}
      /\ w.setter = r.setter /\ w.asked = r.asked /\ w.rewritten = r.rewritten /\ w.stored = {}
  BY EndedFields
<1> HIDE DEF w
<1>3. ASSUME Stores(c, part) PROVE TypedCall(c)' /\ CleanCall(c)'
  <2>1. Alters(w, calls'[c], {"wrote", "since", "stored"})
    BY <1>1, <1>2, StoredFields
  <2>2. /\ calls'[c].pc = "end" /\ ~calls'[c].alias /\ DOMAIN calls'[c].body = {} /\ DOMAIN calls'[c].taken = {}
    BY <1>2, <2>1 DEF Alters, Names
  <2> QED
    BY <2>2 DEF TypedCall, CleanCall, Part, Running, Sending
<1> QED
  BY <1>1, <1>2, <1>3, StoreSettled

LEMMA PostAnswerLostSettled ==
  ASSUME Whole, NEW c \in Call, PostAnswerLost(c)
  PROVE  Settled
<1> DEFINE r == calls[c]
           part == Content(c)
<1>1. /\ r.pc = "post" /\ Running(c) /\ Store(c, NotAnswered(r), part)
      /\ UNCHANGED <<section, baichuan_only, lacks, cache, poll>>
  BY DEF PostAnswerLost, Posts, Running, fixed
<1>2. IsRecord(r) /\ TypedCall(c) /\ CleanCall(c) /\ Ways(r) /\ Part(part) /\ r.out # "ok"
  BY <1>1, SentParts
<1>3. HasRead(r) => Good(part, r)
  BY <1>1, <1>2 DEF CleanCall
<1>4. CASE Again(r)
  <2> DEFINE w == [r EXCEPT !.tries = @ + 1]
  <2>1. Store(c, w, part)
    BY <1>1, <1>4 DEF NotAnswered
  <2>2. Alters(r, w, {"tries"})
    <3> HIDE DEF r
    <3> QED
      BY <1>2 DEF IsRecord, Names, Alters
  <2> HIDE DEF w
  <2>3. /\ IsRecord(w) /\ w.setter = r.setter /\ w.asked = r.asked /\ w.rewritten = r.rewritten
        /\ w.fresh = r.fresh /\ w.stored = r.stored
        /\ w.out = r.out /\ w.taken = r.taken /\ w.via = r.via /\ w.gets = r.gets /\ w.pc = r.pc
        /\ w.alias = r.alias /\ w.body = r.body
    BY <2>2 DEF Alters, Names
  <2>4. ASSUME Stores(c, part) PROVE TypedCall(c)' /\ CleanCall(c)'
    <3>1. Alters(w, calls'[c], {"wrote", "since", "stored"})
      BY <2>1, <2>3, StoredFields
    <3>2. /\ calls'[c].pc = "post" /\ calls'[c].alias = r.alias /\ calls'[c].body = r.body
          /\ calls'[c].taken = r.taken /\ calls'[c].via = r.via /\ calls'[c].fresh = r.fresh
      BY <1>1, <2>3, <3>1 DEF Alters, Names
    <3> QED
      BY <1>1, <2>4, <3>2, ThenSends
  <2> HIDE DEF part
  <2> QED
    BY <1>1, <1>2, <1>3, <2>1, <2>3, <2>4, StoreSettled
<1>5. CASE ~Again(r)
  <2>1. Store(c, Ended(r, "raised"), part)
    BY <1>1, <1>5 DEF NotAnswered
  <2> HIDE DEF part
  <2> QED
    BY <1>1, <1>2, <1>3, <2>1, StoredEndsSettled
<1> QED
  BY <1>4, <1>5

(* The handler has a part of what the call gave it.                        *)
LEMMA GivenParts ==
  ASSUME Whole, NEW c \in Call, calls[c].pc \in Sending
  PROVE  \A part \in {First(c), Rest(c), Final(c)} : Part(part) /\ (HasRead(calls[c]) => Good(part, calls[c]))
<1>1. Part(Content(c)) /\ Part(calls[c].taken) /\ CleanCall(c)
  BY SentParts DEF Running, Sending
<1>2. Part(Given(c))
  BY <1>1 DEF Given
<1>3. HasRead(calls[c]) => Good(Given(c), calls[c])
  BY <1>1 DEF CleanCall, Given
<1>4. ASSUME NEW part \in {First(c), Rest(c), Final(c)}
      PROVE  DOMAIN part \subseteq DOMAIN Given(c) /\ \A f \in DOMAIN part : part[f] = Given(c)[f]
  BY DEF First, Rest, Final, Known, Only
<1>5. ASSUME NEW part \in {First(c), Rest(c), Final(c)}
      PROVE  Part(part) /\ (HasRead(calls[c]) => Good(part, calls[c]))
  <2>1. DOMAIN part \subseteq DOMAIN Given(c) /\ \A f \in DOMAIN part : part[f] = Given(c)[f]
    BY <1>4
  <2>2. Part(part)
    BY <1>2, <2>1 DEF Part
  <2>3. ASSUME Good(Given(c), calls[c]) PROVE Good(part, calls[c])
    BY <2>1, <2>3 DEF Good
  <2> QED
    BY <1>3, <2>2, <2>3
<1> QED
  BY <1>5

LEMMA SentPart ==
  ASSUME Whole, NEW c \in Call, Writes(c)
  PROVE  Part(Sent(c)) /\ (HasRead(calls[c]) => Good(Sent(c), calls[c]))
<1> DEFINE r == calls[c]
<1>1. r.pc \in Sending /\ Running(c) /\ (r.pc = "bcwrite" \/ ~Handler.reads)
  BY DEF Writes, Running, Sending
<1>2. TypedCall(c) /\ CleanCall(c)
  BY <1>1, SentParts
<1>3. Part(Rest(c)) /\ (HasRead(r) => Good(Rest(c), r))
  BY <1>1, GivenParts
<1>4. CASE ~Handler.reads
  <2>1. Sent(c) = Rest(c)
    BY <1>4 DEF Sent
  <2> QED
    BY <1>3, <2>1
<1>5. CASE Handler.reads
  <2> DEFINE shown == Only(r.seen, Field \ Handler.last)
             part == Put(shown, Rest(c))
  <2>1. r.seen \in Doc /\ \A f \in Field : r.seen[f] \in r.since[f]
    BY <1>1, <1>2, <1>5 DEF TypedCall, CleanCall
  <2>2. /\ DOMAIN shown \subseteq Field
        /\ \A f \in DOMAIN shown : shown[f] = r.seen[f] /\ shown[f] \in Value /\ shown[f] \in r.since[f]
    BY <2>1 DEF Only, Doc
  <2> HIDE DEF shown
  <2>3. /\ DOMAIN part = DOMAIN shown
        /\ \A f \in DOMAIN part : part[f] = IF f \in DOMAIN Rest(c) THEN Rest(c)[f] ELSE shown[f]
    BY DEF Put
  <2>4. Sent(c) = part
    BY <1>5 DEF Sent, shown
  <2> HIDE DEF part
  <2>5. Part(part)
    BY <1>3, <2>2, <2>3 DEF Part
  <2>6. ASSUME HasRead(r) PROVE Good(part, r)
    <3> SUFFICES ASSUME NEW f \in DOMAIN part \ (r.asked \cup r.rewritten)
                 PROVE  f \in Field /\ Explained(part[f], f, r.since)
      BY DEF Good
    <3>1. CASE f \in DOMAIN Rest(c)
      BY <1>3, <2>3, <2>6, <3>1 DEF Good
    <3>2. CASE f \notin DOMAIN Rest(c)
      BY <2>2, <2>3, <3>2 DEF Explained
    <3> QED
      BY <3>1, <3>2
  <2> QED
    BY <2>4, <2>5, <2>6
<1> QED
  BY <1>4, <1>5

LEMMA ServedFields ==
  ASSUME NEW r, IsRecord(r)
  PROVE  LET w == Served(r)
         IN  /\ Alters(r, w, {"pc", "gets", "alias", "body", "taken", "seen"})
             /\ w.pc = "posted" /\ ~w.alias /\ DOMAIN w.body = {} /\ DOMAIN w.taken = {} /\ w.gets \in 0..1
<1> DEFINE g == IF Handler.again /\ r.via # "direct" THEN 1 ELSE 0
           w == [r EXCEPT !.pc = "posted", !.gets = g, !.alias = FALSE, !.body = NoDoc,
                         !.taken = NoDoc, !.seen = NoDoc]
<1>1. g \in 0..1
  OBVIOUS
<1>2. DOMAIN NoDoc = {}
  BY DEF NoDoc
<1>3. Served(r) = w
  BY DEF Served
<1>4. /\ Alters(r, w, {"pc", "gets", "alias", "body", "taken", "seen"})
      /\ w.pc = "posted" /\ ~w.alias /\ w.body = NoDoc /\ w.taken = NoDoc /\ w.gets = g
  <2> HIDE DEF g
  <2> QED
    BY DEF IsRecord, Names, Alters
<1> HIDE DEF w, g
<1> QED
  BY <1>1, <1>2, <1>3, <1>4

LEMMA ServedSettled ==
  ASSUME Whole, NEW c \in Call, calls[c].pc \in Sending, NEW part, Store(c, Served(calls[c]), part), Part(part),
         UNCHANGED <<section, baichuan_only, lacks, cache, poll>>,
         HasRead(calls[c]) => Good(part, calls[c])
  PROVE  Settled
<1> DEFINE r == calls[c]
           w == Served(r)
<1>1. IsRecord(r) /\ r.out # "ok" /\ Running(c)
  BY SentParts DEF Running, Sending
<1>2. /\ Alters(r, w, {"pc", "gets", "alias", "body", "taken", "seen"})
      /\ w.pc = "posted" /\ ~w.alias /\ DOMAIN w.body = {} /\ DOMAIN w.taken = {} /\ w.gets \in 0..1
  BY <1>1, ServedFields
<1>3. Store(c, w, part)
  OBVIOUS
<1> HIDE DEF w
<1>4. /\ IsRecord(w) /\ w.setter = r.setter /\ w.asked = r.asked /\ w.rewritten = r.rewritten
      /\ w.fresh = r.fresh /\ w.stored = r.stored
      /\ w.out = r.out /\ w.via = r.via
  BY <1>2 DEF Alters, Names
<1>5. ASSUME Stores(c, part) PROVE TypedCall(c)' /\ CleanCall(c)'
  <2>1. Alters(w, calls'[c], {"wrote", "since", "stored"})
    BY <1>3, <1>4, StoredFields
  <2>2. /\ calls'[c].pc = "posted" /\ ~calls'[c].alias /\ DOMAIN calls'[c].body = {}
        /\ DOMAIN calls'[c].taken = {} /\ calls'[c].via = r.via /\ calls'[c].gets \in 0..1
    BY <1>2, <1>4, <2>1 DEF Alters, Names
  <2> QED
    BY <1>1, <1>5, <2>2, ThenPosted
<1> QED
  BY <1>1, <1>2, <1>3, <1>4, <1>5, StoreSettled

(* The handler goes on with another command.                               *)
LEMMA GoesOnSettled ==
  ASSUME Whole, NEW c \in Call, calls[c].pc \in Sending, NEW pc \in {"bcread", "bclast"}, NEW part,
         Store(c, [calls[c] EXCEPT !.pc = pc], part), Part(part),
         UNCHANGED <<section, baichuan_only, lacks, cache, poll>>, HasRead(calls[c]) => Good(part, calls[c])
  PROVE  Settled
<1> DEFINE r == calls[c]
           w == [r EXCEPT !.pc = pc]
<1>1. IsRecord(r) /\ r.out # "ok" /\ Running(c) /\ Ways(r)
  BY SentParts DEF Running, Sending
<1>2. Alters(r, w, {"pc"}) /\ w.pc = pc
  <2> HIDE DEF r
  <2> QED
    BY <1>1 DEF IsRecord, Names, Alters
<1>3. Store(c, w, part)
  OBVIOUS
<1> HIDE DEF w
<1>4. /\ IsRecord(w) /\ w.setter = r.setter /\ w.asked = r.asked /\ w.rewritten = r.rewritten
      /\ w.fresh = r.fresh
      /\ w.stored = r.stored /\ w.out = r.out /\ w.taken = r.taken /\ w.alias = r.alias /\ w.body = r.body
  BY <1>2 DEF Alters, Names
<1>5. ASSUME Stores(c, part) PROVE TypedCall(c)' /\ CleanCall(c)'
  <2>1. Alters(w, calls'[c], {"wrote", "since", "stored"})
    BY <1>3, <1>4, StoredFields
  <2>2. /\ calls'[c].pc = pc /\ calls'[c].alias = r.alias /\ calls'[c].body = r.body
        /\ calls'[c].taken = r.taken /\ calls'[c].fresh = r.fresh
    BY <1>2, <1>4, <2>1 DEF Alters, Names
  <2>3. HasHandler
    BY <1>1 DEF Ways
  <2> QED
    BY <1>5, <2>2, <2>3, ThenSends
<1> QED
  BY <1>1, <1>2, <1>3, <1>4, <1>5, StoreSettled

LEMMA BcFirstSettled ==
  ASSUME Whole, NEW c \in Call, BcFirst(c)
  PROVE  Settled
<1> DEFINE more == Asks(c, Handler.handles \ Handler.first)
<1>1. /\ calls[c].pc \in Sending /\ UNCHANGED <<section, baichuan_only, lacks, cache, poll>>
      /\ Store(c, IF more THEN [calls[c] EXCEPT !.pc = "bcread"] ELSE Served(calls[c]), First(c))
  BY DEF BcFirst, Stored, fixed, Sending
<1>2. Part(First(c)) /\ (HasRead(calls[c]) => Good(First(c), calls[c]))
  BY <1>1, GivenParts
<1> QED
  BY <1>1, <1>2, GoesOnSettled, ServedSettled

LEMMA BcWriteSettled ==
  ASSUME Whole, NEW c \in Call, BcWrite(c)
  PROVE  Settled
<1>1. /\ Writes(c) /\ calls[c].pc \in Sending /\ UNCHANGED <<section, baichuan_only, lacks, cache, poll>>
      /\ Store(c, IF Asks(c, Handler.last) THEN [calls[c] EXCEPT !.pc = "bclast"] ELSE Served(calls[c]), Sent(c))
  BY DEF BcWrite, Writes, Stored, fixed, Sending
<1>2. Part(Sent(c)) /\ (HasRead(calls[c]) => Good(Sent(c), calls[c]))
  BY <1>1, SentPart
<1> QED
  BY <1>1, <1>2, GoesOnSettled, ServedSettled

LEMMA BcLastSettled ==
  ASSUME Whole, NEW c \in Call, BcLast(c)
  PROVE  Settled
<1>1. /\ calls[c].pc \in Sending /\ UNCHANGED <<section, baichuan_only, lacks, cache, poll>>
      /\ Store(c, Served(calls[c]), Final(c))
  BY DEF BcLast, Stored, fixed, Sending
<1>2. Part(Final(c)) /\ (HasRead(calls[c]) => Good(Final(c), calls[c]))
  BY <1>1, GivenParts
<1> QED
  BY <1>1, <1>2, ServedSettled

LEMMA BcAnswerLostSettled ==
  ASSUME Whole, NEW c \in Call, BcAnswerLost(c)
  PROVE  Settled
<1> DEFINE r == calls[c]
           w == Failing(r)
<1>1. r.pc \in Sending /\ Running(c) /\ UNCHANGED <<section, baichuan_only, lacks, cache, poll>>
  BY DEF BcAnswerLost, Writes, fixed, Sending, Running
<1>2. IsRecord(r) /\ r.out # "ok"
  BY <1>1, SentParts
<1>3. PICK part : Store(c, w, part) /\ Part(part) /\ (HasRead(r) => Good(part, r))
  <2>1. \/ Store(c, w, First(c)) \/ Store(c, w, Final(c))
        \/ Writes(c) /\ Store(c, w, Sent(c))
    BY DEF BcAnswerLost
  <2> HIDE DEF w
  <2> QED
    BY <1>1, <2>1, GivenParts, SentPart
<1>4. CASE r.via # "first"
  BY <1>1, <1>3, <1>4, StoredEndsSettled DEF Failing
<1>5. CASE r.via = "first"
  <2>1. /\ Alters(r, w, {"pc", "via", "taken", "seen"})
        /\ w.pc = "post" /\ w.via = "failed" /\ DOMAIN w.taken = {}
    BY <1>2, <1>5, FailingFields
  <2> HIDE DEF w
  <2>2. /\ IsRecord(w) /\ w.setter = r.setter /\ w.asked = r.asked /\ w.rewritten = r.rewritten
        /\ w.fresh = r.fresh
        /\ w.stored = r.stored /\ w.out = r.out /\ w.alias = r.alias /\ w.body = r.body
    BY <2>1 DEF Alters, Names
  <2>3. ASSUME Stores(c, part) PROVE TypedCall(c)' /\ CleanCall(c)'
    <3>1. Alters(w, calls'[c], {"wrote", "since", "stored"})
      BY <1>3, <2>2, StoredFields
    <3>2. /\ calls'[c].pc = "post" /\ calls'[c].alias = r.alias /\ calls'[c].body = r.body
          /\ DOMAIN calls'[c].taken = {} /\ calls'[c].via = "failed" /\ calls'[c].fresh = r.fresh
      BY <2>1, <2>2, <3>1 DEF Alters, Names
    <3> QED
      BY <1>1, <2>3, <3>2, ThenSends
  <2> QED
    BY <1>1, <1>2, <1>3, <2>1, <2>2, <2>3, StoreSettled
<1> QED
  BY <1>4, <1>5

-----------------------------------------------------------------------------
(* Steps that map an answer into the cache, and those of nobody.           *)
LEMMA NoDocIsNoDocument ==
  ASSUME section \in Docs
  PROVE  NoDoc \notin Doc
<1> DEFINE args == UNION {ToSet(Setter[s].args) : s \in Used \cap SettersOf[section]}
<1>1. Field = IF Cardinality(args) > 1 THEN args ELSE args \cup {"other"}
  BY DEF Field, FieldsUsed
<1>2. Cardinality({}) = 0
  BY FS_EmptySet
<1> HIDE DEF args
<1>3. Field # {}
  BY <1>1, <1>2
<1>4. DOMAIN NoDoc = {}
  BY DEF NoDoc
<1> QED
  BY <1>3, <1>4 DEF Doc

LEMMA QuietSettled ==
  ASSUME Whole, UNCHANGED <<section, baichuan_only, lacks, device, cache, calls>>, poll' \in {poll, device}
  PROVE  Settled
<1>1. Asked /\ \A d \in Call : Follows(d)
  BY UntouchedFollows DEF Asked, Whole
<1>2. GlobalTypes
  BY DEF GlobalTypes, Whole, Typed
<1>3. PICK c : c \notin Call
  <2>1. "was" \notin Call
    OBVIOUS
  <2> QED
    BY <2>1
<1>4. CacheStep(c)
  BY DEF CacheStep, Turned
<1> QED
  BY <1>1, <1>2, <1>4, AllSettled

LEMMA AppChangesSettled ==
  ASSUME Whole, AppChanges
  PROVE  Settled
<1>1. /\ UNCHANGED <<section, baichuan_only, lacks, cache, poll>>
      /\ calls' = Noted(calls, device') /\ device' = [f \in Field |-> "app"]
  BY DEF AppChanges, fixed
<1>2. \A d \in Call : Follows(d)
  BY <1>1, NotedFollows DEF Whole
<1>3. Asked
  <2>1. \A d \in Call : calls'[d].asked = calls[d].asked /\ calls[d].rewritten \subseteq calls'[d].rewritten
    BY <1>2 DEF Follows, Alters, Names
  <2> QED
    BY <1>1, <2>1 DEF Asked
<1>4. GlobalTypes
  BY <1>1 DEF GlobalTypes, Whole, Typed, Doc, Value
<1>5. CacheStep("was")
  BY <1>1 DEF CacheStep, Turned
<1> QED
  BY <1>2, <1>3, <1>4, <1>5, AllSettled

(* A call that holds the dict which an answer is mapped into notes what is *)
(* changed, but for what c writes to it at once.                           *)
LEMMA LandedTurns ==
  ASSUME Whole, NEW c, NEW d \in Call, calls[d].alias, NEW answer, DOMAIN answer = Field, NEW known,
         \A f \in Field \ known : answer[f] = cache[f],
         \/ cache' = answer
         \/ \E fields : cache' = Put(answer, [f \in fields |-> c]) /\ \A f \in fields : c \in Call /\ Live(c, f)'
  PROVE  Turned(c, cache, cache', known)
<1>1. DOMAIN cache = Field
  BY DEF Whole, Typed, TypedCall, Doc
<1>2. ASSUME NEW f \in DOMAIN cache'
      PROVE  f \in Field /\ (cache'[f] = answer[f] \/ (c \in Call /\ cache'[f] = c /\ Live(c, f)'))
  BY <1>2 DEF Put
<1> QED
  BY <1>1, <1>2 DEF Turned

LEMMA PollMappedSettled ==
  ASSUME Whole, PollMapped
  PROVE  Settled
<1>0. PICK b \in Routes : calls' = Detached(calls, poll, b)
  BY DEF PollMapped
<1>1. UNCHANGED <<section, baichuan_only, lacks, device>> /\ poll # NoDoc /\ cache' = poll /\ poll' = NoDoc
  BY DEF PollMapped, fixed
<1>2. \A d \in Call : /\ Follows(d)
                      /\ calls'[d].alias => \A f \in Field \ calls'[d].rewritten : poll[f] = cache[f]
  BY <1>0, <1>1, DetachedFollows DEF Whole
<1>3. Asked
  <2>1. \A d \in Call : calls'[d].asked = calls[d].asked /\ calls[d].rewritten \subseteq calls'[d].rewritten
    BY <1>2 DEF Follows, Alters, Names
  <2> QED
    BY <1>1, <2>1 DEF Asked
<1>4. GlobalTypes /\ poll \in Doc
  BY <1>1 DEF GlobalTypes, Whole, Typed
<1>5. CacheStep("was")
  <2> SUFFICES ASSUME NEW d \in Call, Follows(d), calls'[d].alias
               PROVE  Turned("was", cache, cache', calls'[d].rewritten)
    BY DEF CacheStep
  <2>1. calls[d].alias /\ DOMAIN poll = Field
    BY <1>4 DEF Follows, Doc
  <2> QED
    BY <1>1, <1>2, <2>1, LandedTurns
<1> QED
  BY <1>2, <1>3, <1>4, <1>5, AllSettled

\* Call c goes on as w while an answer is mapped, and may then write to the dict.
LEMMA MapFollows ==
  ASSUME Whole, NEW c \in Call, NEW w, NEW answer, DOMAIN answer = Field, NEW b,
         calls' = [Detached(calls, answer, b) EXCEPT ![c] = w],
         UNCHANGED <<section, baichuan_only, lacks, device, poll>>,
         calls[c].asked \subseteq w.asked, calls[c].rewritten \subseteq w.rewritten,
         calls[c].alias /\ w.alias => \A f \in Field \ w.rewritten : answer[f] = cache[f],
         \/ cache' = answer
         \/ \E fields : cache' = Put(answer, [f \in fields |-> c]) /\ \A f \in fields : Live(c, f)'
  PROVE  Asked /\ (\A d \in Call \ {c} : Follows(d)) /\ CacheStep(c) /\ calls'[c] = w
<1>1. calls'[c] = w /\ \A d \in Call \ {c} : calls'[d] = Detached(calls, answer, b)[d]
  BY DEF Detached
<1>2. \A d \in Call \ {c} :
         /\ Follows(d)
         /\ calls'[d].alias => \A f \in Field \ calls'[d].rewritten : answer[f] = cache[f]
  BY <1>1, DetachedFollows DEF Whole
<1>3. Asked
  <2>1. \A d \in Call \ {c} : calls'[d].asked = calls[d].asked /\ calls[d].rewritten \subseteq calls'[d].rewritten
    BY <1>2 DEF Follows, Alters, Names
  <2> QED
    BY <1>1, <2>1 DEF Asked
<1>4. CacheStep(c)
  <2> SUFFICES ASSUME NEW d \in Call, Follows(d), calls'[d].alias
               PROVE  Turned(c, cache, cache', calls'[d].rewritten)
    BY DEF CacheStep
  <2>1. calls[d].alias
    BY DEF Follows
  <2>2. \A f \in Field \ calls'[d].rewritten : answer[f] = cache[f]
    BY <1>1, <1>2, <2>1
  <2> QED
    BY <2>1, <2>2, LandedTurns
<1> QED
  BY <1>1, <1>2, <1>3, <1>4

LEMMA RefreshedSettled ==
  ASSUME Whole, NEW c \in Call, Refreshed(c)
  PROVE  Settled
<1> DEFINE r == calls[c]
           w == OneRead(r)
<1>1. /\ r.pc = "refreshed" /\ Running(c)
      /\ UNCHANGED <<section, baichuan_only, lacks, device, poll>> /\ cache' = r.seen
  BY DEF Refreshed, Running, fixed
<1>2. IsRecord(r) /\ Noticed(c) /\ Ways(r) /\ TypedCall(c) /\ r.seen \in Doc /\ r.gets \in 1..2
  BY <1>1, SentParts DEF TypedCall
<1>3. ~r.alias /\ \E b : calls' = [Detached(calls, r.seen, b) EXCEPT ![c] = w]
  <2>1. PICK b \in Routes : calls' = [Detached(calls, r.seen, b) EXCEPT ![c] = OneRead(@)]
    BY DEF Refreshed
  <2>2. ~r.alias
    BY <1>1, <1>2 DEF Ways, Sending
  <2>3. Detached(calls, r.seen, b)[c] = r
    BY <2>2 DEF Detached, Remapped
  <2> QED
    BY <2>1, <2>2, <2>3
<1>4. /\ w.asked = r.asked /\ w.rewritten = r.rewritten /\ w.setter = r.setter /\ w.pc \in {"end", "refresh"}
      /\ w.wrote = r.wrote \/ DOMAIN w.wrote = {}
      /\ \A f \in w.stored : f \in r.stored
      /\ w.pc = "refresh" => Alters(r, w, {"pc", "gets", "tries", "seen"}) /\ w.gets = 1
      /\ w.pc = "end" => ~w.alias /\ DOMAIN w.body = {} /\ DOMAIN w.taken = {}
  <2>1. CASE r.gets = 1
    <3>1. w = Ended(r, "ok")
      BY <2>1 DEF OneRead
    <3>2. /\ w.pc = "end" /\ ~w.alias /\ DOMAIN w.body = {} /\ DOMAIN w.taken = {}
          /\ w.setter = r.setter /\ w.asked = r.asked /\ w.rewritten = r.rewritten /\ w.stored = {}
          /\ DOMAIN w.wrote = {}
      BY <3>1, EndedFields
    <3> HIDE DEF w
    <3> QED
      BY <3>2
  <2>2. CASE r.gets # 1
    <3>1. Alters(r, w, {"pc", "gets", "tries", "seen"}) /\ w.pc = "refresh" /\ w.gets = 1
      BY <1>2, <2>2, OneReadFields
    <3> HIDE DEF w
    <3>2. /\ w.asked = r.asked /\ w.rewritten = r.rewritten /\ w.setter = r.setter
          /\ w.wrote = r.wrote /\ w.stored = r.stored
      BY <3>1 DEF Alters, Names
    <3> QED
      BY <3>1, <3>2
  <2> QED
    BY <2>1, <2>2
<1> HIDE DEF w
<1>6. Asked /\ (\A d \in Call \ {c} : Follows(d)) /\ CacheStep(c) /\ calls'[c] = w
  <2>1. DOMAIN r.seen = Field
    BY <1>2 DEF Doc
  <2> QED
    BY <1>1, <1>3, <1>4, <2>1, MapFollows
<1>7. GlobalTypes
  <2>1. cache' # NoDoc
    BY <1>1, <1>2, NoDocIsNoDocument DEF Whole, IInv, Global
  <2> QED
    BY <1>1, <1>2, <2>1 DEF GlobalTypes, Whole, Typed
<1>8. Moves(c) /\ News(c)
  BY <1>1, <1>4, <1>6 DEF Moves, News, After
<1>9. TypedCall(c)'
  <2>1. CASE w.pc = "end"
    BY <1>4, <1>6, <2>1 DEF TypedCall, Part, Running
  <2>2. CASE w.pc = "refresh"
    <3>1. w.alias = r.alias /\ w.body = r.body /\ w.taken = r.taken /\ w.via = r.via /\ w.gets = 1
      BY <1>4, <2>2 DEF Alters, Names
    <3>2. Part(calls[c].body)' /\ Part(calls[c].taken)'
      BY <1>1, <1>2, <1>6, <3>1 DEF Part, TypedCall, Field
    <3>3. (HasHandler' \/ w.via \in {"http", "failed"}) /\ RowOf(w) = RowOf(r)
      BY <1>1, <1>2, <1>4, <3>1 DEF TypedCall, HasHandler, RowOf
    <3>4. RowOf(r).body = "own" /\ RowOf(r).fill = {}
           => DOMAIN w.body \subseteq r.asked /\ DOMAIN w.taken \subseteq r.asked
      BY <1>1, <1>2, <3>1 DEF TypedCall
    <3> QED
      BY <1>3, <1>4, <1>6, <2>2, <3>1, <3>2, <3>3, <3>4 DEF TypedCall, RowOf
  <2> QED
    BY <1>4, <2>1, <2>2
<1>10. CleanCall(c)'
  BY <1>4, <1>6 DEF CleanCall, Sending
<1> QED
  BY <1>6, <1>7, <1>8, <1>9, <1>10, OneSettled

LEMMA BcReadSettled ==
  ASSUME Whole, NEW c \in Call, BcRead(c)
  PROVE  Settled
<1> DEFINE r == calls[c]
<1>b. PICK b \in BOOLEAN :
         calls' = [IF Handler.parses THEN Detached(calls, device, b) ELSE calls
                     EXCEPT ![c].pc = "bcwrite", ![c].seen = device]
  BY Zenon DEF BcRead
<1> DEFINE n == IF Handler.parses THEN Remapped(r, device, b) ELSE r
           w == HasSeen(n, device)
<1>1. /\ Running(c) /\ Global /\ r.pc \in Sending
      /\ UNCHANGED <<section, baichuan_only, lacks, device, poll>>
      /\ cache' = IF Handler.parses THEN device ELSE cache
  BY DEF Whole, IInv, Running, BcRead, fixed, Sending
<1>2. /\ IsRecord(r) /\ Noticed(c) /\ Ways(r) /\ TypedCall(c) /\ CleanCall(c) /\ Part(r.body) /\ Part(r.taken)
      /\ r.out # "ok"
  BY <1>1, SentParts DEF TypedCall
<1>3. /\ Handler.parses => calls' = [Detached(calls, device, b) EXCEPT ![c] = w]
      /\ ~Handler.parses => calls' = [calls EXCEPT ![c] = w]
  BY <1>1, <1>b DEF Detached, HasSeen, Global
<1>4. \/ n = r
      \/ Handler.parses /\ r.alias /\ InPlace(b)
            /\ n = [r EXCEPT !.rewritten = @ \cup {f \in Field : device[f] # cache[f]}]
      \/ Handler.parses /\ r.alias /\ n = [r EXCEPT !.alias = FALSE, !.body = cache]
  BY DEF Remapped
<1>5. /\ Alters(r, n, {"alias", "body", "rewritten"}) /\ r.rewritten \subseteq n.rewritten
      /\ \/ n.alias = r.alias /\ n.body = r.body
         \/ r.alias /\ Handler.parses /\ ~n.alias /\ n.body = cache
      /\ Handler.parses /\ n.alias => r.alias /\ \A f \in Field \ n.rewritten : device[f] = cache[f]
  <2>1. CASE n = r
    <3>1. ~(Handler.parses /\ r.alias /\ InPlace(b)) \/ \A f \in Field \ n.rewritten : device[f] = cache[f]
      <4>1. CASE Handler.parses /\ r.alias /\ InPlace(b)
        <5>1. n.rewritten = r.rewritten \cup {f \in Field : device[f] # cache[f]}
          BY <1>2, <4>1, RemappedRecord
        <5> QED
          BY <5>1
      <4> QED
        BY <4>1
    <3>2. Handler.parses /\ r.alias /\ ~InPlace(b) => ~n.alias
      BY <1>2, RemappedRecord
    <3> QED
      BY <1>2, <2>1, <3>1, <3>2 DEF Alters
  <2>2. CASE Handler.parses /\ r.alias /\ n = [r EXCEPT !.rewritten = @ \cup {f \in Field : device[f] # cache[f]}]
    <3> DEFINE new == {f \in Field : device[f] # cache[f]}
    <3>1. n = [r EXCEPT !.rewritten = @ \cup new]
      BY <2>2
    <3> HIDE DEF r, n, new
    <3>2. Alters(r, n, {"rewritten"}) /\ n.rewritten = r.rewritten \cup new
      BY <1>2, <3>1 DEF IsRecord, Names, Alters
    <3>3. n.alias = r.alias /\ n.body = r.body /\ Alters(r, n, {"alias", "body", "rewritten"})
      BY <3>2 DEF Alters, Names
    <3> QED
      BY <2>2, <3>2, <3>3 DEF new
  <2>3. CASE Handler.parses /\ r.alias /\ n = [r EXCEPT !.alias = FALSE, !.body = cache]
    <3>1. n = [r EXCEPT !.alias = FALSE, !.body = cache]
      BY <2>3
    <3> HIDE DEF r, n
    <3>2. Alters(r, n, {"alias", "body"}) /\ ~n.alias /\ n.body = cache
      BY <1>2, <3>1 DEF IsRecord, Names, Alters
    <3>3. n.rewritten = r.rewritten /\ Alters(r, n, {"alias", "body", "rewritten"})
      BY <3>2 DEF Alters, Names
    <3> QED
      BY <2>3, <3>2, <3>3
  <2> QED
    BY <1>4, <2>1, <2>2, <2>3
<1> HIDE DEF n
<1>6. Alters(n, w, {"pc", "seen"}) /\ w.pc = "bcwrite" /\ w.seen = device
  <2>1. IsRecord(n)
    BY <1>5 DEF Alters
  <2> QED
    BY <2>1 DEF IsRecord, Names, Alters, HasSeen
<1> HIDE DEF w
<1>7. /\ w.setter = r.setter /\ w.asked = r.asked /\ r.rewritten \subseteq w.rewritten /\ w.since = r.since
      /\ w.out = r.out /\ w.via = r.via
      /\ w.stored = r.stored /\ w.fresh = r.fresh /\ w.taken = r.taken /\ w.wrote = r.wrote
      /\ \/ w.alias = r.alias /\ w.body = r.body
         \/ r.alias /\ Handler.parses /\ ~w.alias /\ w.body = cache
      /\ Handler.parses /\ w.alias => r.alias /\ \A f \in Field \ w.rewritten : device[f] = cache[f]
  BY <1>5, <1>6 DEF Alters, Names
<1>9. Asked /\ (\A d \in Call \ {c} : Follows(d)) /\ CacheStep(c) /\ calls'[c] = w
  <2>1. CASE Handler.parses
    <3>1. calls' = [Detached(calls, device, b) EXCEPT ![c] = w] /\ DOMAIN device = Field
      BY <1>1, <1>3, <2>1 DEF Global
    <3> QED
      BY <1>1, <1>7, <2>1, <3>1, MapFollows
  <2>2. CASE ~Handler.parses
    <3>1. calls' = [calls EXCEPT ![c] = w] /\ Still
      BY <1>1, <1>3, <2>2 DEF Still
    <3> QED
      BY <1>7, <3>1, StillMove
  <2> QED
    BY <2>1, <2>2
<1>10. GlobalTypes
  <2>1. NoDoc \notin Doc /\ device \in Doc
    BY <1>1, NoDocIsNoDocument DEF Whole, Typed, Global
  <2> QED
    BY <1>1, <2>1 DEF GlobalTypes, Whole, Typed
<1>11. Moves(c) /\ News(c)
  BY <1>2, <1>6, <1>7, <1>9 DEF Moves, News
<1>12. Field' = Field /\ (HasHandler' <=> HasHandler) /\ Doc' = Doc /\ RowOf(w) = RowOf(r)
  BY <1>1, <1>7 DEF Field, HasHandler, Doc, RowOf
<1>13. TypedCall(c)'
  <2>1. Part(w.body) /\ Part(w.taken)
    <3>1. r.alias => cache \in Doc
      BY <1>2 DEF TypedCall, Whole, Typed
    <3> QED
      BY <1>2, <1>7, <3>1 DEF Part, Doc
  <2>2. Part(calls[c].body)' /\ Part(calls[c].taken)'
    BY <1>9, <1>12, <2>1 DEF Part
  <2>3. w.seen \in Doc
    BY <1>6 DEF Whole, Typed
  <2>4. w.alias => cache' # NoDoc
    BY <1>2, <1>7, <1>10 DEF TypedCall, GlobalTypes
  <2>5. HasHandler
    BY <1>1, <1>2 DEF Ways
  <2>6. RowOf(r).body = "own" /\ RowOf(r).fill = {}
           => DOMAIN w.body \subseteq r.asked /\ DOMAIN w.taken \subseteq r.asked
    BY <1>1, <1>2, <1>7 DEF TypedCall, Ways
  <2> QED
    BY <1>6, <1>7, <1>9, <1>12, <2>2, <2>3, <2>4, <2>5, <2>6 DEF TypedCall, RowOf
<1>14. CleanCall(c)'
  <2>1. \A f \in Field : w.seen[f] \in w.since[f]
    BY <1>1, <1>2, <1>6, <1>7 DEF Noticed
  <2>2. Taken(c)
    BY <1>9, <1>11 DEF Taken, Whole
  <2>3. Notes(r, w)
    BY <1>1, <1>2, <1>7 DEF Notes, Noticed
  <2>4. Turned(c, Content(c), Content(c)', w.rewritten)
    <3>1. CASE r.alias /\ w.alias /\ Handler.parses
      <4>1. Content(c) = cache /\ Content(c)' = cache'
        BY <1>9, <3>1 DEF Content
      <4>2. DOMAIN device = Field
        BY <1>1 DEF Global
      <4> QED
        BY <1>1, <1>7, <3>1, <4>1, <4>2, LandedTurns
    <3>2. CASE ~(r.alias /\ w.alias /\ Handler.parses)
      <4>1. Content(c)' = Content(c)
        BY <1>1, <1>7, <1>9, <3>2 DEF Content
      <4> QED
        BY <4>1 DEF Turned
    <3> QED
      BY <3>1, <3>2
  <2> QED
    BY <1>1, <1>2, <1>6, <1>7, <1>9, <2>1, <2>2, <2>3, <2>4, SendsClean DEF SentTurned, Turned, Sending
<1> QED
  BY <1>9, <1>10, <1>11, <1>13, <1>14, OneSettled

-----------------------------------------------------------------------------
(* Making the body.                                                        *)
Blank(c, r, current) ==
    /\ DOMAIN r.body = {} /\ DOMAIN r.taken = {} /\ r.stored = {}
    /\ (DOMAIN r.wrote = {} \/ r.wrote = calls[c].wrote)
    /\ calls[c].pc \in {"idle", "get", "got"} /\ (calls[c].pc # "idle" => r.setter = calls[c].setter)
    /\ current \in Doc \cup {NoDoc} /\ (cache # NoDoc => current # NoDoc)
    /\ r.fresh /\ current # NoDoc => \A f \in Field : current[f] \in r.since[f]

\* Call c, which was to make its body as r from what is current, goes on as w.
GoesOn(c, r, current, cs, w) ==
    /\ calls' = [cs EXCEPT ![c] = w]
    /\ w.asked = r.asked /\ w.rewritten = r.rewritten /\ w.setter = r.setter /\ w.pc # "idle" /\ w.stored = {}
    /\ w.out # "ok"
    /\ DOMAIN w.wrote = {} \/ w.wrote = r.wrote
    /\ \/ cache' = current
       \/ RowOf(r).body # "own" /\ current # NoDoc /\ cache' = Put(current, [f \in Accepted(r) |-> c])

LEMMA ComposeFollows ==
  ASSUME Whole, NEW c \in Call, NEW r, Ready(c, r), NEW current, Blank(c, r, current), NEW cs,
         Source(current, cs),
         NEW w, GoesOn(c, r, current, cs, w), UNCHANGED <<section, baichuan_only, lacks, device, poll>>
  PROVE  /\ Asked /\ (\A d \in Call \ {c} : Follows(d)) /\ CacheStep(c) /\ GlobalTypes /\ Moves(c) /\ News(c)
         /\ calls'[c] = w
<1> USE DEF GoesOn
<1>1. /\ ~calls[c].alias /\ Global
      /\ calls[c].asked \subseteq r.asked /\ calls[c].rewritten \subseteq r.rewritten
  BY DEF Whole, IInv, CallInv, Ways, Blank, Sending, Ready
<1>2. calls'[c] = w
  BY <1>1 DEF Source, Global, Detached
<1>3. GlobalTypes
  <2>1. NoDoc \notin Doc /\ device \in Doc /\ poll \in Doc \cup {NoDoc}
    BY <1>1, NoDocIsNoDocument DEF Whole, Typed, Global
  <2>2. current \in Doc \cup {NoDoc} /\ (cache # NoDoc => current # NoDoc)
    BY DEF Blank
  <2>3. current # NoDoc => Put(current, [f \in Accepted(r) |-> c]) \in Doc
    BY <2>2 DEF Doc, Put, Value
  <2> QED
    BY <2>1, <2>2, <2>3 DEF GlobalTypes
<1>4. Moves(c)
  BY <1>1, <1>2 DEF Moves, Blank
<1>5. News(c)
  BY <1>2 DEF News, Blank
<1>7. \A f \in Accepted(r) : Live(c, f)'
  <2>1. Accepted(r) \subseteq r.asked
    BY AcceptedAll DEF Ready
  <2> QED
    BY <1>2, <2>1 DEF Live
<1>6. ASSUME NEW b, cs = Detached(calls, current, b), DOMAIN current = Field
      PROVE  Asked /\ (\A d \in Call \ {c} : Follows(d)) /\ CacheStep(c)
  BY <1>1, <1>6, <1>7, MapFollows
<1>8. ASSUME cs = calls, current = cache
      PROVE  Asked /\ (\A d \in Call \ {c} : Follows(d)) /\ CacheStep(c)
  <2>1. \A d \in Call \ {c} : calls'[d] = calls[d]
    BY <1>8
  <2>2. Asked
    BY <1>1, <1>2, <2>1 DEF Asked
  <2>3. \A d \in Call \ {c} : Follows(d)
    BY <2>1, UntouchedFollows DEF Whole
  <2>4. CacheStep(c)
    <3> SUFFICES ASSUME NEW d \in Call, Follows(d), calls'[d].alias
                 PROVE  Turned(c, cache, cache', calls'[d].rewritten)
      BY DEF CacheStep
    <3>1. calls[d].alias
      BY DEF Follows
    <3>2. DOMAIN cache = Field
      BY <3>1 DEF Whole, Typed, TypedCall, Doc
    <3> QED
      BY <1>7, <1>8, <3>1, <3>2, LandedTurns
  <2> QED
    BY <2>2, <2>3, <2>4
<1> QED
  BY <1>2, <1>3, <1>4, <1>5, <1>6, <1>8 DEF Source

LEMMA ComposeSettled ==
  ASSUME Whole, NEW c \in Call, NEW r, Ready(c, r), NEW current, Blank(c, r, current), NEW cs,
         Source(current, cs),
         Compose(c, r, current, cs), UNCHANGED <<section, baichuan_only, lacks, device, poll>>
  PROVE  Settled
<1> DEFINE own == OwnBody(c, r, current)
           straight == [r EXCEPT !.pc = "bc", !.via = "direct", !.taken = own]
           posts == [r EXCEPT !.pc = "post", !.body = own]
           shares == [r EXCEPT !.pc = "post", !.alias = TRUE]
           Goes(w) == calls' = [cs EXCEPT ![c] = w]
<1>1. /\ IsRecord(r) /\ ~r.alias /\ r.via = "http" /\ r.gets = 0 /\ r.out = "none"
      /\ r.setter \in Used \cap SettersOf[section] /\ r.asked \subseteq ToSet(RowOf(r).args)
      /\ \A f \in Field : device[f] \in r.since[f]
      /\ section \in Docs
  BY DEF Ready, Whole, IInv, Global
<1>2. /\ DOMAIN r.body = {} /\ DOMAIN r.taken = {} /\ r.stored = {}
      /\ (DOMAIN r.wrote = {} \/ r.wrote = calls[c].wrote)
      /\ current \in Doc \cup {NoDoc}
      /\ r.fresh /\ current # NoDoc => \A f \in Field : current[f] \in r.since[f]
  BY DEF Blank
<1>3. Setter[r.setter].doc = section /\ r.asked \subseteq Field
  BY <1>1, RowFields DEF RowOf
<1>4. /\ Part(own) /\ DOMAIN NoDoc = {}
      /\ RowOf(r).fill = {} \/ current = NoDoc => DOMAIN own \subseteq r.asked
  <2>1. DOMAIN NoDoc = {}
    BY DEF NoDoc
  <2> QED
    BY <1>2, <1>3, <2>1 DEF OwnBody, Part, Doc, Value
<1>5. ASSUME NEW w, Goes(w), w.asked = r.asked, w.rewritten = r.rewritten, w.setter = r.setter, w.pc # "idle",
             w.stored = {}, w.out # "ok",
             DOMAIN w.wrote = {} \/ w.wrote = r.wrote,
             \/ cache' = current
             \/ RowOf(r).body # "own" /\ current # NoDoc /\ cache' = Put(current, [f \in Accepted(r) |-> c])
      PROVE  /\ Asked /\ (\A d \in Call \ {c} : Follows(d)) /\ CacheStep(c) /\ GlobalTypes /\ Moves(c) /\ News(c)
             /\ calls'[c] = w
  <2>1. GoesOn(c, r, current, cs, w)
    BY <1>5 DEF GoesOn
  <2> HIDE DEF own, straight, posts, shares, Goes
  <2> QED
    BY <2>1, ComposeFollows
<1>6. ASSUME NEW o \in {"unsupported", "refused"}, Goes(Ended(r, o)),
             \/ cache' = current
             \/ RowOf(r).body # "own" /\ current # NoDoc /\ cache' = Put(current, [f \in Accepted(r) |-> c])
      PROVE  Settled
  <2> DEFINE w == Ended(r, o)
  <2>1. /\ w.pc = "end" /\ w.out = o /\ ~w.alias /\ DOMAIN w.body = {} /\ DOMAIN w.taken = {}
        /\ w.setter = r.setter /\ w.asked = r.asked /\ w.rewritten = r.rewritten /\ w.stored = {}
        /\ DOMAIN w.wrote = {}
    BY EndedFields
  <2>2. Goes(w)
    BY <1>6
  <2> HIDE DEF w, Goes, own, straight, posts, shares
  <2>3. /\ Asked /\ (\A d \in Call \ {c} : Follows(d)) /\ CacheStep(c) /\ GlobalTypes /\ Moves(c) /\ News(c)
        /\ calls'[c] = w
    BY <1>5, <1>6, <2>1, <2>2
  <2>4. TypedCall(c)' /\ CleanCall(c)'
    BY <2>1, <2>3 DEF TypedCall, Part, Running, CleanCall, Sending
  <2> QED
    BY <2>3, <2>4, OneSettled
\* A body or what is handed on: made of what was asked, and filled in with what is cached.
<1>7. ASSUME NEW w, w.setter = r.setter, w.fresh = r.fresh, HasRead(w), RowOf(r).body = "own"
      PROVE  DOMAIN own \subseteq r.asked
  <2>1. RowOf(w) = RowOf(r)
    BY <1>7 DEF RowOf
  <2>2. RowOf(r).fill = {}
    BY <1>1, <1>7, <2>1, RowsAssumption DEF HasRead, RowOf
  <2> QED
    BY <1>4, <2>2
<1>8. ASSUME NEW w, Goes(w), Alters(r, w, {"pc", "via", "taken", "body"}), cache' = current,
             \/ w.pc = "bc" /\ HasHandler /\ w.body = r.body /\ w.taken = own
             \/ w.pc = "post" /\ w.via = r.via /\ w.taken = r.taken /\ w.body = own,
             RowOf(r).body = "own" \/ current = NoDoc
      PROVE  Settled
  <2> HIDE DEF own, straight, posts, shares, Goes
  <2>1. /\ w.asked = r.asked /\ w.rewritten = r.rewritten /\ w.setter = r.setter /\ w.stored = r.stored
        /\ w.out = r.out /\ w.wrote = r.wrote
        /\ w.alias = r.alias /\ w.since = r.since /\ w.fresh = r.fresh /\ w.gets = r.gets
    BY <1>8 DEF Alters, Names
  <2>2. /\ Asked /\ (\A d \in Call \ {c} : Follows(d)) /\ CacheStep(c) /\ GlobalTypes /\ Moves(c) /\ News(c)
        /\ calls'[c] = w
    BY <1>1, <1>2, <1>5, <1>8, <2>1
  <2>3. Field' = Field /\ (HasHandler' <=> HasHandler) /\ RowOf(w) = RowOf(r)
    BY <2>1 DEF Field, HasHandler, RowOf
  <2>4. TypedCall(c)'
    <3>1. Part(calls[c].body)' /\ Part(calls[c].taken)'
      BY <1>2, <1>4, <1>8, <2>2, <2>3 DEF Part
    <3>2. RowOf(r).body = "own" /\ RowOf(r).fill = {}
           => DOMAIN w.body \subseteq r.asked /\ DOMAIN w.taken \subseteq r.asked
      BY <1>2, <1>4, <1>8
    <3>3. w.via \notin {"http", "failed"} => HasHandler
      BY <1>1, <1>8
    <3> QED
      BY <1>1, <1>8, <2>1, <2>2, <2>3, <3>1, <3>2, <3>3 DEF TypedCall, RowOf
  <2>5. CleanCall(c)'
    <3>1. ASSUME HasRead(w)' PROVE DOMAIN w.body \subseteq r.asked /\ DOMAIN w.taken \subseteq r.asked
      <4>1. HasRead(w)
        BY <3>1 DEF HasRead, RowOf
      <4>2. DOMAIN own \subseteq r.asked
        BY <1>4, <1>7, <1>8, <2>1, <4>1
      <4> QED
        BY <1>2, <1>8, <4>2
    <3>2. Content(c)' = w.body
      BY <1>1, <2>1, <2>2 DEF Content
    <3>3. ASSUME HasRead(w)' PROVE Good(Content(c), calls[c])' /\ Good(calls[c].taken, calls[c])'
      BY <2>1, <2>2, <3>1, <3>2, <3>3 DEF Good
    <3> QED
      BY <1>8, <2>2, <3>3 DEF CleanCall
  <2> QED
    BY <2>2, <2>4, <2>5, OneSettled
<1>9. ASSUME Goes(straight), HasHandler, cache' = current,
             RowOf(r).body = "own" \/ current = NoDoc PROVE Settled
  <2>1. Alters(r, straight, {"pc", "via", "taken", "body"}) /\ straight.pc = "bc" /\ straight.body = r.body
        /\ straight.taken = own
    <3> HIDE DEF own
    <3> QED
      BY <1>1 DEF IsRecord, Names, Alters
  <2> HIDE DEF straight, own, Goes
  <2> QED
    BY <1>8, <1>9, <2>1
<1>10. ASSUME Goes(posts), cache' = current, RowOf(r).body = "own" PROVE Settled
  <2>1. Alters(r, posts, {"pc", "via", "taken", "body"}) /\ posts.pc = "post" /\ posts.body = own
        /\ posts.taken = r.taken /\ posts.via = r.via
    <3> HIDE DEF own
    <3> QED
      BY <1>1 DEF IsRecord, Names, Alters
  <2> HIDE DEF posts, own, Goes
  <2> QED
    BY <1>8, <1>10, <2>1
<1>11. ASSUME Goes(shares), RowOf(r).body # "own", r.bad = {}, current # NoDoc,
              cache' = Put(current, [f \in Accepted(r) |-> c])
       PROVE  Settled
  <2>1. Alters(r, shares, {"pc", "alias"}) /\ shares.pc = "post" /\ shares.alias
    BY <1>1 DEF IsRecord, Names, Alters
  <2> HIDE DEF shares, own, straight, posts, Goes
  <2>2. /\ shares.asked = r.asked /\ shares.rewritten = r.rewritten /\ shares.setter = r.setter
        /\ shares.stored = r.stored /\ shares.out = r.out
        /\ shares.wrote = r.wrote /\ shares.body = r.body /\ shares.taken = r.taken /\ shares.via = r.via
        /\ shares.since = r.since /\ shares.fresh = r.fresh /\ shares.gets = r.gets
    BY <2>1 DEF Alters, Names
  <2>3. /\ Asked /\ (\A d \in Call \ {c} : Follows(d)) /\ CacheStep(c) /\ GlobalTypes /\ Moves(c) /\ News(c)
        /\ calls'[c] = shares
    BY <1>1, <1>2, <1>5, <1>11, <2>1, <2>2
  <2>4. Field' = Field /\ (HasHandler' <=> HasHandler) /\ RowOf(shares) = RowOf(r)
    BY <2>2 DEF Field, HasHandler, RowOf
  <2>5. current \in Doc /\ cache' \in Doc /\ cache' # NoDoc
    <3>1. current \in Doc /\ NoDoc \notin Doc
      BY <1>1, <1>2, <1>11, NoDocIsNoDocument
    <3>2. cache' \in Doc
      BY <1>11, <3>1 DEF Doc, Put, Value
    <3> QED
      BY <3>1, <3>2
  <2>6. TypedCall(c)'
    <3>1. Part(calls[c].body)' /\ Part(calls[c].taken)'
      BY <1>2, <2>2, <2>3 DEF Part
    <3> QED
      BY <1>1, <1>2, <2>1, <2>2, <2>3, <2>5, <3>1 DEF TypedCall
  <2>7. CleanCall(c)'
    <3>1. ASSUME HasRead(shares)' PROVE Good(Content(c), calls[c])'
      <4>1. r.fresh
        BY <1>11, <2>2, <2>4, <3>1 DEF HasRead, RowOf
      <4>2. \A f \in Field : current[f] \in r.since[f]
        BY <1>2, <1>11, <4>1
      <4>3. Content(c)' = cache'
        BY <2>1, <2>3 DEF Content
      <4>4. Accepted(r) = r.asked
        BY <1>1, <1>11, AcceptedAll
      <4>5. ASSUME NEW f \in DOMAIN cache' \ r.asked PROVE f \in Field /\ cache'[f] \in r.since[f]
        BY <1>11, <2>5, <4>2, <4>4, <4>5 DEF Put, Doc
      <4> QED
        BY <2>2, <2>3, <2>4, <4>3, <4>5 DEF Good, Explained
    <3> QED
      BY <2>1, <2>3, <3>1 DEF CleanCall, Sending
  <2> QED
    BY <2>3, <2>6, <2>7, OneSettled
<1>12. CASE RowOf(r).body = "own"
  <2>1. /\ cache' = current
        /\ \/ \E o \in {"unsupported", "refused"} : Goes(Ended(r, o))
           \/ IsDirect(r) /\ Goes(straight)
           \/ Goes(posts)
    BY <1>12 DEF Compose
  <2>2. IsDirect(r) => HasHandler
    BY <1>1, <1>3, RowsAssumption DEF IsDirect, RowOf, HasHandler
  <2> HIDE DEF Goes, straight, posts
  <2> QED
    BY <1>6, <1>9, <1>10, <1>12, <2>1, <2>2
<1>13. CASE RowOf(r).body # "own"
  <2>1. \/ /\ cache' = current
           /\ \/ \E o \in {"unsupported", "refused"} : Goes(Ended(r, o))
              \/ section = "NetPort" /\ current = NoDoc /\ Goes(straight)
        \/ /\ cache' = Put(current, [f \in Accepted(r) |-> c]) /\ current # NoDoc
           /\ \/ Goes(Ended(r, "refused"))
              \/ Goes(shares) /\ r.bad = {}
    BY <1>13 DEF Compose
  <2>2. section = "NetPort" => HasHandler
    BY RowsAssumption DEF HasHandler
  <2> HIDE DEF Goes, straight, shares
  <2> QED
    BY <1>6, <1>9, <1>11, <1>13, <2>1, <2>2
<1> QED
  BY <1>12, <1>13

LEMMA BeginSettled ==
  ASSUME Whole, NEW c \in Call, NEW s \in Used \cap SettersOf[section], NEW asked \in AskedOf(Setter[s]),
         NEW bad,
         calls[c].pc = "idle", Begin(c, s, asked, bad)
  PROVE  Settled
<1> DEFINE all == asked \cup Setter[s].always
           now == [f \in Field |-> {device[f]}]
           r == [Idle EXCEPT !.setter = s, !.asked = all, !.bad = bad, !.since = now]
           w == [r EXCEPT !.pc = "get"]
<1>1. /\ calls[c].asked = {} /\ calls[c].rewritten = {}
      /\ UNCHANGED <<section, baichuan_only, lacks, device, poll>>
      /\ cache \in Doc \cup {NoDoc}
  BY DEF Whole, IInv, CallInv, Noticed, Begin, fixed, Typed
<1>2. /\ IsRecord(r) /\ ~r.alias /\ r.via = "http" /\ r.gets = 0 /\ r.out = "none" /\ ~r.fresh
      /\ r.setter = s /\ r.asked = all /\ r.since = now /\ r.stored = {} /\ r.rewritten = {}
      /\ DOMAIN r.body = {} /\ DOMAIN r.taken = {} /\ DOMAIN r.wrote = {}
  <2>1. DOMAIN NoDoc = {}
    BY DEF NoDoc
  <2>2. /\ IsRecord(r) /\ ~r.alias /\ r.via = "http" /\ r.gets = 0 /\ r.out = "none" /\ ~r.fresh
        /\ r.setter = s /\ r.asked = all /\ r.since = now /\ r.stored = {} /\ r.rewritten = {}
        /\ r.body = NoDoc /\ r.taken = NoDoc /\ r.wrote = NoDoc
    <3>1. /\ IsRecord(Idle) /\ ~Idle.alias /\ Idle.via = "http" /\ Idle.gets = 0 /\ Idle.out = "none"
          /\ ~Idle.fresh
          /\ Idle.stored = {} /\ Idle.rewritten = {} /\ Idle.body = NoDoc /\ Idle.taken = NoDoc
          /\ Idle.wrote = NoDoc
      BY DEF IsRecord, Names, Idle
    <3> HIDE DEF all, now
    <3> QED
      BY <3>1 DEF IsRecord, Names
  <2> HIDE DEF r
  <2> QED
    BY <2>1, <2>2
<1>3. Ready(c, r)
  <2>1. asked \subseteq ToSet(Setter[s].args) /\ Setter[s].always \subseteq ToSet(Setter[s].args)
    BY RowsAssumption DEF AskedOf
  <2>2. all \subseteq ToSet(RowOf(r).args)
    BY <1>2, <2>1 DEF RowOf
  <2>3. \A f \in Field : device[f] \in now[f]
    OBVIOUS
  <2> HIDE DEF r, all, now
  <2> QED
    BY <1>1, <1>2, <2>2, <2>3 DEF Ready
<1>4. CASE Compose(c, r, cache, calls)
  <2> HIDE DEF r
  <2>1. Source(cache, calls) /\ Blank(c, r, cache)
    BY <1>1, <1>2 DEF Source, Blank
  <2> QED
    BY <1>1, <1>3, <1>4, <2>1, ComposeSettled
<1>5. CASE calls' = [calls EXCEPT ![c] = w] /\ cache' = cache
  <2>1. Alters(r, w, {"pc"}) /\ w.pc = "get"
    <3> HIDE DEF r
    <3> QED
      BY <1>2 DEF IsRecord, Names, Alters
  <2> HIDE DEF w, r, all, now
  <2>2. /\ ~w.alias /\ w.out = "none" /\ ~w.fresh /\ w.stored = {} /\ w.via = "http"
        /\ DOMAIN w.body = {} /\ DOMAIN w.taken = {} /\ DOMAIN w.wrote = {}
    BY <1>2, <2>1 DEF Alters, Names
  <2>3. /\ Still /\ calls' = [calls EXCEPT ![c] = w]
        /\ calls[c].asked \subseteq w.asked /\ calls[c].rewritten \subseteq w.rewritten
    BY <1>1, <1>5 DEF Still
  <2>4. /\ Asked /\ (\A d \in Call \ {c} : Follows(d)) /\ CacheStep(c) /\ GlobalTypes /\ calls'[c] = w
    BY <2>3, StillMove
  <2>5. Moves(c) /\ News(c)
    BY <1>1, <2>1, <2>2, <2>3, <2>4 DEF Moves, News
  <2>6. TypedCall(c)' /\ CleanCall(c)'
    BY <2>1, <2>2, <2>4 DEF TypedCall, CleanCall, Part, Sending
  <2> QED
    BY <2>4, <2>5, <2>6, OneSettled
<1> QED
  BY <1>4, <1>5 DEF Begin

LEMMA GetSkippedSettled ==
  ASSUME Whole, NEW c \in Call, GetSkipped(c)
  PROVE  Settled
<1> DEFINE r == [calls[c] EXCEPT !.tries = 0]
<1>1. /\ calls[c].pc = "get" /\ Compose(c, r, cache, calls)
      /\ UNCHANGED <<section, baichuan_only, lacks, device, poll>>
      /\ IsRecord(calls[c]) /\ TypedCall(c) /\ cache \in Doc \cup {NoDoc}
  BY DEF GetSkipped, fixed, Whole, IInv, CallInv, Typed
<1>2. Ready(c, r)
  BY ReadyAgain DEF GetSkipped, Whole
<1>3. Alters(calls[c], r, {"tries"})
  <2> DEFINE k == calls[c]
  <2>1. IsRecord(k)
    BY <1>1
  <2> HIDE DEF k
  <2>2. LET u == [k EXCEPT !.tries = 0] IN Alters(k, u, {"tries"})
    BY <2>1 DEF IsRecord, Names, Alters
  <2> QED
    BY <2>2 DEF k
<1> HIDE DEF r
<1>4. Blank(c, r, cache)
  <2>1. /\ r.body = calls[c].body /\ r.taken = calls[c].taken /\ r.stored = calls[c].stored
        /\ r.wrote = calls[c].wrote
        /\ r.setter = calls[c].setter /\ r.fresh = calls[c].fresh
    BY <1>3 DEF Alters, Names
  <2> QED
    BY <1>1, <2>1 DEF Blank, TypedCall
<1>5. Source(cache, calls)
  BY DEF Source
<1> QED
  BY <1>1, <1>2, <1>4, <1>5, ComposeSettled

LEMMA GotSettled ==
  ASSUME Whole, NEW c \in Call, Got(c)
  PROVE  Settled
<1> DEFINE k == calls[c]
           r == [k EXCEPT !.fresh = TRUE, !.tries = 0, !.seen = NoDoc]
<1>b. PICK b \in Routes : Compose(c, r, k.seen, Detached(calls, k.seen, b))
  BY DEF Got
<1> DEFINE current == k.seen
           cs == Detached(calls, current, b)
<1>1. /\ k.pc = "got" /\ Compose(c, r, current, cs) /\ UNCHANGED <<section, baichuan_only, lacks, device, poll>>
      /\ IsRecord(k) /\ TypedCall(c) /\ CleanCall(c) /\ cache \in Doc \cup {NoDoc} /\ section \in Docs
  BY <1>b DEF Got, fixed, Whole, IInv, Global, CallInv, Typed, Clean
<1>2. Ready(c, r)
  BY ReadyAgain DEF Got, Whole
<1>3. k.seen \in Doc /\ \A f \in Field : k.seen[f] \in k.since[f]
  BY <1>1 DEF TypedCall, CleanCall
<1>4. current = k.seen
  OBVIOUS
<1>5. Source(current, cs)
  BY <1>1, <1>3 DEF Source, Doc
<1>6. Alters(k, r, {"fresh", "tries", "seen"})
  <2> HIDE DEF k
  <2> QED
    BY <1>1 DEF IsRecord, Names, Alters
<1> HIDE DEF r, current, cs
<1>7. Blank(c, r, current)
  <2>1. /\ r.body = k.body /\ r.taken = k.taken /\ r.stored = k.stored /\ r.wrote = k.wrote
        /\ r.setter = k.setter /\ r.since = k.since
    BY <1>6 DEF Alters, Names
  <2>2. NoDoc \notin Doc
    BY <1>1, NoDocIsNoDocument
  <2>3. DOMAIN k.body = {} /\ DOMAIN k.taken = {} /\ k.stored = {}
    BY <1>1 DEF TypedCall
  <2>4. current \in Doc \cup {NoDoc} /\ (cache # NoDoc => current # NoDoc)
    BY <1>1, <1>3, <1>4, <2>2
  <2>5. \A f \in Field : current[f] \in r.since[f]
    BY <1>3, <1>4, <2>1
  <2> QED
    BY <1>1, <2>1, <2>3, <2>4, <2>5 DEF Blank
<1> QED
  BY <1>1, <1>2, <1>5, <1>7, ComposeSettled

-----------------------------------------------------------------------------
(* The invariant with the types and what the bodies may show.              *)
LEMMA InitWhole ==
  ASSUME Init
  PROVE  Whole
<1>1. /\ Idle.pc = "idle" /\ ~Idle.alias /\ Idle.body = NoDoc /\ Idle.taken = NoDoc /\ Idle.stored = {}
      /\ DOMAIN NoDoc = {}
  BY DEF Idle, NoDoc
<1>2. device \in Doc /\ {cache, poll} \subseteq Doc \cup {NoDoc}
  <2>1. device \in Doc
    BY DEF Init, Doc, Value
  <2> QED
    BY <2>1 DEF Init
<1>3. ASSUME NEW c \in Call PROVE TypedCall(c) /\ CleanCall(c)
  <2>1. calls[c] = Idle
    BY DEF Init
  <2> QED
    BY <1>1, <2>1 DEF TypedCall, CleanCall, Part, Running, Sending
<1> QED
  BY <1>2, <1>3, InitInv DEF Whole, Typed, Clean

LEMMA NextWhole ==
  ASSUME Whole, [Next]_vars
  PROVE  Whole' /\ \A d \in Call : News(d)
<1>1. ASSUME Settled PROVE Whole' /\ \A d \in Call : News(d)
  BY <1>1, NextInv DEF Whole, Settled
<1>2. CASE UNCHANGED vars \/ Poll
  BY <1>1, <1>2, QuietSettled DEF vars, Poll, fixed
<1>3. CASE PollMapped \/ AppChanges
  BY <1>1, <1>3, PollMappedSettled, AppChangesSettled
<1>4. ASSUME NEW c \in Call, Called(c) PROVE Whole' /\ \A d \in Call : News(d)
  BY <1>1, <1>4, BeginSettled DEF Called
<1>5. ASSUME NEW c \in Call,
             \/ GetAnswered(c) \/ GetSkipped(c) \/ GetLost(c) \/ Got(c)
             \/ PostServed(c) \/ Posted(c) \/ PostAnswerLost(c) \/ PostLost(c)
             \/ PostRejected(c) \/ PostByBaichuan(c)
             \/ BcFirst(c) \/ BcRead(c) \/ BcRefused(c) \/ BcWrite(c) \/ BcLast(c) \/ BcFailed(c)
             \/ BcAnswerLost(c)
             \/ RefreshAnswered(c) \/ RefreshSkipped(c) \/ Refreshed(c)
      PROVE  Whole' /\ \A d \in Call : News(d)
  BY <1>1, <1>5, GetAnsweredSettled, GetSkippedSettled, LostSettled, GotSettled, PostServedSettled,
     PostedSettled,
     PostAnswerLostSettled, PostRejectedSettled, PostByBaichuanSettled, BcFirstSettled, BcReadSettled,
     BcRefusedSettled, BcWriteSettled, BcLastSettled, BcFailedSettled, BcAnswerLostSettled,
     RefreshAnsweredSettled, RefreshSkippedSettled,
     RefreshedSettled
<1> QED
  BY <1>2, <1>3, <1>4, <1>5 DEF Next

LEMMA AlwaysWhole == Spec => []Whole
<1>1. Init => Whole
  BY InitWhole
<1>2. Whole /\ [Next]_vars => Whole'
  BY NextWhole
<1> QED
  BY <1>1, <1>2, PTL DEF Spec

Flags == baichuan_only \in BOOLEAN /\ baichuan_cmds \in BOOLEAN
Counts == lacks \subseteq Field /\ changed \in 0..MaxChanges /\ faults \in 0..MaxFaults

\* How a step changes the flags and counts the faults.
Switches ==
    /\ UNCHANGED fixed
    /\ changed' = changed \/ (changed < MaxChanges /\ changed' = changed + 1)
    /\ baichuan_cmds' = baichuan_cmds \/ \E c \in Call : Remembered(c)
    /\ faults' = faults \/ Fault

LEMMA NextSwitches ==
  ASSUME [Next]_vars
  PROVE  Switches
<1>1. CASE UNCHANGED vars
  BY <1>1 DEF Switches, vars, fixed
<1>2. CASE Poll \/ PollMapped \/ AppChanges
  BY <1>2 DEF Switches, Poll, PollMapped, AppChanges, fixed
<1>3. ASSUME NEW c \in Call, Called(c) PROVE Switches
  BY <1>3 DEF Switches, Called, Begin, fixed
<1>4. ASSUME NEW c \in Call, GetAnswered(c) \/ GetSkipped(c) \/ GetLost(c) \/ Got(c) PROVE Switches
  BY <1>4 DEF Switches, GetAnswered, GetSkipped, Skips, GetLost, Got, fixed
<1>5. ASSUME NEW c \in Call, PostServed(c) \/ Posted(c) \/ PostAnswerLost(c) \/ PostLost(c) PROVE Switches
  BY <1>5 DEF Switches, PostServed, Posted, PostAnswerLost, PostLost, fixed
<1>6. ASSUME NEW c \in Call, PostRejected(c) \/ PostByBaichuan(c) PROVE Switches
  BY <1>6 DEF Switches, PostRejected, PostByBaichuan, fixed
<1>7. ASSUME NEW c \in Call, BcFirst(c) \/ BcWrite(c) \/ BcLast(c) PROVE Switches
  BY <1>7 DEF Switches, BcFirst, BcWrite, BcLast, Stored, fixed
<1>8. ASSUME NEW c \in Call, BcRead(c) \/ BcRefused(c) \/ BcFailed(c) \/ BcAnswerLost(c) PROVE Switches
  BY <1>8 DEF Switches, BcRead, BcRefused, BcFailed, BcAnswerLost, fixed
<1>9. ASSUME NEW c \in Call, RefreshAnswered(c) \/ RefreshSkipped(c) \/ Refreshed(c) PROVE Switches
  BY <1>9 DEF Switches, RefreshAnswered, RefreshSkipped, Skips, Refreshed, fixed
<1> QED
  BY <1>1, <1>2, <1>3, <1>4, <1>5, <1>6, <1>7, <1>8, <1>9 DEF Next

LEMMA NextFlags ==
  ASSUME Flags, Switches
  PROVE  Flags'
<1>1. baichuan_cmds' \in BOOLEAN
  BY Zenon DEF Flags, Switches, Remembered
<1> QED
  BY <1>1, Zenon DEF Flags, Switches, fixed

LEMMA NextCounts ==
  ASSUME Counts, Switches
  PROVE  Counts'
<1>1. lacks' \subseteq Field'
  BY DEF Counts, Switches, fixed, Field
<1>2. changed' \in 0..MaxChanges
  BY DEF Counts, Switches
<1>3. faults' \in 0..MaxFaults
  BY DEF Counts, Switches, Fault
<1> QED
  BY <1>1, <1>2, <1>3 DEF Counts

(* Who waits for what, and what the document, the cache and the answer of  *)
(* the poll are: the cached dict is there while a call holds it, and no    *)
(* setter reads more than twice after its change.                          *)
THEOREM TypeCorrect == Spec => []TypeOK
<1>1. Init => Flags /\ Counts
  <2> SUFFICES ASSUME Init PROVE Flags /\ Counts
    OBVIOUS
  <2>1. Flags
    BY Zenon DEF Init, Flags
  <2>2. lacks \subseteq Field
    BY DEF Init
  <2>3. changed = 0 /\ faults = 0
    BY DEF Init
  <2> QED
    BY <2>1, <2>2, <2>3 DEF Counts
<1>2. Flags /\ Counts /\ [Next]_vars => Flags' /\ Counts'
  BY NextFlags, NextCounts, NextSwitches
<1>3. ASSUME Whole, Flags, Counts PROVE TypeOK
  <2>1. section \in Docs /\ device \in [Field -> Value] /\ {cache, poll} \subseteq [Field -> Value] \cup {NoDoc}
    BY <1>3 DEF Whole, IInv, Global, Typed, Doc
  <2>2. ASSUME NEW c \in Call
        PROVE  /\ Running(c) => calls[c].setter \in SettersOf[section] /\ calls[c].asked \subseteq Field
               /\ calls[c].alias => calls[c].pc \in {"post", "bc", "bcread", "bcwrite", "bclast"} /\ cache # NoDoc
               /\ calls[c].pc \in {"get", "got"} => calls[c].gets = 0
               /\ calls[c].pc \in {"refresh", "refreshed"} => calls[c].gets \in 1..2
    <3>1. Noticed(c) /\ Ways(calls[c]) /\ TypedCall(c)
      BY <1>3 DEF Whole, IInv, CallInv, Typed
    <3>2. Running(c) => calls[c].setter \in SettersOf[section] /\ calls[c].asked \subseteq Field
      BY <1>3, <3>1, AskedFields DEF Noticed, Running, Whole
    <3> QED
      BY <3>1, <3>2 DEF Ways, TypedCall, Sending
  <2> QED
    BY <1>3, <2>1, <2>2, Zenon DEF TypeOK, Flags, Counts
<1>4. Whole /\ Flags /\ Counts => TypeOK
  BY <1>3
<1> QED
  BY <1>1, <1>2, <1>4, AlwaysWhole, PTL DEF Spec

(* A setter that reads before its change, or that sends a part of the      *)
(* document only, never brings a field it was not asked for back to a value*)
(* the camera did not have since the call began, however many calls share  *)
(* the cached dict and whatever is lost; but for fields that the answer to *)
(* another task's read changed in that dict, and for values of other calls *)
(* that are yet to be stored, that Baichuan leaves out, or that share their*)
(* field with a third call (the setters of api.py, send_setting, the       *)
(* handlers of baichuan.py).                                               *)
THEOREM UnnamedIsKept == Spec => UnnamedKept
<1> DEFINE Step == \A c \in Call :
                      LET r == calls[c] IN
                      calls'[c].wrote # r.wrote /\ HasRead(r)
                         => \A f \in DOMAIN calls'[c].wrote \ (r.asked \cup r.rewritten) :
                               \/ calls'[c].wrote[f] \in r.since[f]
                               \/ \E d \in Call :
                                     /\ calls'[c].wrote[f] = d
                                     /\ \/ calls[d].out = "ok" => \/ f \in calls[d].rewritten
                                                                  \/ HasHandler /\ f \notin Handles
                                        \/ \E e \in Call \ {d} : f \in calls[e].asked
<1>1. ASSUME Whole, [Next]_vars PROVE [Step]_vars
  <2> SUFFICES ASSUME NEW c \in Call, calls'[c].wrote # calls[c].wrote, HasRead(calls[c]),
                      NEW f \in DOMAIN calls'[c].wrote \ (calls[c].asked \cup calls[c].rewritten)
               PROVE  \/ calls'[c].wrote[f] \in calls[c].since[f]
                      \/ \E d \in Call :
                            /\ calls'[c].wrote[f] = d
                            /\ \/ calls[d].out = "ok" => \/ f \in calls[d].rewritten
                                                         \/ HasHandler /\ f \notin Handles
                               \/ \E e \in Call \ {d} : f \in calls[e].asked
    OBVIOUS
  <2>1. Explained(calls'[c].wrote[f], f, calls[c].since)
    BY <1>1, NextWhole DEF News
  <2> QED
    BY <2>1 DEF Explained, Live, Excused
<1>2. Whole /\ [Next]_vars => [Step]_vars
  BY <1>1
<1> QED
  BY <1>2, AlwaysWhole, PTL DEF Spec, UnnamedKept
=============================================================================
