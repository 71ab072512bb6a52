------------------------------ MODULE Settings ------------------------------
(***************************************************************************)
(* Changing a setting of the camera while other tasks change and poll the  *)
(* same document: the setters of Setters.tla run over the HTTP exchange of *)
(* Host.send (one POST at a time, answers read after the mutex is free),   *)
(* its Baichuan alternative, and the cache that the answers are mapped     *)
(* into.  One document is followed; setters of different documents share   *)
(* no state.  A value is who asked for it: a call, "was" for what the      *)
(* camera had, "app" for a change made with another client.                *)
(***************************************************************************)
EXTENDS Setters, FiniteSets, Naturals

CONSTANTS Call,            \* the calls of setters that may be under way
          Used,            \* the setters they call
          Racing,          \* bound: those that run beside or after another call
          MaxAsked,        \* bound: arguments of one call
          MaxFaults,       \* bound: requests that fail
          MaxChanges,      \* bound: changes made with another client
          MaxLacking,      \* bound: fields without an element in the camera's XML
          MaxTogether,     \* bound: calls, changes with another client and such fields together
          RETRY_ATTEMPTS

ASSUME SettingsAssumption ==
    /\ Racing \subseteq Used /\ Used \subseteq DOMAIN Setter
    /\ {"was", "app"} \cap Call = {}
    /\ {MaxAsked, MaxFaults, MaxChanges, MaxLacking, MaxTogether} \subseteq Nat
    /\ RETRY_ATTEMPTS \in Nat \ {0}

\* What the rows and the handlers of Setters have in common.
ASSUME RowsAssumption ==
    /\ "NetPort" \in DOMAIN cmd_funcs
    /\ \A d \in DOMAIN cmd_funcs : cmd_funcs[d].first # {} => cmd_funcs[d].reads
    /\ \A s \in Used :
          /\ Setter[s].always \subseteq ToSet(Setter[s].args)
          /\ Setter[s].direct # {} => Setter[s].doc \in DOMAIN cmd_funcs
          /\ Setter[s].body = "own" /\ Setter[s].read = "fresh" => Setter[s].fill = {}

VARIABLES
    section,         \* the document followed
    baichuan_only,   \* the host has no HTTP API (Host.baichuan_only)
    lacks,           \* fields for which the camera's XML has no element
    baichuan_cmds,   \* the document's Set command is in Host.baichuan_cmds
    device,          \* the document on the camera
    cache,           \* Host._<section>_settings: the cached dict, NoDoc when there is none
    calls,           \* the setters under way
    poll,            \* the answer of get_states that is still to be mapped
    changed,         \* times another client has changed every field
    faults           \* requests that failed so far

vars == <<section, baichuan_only, lacks, baichuan_cmds, device, cache, calls, poll, changed, faults>>
fixed == <<section, baichuan_only, lacks>>

NoDoc == << >>
Docs == {Setter[s].doc : s \in Used}
FieldsUsed == [d \in Docs |->
    LET args == UNION {ToSet(Setter[s].args) : s \in Used \cap SettersOf[d]}
    IN  IF Cardinality(args) > 1 THEN args ELSE args \cup {"other"}]
Field == FieldsUsed[section]
Value == Call \cup {"was", "app"}
HasHandler == section \in DOMAIN cmd_funcs
Handler == cmd_funcs[section]

\* The fields that a handler does change in the camera's XML.
Handles == Handler.handles \ lacks

Idle == [pc |-> "idle", setter |-> "none", asked |-> {}, bad |-> {}, via |-> "http", out |-> "none",
         alias |-> FALSE, body |-> NoDoc, taken |-> NoDoc, seen |-> NoDoc, fresh |-> FALSE,
         tries |-> 0, gets |-> 0,
         wrote |-> NoDoc, since |-> NoDoc, stored |-> {}, rewritten |-> {}]
Ended(r, out) == [Idle EXCEPT !.pc = "end", !.out = out, !.setter = r.setter, !.asked = r.asked,
                             !.rewritten = r.rewritten]

Running(c)  == calls[c].pc \notin {"idle", "end"}
RowOf(r)    == Setter[r.setter]
IsDirect(r) == r.asked \cap RowOf(r).direct # {}
Again(r)    == r.tries + 1 < RETRY_ATTEMPTS

\* Mutant: takes the dict out of the cache once more when it sends.
ContentOfCache(c) == IF RowOf(calls[c]).body = "cache" THEN cache ELSE calls[c].body

\* The body as it would be serialised now: the cached dict itself, or a dict of the call's own.
Content(c) == IF calls[c].alias THEN cache ELSE calls[c].body

Put(document, part) == [f \in DOMAIN document |-> IF f \in DOMAIN part THEN part[f] ELSE document[f]]
Only(part, fields) == [f \in DOMAIN part \cap fields |-> part[f]]

-----------------------------------------------------------------------------
(* History, for each call: since, the values each field has had since the *)
(* call began or, for a field it was asked, since it wrote it; stored, the *)
(* fields it had the camera store as it was asked; rewritten, the fields   *)
(* that an answer for another task changed in the dict that the call holds.*)

Noted(cs, new) ==
    [c \in Call |-> IF cs[c].pc \in {"idle", "end"} THEN cs[c]
                    ELSE [cs[c] EXCEPT !.since = [f \in Field |-> @[f] \cup {new[f]}]]]

\* Call c, going on as r, has the camera store part.
Store(c, r, part) ==
    /\ device' = Put(device, part)
    /\ calls' = [Noted(calls, device') EXCEPT
                   ![c] = [r EXCEPT !.wrote = part,
                                    !.since = [f \in Field |->
                                                 (IF f \in DOMAIN part \cap r.asked THEN {} ELSE calls[c].since[f])
                                                 \cup {device'[f]}],
                                    !.stored = @ \cup {f \in DOMAIN part : part[f] = c}]]

-----------------------------------------------------------------------------
(* Init: whatever the first get_host_data and get_states have cached.      *)

Init ==
    /\ section \in Docs
    /\ baichuan_only \in BOOLEAN
    /\ lacks \in {l \in SUBSET (IF HasHandler THEN Handler.skips \cap Field ELSE {}) :
                   Cardinality(l) <= MaxLacking}
    /\ baichuan_cmds \in {b \in BOOLEAN : b => HasHandler}
    /\ device = [f \in Field |-> "was"]
    /\ cache \in IF baichuan_only /\ section \in HttpOnly THEN {NoDoc} ELSE {NoDoc, device}
    /\ calls = [c \in Call |-> Idle]
    /\ poll = NoDoc
    /\ changed = 0
    /\ faults = 0

Fault == faults < MaxFaults /\ faults' = faults + 1

\* Room for another call or change within the bound.
Room == Cardinality({c \in Call : calls[c].pc # "idle"}) + changed + Cardinality(lacks) < MaxTogether

-----------------------------------------------------------------------------
(* Mapping an answer into the cache: the same dict with new values, or a   *)
(* new dict, which leaves the bodies that alias the old one with it.       *)

\* A Get command too may be served by Baichuan, once or from now on, unless nothing comes of it here.
Routes == {byBaichuan \in BOOLEAN : (baichuan_only => byBaichuan) /\ (byBaichuan => section \notin HttpOnly)}

InPlace(byBaichuan) == cache # NoDoc /\ (byBaichuan \/ section \in UpdatedInPlace)

\* What that means for a call with record r.
Remapped(r, answer, byBaichuan) ==
    IF ~r.alias THEN r
    ELSE IF InPlace(byBaichuan)
    THEN [r EXCEPT !.rewritten = @ \cup {f \in Field : answer[f] # cache[f]}]
    ELSE [r EXCEPT !.alias = FALSE, !.body = cache]

Detached(cs, answer, byBaichuan) == [c \in Call |-> Remapped(cs[c], answer, byBaichuan)]

-----------------------------------------------------------------------------
(* Making the body, with dict current cached: the asked fields are written *)
(* in order, up to the first that is refused.                              *)

Accepted(r) ==
    LET args == RowOf(r).args
    IN  {args[i] : i \in {j \in DOMAIN args : args[j] \in r.asked
                            /\ \A k \in 1..j : args[k] \notin r.bad}}

OwnBody(c, r, current) ==
    [f \in r.asked \cup (RowOf(r).fill \cap DOMAIN current) |-> IF f \in r.asked THEN c ELSE current[f]]

Compose(c, r, current, cs) ==
    LET row     == RowOf(r)
        valid   == r.bad = {}
        Next(s) == calls' = [cs EXCEPT ![c] = s]
        End(o)  == Next(Ended(r, o))
        Straight == [r EXCEPT !.pc = "bc", !.via = "direct", !.taken = OwnBody(c, r, current)]
    IN  IF row.body = "own"
        THEN /\ cache' = current
             /\ IF row.read = "fresh" /\ current = NoDoc THEN End("unsupported")
                ELSE IF IsDirect(r) /\ (valid \/ Handler.checks) THEN Next(Straight)
                ELSE IF valid THEN Next([r EXCEPT !.pc = "post", !.body = OwnBody(c, r, current)])
                ELSE End("refused")
        ELSE IF current = NoDoc
        THEN /\ cache' = current
             /\ IF section = "NetPort" THEN Next(Straight) ELSE End("unsupported")
        ELSE /\ cache' = Put(current, [f \in Accepted(r) |-> c])
             /\ IF valid THEN Next([r EXCEPT !.pc = "post", !.alias = TRUE]) ELSE End("refused")

Begin(c, s, asked, bad) ==
    LET row == Setter[s]
        r   == [Idle EXCEPT !.setter = s, !.asked = asked \cup row.always, !.bad = bad,
                            !.since = [f \in Field |-> {device[f]}]]
    IN  /\ \A d \in Call \ {c} : calls[d].pc = "idle" \/ {s, calls[d].setter} \subseteq Racing
        /\ IF row.read = "fresh" \/ (row.read = "lazy" /\ cache = NoDoc)
           THEN /\ calls' = [calls EXCEPT ![c] = [r EXCEPT !.pc = "get"]]
                /\ UNCHANGED cache
           ELSE Compose(c, r, cache, calls)
        /\ UNCHANGED <<fixed, baichuan_cmds, device, poll, changed, faults>>

-----------------------------------------------------------------------------
(* get_state before the change.                                            *)

GetAnswered(c) ==
    /\ calls[c].pc = "get" /\ Routes # {}
    /\ calls' = [calls EXCEPT ![c].pc = "got", ![c].seen = device]
    /\ UNCHANGED <<fixed, baichuan_cmds, device, cache, poll, changed, faults>>

\* The answer has an error code, or has been mapped into something else: the setter goes on with what
\* is cached.
Skips == Fault \/ (section \in HttpOnly /\ (baichuan_only \/ section \in Elsewhere) /\ UNCHANGED faults)

GetSkipped(c) ==
    /\ calls[c].pc = "get"
    /\ Skips
    /\ Compose(c, [calls[c] EXCEPT !.tries = 0], cache, calls)
    /\ UNCHANGED <<fixed, baichuan_cmds, device, poll, changed>>

\* No answer: send tries again, and raises after the last attempt.
NotAnswered(r) == IF Again(r) THEN [r EXCEPT !.tries = @ + 1] ELSE Ended(r, "raised")

GetLost(c) ==
    /\ calls[c].pc \in {"get", "refresh"}
    /\ Fault
    /\ calls' = [calls EXCEPT ![c] = NotAnswered(@)]
    /\ UNCHANGED <<fixed, baichuan_cmds, device, cache, poll, changed>>

\* Mutant: what is cached is not replaced by the answer.
GotKept(c) ==
    /\ calls[c].pc = "got"
    /\ Compose(c, [calls[c] EXCEPT !.fresh = TRUE, !.tries = 0, !.seen = NoDoc],
               IF cache # NoDoc THEN cache ELSE calls[c].seen, calls)
    /\ UNCHANGED <<fixed, baichuan_cmds, device, poll, changed, faults>>

\* (The turns of the event loop between a mapping from Baichuan and its use are taken as one step.)
Got(c) == \E byBaichuan \in Routes :
    /\ calls[c].pc = "got"
    /\ Compose(c, [calls[c] EXCEPT !.fresh = TRUE, !.tries = 0, !.seen = NoDoc],
               calls[c].seen, Detached(calls, calls[c].seen, byBaichuan))
    /\ UNCHANGED <<fixed, baichuan_cmds, device, poll, changed, faults>>

-----------------------------------------------------------------------------
(* send_setting: the body goes out by HTTP, serialised when it is posted.  *)

\* Whether a read follows: not when set_net_port had nothing cached and has sent by Baichuan.
ReadsAgain(r) ==
    LET row == RowOf(r)
    IN  IF r.via = "direct" /\ row.found # {} THEN (r.asked \cap row.found) \ lacks # {}
        ELSE r.asked \cap row.get # {} /\ ~(r.via = "direct" /\ row.body # "own")

\* Mutant: two reads after the change.
AfterSetTwice(r) ==
    LET n == r.gets + (IF ReadsAgain(r) THEN 2 ELSE 0)
    IN  IF n = 0 THEN Ended(r, "ok")
        ELSE [r EXCEPT !.pc = "refresh", !.gets = n, !.tries = 0, !.wrote = NoDoc]

AfterSet(r) ==
    LET n == r.gets + (IF ReadsAgain(r) THEN 1 ELSE 0)
    IN  IF n = 0 THEN Ended(r, "ok")
        ELSE [r EXCEPT !.pc = "refresh", !.gets = n, !.tries = 0, !.wrote = NoDoc]

\* A command that worked by Baichuan once is tried there first; when that fails it is posted.
Posts(c) == calls[c].pc = "post" /\ ~baichuan_only /\ (baichuan_cmds => calls[c].via = "failed")

PostServed(c) ==
    /\ Posts(c)
    /\ Store(c, [calls[c] EXCEPT !.pc = "posted", !.alias = FALSE, !.body = NoDoc], Content(c))
    /\ UNCHANGED <<fixed, baichuan_cmds, cache, poll, changed, faults>>

Posted(c) ==
    /\ calls[c].pc = "posted"
    /\ calls' = [calls EXCEPT ![c] = AfterSet(@)]
    /\ UNCHANGED <<fixed, baichuan_cmds, device, cache, poll, changed, faults>>

\* Stored, but the answer does not arrive: the next attempt posts the body again.
PostAnswerLost(c) ==
    /\ Posts(c)
    /\ Fault
    /\ Store(c, NotAnswered(calls[c]), Content(c))
    /\ UNCHANGED <<fixed, baichuan_cmds, cache, poll, changed>>

PostLost(c) ==
    /\ Posts(c)
    /\ Fault
    /\ calls' = [calls EXCEPT ![c] = NotAnswered(@)]
    /\ UNCHANGED <<fixed, baichuan_cmds, device, cache, poll, changed>>

Handed(r, via, content) == [r EXCEPT !.pc = "bc", !.via = via, !.taken = content]

\* The camera answers with an error: the Baichuan alternative when there is one that has not been
\* tried, another attempt when there is none, or ApiError.
PostRejected(c) ==
    /\ Posts(c)
    /\ Fault
    /\ \/ /\ Again(calls[c]) /\ HasHandler /\ ~baichuan_cmds
          /\ calls' = [calls EXCEPT ![c] = Handed(@, "fallback", Content(c))]
       \/ /\ Again(calls[c]) /\ (~HasHandler \/ baichuan_cmds)
          /\ calls' = [calls EXCEPT ![c].tries = @ + 1]
       \/ calls' = [calls EXCEPT ![c] = Ended(@, "raised")]
    /\ UNCHANGED <<fixed, baichuan_cmds, device, cache, poll, changed>>

PostByBaichuan(c) ==
    /\ calls[c].pc = "post" /\ ~Posts(c)
    /\ calls' = [calls EXCEPT ![c] = IF ~HasHandler THEN Ended(@, "raised")
                                     ELSE Handed(@, IF baichuan_only THEN "only" ELSE "first", Content(c))]
    /\ UNCHANGED <<fixed, baichuan_cmds, device, cache, poll, changed, faults>>

-----------------------------------------------------------------------------
(* The Baichuan handler of the document.                                   *)

\* Most handlers take the values when they are called, SetIsp when it has read.
Given(c) == IF Handler.early \/ calls[c].via = "direct" THEN calls[c].taken ELSE Content(c)
Known(c) == Only(Given(c), Handles)
First(c) == Only(Known(c), Handler.first)
Final(c) == Only(Known(c), Handler.last)
Rest(c)  == Only(Known(c), Handles \ (Handler.first \cup Handler.last))

\* A handler that has read sends the whole XML back, the others only the fields.
Sent(c) == IF Handler.reads THEN Put(Only(calls[c].seen, Field \ Handler.last), Rest(c)) ELSE Rest(c)

Served(r) == [r EXCEPT !.pc = "posted", !.gets = IF Handler.again /\ r.via # "direct" THEN 1 ELSE 0,
                       !.alias = FALSE, !.body = NoDoc, !.taken = NoDoc, !.seen = NoDoc]

\* The fallback worked: the next Set command of this document does not try HTTP any more.
Remembered(c) == baichuan_cmds' = (baichuan_cmds \/ calls[c].via = "fallback")

\* What follows a command that goes on with stage pc, or is the last one (pc = "posted").
Stored(c, part, pc) ==
    /\ Store(c, IF pc = "posted" THEN Served(calls[c]) ELSE [calls[c] EXCEPT !.pc = pc], part)
    /\ IF pc = "posted" THEN Remembered(c) ELSE UNCHANGED baichuan_cmds
    /\ UNCHANGED <<fixed, cache, poll, changed, faults>>

\* A handler is asked for what it has a first or a last command for.
Asks(c, fields) == DOMAIN Given(c) \cap fields # {}

BcFirst(c) ==
    /\ calls[c].pc = "bc" /\ Asks(c, Handler.first)
    /\ Stored(c, First(c), IF Asks(c, Handler.handles \ Handler.first) THEN "bcread" ELSE "posted")

BcRead(c) ==
    /\ calls[c].pc = "bcread" \/ (calls[c].pc = "bc" /\ ~Asks(c, Handler.first))
    /\ Handler.reads
    /\ LET cs == IF Handler.parses THEN Detached(calls, device, TRUE) ELSE calls
       IN  calls' = [cs EXCEPT ![c].pc = "bcwrite", ![c].seen = device]
    /\ cache' = IF Handler.parses THEN device ELSE cache
    /\ UNCHANGED <<fixed, baichuan_cmds, device, poll, changed, faults>>

\* A value is looked at when its element is there.
Refuses(c) == Handler.checks /\ calls[c].bad \ lacks # {}

BcRefused(c) ==
    /\ calls[c].pc = "bcwrite" /\ Refuses(c)
    /\ calls' = [calls EXCEPT ![c] = Ended(@, "refused")]
    /\ UNCHANGED <<fixed, baichuan_cmds, device, cache, poll, changed, faults>>

Writes(c) == (calls[c].pc = "bcwrite" /\ ~Refuses(c)) \/ (calls[c].pc = "bc" /\ ~Handler.reads)

BcWrite(c) ==
    /\ Writes(c)
    /\ Stored(c, Sent(c), IF Asks(c, Handler.last) THEN "bclast" ELSE "posted")

BcLast(c) ==
    /\ calls[c].pc = "bclast"
    /\ Stored(c, Final(c), "posted")

\* The handler ends with an error: what was tried by Baichuan first is posted.
Failing(r) == IF r.via = "first" THEN [r EXCEPT !.pc = "post", !.via = "failed", !.taken = NoDoc, !.seen = NoDoc]
              ELSE Ended(r, "raised")

BcFailed(c) ==
    /\ calls[c].pc \in {"bc", "bcread", "bcwrite", "bclast"}
    /\ Fault
    /\ calls' = [calls EXCEPT ![c] = Failing(@)]
    /\ UNCHANGED <<fixed, baichuan_cmds, device, cache, poll, changed>>

\* Stored, but the answer does not arrive.
BcAnswerLost(c) ==
    /\ Fault
    /\ \/ calls[c].pc = "bc" /\ Asks(c, Handler.first) /\ Store(c, Failing(calls[c]), First(c))
       \/ Writes(c) /\ Store(c, Failing(calls[c]), Sent(c))
       \/ calls[c].pc = "bclast" /\ Store(c, Failing(calls[c]), Final(c))
    /\ UNCHANGED <<fixed, baichuan_cmds, cache, poll, changed>>

-----------------------------------------------------------------------------
(* get_state after the change.                                             *)

OneRead(r) == IF r.gets = 1 THEN Ended(r, "ok")
              ELSE [r EXCEPT !.pc = "refresh", !.gets = @ - 1, !.tries = 0, !.seen = NoDoc]

RefreshAnswered(c) ==
    /\ calls[c].pc = "refresh" /\ Routes # {}
    /\ calls' = [calls EXCEPT ![c].pc = "refreshed", ![c].seen = device]
    /\ UNCHANGED <<fixed, baichuan_cmds, device, cache, poll, changed, faults>>

RefreshSkipped(c) ==
    /\ calls[c].pc = "refresh" /\ calls[c].via # "direct"
    /\ Skips
    /\ calls' = [calls EXCEPT ![c] = OneRead(@)]
    /\ UNCHANGED <<fixed, baichuan_cmds, device, cache, poll, changed>>

\* Mutant: setdefault where the cached dict must be updated.
RefreshedKept(c) ==
    /\ calls[c].pc = "refreshed"
    /\ cache' = IF InPlace(FALSE) THEN cache ELSE calls[c].seen
    /\ calls' = [calls EXCEPT ![c] = OneRead(@)]
    /\ UNCHANGED <<fixed, baichuan_cmds, device, poll, changed, faults>>

Refreshed(c) == \E byBaichuan \in Routes :
    /\ calls[c].pc = "refreshed" /\ (calls[c].via = "direct" => byBaichuan)
    /\ cache' = calls[c].seen
    /\ calls' = [Detached(calls, calls[c].seen, byBaichuan) EXCEPT ![c] = OneRead(@)]
    /\ UNCHANGED <<fixed, baichuan_cmds, device, poll, changed, faults>>

-----------------------------------------------------------------------------
(* The poll of get_states, and a change made with another client.          *)

Poll ==
    /\ poll = NoDoc /\ Routes # {}
    /\ poll' = device
    /\ UNCHANGED <<fixed, baichuan_cmds, device, cache, calls, changed, faults>>

PollMapped == \E byBaichuan \in Routes :
    /\ poll # NoDoc
    /\ cache' = poll
    /\ calls' = Detached(calls, poll, byBaichuan)
    /\ poll' = NoDoc
    /\ UNCHANGED <<fixed, baichuan_cmds, device, changed, faults>>

AppChanges ==
    /\ changed < MaxChanges /\ Room
    /\ changed' = changed + 1
    /\ device' = [f \in Field |-> "app"]
    /\ calls' = Noted(calls, device')
    /\ UNCHANGED <<fixed, baichuan_cmds, cache, poll, faults>>

AskedOf(row) == {a \in SUBSET (ToSet(row.args) \ row.always) : a # {} /\ Cardinality(a) <= MaxAsked}

Called(c) ==
    /\ calls[c].pc = "idle" /\ Room
    /\ \E s \in Used \cap SettersOf[section] : \E asked \in AskedOf(Setter[s]) :
          \E bad \in SUBSET (asked \cap Setter[s].checked) : Begin(c, s, asked, bad)

Next ==
    \/ \E c \in Call :
          \/ Called(c)
          \/ GetAnswered(c) \/ GetSkipped(c) \/ GetLost(c) \/ Got(c)
          \/ PostServed(c) \/ Posted(c) \/ PostAnswerLost(c) \/ PostLost(c)
          \/ PostRejected(c) \/ PostByBaichuan(c)
          \/ BcFirst(c) \/ BcRead(c) \/ BcRefused(c) \/ BcWrite(c) \/ BcLast(c) \/ BcFailed(c)
          \/ BcAnswerLost(c)
          \/ RefreshAnswered(c) \/ RefreshSkipped(c) \/ Refreshed(c)
    \/ Poll \/ PollMapped \/ AppChanges

Spec == Init /\ [][Next]_vars

-----------------------------------------------------------------------------
(* Properties.                                                             *)

\* Type invariant: who waits for what, and what the values are.
TypeOK ==
    /\ section \in Docs /\ baichuan_only \in BOOLEAN /\ lacks \subseteq Field /\ baichuan_cmds \in BOOLEAN
    /\ changed \in 0..MaxChanges /\ faults \in 0..MaxFaults
    /\ device \in [Field -> Value]
    /\ {cache, poll} \subseteq [Field -> Value] \cup {NoDoc}
    /\ \A c \in Call :
          /\ Running(c) => calls[c].setter \in SettersOf[section] /\ calls[c].asked \subseteq Field
          /\ calls[c].alias => calls[c].pc \in {"post", "bc", "bcread", "bcwrite", "bclast"} /\ cache # NoDoc
          /\ calls[c].pc \in {"get", "got"} => calls[c].gets = 0
          /\ calls[c].pc \in {"refresh", "refreshed"} => calls[c].gets \in 1..2

\* The call has seen the document it sends back, or sends the asked fields only.
HasRead(r) == (RowOf(r).body = "own" /\ RowOf(r).fill = {}) \/ (RowOf(r).read = "fresh" /\ r.fresh)

\* A setter that reads first and sends the whole document back, or that sends a part, never brings
\* a field it was not asked to change to a value the camera did not have since the call began: an old
\* value of the cache is not written over somebody else's change from before the call.  Excepted are
\* the fields that the answer to another task's read changed in the cached dict while the call held
\* it.  (Two calls share that dict, so one may carry what the other was asked and has not sent yet, or
\* will not send, for such an answer or because Baichuan leaves it out; and when two calls were asked
\* for the same field, a third may bring back the loser's value, taken from the dict before the
\* winner's was written.)
UnnamedKept ==
    [][\A c \in Call :
          LET r == calls[c] IN
          calls'[c].wrote # r.wrote /\ HasRead(r)
             => \A f \in DOMAIN calls'[c].wrote \ (r.asked \cup r.rewritten) :
                   \/ calls'[c].wrote[f] \in r.since[f]
                   \/ \E d \in Call :
                         /\ calls'[c].wrote[f] = d
                         /\ \/ calls[d].out = "ok" => \/ f \in calls[d].rewritten
                                                      \/ HasHandler /\ f \notin Handles
                            \/ \E e \in Call \ {d} : f \in calls[e].asked]_vars

\* What is asked and Baichuan changes (an HTTP body carries everything).
Carried(r) == IF r.via \notin {"http", "failed"} THEN r.asked \cap Handles ELSE r.asked

\* A setter that returns has had the camera store what was asked of it, even if the first attempt
\* was rejected or its answer lost, and another task polled or changed the same document; unless
\* Baichuan leaves the field out, another call asked for the same field, or the answer to another
\* task's read changed the field in the cached dict before it was sent.
Acknowledged ==
    [][\A c \in Call :
          Running(c) /\ calls'[c].out = "ok"
             => \A f \in Carried(calls[c]) \ calls[c].rewritten :
                   f \in calls[c].stored \/ \E d \in Call \ {c} : f \in calls[d].asked]_vars

\* When a setter returns and its last read was answered, the cache shows the asked fields as they
\* have been on the camera since the write, not as an older poll saw them.
ReadYourWrites ==
    [][\A c \in Call :
          calls[c].pc = "refreshed" /\ calls'[c].out = "ok"
             => \A f \in Carried(calls[c]) : cache'[f] \in calls[c].since[f]]_vars
=============================================================================
