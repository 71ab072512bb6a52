----------------------------- MODULE HttpBatch ------------------------------
(***************************************************************************)
(* One call of Host.send with a batch of commands (api.py): the chunks,    *)
(* the commands taken out because Baichuan or nobody answers them, the     *)
(* answers that do not fit, the commands sent once more one by one, and    *)
(* the recursion of send, send_chunk and _parse_json with its exceptions.  *)
(* stack holds the frames of send_chunk, the innermost first.  Other tasks *)
(* only matter by what they add to baichuan_cmds and broken_cmds.  The     *)
(* session under it is HttpSession.                                        *)
(***************************************************************************)
EXTENDS Integers, Sequences, FiniteSets, FiniteSetsExt, Functions

CONSTANTS Body,             \* the commands of the call, in order, all different
          Name,             \* the cmd of each: two channels share one
          cmd_funcs,        \* the cmds that Baichuan knows
          Offline,          \* the commands for a channel that is offline
          MAX_CHUNK_ITEMS,
          RETRY_ATTEMPTS

Command == Range(Body)

ASSUME HttpBatchAssumption ==
    /\ Body \in Seq(Command) /\ Body # << >> /\ IsInjective(Body) /\ Command \subseteq DOMAIN Name /\ Offline \subseteq Command
    /\ MAX_CHUNK_ITEMS \in Nat \ {0} /\ RETRY_ATTEMPTS \in Nat \ {0}

VARIABLES
    stack,          \* the frames, Head the one that runs
    ret,            \* what the frame above Head left: an answer, an exception, or "none"
    baichuan_cmds,  \* cmds that go over Baichuan from now on
    broken_cmds,    \* cmds that are not sent any more
    baichuan_only,  \* there is no HTTP API
    cut             \* history: a body with commands taken out was sent again after an exception

vars == <<stack, ret, baichuan_cmds, broken_cmds, baichuan_only, cut>>

\* Answers: to which command, the class of the rspCode, and the Baichuan_fallback_succes flag.
Answer(c, code) == [to |-> c, code |-> code, flag |-> "none"]
Rejected == {"unsupported", "asleep"}   \* -4, -9, -16; and -12, -13, -17
HttpCode == Rejected \cup {"ok", "timeout"}   \* timeout: -8, and the codes nothing is done about
Code == HttpCode \cup {"baichuan", "only", "undecoded"}   \* made by the client

None == [how |-> "none"]
Returned(b, answers) == [how |-> "returned", body |-> b, answers |-> answers]
Raised(b, exc) == [how |-> "raised", body |-> b, exc |-> exc]

\* at: where the frame is; taken: the indexes that were filtered, with their code; popped: body has
\* lost them; todo and done: the commands sent separately, or the answers that are retried.
Frame(b, retry) ==
    [at |-> "enter", body |-> b, retry |-> retry - 1, taken |-> << >>, popped |-> FALSE,
     todo |-> << >>, done |-> << >>, global |-> FALSE, idxs |-> << >>]

Top == Head(stack)
Replace(f) == stack' = <<f>> \o Tail(stack)
Push(f, g) == stack' = <<g, f>> \o Tail(stack)

-----------------------------------------------------------------------------
(* send: the chunks of a long body.                                        *)

Chunks(b) ==
    LET n == (Len(b) + MAX_CHUNK_ITEMS - 1) \div MAX_CHUNK_ITEMS
    IN  [i \in 1..n |-> SubSeq(b, (i - 1) * MAX_CHUNK_ITEMS + 1, Min({i * MAX_CHUNK_ITEMS, Len(b)}))]

Init ==
    /\ stack = <<Frame(Chunks(Body)[1], RETRY_ATTEMPTS),
                 [Frame(Body, RETRY_ATTEMPTS) EXCEPT !.at = "chunks", !.todo = Tail(Chunks(Body))]>>
    /\ ret = None
    /\ baichuan_cmds \in SUBSET cmd_funcs
    /\ broken_cmds \in SUBSET Range(Name)
    /\ baichuan_only \in BOOLEAN
    /\ cut = FALSE

NextChunk ==
    /\ Len(stack) = 1 /\ ret.how = "returned" /\ Top.todo # << >>
    /\ Push([Top EXCEPT !.todo = Tail(@), !.done = @ \o ret.answers], Frame(Head(Top.todo), RETRY_ATTEMPTS))
    /\ ret' = None
    /\ UNCHANGED <<baichuan_cmds, broken_cmds, baichuan_only, cut>>

Finish ==
    /\ Len(stack) = 1 /\ ret.how # "none"
    /\ ret.how = "raised" \/ Top.todo = << >>
    /\ stack' = << >>
    /\ ret' = IF ret.how = "raised" THEN ret ELSE Returned(Body, Top.done \o ret.answers)
    /\ UNCHANGED <<baichuan_cmds, broken_cmds, baichuan_only, cut>>

-----------------------------------------------------------------------------
(* send_chunk up to the request.                                           *)

Return(answers) == stack' = Tail(stack) /\ ret' = Returned(Top.body, answers)
Raise(exc) == stack' = Tail(stack) /\ ret' = Raised(Top.body, exc)

\* The indexes is by rising index; the elements of b there; the body without the commands taken out.
InOrder(is) == CHOOSE q \in [1..Cardinality(is) -> is] : \A j, k \in DOMAIN q : j < k => q[j] < q[k]
Picked(b, is) == LET order == InOrder(is) IN [k \in DOMAIN order |-> b[order[k]]]
Filtered(f) == IF f.popped THEN f.body ELSE Picked(f.body, DOMAIN f.body \ DOMAIN f.taken)

\* re_insert_filtered: by rising index, each at its own place, or at the end when that is not reached
\* yet (list.insert); the answers keep their order around them.
Inserted(answers, taken) ==
    LET order == InOrder(DOMAIN taken)
        all   == 1..(Len(answers) + Len(order))
        place == [k \in DOMAIN order |-> Min({order[k], Len(answers) + k})]
        rest  == InOrder(all \ Range(place))
    IN  [p \in all |-> IF \E k \in DOMAIN order : place[k] = p
                       THEN taken[order[CHOOSE k \in DOMAIN order : place[k] = p]]
                       ELSE answers[CHOOSE k \in DOMAIN rest : rest[k] = p]]

\* _baichuan_alternative.
Alternative(b) ==
    \/ /\ \E i \in DOMAIN b : Name[b[i]] \in cmd_funcs
       /\ \E exc \in {"Reolink", "Other"} : Raise(exc)
    \/ \E flags \in [DOMAIN b -> {"yes", "no"}] :
          /\ \A i \in DOMAIN b : Name[b[i]] \notin cmd_funcs => flags[i] = "no"
          /\ Return([i \in DOMAIN b |-> [Answer(b[i], "only") EXCEPT !.flag = flags[i]]])

EnterOnly ==
    /\ ret.how = "none" /\ stack # << >> /\ Top.at = "enter" /\ baichuan_only
    /\ Alternative(Top.body)
    /\ UNCHANGED <<baichuan_cmds, broken_cmds, baichuan_only, cut>>

\* _login_open_port raises, or finds that there is no HTTP API.
EnterFailed ==
    /\ ret.how = "none" /\ stack # << >> /\ Top.at = "enter" /\ ~baichuan_only
    /\ \E exc \in {"Reolink", "Timeout"} : Raise(exc)
    /\ UNCHANGED <<baichuan_cmds, broken_cmds, baichuan_only, cut>>

EnterFound ==
    /\ ret.how = "none" /\ stack # << >> /\ Top.at = "enter" /\ ~baichuan_only
    /\ Len(stack) = 2 /\ Top = Frame(Chunks(Body)[1], RETRY_ATTEMPTS)
    /\ baichuan_only' = TRUE
    /\ UNCHANGED <<stack, ret, baichuan_cmds, broken_cmds, cut>>

\* Logged in: cmds of baichuan_cmds are run now, and stay in the body if that fails; broken ones are
\* taken out.
Enter ==
    /\ ret.how = "none" /\ stack # << >> /\ Top.at = "enter" /\ ~baichuan_only
    /\ LET b      == Top.body
           viaBc  == {i \in DOMAIN b : Name[b[i]] \in baichuan_cmds}
           broken == {i \in DOMAIN b : Name[b[i]] \in broken_cmds} \ viaBc
       IN  \/ \E done \in SUBSET viaBc :
                 LET taken == [i \in done \cup broken |-> Answer(b[i], IF i \in done THEN "baichuan" ELSE "timeout")]
                 IN  IF DOMAIN taken = DOMAIN b THEN Return(Inserted(<< >>, taken))
                     ELSE Replace([Top EXCEPT !.at = "post", !.taken = taken]) /\ UNCHANGED ret
           \/ viaBc # {} /\ Raise("Other")
    /\ UNCHANGED <<baichuan_cmds, broken_cmds, baichuan_only, cut>>

-----------------------------------------------------------------------------
(* The request and what comes of it.                                       *)

\* Mutant: the attempt is not counted.
ResendUncounted(b) ==
    /\ Replace(Frame(b, Top.retry + 1)) /\ ret' = None
    /\ cut' = (cut \/ (Top.popped /\ Top.taken # << >>) \/ Len(b) < Len(Top.body))

\* send(body, retry) from an except clause, which nothing else of the frame comes after.
Resend(b) ==
    /\ Replace(Frame(b, Top.retry)) /\ ret' = None
    /\ cut' = (cut \/ (Top.popped /\ Top.taken # << >>) \/ Len(b) < Len(Top.body))

\* send(body, retry) from inside of the try.
SendWhole(f) == Push([f EXCEPT !.at = "whole"], Frame(f.body, f.retry)) /\ UNCHANGED ret

\* The except clauses, for an error of the request or one raised by a frame above: the
\* ReolinkTimeoutError of a frame above is an asyncio.TimeoutError too, and the aiohttp session is
\* closed after its RuntimeError, unless another task has opened it again.
Except(b, exc) ==
    \/ exc \in {"Timeout", "Runtime"} /\ Top.retry > 0 /\ Resend(b)
    \/ /\ exc = "Timeout" => Top.retry = 0
       /\ stack' = Tail(stack) /\ ret' = Raised(b, exc) /\ UNCHANGED cut

Posting == ret.how = "none" /\ stack # << >> /\ Top.at = "post"

\* No answer: a timeout, a closed aiohttp session, or a connection error.
Unanswered ==
    /\ Posting
    /\ \/ \E exc \in {"Timeout", "Runtime"} : Except(Top.body, exc)
       \/ IF Top.retry > 0 THEN Resend(Top.body) ELSE Except(Top.body, "Reolink")
    /\ UNCHANGED <<baichuan_cmds, broken_cmds, baichuan_only>>

\* An HTTP status, a content type or a body that is an error at once.
Refused ==
    /\ Posting /\ Except(Top.body, "Reolink")
    /\ UNCHANGED <<baichuan_cmds, broken_cmds, baichuan_only>>

\* "please login first", 404, 502, or no JSON: the whole again.
Garbled ==
    /\ Posting
    /\ IF Top.retry > 0 THEN SendWhole(Top) /\ UNCHANGED cut ELSE Except(Top.body, "Reolink")
    /\ UNCHANGED <<baichuan_cmds, broken_cmds, baichuan_only>>

\* UnicodeDecodeError.
Undecodable ==
    /\ Posting
    /\ CASE Top.retry = 0 -> Except(Top.body, "Reolink")
         [] Top.retry = 1 /\ Len(Top.body) > 1 ->
               Replace([Top EXCEPT !.at = "apart", !.todo = Top.body]) /\ UNCHANGED <<ret, cut>>
         [] OTHER -> Resend(Top.body)
    /\ UNCHANGED <<baichuan_cmds, broken_cmds, baichuan_only>>

\* Another number of answers than commands; global: one error for all of them.
Mismatch ==
    /\ Posting /\ Len(Filtered(Top)) > 1
    /\ \E global \in BOOLEAN :
          LET f == [Top EXCEPT !.body = Filtered(Top), !.popped = TRUE, !.global = global]
          IN  CASE Top.retry = 0 -> Except(Top.body, "Reolink")
                [] Top.retry > 0 /\ (global \/ Top.retry = 1) ->
                      Replace([f EXCEPT !.at = "separate", !.todo = f.body]) /\ UNCHANGED <<ret, cut>>
                [] OTHER -> SendWhole(f) /\ UNCHANGED cut
    /\ UNCHANGED <<baichuan_cmds, broken_cmds, baichuan_only>>

\* One answer for each command: those that were rejected go over Baichuan, or are sent once more.
\* (The code counts the answers to several commands only; a single one is taken to get exactly one.)
Matched ==
    /\ Posting
    /\ \E codes \in [DOMAIN Filtered(Top) -> HttpCode] :
       LET sent     == Filtered(Top)
           answers  == Inserted([k \in DOMAIN sent |-> Answer(sent[k], codes[k])], Top.taken)
           cmd(i)   == Name[Top.body[i]]
           rejected == {i \in DOMAIN answers : answers[i].code \in Rejected /\ Top.body[i] \notin Offline}
           fallback == {i \in rejected : cmd(i) \notin baichuan_cmds /\ cmd(i) \in cmd_funcs}
           asleep   == {i \in rejected \ fallback : answers[i].code = "asleep"}
       IN  IF Top.retry = 0 THEN Return(answers) /\ UNCHANGED baichuan_cmds
           ELSE \E done \in SUBSET fallback :
                LET flagged == [i \in DOMAIN answers |->
                                  IF i \in fallback
                                  THEN [answers[i] EXCEPT !.flag = IF i \in done THEN "yes" ELSE "no"]
                                  ELSE answers[i]]
                IN  /\ baichuan_cmds' = baichuan_cmds \cup {cmd(i) : i \in done}
                    /\ IF asleep = {} THEN Return(flagged)
                       ELSE /\ Push([Top EXCEPT !.at = "again", !.done = flagged, !.idxs = InOrder(asleep)],
                                    Frame(Picked(Top.body, asleep), Top.retry))
                            /\ UNCHANGED ret
    /\ UNCHANGED <<broken_cmds, baichuan_only, cut>>

-----------------------------------------------------------------------------
(* What a frame does with the answers, or the exception, of the one it called. *)

Whole ==
    /\ ret.how # "none" /\ stack # << >> /\ Top.at = "whole"
    /\ IF ret.how = "raised" THEN Except(ret.body, ret.exc)
       ELSE /\ Return(IF Top.popped THEN Inserted(ret.answers, Top.taken) ELSE ret.answers)
            /\ UNCHANGED cut
    /\ UNCHANGED <<baichuan_cmds, broken_cmds, baichuan_only>>

\* Mutant: the new answers replace the first ones.
AgainAtFront ==
    /\ ret.how # "none" /\ stack # << >> /\ Top.at = "again"
    /\ IF ret.how = "raised" THEN Except(Top.body, ret.exc)
       ELSE /\ Return([i \in DOMAIN Top.done |->
                         IF i \in DOMAIN ret.answers THEN ret.answers[i] ELSE Top.done[i]])
            /\ UNCHANGED cut
    /\ UNCHANGED <<baichuan_cmds, broken_cmds, baichuan_only>>

\* The rejected commands were sent again.
Again ==
    /\ ret.how # "none" /\ stack # << >> /\ Top.at = "again"
    /\ IF ret.how = "raised" THEN Except(Top.body, ret.exc)
       ELSE /\ Return([i \in DOMAIN Top.done |->
                         IF \E k \in DOMAIN ret.answers : Top.idxs[k] = i
                         THEN ret.answers[CHOOSE k \in DOMAIN ret.answers : Top.idxs[k] = i]
                         ELSE Top.done[i]])
            /\ UNCHANGED cut
    /\ UNCHANGED <<baichuan_cmds, broken_cmds, baichuan_only>>

\* Mutant: every command sent separately gets all the attempts and one more.
SendNextOneMore(f) == Push([f EXCEPT !.todo = Tail(@)], Frame(<<Head(f.todo)>>, f.retry + 2)) /\ ret' = None

SendNext(f) == Push([f EXCEPT !.todo = Tail(@)], Frame(<<Head(f.todo)>>, f.retry + 1)) /\ ret' = None

\* Each command of a batch that did not fit is sent separately; after a global error any
\* ReolinkError of one counts as a timeout of its own.
StartSeparate ==
    /\ ret.how = "none" /\ stack # << >> /\ Top.at \in {"separate", "apart"}
    /\ SendNext(Top)
    /\ UNCHANGED <<baichuan_cmds, broken_cmds, baichuan_only, cut>>

Sent(f) == f.body[Len(f.body) - Len(f.todo)]

Separate ==
    /\ ret.how # "none" /\ stack # << >> /\ Top.at = "separate"
    /\ IF ret.how = "raised" /\ ~(Top.global /\ ret.exc \in {"Reolink", "Timeout"})
       THEN /\ Except(Top.body, IF ret.exc = "Timeout" THEN "Reolink" ELSE ret.exc)
            /\ UNCHANGED broken_cmds
       ELSE LET res == IF ret.how = "raised" THEN <<Answer(Sent(Top), "timeout")>> ELSE ret.answers
                f   == [Top EXCEPT !.done = @ \o res]
            IN  /\ broken_cmds' = IF res # << >> /\ res[1].code = "timeout"
                                  THEN broken_cmds \cup {Name[Sent(Top)]} ELSE broken_cmds
                /\ IF f.todo # << >> THEN SendNext(f) ELSE Return(Inserted(f.done, f.taken))
                /\ UNCHANGED cut
    /\ UNCHANGED <<baichuan_cmds, baichuan_only>>

\* The same after answers that could not be decoded, in the except clause.
Apart ==
    /\ ret.how # "none" /\ stack # << >> /\ Top.at = "apart"
    /\ IF ret.how = "raised" /\ ret.exc \notin {"Reolink", "Timeout"} THEN Raise(ret.exc)
       ELSE LET res == IF ret.how = "raised" THEN <<Answer(Sent(Top), "undecoded")>> ELSE ret.answers
                f   == [Top EXCEPT !.done = @ \o res]
            IN  IF f.todo # << >> THEN SendNext(f) ELSE Return(f.done)
    /\ UNCHANGED <<baichuan_cmds, broken_cmds, baichuan_only, cut>>

\* Another task finds that a cmd goes over Baichuan, or is broken.
OtherTask ==
    /\ stack # << >>
    /\ \/ \E cmd \in cmd_funcs : baichuan_cmds' = baichuan_cmds \cup {cmd} /\ UNCHANGED broken_cmds
       \/ \E cmd \in Range(Name) : broken_cmds' = broken_cmds \cup {cmd} /\ UNCHANGED baichuan_cmds
    /\ UNCHANGED <<stack, ret, baichuan_only, cut>>

Step == NextChunk \/ Finish \/ EnterOnly \/ EnterFailed \/ EnterFound \/ Enter
        \/ Unanswered \/ Refused \/ Garbled \/ Undecodable \/ Mismatch \/ Matched
        \/ Whole \/ Again \/ StartSeparate \/ Separate \/ Apart
Next == Step \/ OtherTask

\* Everything the call waits for answers or times out.
Spec == Init /\ [][Next]_vars /\ WF_vars(Step)

-----------------------------------------------------------------------------
(* Properties.                                                             *)

\* Type invariant; the recursion is never deeper than the retries and one command sent separately.
TypeOK ==
    /\ Len(stack) <= RETRY_ATTEMPTS + 2
    /\ baichuan_cmds \subseteq cmd_funcs /\ broken_cmds \subseteq Range(Name)
    /\ \A i \in DOMAIN stack :
          /\ stack[i].retry \in 0..(RETRY_ATTEMPTS - 1)
          /\ Range(stack[i].body) \subseteq Command
          /\ \A k \in DOMAIN stack[i].done : stack[i].done[k].code \in Code

IsAligned == stack = << >> /\ ret.how = "returned" =>
    /\ Len(ret.answers) = Len(Body)
    /\ \A i \in DOMAIN Body : ret.answers[i].to = Body[i]

\* The answers of send belong to the commands of the caller by their index, whatever was filtered,
\* split, repeated or answered over Baichuan; but for a batch that is sent again after an exception
\* when commands were already taken out of it.  (It rests on the camera giving a single command a
\* single answer, which the code does not check.)
AlignedUnlessCut == ~cut => IsAligned

\* What the comment of re_insert_filtered says: "the caller's index mapping is preserved".
Aligned == IsAligned

\* The call ends: neither the retries of retries nor the commands sent separately go on for ever.
Ends == <>(stack = << >>)
=============================================================================
