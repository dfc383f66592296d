---------------------------- MODULE AgentThread ----------------------------
(***************************************************************************)
(* The turns of an agent thread (Thread, crates/agent/src/thread.rs): the   *)
(* history of messages, the one pending assistant message that every turn   *)
(* writes through, the running turn, and the tasks of the turns.  A turn is *)
(* cancelled by the user, by the next prompt or by a truncation; its task   *)
(* then still runs until its tools are done, beside the task of the next    *)
(* turn.  All tasks run on the foreground executor: a step is what a task   *)
(* does between two awaits.                                                 *)
(*                                                                          *)
(* A turn uses one tool at most, named like the turn; its tool may start on *)
(* partial input.  Text is only "some".  Compaction of the history,         *)
(* subagents and token counts are left out.                                 *)
(***************************************************************************)
EXTENDS Integers, Sequences, SequencesExt, FiniteSets

CONSTANTS
    MaxTurns,      \* bound: prompts
    MaxAttempts,   \* max_attempts of the retry strategy
    MaxTruncates,  \* bound: truncations
    MaxRequests,   \* bound: requests of a turn
    MaxMessages,   \* bound: a history this long is flushed to by no idle cancel
    Prompts,       \* what starts turns, of "user" and "resume"
    Fallback,      \* the model has a fallback for what it refuses
    MaxOverlapped  \* bound: with so many overlapped turns, the user waits

ASSUME ThreadAssumption ==
    /\ MaxTurns \in Nat \ {0} /\ MaxAttempts \in Nat /\ MaxTruncates \in Nat
    /\ MaxRequests \in Nat \ {0} /\ MaxMessages \in Nat /\ Prompts \subseteq {"user", "resume"}
    /\ Fallback \in BOOLEAN /\ MaxOverlapped \in Nat

Turns == 1..MaxTurns
None == 0

VARIABLES
    messages,   \* the history
    pending,    \* pending_message, Blank when there is none
    running,    \* the turn in running_turn
    inputs,     \* streaming_tool_inputs of running_turn
    turn,       \* the task of each turn
    flushers,   \* turns whose cancel() task waits to flush
    truncates,  \* how much of MaxTruncates is used
    overlapped  \* history: the turns that did not have the thread to themselves

vars == <<messages, pending, running, inputs, turn, flushers, truncates, overlapped>>
user == <<flushers, truncates, overlapped>>

\* text: the turns that wrote some; uses, results: the turns whose tool it is
Blank == [text |-> {}, uses |-> {}, results |-> {}]
Opener(kind, t) == [kind |-> kind, turn |-> t, text |-> {}, uses |-> {}, results |-> {}]

NewTurn == [pc |-> "none", cancelled |-> FALSE, attempt |-> 0, asked |-> 0, ix |-> 0, stops |-> <<>>,
            use |-> "none", tool |-> <<>>, early |-> FALSE, fell |-> FALSE,
            why |-> "end"]

Init ==
    /\ messages = <<>> /\ pending = Blank /\ running = None /\ inputs = {}
    /\ turn = [t \in Turns |-> NewTurn]
    /\ flushers = {} /\ truncates = 0 /\ overlapped = {}

-----------------------------------------------------------------------------
By(p) == p.text \cup p.uses
HasContent(p) == By(p) # {}

\* flush_pending_message: tool uses without a result get one that says so
Flushed_Fault(msgs, p) ==
    IF HasContent(p)
    THEN Append(msgs, [kind |-> "agent", turn |-> None, text |-> p.text, uses |-> p.uses,
                       results |-> p.results])
    ELSE msgs
Flushed(msgs, p) ==
    IF HasContent(p)
    THEN Append(msgs, [kind |-> "agent", turn |-> None, text |-> p.text, uses |-> p.uses,
                       results |-> p.results \cup p.uses])
    ELSE msgs

MayAsk(r) == r.asked < MaxRequests

\* The next request of turn t, a fresh iteration of its loop
Ask(t, r, msgs, p) ==
    /\ turn' = [turn EXCEPT ![t] = [r EXCEPT !.pc = "asked", !.asked = @ + 1, !.tool = <<>>,
                                             !.early = FALSE]]
    /\ messages' = msgs /\ pending' = p

\* The task is over: what it held is gone, tools that still run included.
Over(r, outcome) ==
    [NewTurn EXCEPT !.pc = "ended", !.cancelled = r.cancelled, !.stops = r.stops \o outcome]

\* The tail of run_turn: a cancelled turn leaves everything to cancel()
End_FaultUnchecked(t, r, outcome, msgs, p) ==
    /\ turn' = [turn EXCEPT ![t] = Over(r, <<outcome>>)]
    /\ messages' = Flushed(msgs, p) /\ pending' = Blank
    /\ running' = IF r.cancelled THEN running ELSE None
End_FaultTake(t, r, outcome, msgs, p) ==
    /\ turn' = [turn EXCEPT ![t] = Over(r, IF r.cancelled THEN <<>> ELSE <<outcome>>)]
    /\ messages' = Flushed(msgs, p) /\ pending' = Blank /\ running' = None
End_FaultNoFlush(t, r, outcome, msgs, p) ==
    /\ turn' = [turn EXCEPT ![t] = Over(r, IF r.cancelled THEN <<>> ELSE <<outcome>>)]
    /\ messages' = IF ~r.cancelled /\ outcome = "refusal" THEN SubSeq(msgs, 1, r.ix) ELSE msgs
    /\ pending' = p /\ running' = IF r.cancelled THEN running ELSE None
End(t, r, outcome, msgs, p) ==
    /\ turn' = [turn EXCEPT ![t] = Over(r, IF r.cancelled THEN <<>> ELSE <<outcome>>)]
    /\ IF r.cancelled
       THEN messages' = msgs /\ pending' = p /\ UNCHANGED running
       ELSE /\ messages' = IF outcome = "refusal" THEN SubSeq(Flushed(msgs, p), 1, r.ix)
                           ELSE Flushed(msgs, p)
            /\ pending' = Blank /\ running' = None

\* What becomes of the input senders `in': they go with running_turn.
Senders(in) == inputs' = IF running' = None THEN {} ELSE in

-----------------------------------------------------------------------------
(* What the user does.                                                     *)

\* RunningTurn::cancel drops the turn's value, its input senders with it.
Stopped(r) == [r EXCEPT !.cancelled = TRUE, !.stops = Append(@, "cancelled")]
CancelRunning == flushers' = flushers \cup ({running} \ {None})

Started == {t \in Turns : turn[t].pc # "none"}
Busy(t) == turn[t].pc \notin {"none", "ended"} \/ t \in flushers
Quiet == \A t \in Turns : ~Busy(t)

\* The user prompts, flushes or truncates at any time.  The turns then under way,
\* and the new one, share the pending message.
MayAct == Quiet \/ Cardinality(overlapped) < MaxOverlapped
Overlaps(new) ==
    overlapped' = overlapped \cup IF Quiet THEN {} ELSE {t \in Turns : Busy(t)} \cup new

\* send and resume, then run_turn: the message, the old pending one after
\* it, cancel, and the new turn.
Prompt(kind) ==
    LET n == 1 + IF Started = {} THEN 0 ELSE CHOOSE t \in Started : \A s \in Started : s <= t
        msgs == Flushed(Append(messages, Opener(kind, n)), pending)
    IN  /\ n \in Turns
        /\ MayAct /\ Overlaps({n})
        /\ messages' = msgs /\ pending' = Blank
        /\ turn' = [t \in Turns |->
                      IF t = n THEN [NewTurn EXCEPT !.pc = "spawned", !.ix = Len(msgs) - 1]
                      ELSE IF t = running THEN Stopped(turn[t]) ELSE turn[t]]
        /\ CancelRunning
        /\ running' = n /\ inputs' = {}
        /\ UNCHANGED truncates
Send == "user" \in Prompts /\ Prompt("user")
Resume == "resume" \in Prompts /\ messages # <<>> /\ Prompt("resume")

Cancel ==
    /\ running # None
    /\ turn' = [turn EXCEPT ![running] = Stopped(@)]
    /\ CancelRunning
    /\ running' = None /\ inputs' = {}
    /\ UNCHANGED <<messages, pending, truncates, overlapped>>

\* Without a running turn cancel flushes at once.
CancelIdle ==
    /\ running = None /\ HasContent(pending)
    /\ MayAct /\ Overlaps({})
    /\ Len(messages) < MaxMessages
    /\ messages' = Flushed(messages, pending) /\ pending' = Blank
    /\ UNCHANGED <<running, inputs, turn, flushers, truncates>>

\* cancel, drop the pending message, cut the history before a user message
\* (or fail, when it is not found: what cancel flushed stays)
Truncate ==
    /\ truncates < MaxTruncates /\ truncates' = truncates + 1
    /\ MayAct /\ Overlaps({})
    /\ turn' = [t \in Turns |-> IF t = running THEN Stopped(turn[t]) ELSE turn[t]]
    /\ CancelRunning
    /\ running' = None /\ inputs' = {}
    /\ pending' = Blank
    /\ LET msgs == IF running = None THEN Flushed(messages, pending) ELSE messages
       IN  \/ \E i \in DOMAIN messages :
                  messages[i].kind = "user" /\ messages' = SubSeq(messages, 1, i - 1)
           \/ messages' = msgs

\* cancel's own task, once the turn's task is over
CancelFlush_Fault(t) ==
    /\ t \in flushers
    /\ flushers' = flushers \ {t}
    /\ messages' = Flushed(messages, pending) /\ pending' = Blank
    /\ UNCHANGED <<running, inputs, turn, truncates, overlapped>>
CancelFlush(t) ==
    /\ t \in flushers /\ turn[t].pc = "ended"
    /\ flushers' = flushers \ {t}
    /\ messages' = Flushed(messages, pending) /\ pending' = Blank
    /\ UNCHANGED <<running, inputs, turn, truncates, overlapped>>

-----------------------------------------------------------------------------
(* run_turn_internal: the stream of completion events.                     *)

FirstRequest(t) ==
    /\ turn[t].pc = "spawned"
    /\ Ask(t, turn[t], messages, pending)
    /\ UNCHANGED <<running, inputs, user>>

\* stream_completion is awaited by itself: no cancellation is seen until it
\* returns, with a stream or an error (a stream that fails at once).
RequestReturns(t) ==
    /\ turn[t].pc = "asked"
    /\ turn' = [turn EXCEPT ![t].pc = "open"]
    /\ UNCHANGED <<messages, pending, running, inputs, user>>

Streaming(t) == turn[t].pc \in {"open", "stream"}
Update(t, r) == turn' = [turn EXCEPT ![t] = [r EXCEPT !.pc = "stream"]]

StartMessage(t) ==
    /\ turn[t].pc = "open"
    /\ Update(t, turn[t])
    /\ messages' = Flushed(messages, pending) /\ pending' = Blank
    /\ UNCHANGED <<running, inputs, user>>

Text(t) ==
    /\ Streaming(t)
    /\ Update(t, turn[t])
    /\ pending' = [pending EXCEPT !.text = @ \cup {t}]
    /\ UNCHANGED <<messages, running, inputs, user>>

\* send_or_update_tool_use
Used(t) == pending' = [pending EXCEPT !.uses = @ \cup {t}]

\* A tool that takes partial input starts at once.  The tools are those of
\* running_turn: without one there is no tool, and an error for a result.
PartialToolUse(t) ==
    /\ Streaming(t) /\ turn[t].use = "none"
    /\ Used(t)
    /\ \/ /\ running = None
          /\ Update(t, [turn[t] EXCEPT !.use = "full", !.tool = <<"done">>])
          /\ UNCHANGED inputs
       \/ /\ running # None
          /\ Update(t, [turn[t] EXCEPT !.use = "partial", !.tool = <<"waiting">>])
          /\ inputs' = inputs \cup {t}
       \/ \* the tool takes its input whole
          /\ running # None
          /\ Update(t, [turn[t] EXCEPT !.use = "partial"])
          /\ UNCHANGED inputs
    /\ UNCHANGED <<messages, running, user>>

\* Complete input (or input that is no JSON) goes to the tool that waits for
\* it; without one waiting, the tool is run.
FullToolUse_Fault(t) ==
    /\ Streaming(t) /\ turn[t].use \in {"none", "partial"}
    /\ Used(t)
    /\ inputs' = inputs \ {t}
    /\ LET r == [turn[t] EXCEPT !.use = "full"]
       IN  Update(t, IF running = None THEN [r EXCEPT !.tool = Append(@, "done")]
                     ELSE [r EXCEPT !.tool = Append(@, "running")])
    /\ UNCHANGED <<messages, running, user>>
FullToolUse(t) ==
    /\ Streaming(t) /\ turn[t].use \in {"none", "partial"}
    /\ Used(t)
    /\ inputs' = inputs \ {t}
    /\ LET r == [turn[t] EXCEPT !.use = "full"]
       IN  Update(t, IF running = None THEN [r EXCEPT !.tool = Append(@, "done")]
                     ELSE IF t \in inputs
                     THEN [r EXCEPT !.tool = ReplaceAll(@, "waiting", "running")]
                     ELSE [r EXCEPT !.tool = Append(@, "running")])
    /\ UNCHANGED <<messages, running, user>>

-----------------------------------------------------------------------------
(* run_turn_internal: after the stream.                                    *)

\* All results are in: flush, then retry, stop, or ask again
Conclude_Fault(t, r, why, used, p) ==
    LET msgs == Flushed(messages, pending)
    IN  \/ End(t, r, IF why = "error" THEN "error" ELSE "end", msgs, Blank)
        \/ /\ why = "end" /\ used /\ MayAsk(r)
           /\ Ask(t, [r EXCEPT !.attempt = 0], msgs, [p EXCEPT !.uses = {}, !.text = {}])
           /\ UNCHANGED running
Conclude(t, r, why, used, p) ==
    LET msgs == Flushed(messages, p)
    IN  \/ \* the error can be retried
           /\ why = "error" /\ MayAsk(r) /\ r.attempt + 1 <= MaxAttempts
           /\ turn' = [turn EXCEPT ![t] = [r EXCEPT !.pc = "retry", !.attempt = @ + 1]]
           /\ messages' = msgs /\ pending' = Blank /\ UNCHANGED running
        \/ \* cancelled, failed, no tool was used, or a queued message waits
           End(t, r, IF why = "error" THEN "error" ELSE "end", msgs, Blank)
        \/ \* the results go back to the model
           /\ why = "end" /\ used /\ MayAsk(r)
           /\ Ask(t, [r EXCEPT !.attempt = 0], msgs, Blank) /\ UNCHANGED running

WithResult(t, p) == [p EXCEPT !.results = @ \cup {t}]

\* The senders of unfinished inputs are dropped, whichever turn is running by
\* now; results that came early are recorded, the others awaited.
Break(t, r, why, senders) ==
    LET p == IF r.early THEN WithResult(t, pending) ELSE pending
        s == [r EXCEPT !.use = IF @ = "none" THEN @ ELSE "full"]   \* one tool a turn
    IN  /\ IF r.tool = <<>>
           THEN Conclude(t, s, why, r.early, p)
           ELSE /\ turn' = [turn EXCEPT ![t] = [s EXCEPT !.pc = "tools", !.why = why]]
                /\ pending' = p
                /\ UNCHANGED <<messages, running>>
        /\ Senders(senders)
        /\ UNCHANGED user
AfterStream_Fault(t, r, why) == Break(t, r, why, inputs)
AfterStream(t, r, why) == Break(t, r, why, {})

StreamEnds(t) == Streaming(t) /\ AfterStream(t, turn[t], "end")
StreamFails(t) == Streaming(t) /\ AfterStream(t, turn[t], "error")
CancelSeen_Fault(t) ==
    turn[t].pc = "open" /\ turn[t].cancelled /\ AfterStream(t, turn[t], "cancelled")
CancelSeen(t) ==
    Streaming(t) /\ turn[t].cancelled /\ AfterStream(t, turn[t], "cancelled")

\* The error is not one of the model's: the loop returns with it at once, and
\* the tools are dropped.
MaxTokens(t) ==
    /\ Streaming(t)
    /\ End(t, turn[t], "max_tokens", messages, pending)
    /\ Senders(inputs)
    /\ UNCHANGED user

\* A refusal: ask another model, forgetting this answer and its tools, or end
Refused(t) ==
    /\ Streaming(t)
    /\ \/ /\ Fallback /\ ~turn[t].fell /\ MayAsk(turn[t])
          /\ Ask(t, [turn[t] EXCEPT !.fell = TRUE, !.use = "none"], messages, Blank)
          /\ UNCHANGED running
       \/ End(t, turn[t], "refusal", messages, pending)
    /\ Senders({})
    /\ UNCHANGED user

-----------------------------------------------------------------------------
(* Tools and retries.                                                      *)

\* A tool ends in its own time; one still waiting for input may fail.
ToolFinishes(t) ==
    \E k \in DOMAIN turn[t].tool, how \in {"failed", "done"} :
        /\ turn[t].tool[k] = "waiting" \/ (turn[t].tool[k] = "running" /\ how = "done")
        /\ turn' = [turn EXCEPT ![t].tool[k] = how]
        /\ UNCHANGED <<messages, pending, running, inputs, user>>

\* Its result while the stream is read: one that failed on input still
\* streaming ends the reading
EarlyResult(t) ==
    \E k \in DOMAIN turn[t].tool :
        LET r == [turn[t] EXCEPT !.tool = RemoveAt(@, k), !.early = TRUE]
        IN  /\ Streaming(t) /\ turn[t].tool[k] \in {"failed", "done"}
            /\ IF turn[t].tool[k] = "failed" /\ t \in inputs
               THEN AfterStream(t, r, "end")
               ELSE /\ turn' = [turn EXCEPT ![t] = r]
                    /\ UNCHANGED <<messages, pending, running, inputs, user>>

\* process_tool_result: into whatever message is pending by now
ToolResult(t) ==
    \E k \in DOMAIN turn[t].tool :
        LET r == [turn[t] EXCEPT !.tool = RemoveAt(@, k), !.early = TRUE]
        IN  /\ turn[t].pc = "tools" /\ turn[t].tool[k] \in {"failed", "done"}
            /\ IF r.tool = <<>>
               THEN Conclude(t, r, r.why, TRUE, WithResult(t, pending))
               ELSE /\ turn' = [turn EXCEPT ![t] = r]
                    /\ pending' = WithResult(t, pending)
                    /\ UNCHANGED <<messages, running>>
            /\ Senders(inputs)
            /\ UNCHANGED user

\* The delay is over: an answer that broke off without tools is resumed.
RetryTimer(t) ==
    LET resumes == messages # <<>> /\ Last(messages).kind = "agent" /\ Last(messages).results = {}
    IN  /\ turn[t].pc = "retry"
        /\ Ask(t, turn[t], IF resumes THEN Append(messages, Opener("resume", t)) ELSE messages,
               pending)
        /\ UNCHANGED <<running, inputs, user>>

RetryCancelled(t) ==
    /\ turn[t].pc = "retry" /\ turn[t].cancelled
    /\ End(t, turn[t], "end", messages, pending)
    /\ Senders(inputs)
    /\ UNCHANGED user

-----------------------------------------------------------------------------
\* What the turn's own task does when it is polled
Task(t) ==
    \/ FirstRequest(t) \/ EarlyResult(t) \/ CancelSeen(t) \/ ToolResult(t)
    \/ RetryTimer(t) \/ RetryCancelled(t)

\* What the model brings
Model(t) ==
    \/ RequestReturns(t) \/ StartMessage(t) \/ Text(t) \/ PartialToolUse(t) \/ FullToolUse(t)
    \/ StreamEnds(t) \/ StreamFails(t) \/ MaxTokens(t) \/ Refused(t)

AllOver == Quiet /\ Started = Turns /\ UNCHANGED vars

Next ==
    \/ Send \/ Resume \/ Cancel \/ CancelIdle \/ Truncate
    \/ \E t \in Turns : Task(t) \/ Model(t) \/ ToolFinishes(t) \/ CancelFlush(t)
    \/ AllOver

Spec == Init /\ [][Next]_vars

\* A tool with all its input, or none to come, finishes.
ToolsFinish(t) ==
    /\ t \in inputs => "running" \in Range(turn[t].tool)
    /\ ToolFinishes(t)

\* The executor polls what is ready; tools do not run for ever.
FairSpec ==
    /\ Spec
    /\ \A t \in Turns : WF_vars(Task(t)) /\ WF_vars(ToolsFinish(t)) /\ WF_vars(CancelFlush(t))

\* The model answers a request, by a stream or an error; its streams end or fail.
RequestsReturn == \A t \in Turns : WF_vars(RequestReturns(t))
StreamsEnd == \A t \in Turns : WF_vars(StreamEnds(t) \/ StreamFails(t))
-----------------------------------------------------------------------------
(* Properties.                                                             *)

Parts == SUBSET Turns

\* Types; a turn is not retried more often than max_attempts; input senders
\* exist only in a running turn.
TypeOK ==
    /\ \A m \in Range(messages) : m.kind \in {"user", "resume", "agent"} /\ m.turn \in Turns \cup {None}
    /\ pending \in [text : Parts, uses : Parts, results : Parts]
    /\ running \in Turns \cup {None}
    /\ inputs \in Parts /\ flushers \in Parts /\ overlapped \in Parts
    /\ running = None => inputs = {}
    /\ \A t \in Turns :
          /\ turn[t].pc \in {"none", "spawned", "asked", "open", "stream", "tools", "retry", "ended"}
          /\ turn[t].attempt <= MaxAttempts

\* Every tool use in the history has a result, whatever was cancelled when.
ToolUsesAnswered == \A m \in Range(messages) : m.uses \subseteq m.results

\* The channel of a turn gets one stop or error, "cancelled" if it was: never
\* a second one from its task, and none is missing when the task is over.
OneStop ==
    \A t \in Turns :
        /\ Len(turn[t].stops) <= 1
        /\ turn[t].cancelled => turn[t].stops = <<"cancelled">>
        /\ turn[t].pc = "ended" => Len(turn[t].stops) = 1

\* running_turn is the turn under way that was not cancelled: a cancelled
\* one's task never clears its successor.
RunningIsLive ==
    \A t \in Turns :
        (running = t) <=> (turn[t].pc \notin {"none", "ended"} /\ ~turn[t].cancelled)

\* No message of a request holds a tool result without the tool use it
\* answers, which the model's interface would refuse: at any time, of every
\* turn that had the thread to itself.  Only overlapping turns orphan results.
NoOrphanResults ==
    /\ (\E t \in Turns : turn[t].pc = "asked") => pending.results \ overlapped \subseteq pending.uses
    /\ \A m \in Range(messages) : m.results \ overlapped \subseteq m.uses

\* The tool of a turn that is neither cancelled nor overlapped is run once,
\* whether it started on partial input or not, and however early its result came.
ToolRunsOnce ==
    \A t \in Turns \ overlapped :
        ~turn[t].cancelled => Len(turn[t].tool) + (IF turn[t].early THEN 1 ELSE 0) <= 1

\* The answer of a turn that had the thread to itself stands after all prompts
\* up to its own and before all later ones, whatever turns overlapped before
\* and after it.
AnswersFollowPrompt ==
    \A i, j \in DOMAIN messages :
        i < j =>
          /\ messages[i].turn # None =>
                \A t \in By(messages[j]) \ overlapped : messages[i].turn <= t
          /\ messages[j].turn # None =>
                \A t \in By(messages[i]) \ overlapped : t <= messages[j].turn

\* A cancelled turn's task ends once its request has returned, whether or not
\* the stream goes on, its tools' inputs cut off if need be.
CancelledTurnEnds ==
    RequestsReturn => \A t \in Turns : turn[t].cancelled ~> turn[t].pc = "ended"

\* Every turn ends if the model answers and its streams end: no tool waits for
\* input that will not come.
EveryTurnEnds ==
    RequestsReturn /\ StreamsEnd => \A t \in Turns : turn[t].pc # "none" ~> turn[t].pc = "ended"

-----------------------------------------------------------------------------
\* What the code's comments say of overlapping turns and it does not keep;
\* section 5 of the README describes the behaviours.

\* The detached task of cancel() does not flush the message of a new turn.
\* Violated: it flushes what is pending when the old turn's tools are done.
FlushIsOwn == \A t \in flushers \ flushers' : \A b \in By(pending) : b <= t
FlushesOwnMessage == [][FlushIsOwn]_vars

\* What a truncation has removed does not come back (violated: an event taken
\* before the cancellation is seen starts a new pending message): the history holds an
\* answer only of turns whose prompt it holds.
TruncatedStaysGone ==
    \A m \in Range(messages) : \A t \in By(m) :
        \E o \in Range(messages) : o.turn = t
=============================================================================
