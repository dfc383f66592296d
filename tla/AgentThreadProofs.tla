-------------------------- MODULE AgentThreadProofs --------------------------
(***************************************************************************)
(* Theorems about AgentThread, for any number of turns, requests, retries,  *)
(* truncations and overlaps.  The argument has two halves.  A step of a     *)
(* turn's task either lets the turn go on or ends it, and only the turn     *)
(* that was not cancelled touches running_turn.  And a turn that had the    *)
(* thread to itself is alone under way or waiting to be flushed, so that    *)
(* the one pending message is its own; what is pending while turns overlap  *)
(* is theirs, and gone when the last of them is over.                       *)
(***************************************************************************)
EXTENDS AgentThread, SequenceTheorems, TLAPS

Active == {"spawned", "asked", "open", "stream", "tools", "retry"}
Outcome == {"cancelled", "end", "error", "max_tokens", "refusal"}
ToolState == {"waiting", "running", "failed", "done"}

Message ==
    [kind : {"user", "resume", "agent"}, turn : Turns \cup {None},
     text : Parts, uses : Parts, results : Parts]
PendingMessage == [text : Parts, uses : Parts, results : Parts]
TurnTask ==
    [pc : Active \cup {"none", "ended"}, cancelled : BOOLEAN, attempt : 0..MaxAttempts,
     asked : Nat, ix : Nat, stops : Seq(Outcome), use : {"none", "partial", "full"},
     tool : Seq(ToolState), early : BOOLEAN, fell : BOOLEAN,
     why : {"end", "error", "cancelled"}]

\* Messages whose tool uses all have a result.
Answered == {m \in Message : m.uses \subseteq m.results}

Types ==
    /\ messages \in Seq(Answered) /\ pending \in PendingMessage
    /\ running \in Turns \cup {None} /\ inputs \in Parts /\ flushers \in Parts
    /\ turn \in [Turns -> TurnTask]

\* What the channel of a turn was told, by what became of the turn.
Told ==
    \A t \in Turns :
        /\ turn[t].cancelled => turn[t].stops = <<"cancelled">>
        /\ ~turn[t].cancelled /\ turn[t].pc # "ended" => turn[t].stops = <<>>
        /\ ~turn[t].cancelled /\ turn[t].pc = "ended" => Len(turn[t].stops) = 1

\* A turn that does not run has no tools, and one not begun is not cancelled.
AtRest ==
    \A t \in Turns :
        /\ turn[t].pc \notin Active => turn[t].tool = <<>>
        /\ turn[t].pc = "none" => ~turn[t].cancelled

\* The prompt of the running turn is in the history.
PromptInHistory == running # None => turn[running].ix <= Len(messages)

SendersRun == running = None => inputs = {}

\* Turns are started in their order.
InOrder == \E k \in 0..MaxTurns : Started = 1..k

Inv ==
    /\ Types /\ Told /\ AtRest /\ RunningIsLive /\ PromptInHistory /\ SendersRun /\ InOrder

-----------------------------------------------------------------------------
(* The history and the tasks keep their types.                             *)

LEMMA BlankIsPending == Blank \in PendingMessage /\ ~HasContent(Blank)
  BY DEF Blank, PendingMessage, Parts, HasContent, By

\* flush_pending_message answers the tool uses it flushes and drops nothing.
LEMMA FlushedHistory ==
    ASSUME NEW msgs \in Seq(Answered), NEW p \in PendingMessage
    PROVE  Flushed(msgs, p) \in Seq(Answered) /\ Len(msgs) <= Len(Flushed(msgs, p))
  <1>. DEFINE m == [kind |-> "agent", turn |-> None, text |-> p.text, uses |-> p.uses,
                    results |-> p.results \cup p.uses]
  <1>1. m \in Answered
    BY DEF Answered, Message, PendingMessage, Parts
  <1>2. Append(msgs, m) \in Seq(Answered) /\ Len(Append(msgs, m)) = Len(msgs) + 1
    BY <1>1
  <1>. QED
    BY <1>2 DEF Flushed

\* Cutting the history off keeps its messages.
LEMMA CutHistory ==
    ASSUME NEW msgs \in Seq(Answered), NEW n \in Nat, n <= Len(msgs)
    PROVE  SubSeq(msgs, 1, n) \in Seq(Answered) /\ Len(SubSeq(msgs, 1, n)) = n
  OBVIOUS

LEMMA OpenedHistory ==
    ASSUME NEW msgs \in Seq(Answered), NEW kind \in {"user", "resume"}, NEW t \in Turns
    PROVE  /\ Append(msgs, Opener(kind, t)) \in Seq(Answered)
           /\ Len(Append(msgs, Opener(kind, t))) = Len(msgs) + 1
  <1>1. Opener(kind, t) \in Answered
    BY DEF Opener, Answered, Message, Parts
  <1>. QED
    BY <1>1

\* A turn's task may be at any of its stages, with any tools.
LEMMA FreshTask == NewTurn \in TurnTask /\ NewTurn.tool = <<>> /\ ~NewTurn.cancelled
  BY ThreadAssumption DEF NewTurn, TurnTask

LEMMA ToldTask ==
    ASSUME NEW r \in TurnTask, NEW pc \in Active \cup {"none", "ended"},
           NEW cancelled \in BOOLEAN, NEW stops \in Seq(Outcome)
    PROVE  [r EXCEPT !.pc = pc, !.cancelled = cancelled, !.stops = stops] \in TurnTask
  BY DEF TurnTask

LEMMA AskingTask ==
    ASSUME NEW r \in TurnTask, NEW pc \in Active, NEW n \in Nat,
           NEW tool \in Seq(ToolState), NEW early \in BOOLEAN
    PROVE  [r EXCEPT !.pc = pc, !.asked = n, !.tool = tool, !.early = early] \in TurnTask
  BY DEF TurnTask

\* What no step of a turn's own task changes.
Same(t, r) ==
    /\ r \in TurnTask
    /\ r.cancelled = turn[t].cancelled /\ r.stops = turn[t].stops /\ r.ix = turn[t].ix

\* A step of the turn's task that lets it go on
GoesOn(t) ==
    /\ turn[t].pc \in Active
    /\ \E r : Same(t, r) /\ r.pc \in Active /\ turn' = [turn EXCEPT ![t] = r]
    /\ running' = running
    /\ messages' \in Seq(Answered) /\ Len(messages) <= Len(messages')
    /\ pending' \in PendingMessage

\* and one that ends it: a cancelled turn leaves running_turn alone.
Finishes(t) ==
    /\ turn[t].pc \in Active
    /\ \E r \in TurnTask :
          /\ turn' = [turn EXCEPT ![t] = r]
          /\ r.pc = "ended" /\ r.tool = <<>> /\ r.cancelled = turn[t].cancelled
          /\ IF turn[t].cancelled THEN r.stops = turn[t].stops ELSE Len(r.stops) = 1
    /\ IF turn[t].cancelled THEN running' = running /\ Len(messages) <= Len(messages')
                            ELSE running' = None
    /\ messages' \in Seq(Answered)
    /\ pending' \in PendingMessage

LEMMA AfterNothing == ASSUME NEW x \in Outcome PROVE <<>> \o <<x>> = <<x>>
  OBVIOUS

LEMMA EndFinishes ==
    ASSUME Inv, NEW t \in Turns, turn[t].pc \in Active, NEW r, Same(t, r),
           NEW msgs \in Seq(Answered), Len(messages) <= Len(msgs),
           NEW p \in PendingMessage, NEW outcome \in Outcome, End(t, r, outcome, msgs, p)
    PROVE  Finishes(t)
  <1>. DEFINE o == IF r.cancelled THEN <<>> ELSE <<outcome>>
              s == Over(r, o)
  <1>1. r.cancelled \in BOOLEAN /\ r.stops \in Seq(Outcome) /\ r.ix \in Nat
    BY DEF Same, TurnTask
  <1>2. r.stops \o o = (IF r.cancelled THEN r.stops ELSE <<outcome>>)
    <2>1. ~r.cancelled => r.stops = <<>>
      BY DEF Inv, Told, Same, Active
    <2>2. CASE r.cancelled
      BY <1>1, <2>2
    <2>3. CASE ~r.cancelled
      <3>1. r.stops = <<>> /\ o = <<outcome>>
        BY <2>1, <2>3
      <3>. QED
        BY <2>3, <3>1, AfterNothing
    <2>. QED
      BY <2>2, <2>3
  <1>3. r.stops \o o \in Seq(Outcome)
    BY <1>1, <1>2
  <1>4. /\ s \in TurnTask
        /\ s.pc = "ended" /\ s.tool = <<>> /\ s.cancelled = r.cancelled
        /\ s.stops = r.stops \o o
    <2>1. s = [NewTurn EXCEPT !.pc = "ended", !.cancelled = r.cancelled,
                              !.stops = r.stops \o o]
      BY DEF Over
    <2>2. s \in TurnTask
      <3>1. NewTurn \in TurnTask /\ "ended" \in Active \cup {"none", "ended"}
        BY FreshTask
      <3>. HIDE DEF s, o
      <3>. QED
        BY <1>1, <1>3, <2>1, <3>1, ToldTask
    <2>. QED
      BY <2>1, <2>2, FreshTask DEF TurnTask
  <1>5. turn' = [turn EXCEPT ![t] = s]
    BY DEF End
  <1>6. CASE r.cancelled
    <2>1. messages' = msgs /\ pending' = p /\ running' = running
      BY <1>6 DEF End
    <2>. QED
      BY <1>2, <1>4, <1>5, <1>6, <2>1 DEF Finishes, Same
  <1>7. CASE ~r.cancelled
    <2>1. r.ix <= Len(messages)
      <3>1. running = t /\ t # None
        BY <1>7 DEF Inv, RunningIsLive, Same, Active, Turns, None
      <3>. QED
        BY <3>1 DEF Inv, PromptInHistory, Same
    <2>2. r.ix <= Len(Flushed(msgs, p))
      <3>1. Len(messages) \in Nat /\ Len(msgs) \in Nat /\ Len(Flushed(msgs, p)) \in Nat
        <4>1. messages \in Seq(Answered)
          BY DEF Inv, Types
        <4>. QED
          BY <4>1, FlushedHistory, LenProperties
      <3>2. Len(msgs) <= Len(Flushed(msgs, p))
        BY FlushedHistory
      <3>. QED
        BY <1>1, <2>1, <3>1, <3>2
    <2>3. /\ messages' \in Seq(Answered) /\ pending' \in PendingMessage /\ running' = None
      BY <1>1, <1>7, <2>2, FlushedHistory, CutHistory, BlankIsPending DEF End
    <2>4. Len(s.stops) = 1
      BY <1>2, <1>4, <1>7
    <2>. QED
      BY <1>4, <1>5, <1>7, <2>3, <2>4 DEF Finishes, Same
  <1>. QED
    BY <1>6, <1>7

LEMMA AskGoesOn ==
    ASSUME NEW t \in Turns, turn[t].pc \in Active, NEW r, Same(t, r),
           NEW msgs \in Seq(Answered), Len(messages) <= Len(msgs),
           NEW p \in PendingMessage, Ask(t, r, msgs, p), running' = running
    PROVE  GoesOn(t)
  <1>. DEFINE s == [r EXCEPT !.pc = "asked", !.asked = @ + 1, !.tool = <<>>, !.early = FALSE]
  <1>1. Same(t, s) /\ s.pc \in Active
    <2>1. r.asked + 1 \in Nat /\ r \in TurnTask
      BY DEF Same, TurnTask
    <2>2. "asked" \in Active /\ <<>> \in Seq(ToolState)
      BY DEF Active
    <2>3. s \in TurnTask
      BY <2>1, <2>2, AskingTask
    <2>. QED
      BY <2>1, <2>2, <2>3 DEF Same, TurnTask
  <1>. QED
    BY <1>1 DEF Ask, GoesOn

LEMMA ResultPending ==
    ASSUME NEW p \in PendingMessage, NEW t \in Turns
    PROVE  WithResult(t, p) \in PendingMessage
  BY DEF WithResult, PendingMessage, Parts

\* The lists of tools a step makes are lists of tools.
LEMMA ToolLists ==
    ASSUME NEW tool \in Seq(ToolState)
    PROVE  /\ ReplaceAll(tool, "waiting", "running") \in Seq(ToolState)
           /\ Append(tool, "running") \in Seq(ToolState)
           /\ Append(tool, "done") \in Seq(ToolState)
           /\ \A k \in DOMAIN tool : RemoveAt(tool, k) \in Seq(ToolState)
           /\ \A k \in DOMAIN tool, how \in ToolState :
                 [tool EXCEPT ![k] = how] \in Seq(ToolState)
  <1>1. ReplaceAll(tool, "waiting", "running") \in Seq(ToolState)
    <2>1. Len(tool) \in Nat /\ \A i \in 1..Len(tool) : tool[i] \in ToolState
      BY ElementOfSeq, LenProperties
    <2>2. ReplaceAll(tool, "waiting", "running") \in [1..Len(tool) -> ToolState]
      BY <2>1 DEF ReplaceAll, ToolState
    <2>. QED
      BY <2>1, <2>2, SeqDef
  <1>2. Append(tool, "running") \in Seq(ToolState) /\ Append(tool, "done") \in Seq(ToolState)
    BY DEF ToolState
  <1>3. ASSUME NEW k \in DOMAIN tool PROVE RemoveAt(tool, k) \in Seq(ToolState)
    <2>1. k \in 1..Len(tool) /\ Len(tool) \in Nat
      BY LenProperties
    <2>2. SubSeq(tool, 1, k - 1) \in Seq(ToolState)
      BY <2>1
    <2>3. SubSeq(tool, k + 1, Len(tool)) \in Seq(ToolState)
      BY <2>1
    <2>. QED
      BY <2>2, <2>3 DEF RemoveAt
  <1>4. ASSUME NEW k \in DOMAIN tool, NEW how \in ToolState
        PROVE  [tool EXCEPT ![k] = how] \in Seq(ToolState)
    BY ExceptSeq, LenProperties
  <1>. QED
    BY <1>1, <1>2, <1>3, <1>4

\* Steps change a turn's task a few fields at a time.
LEMMA ToolTask ==
    ASSUME NEW t \in Turns, NEW r, Same(t, r), NEW tool \in Seq(ToolState)
    PROVE  /\ Same(t, [r EXCEPT !.tool = tool])
           /\ Same(t, [r EXCEPT !.tool = tool, !.early = TRUE])
  BY DEF Same, TurnTask

LEMMA UseTask ==
    ASSUME NEW t \in Turns, NEW r, Same(t, r), NEW use \in {"none", "partial", "full"}
    PROVE  /\ Same(t, [r EXCEPT !.use = use])
           /\ Same(t, [r EXCEPT !.fell = TRUE, !.use = use])
  BY DEF Same, TurnTask

LEMMA StageTask ==
    ASSUME NEW t \in Turns, NEW r, Same(t, r), NEW pc \in Active
    PROVE  Same(t, [r EXCEPT !.pc = pc]) /\ [r EXCEPT !.pc = pc].pc = pc
  BY DEF Same, TurnTask

LEMMA ToolsTask ==
    ASSUME NEW t \in Turns, NEW r, Same(t, r), NEW why \in {"end", "error", "cancelled"}
    PROVE  /\ Same(t, [r EXCEPT !.pc = "tools", !.why = why])
           /\ [r EXCEPT !.pc = "tools", !.why = why].pc \in Active
  BY ZenonT(30) DEF Same, TurnTask, Active

LEMMA AttemptTask ==
    ASSUME NEW t \in Turns, NEW r, Same(t, r)
    PROVE  Same(t, [r EXCEPT !.attempt = 0])
  BY ThreadAssumption, SMTT(30) DEF Same, TurnTask

LEMMA RetryTask ==
    ASSUME NEW t \in Turns, NEW r, Same(t, r), r.attempt + 1 <= MaxAttempts
    PROVE  /\ Same(t, [r EXCEPT !.pc = "retry", !.attempt = @ + 1])
           /\ [r EXCEPT !.pc = "retry", !.attempt = @ + 1].pc \in Active
  <1>1. r \in TurnTask /\ r.attempt + 1 \in 0..MaxAttempts /\ "retry" \in Active
    BY ThreadAssumption DEF Same, TurnTask, Active
  <1>. QED
    BY <1>1 DEF Same, TurnTask

-----------------------------------------------------------------------------
(* Every step of a turn's task lets it go on or ends it.                   *)

LEMMA ConcludeStep ==
    ASSUME Inv, NEW t \in Turns, turn[t].pc \in Active, NEW r, Same(t, r),
           NEW why \in {"end", "error", "cancelled"}, NEW used,
           NEW p \in PendingMessage, Conclude(t, r, why, used, p)
    PROVE  GoesOn(t) \/ Finishes(t)
  <1>. DEFINE msgs == Flushed(messages, p)
  <1>1. msgs \in Seq(Answered) /\ Len(messages) <= Len(msgs)
    BY FlushedHistory DEF Inv, Types
  <1>2. CASE /\ r.attempt + 1 <= MaxAttempts
             /\ turn' = [turn EXCEPT ![t] = [r EXCEPT !.pc = "retry", !.attempt = @ + 1]]
             /\ messages' = msgs /\ pending' = Blank /\ running' = running
    <2>. DEFINE s == [r EXCEPT !.pc = "retry", !.attempt = @ + 1]
    <2>1. Same(t, s) /\ s.pc \in Active
      BY <1>2, RetryTask
    <2>. HIDE DEF s, msgs
    <2>2. turn' = [turn EXCEPT ![t] = s]
      BY <1>2 DEF s
    <2>. QED
      BY <1>1, <1>2, <2>1, <2>2, BlankIsPending DEF GoesOn
  <1>3. CASE End(t, r, IF why = "error" THEN "error" ELSE "end", msgs, Blank)
    <2>1. (IF why = "error" THEN "error" ELSE "end") \in Outcome
      BY DEF Outcome
    <2>. QED
      BY <1>1, <1>3, <2>1, BlankIsPending, EndFinishes
  <1>4. CASE Ask(t, [r EXCEPT !.attempt = 0], msgs, Blank) /\ running' = running
    BY <1>1, <1>4, BlankIsPending, AttemptTask, AskGoesOn
  <1>. QED
    BY <1>2, <1>3, <1>4 DEF Conclude

\* A step of turn t as the other turns and the user see it
TaskStep(t) ==
    /\ GoesOn(t) \/ Finishes(t)
    /\ inputs' \in Parts
    /\ running' = None => inputs' = {}
    /\ flushers' = flushers

LEMMA BreakStep ==
    ASSUME Inv, NEW t \in Turns, turn[t].pc \in Active, NEW r, Same(t, r),
           NEW why \in {"end", "error", "cancelled"}, AfterStream(t, r, why)
    PROVE  TaskStep(t)
  <1>. DEFINE p == IF r.early THEN WithResult(t, pending) ELSE pending
              use == IF r.use = "none" THEN r.use ELSE "full"
              s == [r EXCEPT !.use = use]
  <1>1. p \in PendingMessage
    BY ResultPending DEF Inv, Types
  <1>2. Same(t, s)
    <2>1. use \in {"none", "partial", "full"}
      OBVIOUS
    <2>. HIDE DEF use
    <2>. QED
      BY <2>1, UseTask
  <1>3. inputs' = {} /\ flushers' = flushers
    BY DEF AfterStream, Break, Senders, user
  <1>4. \/ Conclude(t, s, why, r.early, p)
        \/ /\ turn' = [turn EXCEPT ![t] = [s EXCEPT !.pc = "tools", !.why = why]]
           /\ pending' = p /\ messages' = messages /\ running' = running
    BY DEF AfterStream, Break
  <1>. HIDE DEF p, s, use
  <1>5. CASE Conclude(t, s, why, r.early, p)
    BY <1>1, <1>2, <1>3, <1>5, ConcludeStep DEF TaskStep, Parts
  <1>6. CASE /\ turn' = [turn EXCEPT ![t] = [s EXCEPT !.pc = "tools", !.why = why]]
             /\ pending' = p /\ messages' = messages /\ running' = running
    <2>. DEFINE q == [s EXCEPT !.pc = "tools", !.why = why]
    <2>1. Same(t, q) /\ q.pc \in Active
      BY <1>2, ToolsTask
    <2>2. messages' \in Seq(Answered) /\ Len(messages) <= Len(messages')
      <3>1. messages \in Seq(Answered)
        BY DEF Inv, Types
      <3>. QED
        BY <1>6, <3>1
    <2>3. turn' = [turn EXCEPT ![t] = q]
      BY <1>6
    <2>. HIDE DEF q
    <2>4. GoesOn(t)
      BY <1>1, <1>6, <2>1, <2>2, <2>3 DEF GoesOn
    <2>. QED
      BY <1>3, <2>4 DEF TaskStep, Parts
  <1>. QED
    BY <1>4, <1>5, <1>6

LEMMA Typed ==
    ASSUME Inv
    PROVE  /\ messages \in Seq(Answered) /\ pending \in PendingMessage
           /\ turn \in [Turns -> TurnTask]
  BY DEF Inv, Types

LEMMA SelfSame ==
    ASSUME Inv, NEW t \in Turns
    PROVE  /\ Same(t, turn[t]) /\ turn[t] \in TurnTask /\ turn[t].tool \in Seq(ToolState)
           /\ messages \in Seq(Answered) /\ pending \in PendingMessage
           /\ running = None => inputs = {}
           /\ inputs \in Parts
  BY DEF Inv, Types, Same, TurnTask, SendersRun

\* An event of the model's stream leaves the turn reading.
LEMMA UpdateStep ==
    ASSUME Inv, NEW t \in Turns, Streaming(t), NEW r, Same(t, r), Update(t, r),
           messages' \in Seq(Answered), Len(messages) <= Len(messages'),
           pending' \in PendingMessage, running' = running,
           inputs' \in Parts, running = None => inputs' = {}, flushers' = flushers
    PROVE  TaskStep(t)
  <1>. DEFINE s == [r EXCEPT !.pc = "stream"]
  <1>1. "stream" \in Active /\ turn[t].pc \in Active
    BY DEF Active, Streaming
  <1>2. Same(t, s) /\ s.pc \in Active
    BY <1>1, StageTask
  <1>3. turn' = [turn EXCEPT ![t] = s]
    BY DEF Update
  <1>. HIDE DEF s
  <1>. QED
    BY <1>1, <1>2, <1>3 DEF TaskStep, GoesOn

\* A step that changes nothing but the turn's task.
LEMMA QuietStep ==
    ASSUME Inv, NEW t \in Turns, NEW r, Same(t, r), r.pc \in Active, turn[t].pc \in Active,
           turn' = [turn EXCEPT ![t] = r], UNCHANGED <<messages, pending, running, inputs>>,
           flushers' = flushers
    PROVE  TaskStep(t)
  <1>1. Len(messages) <= Len(messages)
    BY SelfSame, LenProperties
  <1>. QED
    BY <1>1, SelfSame DEF TaskStep, GoesOn

LEMMA StreamStep ==
    ASSUME Inv, NEW t \in Turns, Model(t) PROVE TaskStep(t)
  <1>. USE SelfSame
  <1>0. Streaming(t) => turn[t].pc \in Active
    BY DEF Streaming, Active
  <1>8. CASE RequestReturns(t)
    <2>. DEFINE r == [turn[t] EXCEPT !.pc = "open"]
    <2>1. "open" \in Active /\ turn[t].pc \in Active
      BY <1>8 DEF RequestReturns, Active
    <2>2. Same(t, r) /\ r.pc \in Active
      BY <2>1, StageTask
    <2>3. turn' = [turn EXCEPT ![t] = r]
      BY <1>8 DEF RequestReturns
    <2>. HIDE DEF r
    <2>. QED
      BY <1>8, <2>1, <2>2, <2>3, QuietStep DEF RequestReturns, user
  <1>1. CASE StartMessage(t)
    <2>1. /\ messages' \in Seq(Answered) /\ Len(messages) <= Len(messages')
          /\ pending' \in PendingMessage
      BY <1>1, FlushedHistory, BlankIsPending DEF StartMessage
    <2>. QED
      BY <1>1, <2>1, UpdateStep DEF StartMessage, Streaming, user
  <1>2. CASE Text(t)
    <2>1. pending' \in PendingMessage
      BY <1>2 DEF Text, PendingMessage, Parts
    <2>2. Len(messages) <= Len(messages)
      BY LenProperties
    <2>. QED
      BY <1>2, <2>1, <2>2, UpdateStep DEF Text, user
  <1>3. CASE PartialToolUse(t)
    <2>1. pending' \in PendingMessage
      BY <1>3 DEF PartialToolUse, Used, PendingMessage, Parts
    <2>2. Len(messages) <= Len(messages)
      BY LenProperties
    <2>3. <<"done">> \in Seq(ToolState) /\ <<"waiting">> \in Seq(ToolState)
      BY DEF ToolState
    <2>4. PICK r : Same(t, r) /\ Update(t, r)
      <3>1. ASSUME NEW use \in {"full", "partial"}, NEW tool \in Seq(ToolState)
            PROVE  Same(t, [turn[t] EXCEPT !.use = use, !.tool = tool])
        BY DEF Same, TurnTask
      <3>2. Same(t, [turn[t] EXCEPT !.use = "partial"])
        BY UseTask
      <3>3. \/ Update(t, [turn[t] EXCEPT !.use = "full", !.tool = <<"done">>])
            \/ Update(t, [turn[t] EXCEPT !.use = "partial", !.tool = <<"waiting">>])
            \/ Update(t, [turn[t] EXCEPT !.use = "partial"])
        BY <1>3 DEF PartialToolUse
      <3>. QED
        BY <2>3, <3>1, <3>2, <3>3
    <2>5. inputs' \in Parts /\ (running = None => inputs' = {})
      BY <1>3 DEF PartialToolUse, Parts
    <2>. QED
      BY <1>3, <2>1, <2>2, <2>4, <2>5, UpdateStep DEF PartialToolUse, user
  <1>4. CASE FullToolUse(t)
    <2>1. pending' \in PendingMessage
      BY <1>4 DEF FullToolUse, Used, PendingMessage, Parts
    <2>2. Len(messages) <= Len(messages)
      BY LenProperties
    <2>4. PICK r : Same(t, r) /\ Update(t, r)
      <3>. DEFINE r == [turn[t] EXCEPT !.use = "full"]
      <3>1. Same(t, r) /\ r.tool = turn[t].tool
        BY UseTask DEF TurnTask
      <3>2. \/ Update(t, [r EXCEPT !.tool = Append(r.tool, "done")])
            \/ Update(t, [r EXCEPT !.tool = ReplaceAll(r.tool, "waiting", "running")])
            \/ Update(t, [r EXCEPT !.tool = Append(r.tool, "running")])
        BY <1>4 DEF FullToolUse
      <3>. HIDE DEF r
      <3>. QED
        BY <3>1, <3>2, ToolLists, ToolTask
    <2>5. inputs' \in Parts /\ (running = None => inputs' = {})
      BY <1>4 DEF FullToolUse, Parts
    <2>. QED
      BY <1>4, <2>1, <2>2, <2>4, <2>5, UpdateStep DEF FullToolUse, user
  <1>5. CASE StreamEnds(t) \/ StreamFails(t)
    BY <1>0, <1>5, BreakStep DEF StreamEnds, StreamFails
  <1>6. CASE MaxTokens(t)
    <2>1. Len(messages) <= Len(messages) /\ "max_tokens" \in Outcome
      BY LenProperties DEF Outcome
    <2>2. Finishes(t)
      BY <1>0, <1>6, <2>1, EndFinishes DEF MaxTokens
    <2>. QED
      BY <1>6, <2>2 DEF MaxTokens, Senders, TaskStep, Parts, user
  <1>7. CASE Refused(t)
    <2>1. Len(messages) <= Len(messages) /\ "refusal" \in Outcome
      BY LenProperties DEF Outcome
    <2>2. Same(t, [turn[t] EXCEPT !.fell = TRUE, !.use = "none"])
      BY UseTask
    <2>3. ASSUME End(t, turn[t], "refusal", messages, pending) PROVE Finishes(t)
      BY <1>0, <1>7, <2>1, <2>3, EndFinishes DEF Refused
    <2>4. ASSUME Ask(t, [turn[t] EXCEPT !.fell = TRUE, !.use = "none"], messages, Blank),
                 running' = running
          PROVE  GoesOn(t)
      BY <1>0, <1>7, <2>1, <2>2, <2>4, BlankIsPending, AskGoesOn DEF Refused
    <2>5. GoesOn(t) \/ Finishes(t)
      BY <1>7, <2>3, <2>4 DEF Refused
    <2>. QED
      BY <1>7, <2>5 DEF Refused, Senders, TaskStep, Parts, user
  <1>. QED
    BY <1>1, <1>2, <1>3, <1>4, <1>5, <1>6, <1>7, <1>8 DEF Model

\* A result taken out of the turn's tools.
LEMMA TakenResult ==
    ASSUME Inv, NEW t \in Turns, NEW k \in DOMAIN turn[t].tool
    PROVE  Same(t, [turn[t] EXCEPT !.tool = RemoveAt(turn[t].tool, k), !.early = TRUE])
  BY SelfSame, ToolLists, ToolTask

LEMMA PolledStep ==
    ASSUME Inv, NEW t \in Turns, Task(t) PROVE TaskStep(t)
  <1>. USE SelfSame
  <1>0. /\ Streaming(t) => turn[t].pc \in Active
        /\ Len(messages) <= Len(messages) /\ "end" \in Outcome
    BY LenProperties DEF Streaming, Active, Outcome
  <1>1. CASE FirstRequest(t)
    <2>1. turn[t].pc \in Active
      BY <1>1 DEF FirstRequest, Active
    <2>2. GoesOn(t)
      BY <1>0, <1>1, <2>1, AskGoesOn DEF FirstRequest
    <2>. QED
      BY <1>1, <2>2 DEF FirstRequest, TaskStep, user, GoesOn
  <1>2. CASE EarlyResult(t)
    <2>1. PICK k \in DOMAIN turn[t].tool :
            LET r == [turn[t] EXCEPT !.tool = RemoveAt(@, k), !.early = TRUE]
            IN  /\ Streaming(t)
                /\ \/ AfterStream(t, r, "end")
                   \/ /\ turn' = [turn EXCEPT ![t] = r]
                      /\ UNCHANGED <<messages, pending, running, inputs, user>>
      BY <1>2 DEF EarlyResult
    <2>. DEFINE r == [turn[t] EXCEPT !.tool = RemoveAt(turn[t].tool, k), !.early = TRUE]
    <2>2. Same(t, r) /\ r.pc = turn[t].pc /\ turn[t].pc \in Active
      BY <1>0, <2>1, TakenResult DEF TurnTask
    <2>3. \/ AfterStream(t, r, "end")
          \/ /\ turn' = [turn EXCEPT ![t] = r]
             /\ UNCHANGED <<messages, pending, running, inputs, user>>
      BY <2>1
    <2>. HIDE DEF r
    <2>. QED
      BY <2>2, <2>3, BreakStep, QuietStep DEF user
  <1>3. CASE CancelSeen(t)
    BY <1>0, <1>3, BreakStep DEF CancelSeen
  <1>4. CASE ToolResult(t)
    <2>1. PICK k \in DOMAIN turn[t].tool :
            LET r == [turn[t] EXCEPT !.tool = RemoveAt(@, k), !.early = TRUE]
            IN  /\ turn[t].pc = "tools"
                /\ \/ Conclude(t, r, r.why, TRUE, WithResult(t, pending))
                   \/ /\ turn' = [turn EXCEPT ![t] = r]
                      /\ pending' = WithResult(t, pending)
                      /\ UNCHANGED <<messages, running>>
                /\ Senders(inputs)
                /\ UNCHANGED user
      BY <1>4 DEF ToolResult
    <2>. DEFINE r == [turn[t] EXCEPT !.tool = RemoveAt(turn[t].tool, k), !.early = TRUE]
    <2>2. /\ Same(t, r) /\ r.pc = turn[t].pc /\ turn[t].pc \in Active
          /\ r.why \in {"end", "error", "cancelled"}
      BY <2>1, TakenResult DEF TurnTask, Active
    <2>3. WithResult(t, pending) \in PendingMessage
      BY ResultPending
    <2>4. \/ Conclude(t, r, r.why, TRUE, WithResult(t, pending))
          \/ /\ turn' = [turn EXCEPT ![t] = r]
             /\ pending' = WithResult(t, pending)
             /\ UNCHANGED <<messages, running>>
      BY <2>1
    <2>. HIDE DEF r
    <2>5. GoesOn(t) \/ Finishes(t)
      <3>1. CASE Conclude(t, r, r.why, TRUE, WithResult(t, pending))
        BY <2>2, <2>3, <3>1, ConcludeStep
      <3>2. CASE /\ turn' = [turn EXCEPT ![t] = r]
                 /\ pending' = WithResult(t, pending)
                 /\ UNCHANGED <<messages, running>>
        BY <1>0, <2>2, <2>3, <3>2 DEF GoesOn
      <3>. QED
        BY <2>4, <3>1, <3>2
    <2>. QED
      BY <2>1, <2>5 DEF TaskStep, Senders, user, Parts
  <1>5. CASE RetryTimer(t)
    <2>. DEFINE resumed == Append(messages, Opener("resume", t))
    <2>1. resumed \in Seq(Answered) /\ Len(messages) <= Len(resumed)
      BY LenProperties, OpenedHistory
    <2>2. turn[t].pc \in Active
      BY <1>5 DEF RetryTimer, Active
    <2>3. \/ Ask(t, turn[t], resumed, pending)
          \/ Ask(t, turn[t], messages, pending)
      BY <1>5 DEF RetryTimer
    <2>. HIDE DEF resumed
    <2>4. GoesOn(t)
      BY <1>0, <1>5, <2>1, <2>2, <2>3, AskGoesOn DEF RetryTimer
    <2>. QED
      BY <1>5, <2>4 DEF RetryTimer, TaskStep, GoesOn, user
  <1>6. CASE RetryCancelled(t)
    <2>1. turn[t].pc \in Active
      BY <1>6 DEF RetryCancelled, Active
    <2>2. Finishes(t)
      BY <1>0, <1>6, <2>1, EndFinishes DEF RetryCancelled
    <2>. QED
      BY <1>6, <2>2 DEF RetryCancelled, Senders, TaskStep, Parts, user
  <1>. QED
    BY <1>1, <1>2, <1>3, <1>4, <1>5, <1>6 DEF Task

LEMMA FinishesToolStep ==
    ASSUME Inv, NEW t \in Turns, ToolFinishes(t) PROVE TaskStep(t)
  <1>. USE SelfSame
  <1>1. PICK k \in DOMAIN turn[t].tool, how \in {"failed", "done"} :
          /\ turn' = [turn EXCEPT ![t].tool[k] = how]
          /\ UNCHANGED <<messages, pending, running, inputs, user>>
    BY DEF ToolFinishes
  <1>. DEFINE tool == [turn[t].tool EXCEPT ![k] = how]
              r == [turn[t] EXCEPT !.tool = tool]
  <1>2. turn[t].pc \in Active
    <2>1. turn[t].tool # <<>>
      BY <1>1
    <2>. QED
      BY <2>1 DEF Inv, AtRest
  <1>3. tool \in Seq(ToolState)
    BY ToolLists DEF ToolState
  <1>4. turn' = [turn EXCEPT ![t] = r]
    BY <1>1
  <1>5. r.pc = turn[t].pc
    BY DEF TurnTask
  <1>. HIDE DEF tool
  <1>6. Same(t, r)
    BY <1>3, ToolTask
  <1>. HIDE DEF r
  <1>. QED
    BY <1>1, <1>2, <1>4, <1>5, <1>6, QuietStep DEF user

-----------------------------------------------------------------------------
(* The invariant of any user.                                              *)

LEMMA NoneIsNoTurn == \A t \in Turns : t # None
  BY DEF Turns, None

LEMMA TaskStepInv ==
    ASSUME Inv, NEW t \in Turns, TaskStep(t) PROVE Inv'
  <1>. USE SelfSame, NoneIsNoTurn
  <1>1. PICK r \in TurnTask :
          /\ turn' = [turn EXCEPT ![t] = r]
          /\ turn[t].pc \in Active
          /\ r.cancelled = turn[t].cancelled
          /\ \/ /\ r.pc \in Active /\ r.stops = turn[t].stops /\ r.ix = turn[t].ix
                /\ running' = running /\ Len(messages) <= Len(messages')
             \/ /\ r.pc = "ended" /\ r.tool = <<>>
                /\ IF turn[t].cancelled
                   THEN /\ r.stops = turn[t].stops
                        /\ running' = running /\ Len(messages) <= Len(messages')
                   ELSE Len(r.stops) = 1 /\ running' = None
    <2>1. CASE GoesOn(t)
      BY <2>1 DEF GoesOn, Same
    <2>2. CASE Finishes(t)
      BY <2>2 DEF Finishes
    <2>. QED
      BY <2>1, <2>2 DEF TaskStep
  <1>2. turn \in [Turns -> TurnTask]
    BY DEF Inv, Types
  <1>3. /\ turn'[t] = r
        /\ \A s \in Turns : s # t => turn'[s] = turn[s]
    BY <1>1, <1>2
  <1>4. Types'
    <2>1. messages' \in Seq(Answered) /\ pending' \in PendingMessage
      BY DEF TaskStep, GoesOn, Finishes
    <2>2. turn' \in [Turns -> TurnTask]
      BY <1>1, <1>2
    <2>3. running' \in Turns \cup {None}
      BY <1>1 DEF Inv, Types
    <2>4. inputs' \in Parts /\ flushers' \in Parts
      BY DEF TaskStep, Inv, Types
    <2>. QED
      BY <2>1, <2>2, <2>3, <2>4 DEF Types
  <1>5. Told'
    BY <1>1, <1>3 DEF Inv, Told, Active
  <1>6. AtRest'
    BY <1>1, <1>3 DEF Inv, AtRest, Active
  <1>7. RunningIsLive'
    BY <1>1, <1>3 DEF Inv, RunningIsLive, Active
  <1>8. PromptInHistory'
    <2>1. SUFFICES ASSUME running' # None PROVE turn'[running'].ix <= Len(messages')
      BY DEF PromptInHistory
    <2>2. running' = running /\ running \in Turns /\ Len(messages) <= Len(messages')
      BY <1>1, <2>1 DEF Inv, Types
    <2>3. turn'[running].ix = turn[running].ix
      <3>1. CASE running = t
        BY <1>1, <1>3, <2>1, <2>2, <3>1 DEF Inv, RunningIsLive
      <3>2. CASE running # t
        BY <1>3, <2>2, <3>2
      <3>. QED
        BY <3>1, <3>2
    <2>4. turn[running].ix <= Len(messages) /\ turn[running].ix \in Nat
      BY <2>1, <2>2, <1>2 DEF Inv, PromptInHistory, TurnTask
    <2>5. Len(messages) \in Nat /\ Len(messages') \in Nat
      BY <1>4, LenProperties DEF Types
    <2>. QED
      BY <2>2, <2>3, <2>4, <2>5
  <1>9. SendersRun'
    BY DEF TaskStep, SendersRun
  <1>10. InOrder'
    <2>1. Started' = Started
      BY <1>1, <1>3 DEF Started, Active
    <2>. QED
      BY <2>1 DEF Inv, InOrder
  <1>. QED
    BY <1>4, <1>5, <1>6, <1>7, <1>8, <1>9, <1>10 DEF Inv

\* The turn that is cancelled is told so, and had been told nothing.
LEMMA StoppedTurn ==
    ASSUME Inv, running # None
    PROVE  /\ running \in Turns /\ turn[running].pc \in Active
           /\ ~turn[running].cancelled
           /\ Stopped(turn[running]) \in TurnTask
           /\ Stopped(turn[running]).cancelled
           /\ Stopped(turn[running]).stops = <<"cancelled">>
           /\ Stopped(turn[running]).pc = turn[running].pc
           /\ Stopped(turn[running]).tool = turn[running].tool
  <1>1. running \in Turns /\ turn[running] \in TurnTask
    BY DEF Inv, Types
  <1>2. turn[running].pc \in Active /\ ~turn[running].cancelled
    BY <1>1 DEF Inv, RunningIsLive, Active, TurnTask
  <1>3. turn[running].stops = <<>>
    BY <1>1, <1>2 DEF Inv, Told, Active
  <1>4. Append(turn[running].stops, "cancelled") = <<"cancelled">>
    BY <1>3
  <1>5. Stopped(turn[running]) =
          [turn[running] EXCEPT !.cancelled = TRUE, !.stops = <<"cancelled">>]
    BY <1>4 DEF Stopped
  <1>6. <<"cancelled">> \in Seq(Outcome)
    BY DEF Outcome
  <1>. QED
    BY <1>1, <1>2, <1>5, <1>6 DEF TurnTask

\* Cancelling, which the user does alone or before a prompt or a truncation,
\* leaves no turn live.
CancelsRunning ==
    /\ turn' \in [Turns -> TurnTask]
    /\ \A t \in Turns :
          turn'[t] = IF t = running THEN Stopped(turn[t]) ELSE turn[t]
    /\ running' = None /\ inputs' = {}
    /\ CancelRunning

LEMMA CancelsInv ==
    ASSUME Inv, CancelsRunning,
           messages' \in Seq(Answered), pending' \in PendingMessage
    PROVE  Inv'
  <1>. USE SelfSame, NoneIsNoTurn
  <1>1. Types'
    BY DEF CancelsRunning, CancelRunning, Inv, Types, Parts
  <1>2. ASSUME NEW t \in Turns
        PROVE  /\ turn'[t].pc = turn[t].pc /\ turn'[t].tool = turn[t].tool
               /\ t = running =>
                    turn[t].pc \in Active /\ turn'[t].cancelled
                      /\ turn'[t].stops = <<"cancelled">>
               /\ t # running => turn'[t] = turn[t]
    BY StoppedTurn DEF CancelsRunning
  <1>3. Told'
    BY <1>2 DEF Inv, Told
  <1>4. AtRest'
    BY <1>2 DEF Inv, AtRest, Active
  <1>5. RunningIsLive'
    <2>1. ASSUME NEW t \in Turns
          PROVE  turn'[t].pc \in {"none", "ended"} \/ turn'[t].cancelled
      BY <1>2 DEF Inv, RunningIsLive
    <2>. QED
      BY <2>1 DEF CancelsRunning, RunningIsLive
  <1>6. PromptInHistory' /\ SendersRun'
    BY DEF CancelsRunning, PromptInHistory, SendersRun
  <1>7. InOrder'
    <2>1. Started' = Started
      BY <1>2 DEF Started
    <2>. QED
      BY <2>1 DEF Inv, InOrder
  <1>. QED
    BY <1>1, <1>3, <1>4, <1>5, <1>6, <1>7 DEF Inv

\* The number of the next turn: one that was not started.
NextNumber ==
    1 + IF Started = {} THEN 0 ELSE CHOOSE t \in Started : \A s \in Started : s <= t

LEMMA NextTurn ==
    ASSUME Inv, NextNumber \in Turns
    PROVE  /\ Started = 1..(NextNumber - 1)
           /\ turn[NextNumber].pc = "none" /\ NextNumber # running
  <1>1. PICK k \in 0..MaxTurns : Started = 1..k
    BY DEF Inv, InOrder
  <1>2. MaxTurns \in Nat /\ k \in Nat
    BY <1>1, ThreadAssumption
  <1>3. NextNumber = k + 1
    <2>1. CASE k = 0
      <3>1. Started = {}
        BY <1>1, <2>1
      <3>. QED
        BY <2>1, <3>1 DEF NextNumber
    <2>2. CASE k # 0
      <3>1. k \in Started /\ \A s \in Started : s <= k
        BY <1>1, <1>2, <2>2
      <3>2. \A t \in Started : (\A s \in Started : s <= t) => t = k
        BY <1>1, <1>2, <3>1
      <3>3. (CHOOSE t \in Started : \A s \in Started : s <= t) = k
        BY <3>1, <3>2
      <3>4. NextNumber = 1 + k
        BY <3>1, <3>3 DEF NextNumber
      <3>. QED
        BY <3>4, <1>2
    <2>. QED
      BY <2>1, <2>2
  <1>4. NextNumber \notin Started
    BY <1>1, <1>2, <1>3
  <1>5. turn[NextNumber].pc = "none"
    BY <1>4 DEF Started
  <1>6. NextNumber # running
    BY <1>5, StoppedTurn, NoneIsNoTurn DEF Active
  <1>. QED
    BY <1>1, <1>2, <1>3, <1>5, <1>6

LEMMA PromptInv ==
    ASSUME Inv, NEW kind \in {"user", "resume"}, Prompt(kind) PROVE Inv'
  <1>. USE Typed, NoneIsNoTurn
  <1>. DEFINE n == NextNumber
              opened == Append(messages, Opener(kind, n))
              msgs == Flushed(opened, pending)
              new == [NewTurn EXCEPT !.pc = "spawned", !.ix = Len(msgs) - 1]
  <1>1. n \in Turns
    BY DEF Prompt, NextNumber
  <1>2. Started = 1..(n - 1) /\ turn[n].pc = "none" /\ n # running
    BY <1>1, NextTurn
  <1>3. /\ messages' = msgs /\ pending' = Blank
        /\ turn' = [t \in Turns |-> IF t = n THEN new
                                    ELSE IF t = running THEN Stopped(turn[t]) ELSE turn[t]]
        /\ running' = n /\ inputs' = {} /\ CancelRunning
    BY DEF Prompt, NextNumber
  <1>. HIDE DEF n
  <1>4. opened \in Seq(Answered) /\ Len(opened) = Len(messages) + 1
    BY <1>1, OpenedHistory
  <1>5. /\ msgs \in Seq(Answered) /\ Len(msgs) \in Nat /\ Len(msgs) - 1 \in Nat
    <2>1. Len(messages) \in Nat
      BY LenProperties
    <2>. HIDE DEF opened
    <2>2. msgs \in Seq(Answered) /\ Len(opened) <= Len(msgs)
      BY <1>4, FlushedHistory
    <2>3. Len(msgs) \in Nat
      BY <2>2, LenProperties
    <2>. QED
      BY <1>4, <2>1, <2>2, <2>3
  <1>. HIDE DEF msgs
  <1>6. /\ new \in TurnTask /\ new.pc = "spawned" /\ ~new.cancelled /\ new.stops = <<>>
        /\ new.ix = Len(msgs) - 1
    <2>1. NewTurn \in TurnTask /\ "spawned" \in Active
      BY FreshTask DEF Active
    <2>2. new \in TurnTask /\ new.pc = "spawned" /\ new.ix = Len(msgs) - 1
      BY <1>5, <2>1 DEF TurnTask
    <2>. QED
      BY <2>2 DEF NewTurn
  <1>. HIDE DEF new
  <1>7. ASSUME NEW t \in Turns, t # n
        PROVE  /\ turn'[t].pc = turn[t].pc /\ turn'[t].tool = turn[t].tool
               /\ turn'[t] \in TurnTask
               /\ t = running =>
                    turn[t].pc \in Active /\ turn'[t].cancelled
                      /\ turn'[t].stops = <<"cancelled">>
               /\ t # running => turn'[t] = turn[t]
    BY <1>3, <1>7, StoppedTurn
  <1>8. turn'[n] = new
    BY <1>1, <1>3
  <1>9. Types'
    <2>1. turn' \in [Turns -> TurnTask]
      BY <1>3, <1>6, <1>7, <1>8
    <2>2. flushers' \in Parts /\ inputs' \in Parts
      BY <1>3 DEF CancelRunning, Inv, Types, Parts
    <2>. QED
      BY <1>1, <1>3, <1>5, <2>1, <2>2, BlankIsPending DEF Types
  <1>10. Told'
    BY <1>6, <1>7, <1>8 DEF Inv, Told
  <1>11. AtRest'
    BY <1>6, <1>7, <1>8 DEF Inv, AtRest, Active
  <1>12. RunningIsLive'
    <2>1. ASSUME NEW t \in Turns, t # n
          PROVE  turn'[t].pc \in {"none", "ended"} \/ turn'[t].cancelled
      BY <1>7, <2>1 DEF Inv, RunningIsLive
    <2>. QED
      BY <1>1, <1>3, <1>6, <1>8, <2>1 DEF RunningIsLive
  <1>13. PromptInHistory'
    BY <1>3, <1>5, <1>6, <1>8 DEF PromptInHistory
  <1>14. SendersRun'
    BY <1>3 DEF SendersRun
  <1>15. InOrder'
    <2>1. Started' = Started \cup {n}
      BY <1>1, <1>6, <1>7, <1>8 DEF Started
    <2>2. n \in 0..MaxTurns /\ 1..n = (1..(n - 1)) \cup {n}
      BY <1>1, ThreadAssumption DEF Turns
    <2>3. Started' = 1..n
      BY <1>2, <2>1, <2>2
    <2>. QED
      BY <2>2, <2>3 DEF InOrder
  <1>. QED
    BY <1>9, <1>10, <1>11, <1>12, <1>13, <1>14, <1>15 DEF Inv

LEMMA InitInv == Init => Inv
  <1>. SUFFICES ASSUME Init PROVE Inv
    OBVIOUS
  <1>1. \A t \in Turns : turn[t] = NewTurn
    BY DEF Init
  <1>2. Types
    <2>1. messages \in Seq(Answered)
      BY DEF Init
    <2>2. turn \in [Turns -> TurnTask]
      BY FreshTask DEF Init
    <2>. QED
      BY <2>1, <2>2, BlankIsPending DEF Init, Types, Parts
  <1>3. NewTurn.pc = "none" /\ NewTurn.stops = <<>>
    BY DEF NewTurn
  <1>4. Told /\ AtRest
    BY <1>1, <1>3, FreshTask DEF Told, AtRest
  <1>5. RunningIsLive /\ PromptInHistory /\ SendersRun
    BY <1>1, <1>3, NoneIsNoTurn DEF Init, RunningIsLive, PromptInHistory, SendersRun
  <1>6. InOrder
    <2>1. Started = 1..0
      BY <1>1, <1>3 DEF Started
    <2>. QED
      BY <2>1, ThreadAssumption DEF InOrder
  <1>. QED
    BY <1>2, <1>4, <1>5, <1>6 DEF Inv

\* Steps that only flush: the history grows by what is pending.
LEMMA FlushInv ==
    ASSUME Inv, messages' = Flushed(messages, pending), pending' = Blank,
           UNCHANGED <<running, inputs, turn>>, flushers' \in Parts
    PROVE  Inv'
  <1>1. /\ messages' \in Seq(Answered) /\ pending' \in PendingMessage
        /\ Len(messages) <= Len(messages')
    BY Typed, FlushedHistory, BlankIsPending
  <1>2. Types'
    BY <1>1 DEF Inv, Types
  <1>3. Told' /\ AtRest' /\ RunningIsLive' /\ SendersRun' /\ InOrder'
    BY DEF Inv, Told, AtRest, RunningIsLive, SendersRun, InOrder, Started
  <1>4. PromptInHistory'
    <2>1. SUFFICES ASSUME running # None PROVE turn[running].ix <= Len(messages')
      BY DEF PromptInHistory
    <2>2. turn[running].ix <= Len(messages) /\ turn[running].ix \in Nat
      BY <2>1 DEF Inv, Types, PromptInHistory, TurnTask
    <2>3. Len(messages) \in Nat /\ Len(messages') \in Nat
      BY <1>1, SelfSame, LenProperties
    <2>. QED
      BY <1>1, <2>2, <2>3
  <1>. QED
    BY <1>2, <1>3, <1>4 DEF Inv

LEMMA InvStep == ASSUME Inv, [Next]_vars PROVE Inv'
  <1>. USE Typed
  <1>1. CASE Send \/ Resume
    BY <1>1, PromptInv DEF Send, Resume
  <1>2. CASE Cancel
    <2>1. running \in Turns /\ Stopped(turn[running]) \in TurnTask
      BY <1>2, StoppedTurn DEF Cancel
    <2>2. turn' = [turn EXCEPT ![running] = Stopped(turn[running])]
      BY <1>2 DEF Cancel
    <2>3. CancelsRunning
      BY <1>2, <2>1, <2>2 DEF Cancel, CancelsRunning, Inv, Types
    <2>. QED
      BY <1>2, <2>3, CancelsInv DEF Cancel
  <1>3. CASE CancelIdle
    BY <1>3, FlushInv DEF CancelIdle, user, Inv, Types
  <1>4. CASE Truncate
    <2>1. turn' = [t \in Turns |-> IF t = running THEN Stopped(turn[t]) ELSE turn[t]]
      BY <1>4 DEF Truncate
    <2>2. \A t \in Turns : turn'[t] \in TurnTask
      BY <2>1, StoppedTurn, NoneIsNoTurn
    <2>3. CancelsRunning
      BY <1>4, <2>1, <2>2 DEF Truncate, CancelsRunning
    <2>4. messages' \in Seq(Answered)
      <3>1. ASSUME NEW i \in DOMAIN messages PROVE SubSeq(messages, 1, i - 1) \in Seq(Answered)
        BY LenProperties
      <3>. QED
        BY <1>4, <3>1, FlushedHistory DEF Truncate
    <2>. QED
      BY <1>4, <2>3, <2>4, BlankIsPending, CancelsInv DEF Truncate
  <1>5. ASSUME NEW t \in Turns, Task(t) \/ Model(t) \/ ToolFinishes(t) PROVE Inv'
    BY <1>5, PolledStep, StreamStep, FinishesToolStep, TaskStepInv
  <1>6. ASSUME NEW t \in Turns, CancelFlush(t) PROVE Inv'
    <2>1. flushers' \in Parts
      BY <1>6 DEF CancelFlush, Inv, Types, Parts
    <2>. QED
      BY <1>6, <2>1, FlushInv DEF CancelFlush
  <1>7. CASE UNCHANGED vars
    BY <1>7 DEF vars, Inv, Types, Told, AtRest, RunningIsLive, PromptInHistory, SendersRun,
        InOrder, Started
  <1>. QED
    BY <1>1, <1>2, <1>3, <1>4, <1>5, <1>6, <1>7 DEF Next, AllOver

\* A turn's task and its tools leave to the user what is the user's.
LEMMA KeepsUser ==
    ASSUME NEW t \in Turns, Task(t) \/ Model(t) \/ ToolFinishes(t)
    PROVE  UNCHANGED user
  <1>1. ASSUME NEW r, NEW why, AfterStream(t, r, why) PROVE UNCHANGED user
    BY <1>1 DEF AfterStream, Break
  <1>2. CASE Task(t)
    <2>1. CASE EarlyResult(t)
      BY <1>1, <2>1 DEF EarlyResult
    <2>2. CASE CancelSeen(t)
      BY <1>1, <2>2 DEF CancelSeen
    <2>3. CASE FirstRequest(t) \/ ToolResult(t) \/ RetryTimer(t) \/ RetryCancelled(t)
      BY <2>3 DEF FirstRequest, ToolResult, RetryTimer, RetryCancelled
    <2>. QED
      BY <1>2, <2>1, <2>2, <2>3 DEF Task
  <1>3. CASE Model(t)
    <2>1. CASE StreamEnds(t) \/ StreamFails(t)
      BY <1>1, <2>1 DEF StreamEnds, StreamFails
    <2>. QED
      BY <1>3, <2>1 DEF Model, RequestReturns, StartMessage, Text, PartialToolUse, FullToolUse,
          MaxTokens, Refused
  <1>. QED
    BY <1>2, <1>3 DEF ToolFinishes

\* The overlapped turns are turns.
Marked == overlapped \in Parts

LEMMA OverlappedTurns == Spec => []Marked
  <1>1. Marked /\ [Next]_vars => Marked'
    <2>. SUFFICES ASSUME overlapped \in Parts, [Next]_vars PROVE overlapped' \in Parts
      BY DEF Marked
    <2>1. CASE overlapped' = overlapped
      BY <2>1
    <2>2. ASSUME NEW new \in Parts, Overlaps(new) PROVE overlapped' \in Parts
      BY <2>2 DEF Overlaps, Parts
    <2>3. ASSUME NEW kind, Prompt(kind) PROVE \E new \in Parts : Overlaps(new)
      BY <2>3 DEF Prompt, Parts
    <2>4. CASE CancelIdle \/ Truncate
      BY <2>2, <2>4 DEF CancelIdle, Truncate, Parts
    <2>5. ASSUME NEW t \in Turns, Task(t) \/ Model(t) \/ ToolFinishes(t) \/ CancelFlush(t)
          PROVE  overlapped' = overlapped
      BY <2>5, KeepsUser DEF CancelFlush, user
    <2>6. CASE Cancel \/ AllOver \/ UNCHANGED vars
      BY <2>6 DEF Cancel, AllOver, vars
    <2>. QED
      BY <2>1, <2>2, <2>3, <2>4, <2>5, <2>6 DEF Next, Send, Resume
  <1>2. Init => Marked
    BY DEF Init, Parts, Marked
  <1>. QED
    BY <1>1, <1>2, PTL DEF Spec

LEMMA Invariance == Spec => []Inv
  <1>1. Inv /\ [Next]_vars => Inv'
    BY InvStep
  <1>. QED
    BY InitInv, <1>1, PTL DEF Spec

-----------------------------------------------------------------------------
LEMMA InHistory ==
    ASSUME Inv, NEW m \in Range(messages)
    PROVE  m \in Answered
  BY Typed, LenProperties, ElementOfSeq DEF Range

\* Messages, pending message and turns stay in the states of the code; no turn is
\* retried more often than the strategy allows, and input senders go with
\* running_turn (run_turn_internal, RunningTurn).
THEOREM ThreadTypes == Spec => []TypeOK
  <1>1. ASSUME Inv, Marked PROVE TypeOK
    <2>1. \A m \in Range(messages) :
             m.kind \in {"user", "resume", "agent"} /\ m.turn \in Turns \cup {None}
      BY <1>1, InHistory DEF Answered, Message
    <2>2. /\ pending \in [text : Parts, uses : Parts, results : Parts]
          /\ running \in Turns \cup {None} /\ inputs \in Parts /\ flushers \in Parts
          /\ running = None => inputs = {}
      BY <1>1 DEF Inv, Types, SendersRun, PendingMessage
    <2>3. ASSUME NEW t \in Turns
          PROVE  /\ turn[t].pc \in {"none", "spawned", "asked", "open", "stream", "tools",
                                    "retry", "ended"}
                 /\ turn[t].attempt <= MaxAttempts
      <3>1. turn[t] \in TurnTask
        BY <1>1, SelfSame
      <3>2. turn[t].pc \in Active \cup {"none", "ended"} /\ turn[t].attempt \in 0..MaxAttempts
        BY <3>1 DEF TurnTask
      <3>. QED
        BY <3>2, ThreadAssumption DEF Active
    <2>. QED
      BY <1>1, <2>1, <2>2, <2>3 DEF TypeOK, Marked
  <1>. QED
    BY Invariance, OverlappedTurns, <1>1, PTL

\* Every tool use that reaches the history has a result, wherever in its stream
\* or its tools a turn was cancelled, failed or retried (flush_pending_message).
THEOREM UsesAreAnswered == Spec => []ToolUsesAnswered
  <1>1. Inv => ToolUsesAnswered
    BY InHistory DEF ToolUsesAnswered, Answered
  <1>. QED
    BY Invariance, <1>1, PTL

\* Whoever listens to a turn is told its end exactly once, by cancel or by the
\* turn's own task, whichever comes first (run_turn, RunningTurn::cancel).
THEOREM ToldOneStop == Spec => []OneStop
  <1>1. ASSUME Inv PROVE OneStop
    <2>. SUFFICES ASSUME NEW t \in Turns
                  PROVE  /\ Len(turn[t].stops) <= 1
                         /\ turn[t].cancelled => turn[t].stops = <<"cancelled">>
                         /\ turn[t].pc = "ended" => Len(turn[t].stops) = 1
      BY DEF OneStop
    <2>1. CASE turn[t].cancelled
      <3>1. turn[t].stops = <<"cancelled">>
        BY <1>1, <2>1 DEF Inv, Told
      <3>2. Len(<<"cancelled">>) = 1
        OBVIOUS
      <3>. QED
        BY <3>1, <3>2
    <2>2. CASE ~turn[t].cancelled /\ turn[t].pc # "ended"
      <3>1. turn[t].stops = <<>>
        BY <1>1, <2>2 DEF Inv, Told
      <3>2. Len(<<>>) = 0
        OBVIOUS
      <3>. QED
        BY <2>2, <3>1, <3>2
    <2>3. CASE ~turn[t].cancelled /\ turn[t].pc = "ended"
      <3>1. Len(turn[t].stops) = 1
        BY <1>1, <2>3 DEF Inv, Told
      <3>. QED
        BY <2>3, <3>1
    <2>. QED
      BY <2>1, <2>2, <2>3
  <1>. QED
    BY Invariance, <1>1, PTL

\* running_turn is the one turn under way that was not cancelled: no cancelled
\* turn's task, however late, clears its successor (run_turn).
THEOREM RunningTurnIsLive == Spec => []RunningIsLive
  <1>1. Inv => RunningIsLive
    BY DEF Inv
  <1>. QED
    BY Invariance, <1>1, PTL

-----------------------------------------------------------------------------
(* Turns that had the thread to themselves, and turns that overlapped.      *)

\* One that is under way or waits to be flushed is then the only one, and the
\* last; no turn that overlaps others began before it was over.
LastIsBusy == \A t \in Turns : Busy(t) => t \in Started /\ \A s \in Started \ overlapped : s <= t
Alone ==
    \A t \in Turns \ overlapped :
        Busy(t) => (\A s \in Turns : Busy(s) => s = t) /\ \A s \in Started : s <= t
CancelledWaits == \A t \in Turns : turn[t].pc \in Active /\ turn[t].cancelled => t \in flushers

\* So what is pending is its own; with turns that overlap it is theirs.
Tags(p) == p.text \cup p.uses \cup p.results
Whose(S, t) == IF t \in S THEN S ELSE {t}
OwnPending(S, t, p) ==
    p \in PendingMessage /\ Tags(p) \subseteq Whose(S, t) /\ (t \notin S => p.results \subseteq p.uses)
PendingIsBusy ==
    /\ \A t \in Turns : Busy(t) => OwnPending(overlapped, t, pending)
    /\ Quiet => Tags(pending) = {}

\* A tool of a turn answers a tool use that is pending, and there is none when
\* the request has just been sent.
HasUse(t, r, p) ==
    /\ t \notin overlapped /\ r.pc \in {"stream", "tools"} /\ (r.tool # <<>> \/ r.early)
          => t \in p.uses
    /\ r.pc \in {"asked", "open"} => r.tool = <<>> /\ ~r.early

\* A turn's tool was not run before its input is complete, unless the tool
\* holds an input sender; and it is under way, or its result came, or neither.
AtMostOne(r) == r.tool = <<>> \/ (Len(r.tool) = 1 /\ ~r.early)
RunOnce(t, r, in) ==
    /\ AtMostOne(r)
    /\ r.use = "none" \/ (r.use = "partial" /\ t \notin in) => r.tool = <<>> /\ ~r.early
Tooled(t, r, p, in) ==
    /\ HasUse(t, r, p)
    /\ t \notin overlapped /\ ~r.cancelled => RunOnce(t, r, in) /\ (r.use = "partial" => r.pc = "stream")
BusyTooled == \A t \in Turns : turn[t].pc \in Active => Tooled(t, turn[t], pending, inputs)

\* The history is of turns that were started, and its results of its tool uses.
OfStarted(m) == (By(m) \ overlapped) \cup ({m.turn} \ {None}) \subseteq Started
History ==
    \A i \in DOMAIN messages :
        OfStarted(messages[i]) /\ messages[i].results \ overlapped \subseteq messages[i].uses

PInv ==
    /\ LastIsBusy /\ Alone /\ CancelledWaits /\ PendingIsBusy /\ BusyTooled /\ History
    /\ AnswersFollowPrompt

\* A history that differs from the present one in an end of turn t's own
Own(S, t, m) ==
    /\ By(m) \cup m.results \subseteq Whose(S, t) /\ m.turn \in {t, None}
    /\ t \notin S => m.results \subseteq m.uses
Extends(S, t, msgs) ==
    \A i \in DOMAIN msgs :
        \/ i \in DOMAIN messages /\ msgs[i] = messages[i]
        \/ i \notin DOMAIN messages /\ Own(S, t, msgs[i])
Grown(S, t, msgs) == msgs \in Seq(Answered) /\ Len(messages) <= Len(msgs) /\ Extends(S, t, msgs)

LEMMA AppendGrows ==
    ASSUME Inv, NEW S, NEW t \in Turns, NEW msgs, Grown(S, t, msgs), NEW m \in Answered, Own(S, t, m)
    PROVE  Grown(S, t, Append(msgs, m))
  <1>. DEFINE more == Append(msgs, m)
  <1>1. /\ messages \in Seq(Answered) /\ msgs \in Seq(Answered)
        /\ Len(messages) \in Nat /\ Len(msgs) \in Nat /\ Len(messages) <= Len(msgs)
    BY Typed, LenProperties DEF Grown
  <1>2. /\ more \in Seq(Answered) /\ Len(more) = Len(msgs) + 1
        /\ \A i \in 1..Len(msgs) : more[i] = msgs[i]
        /\ more[Len(msgs) + 1] = m
    BY <1>1
  <1>3. /\ DOMAIN messages = 1..Len(messages) /\ DOMAIN msgs = 1..Len(msgs)
        /\ DOMAIN more = 1..(Len(msgs) + 1)
    BY <1>1, <1>2, LenProperties
  <1>. HIDE DEF more
  <1>4. ASSUME NEW i \in DOMAIN more
        PROVE  \/ i \in DOMAIN messages /\ more[i] = messages[i]
               \/ i \notin DOMAIN messages /\ Own(S, t, more[i])
    <2>1. CASE i \in DOMAIN msgs
      BY <1>2, <1>3, <2>1 DEF Grown, Extends
    <2>2. CASE i \notin DOMAIN msgs
      <3>1. i = Len(msgs) + 1 /\ i \notin DOMAIN messages
        BY <1>1, <1>3, <2>2
      <3>. QED
        BY <1>2, <3>1
    <2>. QED
      BY <2>1, <2>2
  <1>. QED
    BY <1>1, <1>2, <1>4 DEF Grown, Extends, more

LEMMA FlushGrows ==
    ASSUME Inv, NEW S, NEW t \in Turns, NEW msgs, Grown(S, t, msgs), NEW p, OwnPending(S, t, p)
    PROVE  Grown(S, t, Flushed(msgs, p))
  <1>. DEFINE m == [kind |-> "agent", turn |-> None, text |-> p.text, uses |-> p.uses,
                    results |-> p.results \cup p.uses]
  <1>1. m \in Answered
    BY DEF Answered, Message, PendingMessage, Parts, OwnPending, Whose
  <1>2. Own(S, t, m)
    BY DEF Own, Whose, By, OwnPending, Whose, Tags
  <1>. HIDE DEF m
  <1>3. Grown(S, t, Append(msgs, m))
    BY <1>1, <1>2, AppendGrows
  <1>. QED
    BY <1>3 DEF Flushed, m

LEMMA SameGrows == ASSUME Inv, NEW S, NEW t \in Turns PROVE Grown(S, t, messages)
  BY Typed, LenProperties DEF Grown, Extends

LEMMA OpenerGrows ==
    ASSUME Inv, NEW S, NEW t \in Turns, NEW kind \in {"user", "resume"}
    PROVE  Grown(S, t, Append(messages, Opener(kind, t)))
  <1>1. Opener(kind, t) \in Answered /\ Own(S, t, Opener(kind, t))
    BY DEF Opener, Answered, Message, Parts, Own, Whose, By
  <1>. QED
    BY <1>1, SameGrows, AppendGrows

\* A cut leaves a history that extends the present one, or is the start of it.
LEMMA CutExtends ==
    ASSUME NEW S, NEW t \in Turns, NEW msgs \in Seq(Answered), Extends(S, t, msgs),
           NEW n \in Nat, n <= Len(msgs)
    PROVE  Extends(S, t, SubSeq(msgs, 1, n))
  <1>1. DOMAIN msgs = 1..Len(msgs) /\ Len(msgs) \in Nat
    BY LenProperties
  <1>2. /\ DOMAIN SubSeq(msgs, 1, n) = 1..n
        /\ \A i \in 1..n : SubSeq(msgs, 1, n)[i] = msgs[i]
    BY <1>1
  <1>. QED
    BY <1>1, <1>2 DEF Extends

\* Whatever a turn adds to the history stands where it should, if no turn
\* with the thread to itself began after it.
LEMMA HistoryKept ==
    ASSUME Inv, History, AnswersFollowPrompt, messages' \in Seq(Answered), NEW t \in Turns,
           overlapped \subseteq overlapped', \A s \in Started \ overlapped' : s <= t,
           t \notin overlapped' => \A s \in Started : s <= t,
           Extends(overlapped', t, messages'), Started' = Started \cup {t}
    PROVE  History' /\ AnswersFollowPrompt'
  <1>1. ASSUME NEW i \in DOMAIN messages'
        PROVE  /\ (By(messages'[i]) \ overlapped') \cup ({messages'[i].turn} \ {None})
                     \subseteq Started'
               /\ messages'[i].results \ overlapped' \subseteq messages'[i].uses
    <2>1. CASE i \in DOMAIN messages /\ messages'[i] = messages[i]
      BY <2>1 DEF History, OfStarted
    <2>2. CASE Own(overlapped', t, messages'[i])
      BY <2>2 DEF Own, Whose
    <2>. QED
      BY <2>1, <2>2 DEF Extends
  <1>2. Started \subseteq Turns /\ Turns \subseteq Int
    BY DEF Started, Turns
  <1>3. ASSUME NEW i \in DOMAIN messages', NEW j \in DOMAIN messages', i < j
        PROVE  /\ messages'[i].turn # None =>
                      \A x \in By(messages'[j]) \ overlapped' : messages'[i].turn <= x
               /\ messages'[j].turn # None =>
                      \A x \in By(messages'[i]) \ overlapped' : x <= messages'[j].turn
    <2>1. CASE i \in DOMAIN messages /\ j \in DOMAIN messages
      <3>1. messages'[i] = messages[i] /\ messages'[j] = messages[j]
        BY <2>1 DEF Extends
      <3>. QED
        BY <1>3, <2>1, <3>1 DEF AnswersFollowPrompt
    <2>2. CASE j \notin DOMAIN messages
      <3>1. /\ By(messages'[j]) \ overlapped' \subseteq {t} \ overlapped'
            /\ messages'[j].turn \in {t, None}
        BY <2>2 DEF Extends, Own, Whose
      <3>2. /\ By(messages'[i]) \ overlapped' \subseteq (Started \ overlapped') \cup {t}
            /\ messages'[i].turn \in Started \cup {t, None}
        BY <1>1
      <3>3. /\ t \in Int /\ \A x \in Started : x \in Int
            /\ \A x \in (Started \ overlapped') \cup {t} : x <= t
        BY <1>2
      <3>4. ASSUME messages'[i].turn # None, NEW x \in By(messages'[j]) \ overlapped'
            PROVE  messages'[i].turn <= x
        <4>1. x = t /\ t \notin overlapped' /\ messages'[i].turn \in Started \cup {t}
          BY <3>1, <3>2, <3>4
        <4>. QED
          BY <3>3, <4>1
      <3>5. ASSUME messages'[j].turn # None, NEW x \in By(messages'[i]) \ overlapped'
            PROVE  x <= messages'[j].turn
        <4>1. messages'[j].turn = t /\ x \in (Started \ overlapped') \cup {t}
          BY <3>1, <3>2, <3>5
        <4>. QED
          BY <3>3, <4>1
      <3>. QED
        BY <3>4, <3>5
    <2>3. CASE i \notin DOMAIN messages /\ j \in DOMAIN messages
      <3>1. /\ DOMAIN messages = 1..Len(messages) /\ Len(messages) \in Nat
            /\ DOMAIN messages' = 1..Len(messages') /\ Len(messages') \in Nat
        BY Typed, LenProperties
      <3>. QED
        BY <1>3, <2>3, <3>1
    <2>. QED
      BY <2>1, <2>2, <2>3
  <1>. QED
    <2>1. History'
      BY <1>1 DEF History, OfStarted, By
    <2>2. AnswersFollowPrompt'
      BY <1>3 DEF AnswersFollowPrompt, By
    <2>. QED
      BY <2>1, <2>2

\* A step of turn t as the history and the pending message see it
OwnStep(t) ==
    /\ turn[t].pc \in Active
    /\ UNCHANGED <<flushers, overlapped>>
    /\ OwnPending(overlapped, t, pending')
    /\ messages' \in Seq(Answered) /\ Extends(overlapped, t, messages')
    /\ \E r :
          /\ turn' = [turn EXCEPT ![t] = r]
          /\ r.cancelled = turn[t].cancelled
          /\ \/ r.pc \in Active /\ Tooled(t, r, pending', inputs')
             \/ r.pc = "ended" /\ (~r.cancelled => pending' = Blank)

LEMMA BlankIsOwn == ASSUME NEW S, NEW t \in Turns PROVE OwnPending(S, t, Blank)
  BY DEF OwnPending, Whose, Blank, Tags, PendingMessage, Parts

LEMMA ActiveIsBusy ==
    ASSUME Inv, NEW t \in Turns
    PROVE  Busy(t) <=> turn[t].pc \in Active \/ t \in flushers
  BY SelfSame DEF Busy, Active, TurnTask

\* What a turn under way knows: what is pending is its own, or shared.
LEMMA BusyAlone ==
    ASSUME Inv, PInv, NEW t \in Turns, Busy(t)
    PROVE  /\ t \in Started /\ \A s \in Started \ overlapped : s <= t
           /\ t \notin overlapped => /\ \A s \in Turns : Busy(s) => s = t
                                    /\ \A s \in Started : s <= t
           /\ \A s \in Turns \ overlapped : Busy(s) => s = t
           /\ OwnPending(overlapped, t, pending)
           /\ turn[t].pc \in Active => Tooled(t, turn[t], pending, inputs)
  <1>1. /\ t \in Started /\ \A s \in Started \ overlapped : s <= t
        /\ OwnPending(overlapped, t, pending)
        /\ turn[t].pc \in Active => Tooled(t, turn[t], pending, inputs)
    BY DEF PInv, LastIsBusy, PendingIsBusy, BusyTooled
  <1>2. \A s \in Turns \ overlapped : Busy(s) => s = t
    BY DEF PInv, Alone
  <1>3. t \notin overlapped => /\ \A s \in Turns : Busy(s) => s = t
                              /\ \A s \in Started : s <= t
    BY DEF PInv, Alone
  <1>. QED
    BY <1>1, <1>2, <1>3

LEMMA OwnStepPInv ==
    ASSUME Inv, PInv, NEW t \in Turns, OwnStep(t) PROVE PInv'
  <1>1. PICK r :
          /\ turn' = [turn EXCEPT ![t] = r]
          /\ r.cancelled = turn[t].cancelled
          /\ \/ r.pc \in Active /\ Tooled(t, r, pending', inputs')
             \/ r.pc = "ended" /\ (~r.cancelled => pending' = Blank)
    BY DEF OwnStep
  <1>2. Busy(t) /\ turn[t].pc \in Active /\ flushers' = flushers /\ overlapped' = overlapped
    BY ActiveIsBusy DEF OwnStep
  <1>3. /\ t \in Started /\ \A s \in Started \ overlapped : s <= t
        /\ t \notin overlapped => /\ \A s \in Turns : Busy(s) => s = t
                                 /\ \A s \in Started : s <= t
        /\ \A s \in Turns \ overlapped : Busy(s) => s = t
    BY <1>2, BusyAlone
  <1>4. turn'[t] = r /\ \A s \in Turns : s # t => turn'[s] = turn[s]
    BY <1>1, Typed
  <1>5. Started' = Started
    BY <1>1, <1>2, <1>4 DEF Started, Active
  <1>6. \A s \in Turns : Busy(s)' => Busy(s)
    BY <1>2, <1>4 DEF Busy
  <1>7. LastIsBusy' /\ Alone'
    BY <1>2, <1>5, <1>6 DEF PInv, LastIsBusy, Alone
  <1>8. CancelledWaits'
    BY <1>1, <1>2, <1>4 DEF PInv, CancelledWaits
  <1>9. PendingIsBusy'
    <2>1. OwnPending(overlapped, t, pending')
      BY DEF OwnStep
    <2>2. Tags(pending') # {} => Busy(t)'
      <3>1. CASE r.pc \in Active
        BY <1>4, <3>1 DEF Busy, Active
      <3>2. CASE r.pc = "ended" /\ pending' = Blank
        BY <3>2 DEF Tags, Blank
      <3>3. CASE r.pc = "ended" /\ r.cancelled
        BY <1>1, <1>2, <3>3 DEF PInv, CancelledWaits, Busy
      <3>. QED
        BY <1>1, <3>1, <3>2, <3>3
    <2>3. Quiet' => Tags(pending') = {}
      BY <2>2 DEF Quiet, Busy
    <2>4. ASSUME NEW s \in Turns, Busy(s)' PROVE OwnPending(overlapped, s, pending')
      <3>1. CASE s = t
        BY <2>1, <3>1
      <3>2. CASE s # t
        <4>1. s \in overlapped /\ t \in overlapped
          BY <1>3, <1>6, <2>4, <3>2
        <4>. QED
          BY <2>1, <4>1 DEF OwnPending, Whose
      <3>. QED
        BY <3>1, <3>2
    <2>. QED
      BY <1>2, <2>3, <2>4 DEF PendingIsBusy, Tags, Busy, OwnPending, Whose
  <1>10. BusyTooled'
    <2>1. ASSUME NEW s \in Turns, turn'[s].pc \in Active
          PROVE  Tooled(s, turn'[s], pending', inputs')
      <3>1. CASE s = t
        BY <1>1, <1>4, <2>1, <3>1 DEF Active
      <3>2. CASE s # t
        <4>1. turn'[s] = turn[s] /\ Tooled(s, turn[s], pending, inputs)
          BY <1>4, <2>1, <3>2 DEF PInv, BusyTooled
        <4>2. s \in overlapped
          <5>1. turn[s].pc \in Active
            BY <2>1, <4>1
          <5>. QED
            BY <1>3, <3>2, <5>1, ActiveIsBusy
        <4>. QED
          BY <4>1, <4>2 DEF Tooled, HasUse
      <3>. QED
        BY <3>1, <3>2
    <2>. QED
      BY <1>2, <2>1 DEF BusyTooled, Tooled, HasUse, RunOnce, AtMostOne
  <1>11. History' /\ AnswersFollowPrompt'
    <2>1. Started' = Started \cup {t}
      BY <1>3, <1>5
    <2>. QED
      BY <1>2, <1>3, <2>1, HistoryKept DEF PInv, OwnStep
  <1>. QED
    BY <1>7, <1>8, <1>9, <1>10, <1>11 DEF PInv

-----------------------------------------------------------------------------
(* The steps of a turn's task, when what is pending is its own.            *)

LEMMA EndOwn ==
    ASSUME Inv, NEW t \in Turns, turn[t].pc \in Active, NEW r, Same(t, r),
           NEW msgs, Grown(overlapped, t, msgs), NEW p, OwnPending(overlapped, t, p),
           NEW outcome, End(t, r, outcome, msgs, p), UNCHANGED <<flushers, overlapped>>
    PROVE  OwnStep(t)
  <1>. DEFINE s == Over(r, IF r.cancelled THEN <<>> ELSE <<outcome>>)
  <1>1. turn' = [turn EXCEPT ![t] = s] /\ s.pc = "ended" /\ s.cancelled = r.cancelled
    BY DEF End, Over, NewTurn
  <1>. HIDE DEF s
  <1>2. r.cancelled = turn[t].cancelled
    BY DEF Same
  <1>3. CASE r.cancelled
    <2>1. messages' = msgs /\ pending' = p
      BY <1>3 DEF End
    <2>. QED
      BY <1>1, <1>2, <1>3, <2>1 DEF OwnStep, Grown
  <1>4. CASE ~r.cancelled
    <2>1. Grown(overlapped, t, Flushed(msgs, p))
      BY FlushGrows
    <2>2. r.ix \in Nat /\ r.ix <= Len(messages)
      <3>1. running = t /\ t # None
        BY <1>2, <1>4, NoneIsNoTurn DEF Inv, RunningIsLive, Active
      <3>. QED
        BY <3>1 DEF Inv, PromptInHistory, Same, TurnTask
    <2>3. r.ix <= Len(Flushed(msgs, p))
      <3>1. Len(messages) \in Nat /\ Len(Flushed(msgs, p)) \in Nat
        BY <2>1, Typed, LenProperties DEF Grown
      <3>. QED
        BY <2>1, <2>2, <3>1 DEF Grown
    <2>4. /\ SubSeq(Flushed(msgs, p), 1, r.ix) \in Seq(Answered)
          /\ Extends(overlapped, t, SubSeq(Flushed(msgs, p), 1, r.ix))
      BY <2>1, <2>2, <2>3, CutHistory, CutExtends DEF Grown
    <2>5. /\ messages' \in Seq(Answered) /\ Extends(overlapped, t, messages') /\ pending' = Blank
      BY <1>4, <2>1, <2>4 DEF End, Grown
    <2>. QED
      BY <1>1, <1>2, <2>5, BlankIsOwn DEF OwnStep
  <1>. QED
    BY <1>3, <1>4

LEMMA AskOwn ==
    ASSUME Inv, NEW t \in Turns, turn[t].pc \in Active, NEW r, Same(t, r),
           t \notin overlapped /\ ~r.cancelled => r.use # "partial",
           NEW msgs, Grown(overlapped, t, msgs), NEW p, OwnPending(overlapped, t, p),
           Ask(t, r, msgs, p), UNCHANGED <<flushers, overlapped>>
    PROVE  OwnStep(t)
  <1>. DEFINE s == [r EXCEPT !.pc = "asked", !.asked = @ + 1, !.tool = <<>>, !.early = FALSE]
  <1>1. /\ turn' = [turn EXCEPT ![t] = s]
        /\ s.pc = "asked" /\ s.tool = <<>> /\ s.early = FALSE /\ s.use = r.use
        /\ s.cancelled = turn[t].cancelled
    BY DEF Ask, Same, TurnTask
  <1>2. messages' = msgs /\ pending' = p
    BY DEF Ask
  <1>. HIDE DEF s
  <1>3. Tooled(t, s, pending', inputs') /\ s.pc \in Active
    BY <1>1 DEF Tooled, HasUse, RunOnce, AtMostOne, Active, Same
  <1>. QED
    BY <1>1, <1>2, <1>3 DEF OwnStep, Grown

\* What the tools of a turn are like once its stream has been read
Read(t, r, p) ==
    /\ t \notin overlapped /\ (r.tool # <<>> \/ r.early) => t \in p.uses
    /\ t \notin overlapped /\ ~r.cancelled =>
          AtMostOne(r) /\ r.use # "partial" /\ (r.use = "none" => r.tool = <<>> /\ ~r.early)

LEMMA ConcludeOwn ==
    ASSUME Inv, NEW t \in Turns, turn[t].pc \in Active, NEW r, Same(t, r), Read(t, r, pending),
           NEW why, NEW used, NEW p, OwnPending(overlapped, t, p), Conclude(t, r, why, used, p),
           UNCHANGED <<flushers, overlapped>>
    PROVE  OwnStep(t)
  <1>. DEFINE msgs == Flushed(messages, p)
  <1>1. Grown(overlapped, t, msgs)
    BY SameGrows, FlushGrows
  <1>. HIDE DEF msgs
  <1>2. CASE /\ r.attempt + 1 <= MaxAttempts
             /\ turn' = [turn EXCEPT ![t] = [r EXCEPT !.pc = "retry", !.attempt = @ + 1]]
             /\ messages' = msgs /\ pending' = Blank
    <2>. DEFINE s == [r EXCEPT !.pc = "retry", !.attempt = @ + 1]
    <2>1. /\ s.pc = "retry" /\ s.tool = r.tool /\ s.early = r.early /\ s.use = r.use
          /\ s.cancelled = r.cancelled /\ r.cancelled = turn[t].cancelled
          /\ turn' = [turn EXCEPT ![t] = s]
      BY <1>2 DEF Same, TurnTask
    <2>. HIDE DEF s
    <2>2. Tooled(t, s, pending', inputs') /\ s.pc \in Active
      BY <2>1 DEF Tooled, HasUse, RunOnce, AtMostOne, Read, Active
    <2>. QED
      BY <1>1, <1>2, <2>1, <2>2, BlankIsOwn DEF OwnStep, Grown
  <1>3. CASE End(t, r, IF why = "error" THEN "error" ELSE "end", msgs, Blank)
    BY <1>1, <1>3, BlankIsOwn, EndOwn
  <1>4. CASE Ask(t, [r EXCEPT !.attempt = 0], msgs, Blank)
    <2>. DEFINE s == [r EXCEPT !.attempt = 0]
    <2>1. Same(t, s) /\ s.use = r.use /\ s.cancelled = r.cancelled
      BY AttemptTask DEF Same, TurnTask
    <2>. HIDE DEF s
    <2>2. t \notin overlapped /\ ~s.cancelled => s.use # "partial"
      BY <2>1 DEF Read
    <2>3. Ask(t, s, msgs, Blank)
      BY <1>4 DEF s
    <2>. QED
      BY <1>1, <2>1, <2>2, <2>3, BlankIsOwn, AskOwn
  <1>. QED
    BY <1>2, <1>3, <1>4 DEF Conclude, msgs

LEMMA ResultOwn ==
    ASSUME NEW t \in Turns, NEW p, OwnPending(overlapped, t, p), t \notin overlapped => t \in p.uses
    PROVE  OwnPending(overlapped, t, WithResult(t, p)) /\ WithResult(t, p).uses = p.uses
  BY DEF OwnPending, Whose, WithResult, Tags, PendingMessage, Parts

LEMMA BreakOwn ==
    ASSUME Inv, NEW t \in Turns, turn[t].pc \in Active, OwnPending(overlapped, t, pending),
           NEW r, Same(t, r), t \notin overlapped /\ (r.tool # <<>> \/ r.early) => t \in pending.uses,
           t \notin overlapped /\ ~r.cancelled => RunOnce(t, r, inputs),
           NEW why \in {"end", "error", "cancelled"}, AfterStream(t, r, why)
    PROVE  OwnStep(t)
  <1>. DEFINE p == IF r.early THEN WithResult(t, pending) ELSE pending
              use == IF r.use = "none" THEN r.use ELSE "full"
              s == [r EXCEPT !.use = use]
  <1>1. OwnPending(overlapped, t, p) /\ p.uses = pending.uses
    BY ResultOwn
  <1>2. /\ Same(t, s) /\ s.use = use /\ s.tool = r.tool /\ s.early = r.early
        /\ s.cancelled = r.cancelled
    <2>1. use \in {"none", "partial", "full"}
      OBVIOUS
    <2>. HIDE DEF use
    <2>2. Same(t, s)
      BY <2>1, UseTask
    <2>. QED
      BY <2>2 DEF Same, TurnTask
  <1>3. Read(t, s, pending)
    BY <1>2 DEF Read, RunOnce, AtMostOne
  <1>4. UNCHANGED <<flushers, overlapped>>
    BY DEF AfterStream, Break, user
  <1>5. \/ Conclude(t, s, why, r.early, p)
        \/ /\ turn' = [turn EXCEPT ![t] = [s EXCEPT !.pc = "tools", !.why = why]]
           /\ pending' = p /\ messages' = messages
    BY DEF AfterStream, Break
  <1>. HIDE DEF p, s, use
  <1>6. CASE Conclude(t, s, why, r.early, p)
    BY <1>1, <1>2, <1>3, <1>4, <1>6, ConcludeOwn
  <1>7. CASE /\ turn' = [turn EXCEPT ![t] = [s EXCEPT !.pc = "tools", !.why = why]]
             /\ pending' = p /\ messages' = messages
    <2>. DEFINE q == [s EXCEPT !.pc = "tools", !.why = why]
    <2>1. /\ q.pc = "tools" /\ q.tool = s.tool /\ q.early = s.early /\ q.use = s.use
          /\ q.cancelled = s.cancelled /\ s.cancelled = turn[t].cancelled
          /\ turn' = [turn EXCEPT ![t] = q]
      BY <1>2, <1>7 DEF Same, TurnTask
    <2>. HIDE DEF q
    <2>2. Tooled(t, q, pending', inputs') /\ q.pc \in Active
      BY <1>1, <1>3, <1>7, <2>1 DEF Tooled, HasUse, RunOnce, AtMostOne, Read, Active
    <2>. QED
      BY <1>1, <1>4, <1>7, <2>1, <2>2, SameGrows DEF OwnStep, Grown
  <1>. QED
    BY <1>5, <1>6, <1>7

\* An event of the model's stream that leaves the turn reading
LEMMA UpdateOwn ==
    ASSUME Inv, NEW t \in Turns, Streaming(t), NEW r, Same(t, r), Update(t, r),
           Grown(overlapped, t, messages'), OwnPending(overlapped, t, pending'), UNCHANGED <<flushers, overlapped>>,
           t \notin overlapped /\ (r.tool # <<>> \/ r.early) => t \in pending'.uses,
           t \notin overlapped /\ ~r.cancelled => RunOnce(t, r, inputs')
    PROVE  OwnStep(t)
  <1>. DEFINE s == [r EXCEPT !.pc = "stream"]
  <1>1. /\ s.pc = "stream" /\ s.tool = r.tool /\ s.early = r.early /\ s.use = r.use
        /\ s.cancelled = r.cancelled /\ r.cancelled = turn[t].cancelled
        /\ turn' = [turn EXCEPT ![t] = s]
    BY DEF Update, Same, TurnTask
  <1>. HIDE DEF s
  <1>2. Tooled(t, s, pending', inputs') /\ s.pc \in Active /\ turn[t].pc \in Active
    BY <1>1 DEF Tooled, HasUse, RunOnce, AtMostOne, Active, Streaming
  <1>. QED
    BY <1>1, <1>2 DEF OwnStep, Grown

\* What is known when an event of a turn's stream is taken
LEMMA ReadingTurn ==
    ASSUME Inv, PInv, NEW t \in Turns, Streaming(t)
    PROVE  /\ turn[t].pc \in Active /\ OwnPending(overlapped, t, pending)
           /\ turn[t].tool # <<>> \/ turn[t].early =>
                 turn[t].pc = "stream" /\ (t \notin overlapped => t \in pending.uses)
           /\ t \notin overlapped /\ ~turn[t].cancelled => RunOnce(t, turn[t], inputs)
           /\ ~turn[t].cancelled => running # None
           /\ Same(t, turn[t]) /\ turn[t].tool \in Seq(ToolState)
  <1>1. turn[t].pc \in Active /\ Busy(t)
    BY DEF Streaming, Active, Busy
  <1>2. Tooled(t, turn[t], pending, inputs) /\ OwnPending(overlapped, t, pending)
    BY <1>1, BusyAlone
  <1>3. ~turn[t].cancelled => running # None
    BY <1>1, NoneIsNoTurn DEF Inv, RunningIsLive, Active
  <1>. QED
    BY <1>1, <1>2, <1>3, SelfSame DEF Tooled, HasUse, Streaming

\* One tool stays one tool, whatever becomes of it.
LEMMA OneTool ==
    ASSUME NEW tool \in Seq(ToolState)
    PROVE  /\ tool = <<>> => Len(Append(tool, "running")) = 1 /\ Len(Append(tool, "done")) = 1
           /\ Len(tool) = 1 => /\ Len(ReplaceAll(tool, "waiting", "running")) = 1
                               /\ \A k \in DOMAIN tool : RemoveAt(tool, k) = <<>>
                               /\ \A k \in DOMAIN tool, how \in ToolState :
                                     Len([tool EXCEPT ![k] = how]) = 1
           /\ Len(<<"done">>) = 1 /\ Len(<<"waiting">>) = 1
  <1>1. Len(tool) \in Nat /\ DOMAIN tool = 1..Len(tool)
    BY LenProperties
  <1>2. tool = <<>> => Len(Append(tool, "running")) = 1 /\ Len(Append(tool, "done")) = 1
    BY DEF ToolState
  <1>3. ASSUME Len(tool) = 1 PROVE Len(ReplaceAll(tool, "waiting", "running")) = 1
    <2>1. ReplaceAll(tool, "waiting", "running") \in Seq(ToolState)
      BY ToolLists
    <2>2. DOMAIN ReplaceAll(tool, "waiting", "running") = 1..1
      BY <1>1, <1>3 DEF ReplaceAll
    <2>. QED
      BY <2>1, <2>2, LenProperties
  <1>4. ASSUME Len(tool) = 1, NEW k \in DOMAIN tool PROVE RemoveAt(tool, k) = <<>>
    <2>1. k = 1
      BY <1>1, <1>4
    <2>2. SubSeq(tool, 1, 0) = <<>> /\ SubSeq(tool, 2, 1) = <<>>
      BY <1>4
    <2>3. RemoveAt(tool, k) = SubSeq(tool, 1, 0) \o SubSeq(tool, 2, 1)
      BY <1>4, <2>1 DEF RemoveAt
    <2>4. <<>> \o <<>> = <<>>
      OBVIOUS
    <2>. QED
      BY <2>2, <2>3, <2>4
  <1>5. ASSUME Len(tool) = 1, NEW k \in DOMAIN tool, NEW how \in ToolState
        PROVE  Len([tool EXCEPT ![k] = how]) = 1
    BY <1>1, <1>5, ExceptSeq
  <1>. QED
    BY <1>2, <1>3, <1>4, <1>5

LEMMA StreamOwn ==
    ASSUME Inv, PInv, NEW t \in Turns, Model(t) PROVE OwnStep(t)
  <1>. USE ReadingTurn
  <1>9. CASE RequestReturns(t)
    <2>. DEFINE r == [turn[t] EXCEPT !.pc = "open"]
    <2>1. turn[t].pc = "asked" /\ turn[t].pc \in Active
      BY <1>9 DEF RequestReturns, Active
    <2>2. OwnPending(overlapped, t, pending) /\ Tooled(t, turn[t], pending, inputs)
      BY <2>1, BusyAlone, ActiveIsBusy
    <2>3. /\ r.pc = "open" /\ r.cancelled = turn[t].cancelled /\ r.tool = turn[t].tool
          /\ r.early = turn[t].early /\ r.use = turn[t].use
      <3>1. turn[t] \in TurnTask
        BY SelfSame
      <3>. QED
        BY <3>1 DEF TurnTask
    <2>4. /\ turn' = [turn EXCEPT ![t] = r]
          /\ UNCHANGED <<messages, pending, running, inputs, flushers, overlapped>>
      BY <1>9 DEF RequestReturns, user
    <2>. HIDE DEF r
    <2>5. Tooled(t, r, pending', inputs') /\ r.pc \in Active
      BY <2>1, <2>2, <2>3, <2>4 DEF Tooled, HasUse, RunOnce, AtMostOne, Active
    <2>. QED
      BY <2>1, <2>2, <2>3, <2>4, <2>5, SameGrows DEF OwnStep, Grown
  <1>1. CASE StartMessage(t)
    <2>1. Streaming(t) /\ turn[t].tool = <<>> /\ ~turn[t].early
      BY <1>1 DEF StartMessage, Streaming
    <2>2. Grown(overlapped, t, messages')
      BY <1>1, <2>1, SameGrows, FlushGrows DEF StartMessage
    <2>. QED
      BY <1>1, <2>1, <2>2, BlankIsOwn, UpdateOwn DEF StartMessage, user
  <1>2. CASE Text(t)
    <2>1. OwnPending(overlapped, t, pending') /\ pending'.uses = pending.uses
      BY <1>2 DEF Text, OwnPending, Whose, Tags, PendingMessage, Parts
    <2>. QED
      BY <1>2, <2>1, SameGrows, UpdateOwn DEF Text, user
  <1>3. ASSUME Streaming(t), Used(t) PROVE OwnPending(overlapped, t, pending') /\ t \in pending'.uses
    BY <1>3 DEF Used, OwnPending, Whose, Tags, PendingMessage, Parts
  <1>4. CASE PartialToolUse(t)
    <2>1. OwnPending(overlapped, t, pending') /\ t \in pending'.uses /\ Grown(overlapped, t, messages') /\ Streaming(t)
      BY <1>3, <1>4, SameGrows DEF PartialToolUse
    <2>2. /\ <<"done">> \in Seq(ToolState) /\ <<"waiting">> \in Seq(ToolState)
          /\ Len(<<"done">>) = 1 /\ Len(<<"waiting">>) = 1
      BY DEF ToolState
    <2>3. PICK r : /\ Same(t, r) /\ Update(t, r)
                   /\ t \notin overlapped /\ ~r.cancelled => RunOnce(t, r, inputs')
      <3>1. CASE running = None /\ Update(t, [turn[t] EXCEPT !.use = "full", !.tool = <<"done">>])
        <4>. DEFINE r == [turn[t] EXCEPT !.use = "full", !.tool = <<"done">>]
        <4>1. Same(t, r) /\ r.cancelled = turn[t].cancelled
          BY <2>1, <2>2 DEF Same, TurnTask
        <4>2. turn[t].cancelled
          BY <2>1, <3>1
        <4>. QED
          BY <3>1, <4>1, <4>2
      <3>2. CASE /\ Update(t, [turn[t] EXCEPT !.use = "partial", !.tool = <<"waiting">>])
                 /\ inputs' = inputs \cup {t}
        <4>. DEFINE r == [turn[t] EXCEPT !.use = "partial", !.tool = <<"waiting">>]
        <4>1. /\ Same(t, r) /\ r.cancelled = turn[t].cancelled /\ r.use = "partial"
              /\ r.tool = <<"waiting">> /\ r.early = turn[t].early
          BY <2>1, <2>2 DEF Same, TurnTask
        <4>2. t \notin overlapped /\ ~turn[t].cancelled => ~turn[t].early
          BY <1>4, <2>1 DEF PartialToolUse, RunOnce
        <4>. QED
          BY <3>2, <4>1, <4>2, <2>2 DEF RunOnce, AtMostOne
      <3>3. CASE Update(t, [turn[t] EXCEPT !.use = "partial"]) /\ inputs' = inputs
        <4>. DEFINE r == [turn[t] EXCEPT !.use = "partial"]
        <4>1. /\ Same(t, r) /\ r.cancelled = turn[t].cancelled /\ r.use = "partial"
              /\ r.tool = turn[t].tool /\ r.early = turn[t].early
          <5>1. turn[t] \in TurnTask
            BY SelfSame
          <5>. QED
            BY <2>1, <5>1 DEF Same, TurnTask
        <4>2. t \notin overlapped /\ ~turn[t].cancelled => ~turn[t].early /\ turn[t].tool = <<>>
          BY <1>4, <2>1 DEF PartialToolUse, RunOnce
        <4>. QED
          BY <3>3, <4>1, <4>2 DEF RunOnce, AtMostOne
      <3>. QED
        BY <1>4, <3>1, <3>2, <3>3 DEF PartialToolUse
    <2>. QED
      BY <1>4, <2>1, <2>3, UpdateOwn DEF PartialToolUse, user
  <1>5. CASE FullToolUse(t)
    <2>. DEFINE r == [turn[t] EXCEPT !.use = "full"]
                full == [r EXCEPT !.tool = ReplaceAll(turn[t].tool, "waiting", "running")]
                begun == [r EXCEPT !.tool = Append(turn[t].tool, "running")]
                refused == [r EXCEPT !.tool = Append(turn[t].tool, "done")]
    <2>1. OwnPending(overlapped, t, pending') /\ t \in pending'.uses /\ Grown(overlapped, t, messages') /\ Streaming(t)
      BY <1>3, <1>5, SameGrows DEF FullToolUse
    <2>2. Same(t, r) /\ r.tool = turn[t].tool /\ r.use = "full" /\ r.early = turn[t].early
      <3>1. turn[t] \in TurnTask
        BY SelfSame
      <3>. QED
        BY <3>1 DEF Same, TurnTask
    <2>3. \/ turn[t].cancelled /\ Update(t, refused)
          \/ t \in inputs /\ Update(t, full)
          \/ t \notin inputs /\ Update(t, begun)
      BY <1>5, <2>1, <2>2 DEF FullToolUse
    <2>. HIDE DEF r
    <2>4. PICK q : /\ Same(t, q) /\ Update(t, q)
                   /\ t \notin overlapped /\ ~q.cancelled => RunOnce(t, q, inputs')
      <3>1. /\ Same(t, full) /\ Same(t, begun) /\ Same(t, refused)
            /\ refused.cancelled = turn[t].cancelled
            /\ full.tool = ReplaceAll(turn[t].tool, "waiting", "running")
            /\ begun.tool = Append(turn[t].tool, "running")
            /\ full.use = "full" /\ begun.use = "full"
            /\ full.early = turn[t].early /\ begun.early = turn[t].early
            /\ full.cancelled = turn[t].cancelled /\ begun.cancelled = turn[t].cancelled
        <4>1. Same(t, full) /\ Same(t, begun) /\ Same(t, refused)
          BY <2>1, <2>2, ToolLists, ToolTask
        <4>. QED
          BY <2>2, <4>1 DEF Same, TurnTask
      <3>. HIDE DEF full, begun, refused
      <3>2. t \notin overlapped /\ ~turn[t].cancelled =>
               RunOnce(t, turn[t], inputs) /\ turn[t].use \in {"none", "partial"}
        BY <1>5, <2>1 DEF FullToolUse
      <3>3. CASE turn[t].cancelled /\ Update(t, refused)
        BY <3>1, <3>3
      <3>4. CASE t \in inputs /\ Update(t, full)
        <4>1. turn[t].tool = <<>> => full.tool = <<>>
          BY <3>1 DEF ReplaceAll
        <4>2. Len(turn[t].tool) = 1 => Len(full.tool) = 1
          BY <2>1, <3>1, OneTool
        <4>. QED
          BY <3>1, <3>2, <3>4, <4>1, <4>2 DEF RunOnce, AtMostOne
      <3>5. CASE t \notin inputs /\ Update(t, begun)
        <4>1. t \notin overlapped /\ ~turn[t].cancelled => turn[t].tool = <<>> /\ ~turn[t].early
          BY <3>2, <3>5 DEF RunOnce
        <4>2. turn[t].tool = <<>> => Len(begun.tool) = 1
          BY <2>1, <3>1, OneTool
        <4>. QED
          BY <3>1, <3>5, <4>1, <4>2 DEF RunOnce, AtMostOne
      <3>. QED
        BY <2>3, <3>3, <3>4, <3>5
    <2>. QED
      BY <1>5, <2>1, <2>4, UpdateOwn DEF FullToolUse, user
  <1>6. CASE StreamEnds(t) \/ StreamFails(t)
    BY <1>6, BreakOwn DEF StreamEnds, StreamFails
  <1>7. CASE MaxTokens(t)
    BY <1>7, SameGrows, EndOwn DEF MaxTokens, user
  <1>8. CASE Refused(t)
    <2>. DEFINE r == [turn[t] EXCEPT !.fell = TRUE, !.use = "none"]
    <2>1. Streaming(t) /\ UNCHANGED <<flushers, overlapped>>
      BY <1>8 DEF Refused, user
    <2>2. Same(t, r) /\ r.use = "none"
      <3>1. turn[t] \in TurnTask
        BY SelfSame
      <3>. QED
        BY <3>1 DEF Same, TurnTask
    <2>3. Ask(t, r, messages, Blank) \/ End(t, turn[t], "refusal", messages, pending)
      BY <1>8 DEF Refused
    <2>. HIDE DEF r
    <2>4. CASE Ask(t, r, messages, Blank)
      BY <2>1, <2>2, <2>4, BlankIsOwn, SameGrows, AskOwn
    <2>5. CASE End(t, turn[t], "refusal", messages, pending)
      BY <2>1, <2>5, SameGrows, EndOwn
    <2>. QED
      BY <2>3, <2>4, <2>5
  <1>. QED
    BY <1>1, <1>2, <1>4, <1>5, <1>6, <1>7, <1>8, <1>9 DEF Model

\* A result taken out of the turn's tools is that of its one tool.
LEMMA TakenOwn ==
    ASSUME Inv, PInv, NEW t \in Turns, turn[t].pc \in {"stream", "tools"},
           NEW k \in DOMAIN turn[t].tool,
           NEW r, r = [turn[t] EXCEPT !.tool = RemoveAt(turn[t].tool, k), !.early = TRUE]
    PROVE  /\ Same(t, r) /\ r.pc = turn[t].pc /\ turn[t].pc \in Active
           /\ r.cancelled = turn[t].cancelled /\ r.use = turn[t].use /\ r.early
           /\ t \notin overlapped => t \in pending.uses
           /\ OwnPending(overlapped, t, pending)
           /\ t \notin overlapped /\ ~r.cancelled =>
                 r.tool = <<>> /\ r.use # "none" /\ RunOnce(t, r, inputs)
           /\ t \notin overlapped /\ ~r.cancelled /\ r.pc = "tools" => r.use = "full"
  <1>1. turn[t].pc \in Active /\ Busy(t)
    BY DEF Active, Busy
  <1>2. /\ Tooled(t, turn[t], pending, inputs) /\ OwnPending(overlapped, t, pending)
        /\ turn[t] \in TurnTask /\ turn[t].tool \in Seq(ToolState)
    BY <1>1, BusyAlone, SelfSame
  <1>3. turn[t].tool # <<>>
    OBVIOUS
  <1>4. /\ Same(t, r) /\ r.pc = turn[t].pc /\ r.cancelled = turn[t].cancelled
        /\ r.use = turn[t].use /\ r.early /\ r.tool = RemoveAt(turn[t].tool, k)
        /\ r.use \in {"none", "partial", "full"}
    <2>1. Same(t, r)
      BY TakenResult
    <2>. QED
      BY <1>2, <2>1 DEF TurnTask
  <1>5. t \notin overlapped => t \in pending.uses
    BY <1>2, <1>3 DEF Tooled, HasUse
  <1>6. ASSUME t \notin overlapped, ~r.cancelled
        PROVE  /\ r.tool = <<>> /\ r.use # "none" /\ RunOnce(t, r, inputs)
               /\ r.pc = "tools" => r.use = "full"
    <2>1. RunOnce(t, turn[t], inputs) /\ (turn[t].use = "partial" => turn[t].pc = "stream")
      BY <1>2, <1>4, <1>6 DEF Tooled
    <2>2. Len(turn[t].tool) = 1
      BY <1>3, <2>1 DEF RunOnce, AtMostOne
    <2>3. r.tool = <<>>
      BY <1>2, <1>4, <2>2, OneTool
    <2>4. r.use # "none" /\ (r.use = "partial" => t \in inputs)
      BY <1>3, <1>4, <2>1 DEF RunOnce
    <2>. QED
      BY <1>4, <2>1, <2>3, <2>4 DEF RunOnce, AtMostOne
  <1>. QED
    BY <1>1, <1>2, <1>4, <1>5, <1>6

LEMMA PolledOwn ==
    ASSUME Inv, PInv, NEW t \in Turns, Task(t) PROVE OwnStep(t)
  <1>0. turn[t].pc \in Active =>
            /\ OwnPending(overlapped, t, pending) /\ Tooled(t, turn[t], pending, inputs)
            /\ Same(t, turn[t])
    BY BusyAlone, SelfSame, ActiveIsBusy
  <1>1. CASE FirstRequest(t)
    BY <1>0, <1>1, SameGrows, AskOwn DEF FirstRequest, Active, user, Tooled
  <1>2. CASE EarlyResult(t)
    <2>1. PICK k \in DOMAIN turn[t].tool :
            LET r == [turn[t] EXCEPT !.tool = RemoveAt(@, k), !.early = TRUE]
            IN  /\ Streaming(t)
                /\ \/ AfterStream(t, r, "end")
                   \/ /\ turn' = [turn EXCEPT ![t] = r]
                      /\ UNCHANGED <<messages, pending, running, inputs, user>>
      BY <1>2 DEF EarlyResult
    <2>. DEFINE r == [turn[t] EXCEPT !.tool = RemoveAt(turn[t].tool, k), !.early = TRUE]
    <2>2. turn[t].pc = "stream"
      BY <2>1, ReadingTurn
    <2>3. \/ AfterStream(t, r, "end")
          \/ /\ turn' = [turn EXCEPT ![t] = r]
             /\ UNCHANGED <<messages, pending, running, inputs, user>>
      BY <2>1
    <2>4. /\ Same(t, r) /\ r.pc = turn[t].pc /\ turn[t].pc \in Active
          /\ r.cancelled = turn[t].cancelled /\ r.early /\ (t \notin overlapped => t \in pending.uses)
          /\ OwnPending(overlapped, t, pending) /\ (t \notin overlapped /\ ~r.cancelled => RunOnce(t, r, inputs))
      BY <2>2, TakenOwn
    <2>. HIDE DEF r
    <2>5. CASE AfterStream(t, r, "end")
      BY <2>4, <2>5, BreakOwn
    <2>6. CASE /\ turn' = [turn EXCEPT ![t] = r]
               /\ UNCHANGED <<messages, pending, running, inputs, user>>
      <3>1. Tooled(t, r, pending', inputs')
        BY <2>2, <2>4, <2>6 DEF Tooled, HasUse
      <3>. QED
        BY <2>4, <2>6, <3>1, SameGrows DEF OwnStep, Grown, user
    <2>. QED
      BY <2>3, <2>5, <2>6
  <1>3. CASE CancelSeen(t)
    BY <1>3, ReadingTurn, BreakOwn DEF CancelSeen
  <1>4. CASE ToolResult(t)
    <2>1. PICK k \in DOMAIN turn[t].tool :
            LET r == [turn[t] EXCEPT !.tool = RemoveAt(@, k), !.early = TRUE]
            IN  /\ turn[t].pc = "tools"
                /\ \/ Conclude(t, r, r.why, TRUE, WithResult(t, pending))
                   \/ /\ turn' = [turn EXCEPT ![t] = r]
                      /\ pending' = WithResult(t, pending)
                      /\ UNCHANGED <<messages, running>>
                /\ UNCHANGED user
      BY <1>4 DEF ToolResult
    <2>. DEFINE r == [turn[t] EXCEPT !.tool = RemoveAt(turn[t].tool, k), !.early = TRUE]
                p == WithResult(t, pending)
    <2>2. /\ Same(t, r) /\ r.pc = "tools" /\ turn[t].pc \in Active
          /\ r.cancelled = turn[t].cancelled /\ r.early /\ (t \notin overlapped => t \in pending.uses)
          /\ OwnPending(overlapped, t, pending)
          /\ t \notin overlapped /\ ~r.cancelled => r.tool = <<>> /\ r.use = "full"
      <3>1. turn[t].pc = "tools"
        BY <2>1
      <3>2. /\ Same(t, r) /\ r.pc = turn[t].pc /\ turn[t].pc \in Active
            /\ r.cancelled = turn[t].cancelled /\ r.early /\ (t \notin overlapped => t \in pending.uses)
            /\ OwnPending(overlapped, t, pending)
            /\ t \notin overlapped /\ ~r.cancelled => r.tool = <<>>
            /\ t \notin overlapped /\ ~r.cancelled /\ r.pc = "tools" => r.use = "full"
        BY <3>1, TakenOwn, ZenonT(30)
      <3>. HIDE DEF r
      <3>. QED
        BY <3>1, <3>2
    <2>3. \/ Conclude(t, r, r.why, TRUE, p)
          \/ /\ turn' = [turn EXCEPT ![t] = r] /\ pending' = p
             /\ messages' = messages
      BY <2>1
    <2>4. UNCHANGED <<flushers, overlapped>>
      BY <2>1 DEF user
    <2>. HIDE DEF r
    <2>5. OwnPending(overlapped, t, p) /\ p.uses = pending.uses
      BY <2>2, ResultOwn
    <2>. HIDE DEF p
    <2>6. CASE Conclude(t, r, r.why, TRUE, p)
      <3>1. Read(t, r, pending)
        BY <2>2 DEF Read, AtMostOne
      <3>. QED
        BY <2>2, <2>4, <2>5, <2>6, <3>1, ConcludeOwn
    <2>7. CASE /\ turn' = [turn EXCEPT ![t] = r] /\ pending' = p
               /\ messages' = messages
      <3>1. Tooled(t, r, pending', inputs')
        BY <2>2, <2>5, <2>7 DEF Tooled, HasUse, RunOnce, AtMostOne
      <3>. QED
        BY <2>2, <2>4, <2>5, <2>7, <3>1, SameGrows DEF OwnStep, Grown, Active
    <2>. QED
      BY <2>3, <2>6, <2>7
  <1>5. CASE RetryTimer(t)
    <2>1. turn[t].pc \in Active /\ UNCHANGED <<flushers, overlapped>>
      BY <1>5 DEF RetryTimer, Active, user
    <2>2. PICK msgs : Grown(overlapped, t, msgs) /\ Ask(t, turn[t], msgs, pending)
      BY <1>5, SameGrows, OpenerGrows DEF RetryTimer
    <2>3. t \notin overlapped /\ ~turn[t].cancelled => turn[t].use # "partial"
      BY <1>0, <1>5, <2>1 DEF Tooled, RetryTimer
    <2>. QED
      BY <1>0, <2>1, <2>2, <2>3, AskOwn
  <1>6. CASE RetryCancelled(t)
    <2>1. turn[t].pc \in Active
      BY <1>6 DEF RetryCancelled, Active
    <2>. QED
      BY <1>0, <1>6, <2>1, SameGrows, EndOwn DEF RetryCancelled, user
  <1>. QED
    BY <1>1, <1>2, <1>3, <1>4, <1>5, <1>6 DEF Task

LEMMA FinishesToolOwn ==
    ASSUME Inv, PInv, NEW t \in Turns, ToolFinishes(t) PROVE OwnStep(t)
  <1>1. PICK k \in DOMAIN turn[t].tool, how \in {"failed", "done"} :
          /\ turn' = [turn EXCEPT ![t].tool[k] = how]
          /\ UNCHANGED <<messages, pending, running, inputs, user>>
    BY DEF ToolFinishes
  <1>. DEFINE tool == [turn[t].tool EXCEPT ![k] = how]
              r == [turn[t] EXCEPT !.tool = tool]
  <1>2. turn[t].tool # <<>>
    BY <1>1
  <1>3. turn[t].pc \in Active /\ Busy(t)
    BY <1>2, ActiveIsBusy DEF Inv, AtRest
  <1>4. Tooled(t, turn[t], pending, inputs) /\ OwnPending(overlapped, t, pending)
    BY <1>3, BusyAlone
  <1>5. Len(turn[t].tool) = 1 => Len(tool) = 1
    BY SelfSame, OneTool DEF ToolState
  <1>6. turn' = [turn EXCEPT ![t] = r]
    BY <1>1
  <1>. HIDE DEF tool
  <1>7. /\ r.pc = turn[t].pc /\ r.cancelled = turn[t].cancelled /\ r.use = turn[t].use
        /\ r.early = turn[t].early /\ r.tool = tool
    BY SelfSame DEF TurnTask
  <1>. HIDE DEF r
  <1>8. Tooled(t, r, pending', inputs')
    BY <1>1, <1>2, <1>4, <1>5, <1>7 DEF Tooled, HasUse, RunOnce, AtMostOne
  <1>. QED
    BY <1>1, <1>3, <1>4, <1>6, <1>7, <1>8, SameGrows DEF OwnStep, Grown, user

-----------------------------------------------------------------------------
(* What the user does, and what cancel() leaves to its own task.           *)

\* Nothing is pending while no turn is under way or waits to be flushed.
LEMMA QuietIsBlank ==
    ASSUME Inv, PInv, Quiet
    PROVE  Tags(pending) = {} /\ ~HasContent(pending) /\ running = None
  <1>1. Tags(pending) = {}
    BY DEF PInv, PendingIsBusy
  <1>2. running = None
    BY StoppedTurn, ActiveIsBusy DEF Quiet
  <1>. QED
    BY <1>1, <1>2 DEF Tags, HasContent, By

\* Turns that are not alone are known to have overlapped.
LEMMA OverlapKnown ==
    ASSUME NEW new \in Parts, Overlaps(new), ~Quiet
    PROVE  /\ overlapped \cup new \subseteq overlapped'
           /\ \A t \in Turns : Busy(t) => t \in overlapped'
  BY DEF Overlaps

\* What is pending belongs to whoever overlaps.
LEMMA SharedPending ==
    ASSUME Inv, PInv, NEW new \in Parts, Overlaps(new), NEW t \in Turns,
           Quiet \/ t \in overlapped'
    PROVE  OwnPending(overlapped', t, pending)
  <1>1. pending \in PendingMessage
    BY Typed
  <1>2. CASE Quiet
    BY <1>1, <1>2, QuietIsBlank DEF OwnPending, Tags
  <1>3. CASE ~Quiet
    <2>1. PICK s \in Turns : Busy(s)
      BY <1>3 DEF Quiet
    <2>2. OwnPending(overlapped, s, pending) /\ s \in overlapped' /\ overlapped \subseteq overlapped'
      BY <1>3, <2>1, BusyAlone, OverlapKnown
    <2>. QED
      BY <1>1, <1>3, <2>2 DEF OwnPending, Whose
  <1>. QED
    BY <1>2, <1>3

LEMMA PromptPInv ==
    ASSUME Inv, PInv, NEW kind \in {"user", "resume"}, Prompt(kind) PROVE PInv'
  <1>. DEFINE n == NextNumber
              opened == Append(messages, Opener(kind, n))
  <1>1. n \in Turns /\ Overlaps({n}) /\ {n} \in Parts
    BY DEF Prompt, NextNumber, Parts
  <1>2. Started = 1..(n - 1) /\ turn[n].pc = "none" /\ n # running
    BY <1>1, NextTurn
  <1>3. messages' = Flushed(opened, pending) /\ pending' = Blank /\ CancelRunning
    BY DEF Prompt, NextNumber
  <1>4. /\ turn'[n].pc = "spawned" /\ turn'[n].tool = <<>> /\ ~turn'[n].early
        /\ turn'[n].use = "none" /\ ~turn'[n].cancelled
        /\ \A t \in Turns : t # n => turn'[t] = IF t = running THEN Stopped(turn[t]) ELSE turn[t]
    <2>. DEFINE ix == Len(Flushed(opened, pending)) - 1
    <2>1. turn' = [t \in Turns |->
                      IF t = n THEN [NewTurn EXCEPT !.pc = "spawned", !.ix = ix]
                      ELSE IF t = running THEN Stopped(turn[t]) ELSE turn[t]]
      BY DEF Prompt, NextNumber
    <2>. HIDE DEF ix
    <2>3. turn'[n] = [NewTurn EXCEPT !.pc = "spawned", !.ix = ix]
      BY <1>1, <2>1
    <2>4. \A t \in Turns : t # n => turn'[t] = IF t = running THEN Stopped(turn[t]) ELSE turn[t]
      BY <2>1
    <2>. QED
      BY <2>3, <2>4 DEF NewTurn
  <1>. HIDE DEF n
  <1>5. /\ overlapped \subseteq overlapped' /\ (Quiet => overlapped' = overlapped)
        /\ ~Quiet => n \in overlapped' /\ \A t \in Turns : Busy(t) => t \in overlapped'
    BY <1>1 DEF Overlaps
  <1>6. Grown(overlapped', n, messages')
    <2>1. Grown(overlapped', n, opened)
      BY <1>1, OpenerGrows
    <2>2. OwnPending(overlapped', n, pending)
      BY <1>1, <1>5, SharedPending
    <2>. HIDE DEF opened
    <2>. QED
      BY <1>1, <1>3, <2>1, <2>2, FlushGrows
  <1>. HIDE DEF opened
  <1>7. ASSUME NEW t \in Turns, t # n
        PROVE  /\ turn'[t].pc = turn[t].pc /\ turn'[t].tool = turn[t].tool
               /\ turn'[t].early = turn[t].early
               /\ turn[t].cancelled \/ t = running <=> turn'[t].cancelled
    <2>1. turn[t] \in TurnTask
      BY SelfSame
    <2>. QED
      BY <1>4, <1>7, <2>1 DEF Stopped, TurnTask
  <1>8. Started' = Started \cup {n} /\ \A s \in Started : s <= n
    <2>1. Started' = Started \cup {n}
      BY <1>1, <1>2, <1>4, <1>7 DEF Started
    <2>. QED
      BY <1>1, <1>2, <2>1 DEF Turns
  <1>9. \A t \in Turns : t # n /\ Busy(t)' => Busy(t) /\ ~Quiet
    <2>1. ASSUME NEW t \in Turns, t # n, Busy(t)' PROVE Busy(t)
      <3>1. CASE t \in flushers' /\ t \notin flushers
        <4>1. t = running /\ running # None
          BY <1>3, <3>1 DEF CancelRunning
        <4>. QED
          BY <4>1, StoppedTurn, ActiveIsBusy
      <3>. QED
        BY <1>7, <2>1, <3>1 DEF Busy
    <2>. QED
      BY <2>1 DEF Quiet
  <1>10. LastIsBusy'
    <2>1. \A s \in Started' : s <= n
      BY <1>1, <1>8 DEF Turns
    <2>2. ASSUME NEW t \in Turns, t # n, Busy(t)'
          PROVE  t \in Started' /\ \A s \in Started' \ overlapped' : s <= t
      <3>1. Busy(t) /\ n \in overlapped'
        BY <1>5, <1>9, <2>2
      <3>2. t \in Started /\ \A s \in Started \ overlapped : s <= t
        BY <3>1, BusyAlone
      <3>. QED
        BY <1>5, <1>8, <3>1, <3>2
    <2>. QED
      BY <1>1, <1>8, <2>1, <2>2 DEF LastIsBusy
  <1>11. Alone'
    <2>1. \A s \in Started' : s <= n
      BY <1>1, <1>8 DEF Turns
    <2>2. \A t \in Turns \ overlapped' : Busy(t)' => t = n
      BY <1>5, <1>9
    <2>3. n \notin overlapped' => \A t \in Turns : Busy(t)' => t = n
      BY <1>5, <1>9
    <2>. QED
      BY <2>1, <2>2, <2>3 DEF Alone
  <1>12. CancelledWaits'
    <2>1. ASSUME NEW t \in Turns, turn'[t].pc \in Active, turn'[t].cancelled
          PROVE  t \in flushers'
      <3>1. t # n /\ turn[t].pc \in Active /\ (turn[t].cancelled \/ t = running)
        BY <1>4, <1>7, <2>1
      <3>. QED
        BY <1>3, <3>1, NoneIsNoTurn DEF PInv, CancelledWaits, CancelRunning
    <2>. QED
      BY <2>1 DEF CancelledWaits
  <1>13. PendingIsBusy'
    <2>1. \A t \in Turns : OwnPending(overlapped', t, Blank)
      BY BlankIsOwn
    <2>2. Tags(Blank) = {}
      BY DEF Tags, Blank
    <2>. QED
      BY <1>3, <2>1, <2>2 DEF PendingIsBusy, OwnPending, Whose, Tags
  <1>14. BusyTooled'
    <2>1. ASSUME NEW t \in Turns, turn'[t].pc \in Active
          PROVE  /\ t \notin overlapped' => t = n
                 /\ turn'[t].pc \in {"asked", "open"} => turn'[t].tool = <<>> /\ ~turn'[t].early
      <3>1. CASE t = n
        BY <1>4, <3>1
      <3>2. CASE t # n
        <4>1. turn[t].pc = turn'[t].pc /\ turn[t].tool = turn'[t].tool
              /\ turn[t].early = turn'[t].early
          BY <1>7, <3>2
        <4>2. Tooled(t, turn[t], pending, inputs) /\ Busy(t)
          BY <2>1, <4>1, ActiveIsBusy DEF PInv, BusyTooled
        <4>3. ~Quiet /\ t \in overlapped'
          BY <1>5, <4>2 DEF Quiet
        <4>. QED
          BY <4>1, <4>2, <4>3 DEF Tooled, HasUse
      <3>. QED
        BY <3>1, <3>2
    <2>. QED
      BY <1>4, <2>1 DEF BusyTooled, Tooled, HasUse, RunOnce, AtMostOne
  <1>15. History' /\ AnswersFollowPrompt'
    BY <1>1, <1>5, <1>6, <1>8, HistoryKept DEF PInv, Grown
  <1>. QED
    BY <1>10, <1>11, <1>12, <1>13, <1>14, <1>15 DEF PInv

\* Cancelling lets the running turn's task wait to be flushed: what a cancel,
\* alone or before a truncation, does to what is known of the turns
Cancels ==
    /\ \A t \in Turns : turn'[t] = IF t = running THEN Stopped(turn[t]) ELSE turn[t]
    /\ CancelRunning
    /\ overlapped \subseteq overlapped'

LEMMA CancelsBusy ==
    ASSUME Inv, PInv, Cancels
    PROVE  /\ Started' = Started /\ (\A t \in Turns : Busy(t)' <=> Busy(t))
           /\ LastIsBusy' /\ Alone' /\ CancelledWaits'
           /\ \A t \in Turns :
                 /\ turn'[t].pc = turn[t].pc /\ turn'[t].tool = turn[t].tool
                 /\ turn'[t].early = turn[t].early
                 /\ ~turn'[t].cancelled => turn'[t] = turn[t]
  <1>1. ASSUME NEW t \in Turns
        PROVE  /\ turn'[t].pc = turn[t].pc /\ turn'[t].tool = turn[t].tool
               /\ turn'[t].early = turn[t].early
               /\ turn[t].cancelled \/ t = running <=> turn'[t].cancelled
               /\ ~turn'[t].cancelled => turn'[t] = turn[t]
    <2>1. turn[t] \in TurnTask
      BY SelfSame
    <2>. QED
      BY <2>1 DEF Cancels, Stopped, TurnTask
  <1>2. Started' = Started
    BY <1>1 DEF Started
  <1>3. ASSUME NEW t \in Turns PROVE Busy(t)' <=> Busy(t)
    <2>1. CASE t \in flushers' /\ t \notin flushers
      <3>1. t = running /\ running # None
        BY <2>1 DEF Cancels, CancelRunning
      <3>. QED
        BY <1>1, <3>1, StoppedTurn, ActiveIsBusy DEF Busy, Active
    <2>2. flushers \subseteq flushers'
      BY DEF Cancels, CancelRunning
    <2>. QED
      BY <1>1, <2>1, <2>2 DEF Busy
  <1>4. LastIsBusy' /\ Alone'
    BY <1>2, <1>3 DEF PInv, LastIsBusy, Alone, Cancels
  <1>5. CancelledWaits'
    BY <1>1, NoneIsNoTurn DEF PInv, CancelledWaits, Cancels, CancelRunning
  <1>. QED
    BY <1>1, <1>2, <1>3, <1>4, <1>5

LEMMA CancelPInv == ASSUME Inv, PInv, Cancel PROVE PInv'
  <1>1. /\ Cancels /\ overlapped' = overlapped /\ inputs' = {}
        /\ messages' = messages /\ pending' = pending
    <2>1. running \in Turns /\ turn' = [turn EXCEPT ![running] = Stopped(turn[running])]
      BY StoppedTurn DEF Cancel
    <2>. QED
      BY <2>1, Typed DEF Cancel, Cancels
  <1>2. /\ Started' = Started /\ (\A t \in Turns : Busy(t)' <=> Busy(t))
        /\ LastIsBusy' /\ Alone' /\ CancelledWaits'
        /\ \A t \in Turns :
              /\ turn'[t].pc = turn[t].pc /\ turn'[t].tool = turn[t].tool
              /\ turn'[t].early = turn[t].early
              /\ ~turn'[t].cancelled => turn'[t] = turn[t]
    BY <1>1, CancelsBusy
  <1>3. PendingIsBusy'
    <2>1. \A t \in Turns : Busy(t)' => OwnPending(overlapped, t, pending)
      BY <1>2 DEF PInv, PendingIsBusy
    <2>2. Quiet' => Tags(pending) = {}
      BY <1>2 DEF PInv, PendingIsBusy, Quiet
    <2>. QED
      BY <1>1, <2>1, <2>2 DEF PendingIsBusy, OwnPending, Whose, Tags
  <1>4. BusyTooled'
    <2>1. ASSUME NEW t \in Turns, turn'[t].pc \in Active
          PROVE  /\ HasUse(t, turn'[t], pending) /\ (t \notin overlapped => turn'[t].cancelled)
      <3>1. Tooled(t, turn[t], pending, inputs) /\ Busy(t)
        BY <1>2, <2>1, ActiveIsBusy DEF PInv, BusyTooled
      <3>2. t \notin overlapped => t = running
        <4>1. running # None /\ running \in Turns /\ Busy(running)
          BY StoppedTurn, ActiveIsBusy DEF Cancel
        <4>. QED
          BY <3>1, <4>1, BusyAlone
      <3>3. running \in Turns /\ turn'[running].cancelled
        BY <1>1, StoppedTurn DEF Cancel, Cancels
      <3>. QED
        BY <1>2, <3>1, <3>2, <3>3 DEF Tooled, HasUse
    <2>. QED
      BY <1>1, <2>1 DEF BusyTooled, Tooled, HasUse
  <1>5. History' /\ AnswersFollowPrompt'
    BY <1>1, <1>2 DEF PInv, History, OfStarted, By, AnswersFollowPrompt
  <1>. QED
    BY <1>2, <1>3, <1>4, <1>5 DEF PInv

\* A truncation leaves nothing pending, and the start of the history or, when
\* its message is not found, the history with what was pending.
LEMMA TruncatePInv == ASSUME Inv, PInv, Truncate PROVE PInv'
  <1>1. Overlaps({}) /\ {} \in Parts
    BY DEF Truncate, Parts
  <1>2. /\ overlapped \subseteq overlapped' /\ (Quiet => overlapped' = overlapped)
        /\ ~Quiet => \A t \in Turns : Busy(t) => t \in overlapped'
    BY <1>1 DEF Overlaps
  <1>3. Cancels /\ pending' = Blank
    BY <1>2 DEF Truncate, Cancels
  <1>4. /\ Started' = Started /\ (\A t \in Turns : Busy(t)' <=> Busy(t))
        /\ LastIsBusy' /\ Alone' /\ CancelledWaits'
        /\ \A t \in Turns : /\ turn'[t].pc = turn[t].pc /\ turn'[t].tool = turn[t].tool
                            /\ turn'[t].early = turn[t].early
    BY <1>3, CancelsBusy
  <1>5. PendingIsBusy'
    <2>1. \A t \in Turns : OwnPending(overlapped', t, Blank)
      BY BlankIsOwn
    <2>2. Tags(Blank) = {}
      BY DEF Tags, Blank
    <2>. QED
      BY <1>3, <2>1, <2>2 DEF PendingIsBusy, OwnPending, Whose, Tags
  <1>6. BusyTooled'
    <2>1. ASSUME NEW t \in Turns, turn'[t].pc \in Active
          PROVE  /\ t \in overlapped'
                 /\ turn'[t].pc \in {"asked", "open"} => turn'[t].tool = <<>> /\ ~turn'[t].early
      <3>1. Tooled(t, turn[t], pending, inputs) /\ Busy(t)
        BY <1>4, <2>1, ActiveIsBusy DEF PInv, BusyTooled
      <3>2. ~Quiet
        BY <3>1 DEF Quiet
      <3>. QED
        BY <1>2, <1>4, <3>1, <3>2 DEF Tooled, HasUse
    <2>. QED
      BY <2>1 DEF BusyTooled, Tooled, HasUse
  <1>7. ASSUME messages' = messages PROVE History' /\ AnswersFollowPrompt'
    <2>1. History'
      BY <1>2, <1>4, <1>7 DEF PInv, History, OfStarted, By
    <2>2. AnswersFollowPrompt'
      BY <1>2, <1>7 DEF PInv, AnswersFollowPrompt, By
    <2>. QED
      BY <2>1, <2>2
  <1>8. ASSUME NEW i \in DOMAIN messages, messages' = SubSeq(messages, 1, i - 1)
        PROVE  History' /\ AnswersFollowPrompt'
    <2>1. Len(messages) \in Nat /\ i \in 1..Len(messages)
      BY Typed, LenProperties
    <2>2. DOMAIN messages' = 1..(i - 1) /\ DOMAIN messages = 1..Len(messages)
      BY <1>8, <2>1, Typed, LenProperties
    <2>3. /\ DOMAIN messages' \subseteq DOMAIN messages
          /\ \A j \in DOMAIN messages' : messages'[j] = messages[j]
      BY <1>8, <2>1, <2>2, Typed
    <2>4. History'
      BY <1>2, <1>4, <2>3 DEF PInv, History, OfStarted, By
    <2>5. AnswersFollowPrompt'
      BY <1>2, <2>3 DEF PInv, AnswersFollowPrompt, By
    <2>. QED
      BY <2>4, <2>5
  <1>9. ASSUME messages' = Flushed(messages, pending) PROVE History' /\ AnswersFollowPrompt'
    <2>1. CASE Quiet
      BY <1>7, <1>9, <2>1, QuietIsBlank DEF Flushed
    <2>2. CASE ~Quiet
      <3>1. PICK t \in Turns : Busy(t)
        BY <2>2 DEF Quiet
      <3>2. t \in overlapped' /\ t \in Started /\ \A s \in Started \ overlapped : s <= t
        BY <1>2, <2>2, <3>1, BusyAlone
      <3>3. Grown(overlapped', t, messages')
        BY <1>1, <1>9, <3>2, SharedPending, SameGrows, FlushGrows
      <3>4. Started' = Started \cup {t}
        BY <1>4, <3>2
      <3>5. /\ \A s \in Started \ overlapped' : s <= t
            /\ messages' \in Seq(Answered) /\ Extends(overlapped', t, messages')
        BY <1>2, <3>2, <3>3 DEF Grown
      <3>. QED
        BY <1>2, <3>2, <3>4, <3>5, HistoryKept DEF PInv
    <2>. QED
      BY <2>1, <2>2
  <1>10. \/ \E i \in DOMAIN messages : messages' = SubSeq(messages, 1, i - 1)
         \/ messages' = messages \/ messages' = Flushed(messages, pending)
    BY DEF Truncate
  <1>. QED
    BY <1>4, <1>5, <1>6, <1>7, <1>8, <1>9, <1>10 DEF PInv

\* Whatever is flushed is a busy turn's: its own, or that of those it overlaps.
LEMMA FlushPInv ==
    ASSUME Inv, PInv, NEW t \in Turns, Busy(t), turn' = turn,
           messages' = Flushed(messages, pending), pending' = Blank, inputs' = inputs,
           flushers' \subseteq flushers, overlapped \subseteq overlapped',
           \A s \in flushers \ flushers' : turn[s].pc = "ended",
           \/ overlapped' = overlapped /\ turn[t].pc = "ended"
           \/ \A s \in Turns : Busy(s) => s \in overlapped'
    PROVE  PInv'
  <1>1. /\ t \in Started /\ \A s \in Started \ overlapped : s <= t
        /\ t \notin overlapped => /\ \A s \in Turns : Busy(s) => s = t
                                 /\ \A s \in Started : s <= t
        /\ \A s \in Turns \ overlapped : Busy(s) => s = t
        /\ OwnPending(overlapped, t, pending)
    BY BusyAlone
  <1>2. Started' = Started /\ Started' = Started \cup {t}
    BY <1>1 DEF Started
  <1>3. OwnPending(overlapped', t, pending)
    BY <1>1 DEF OwnPending, Whose
  <1>4. Grown(overlapped', t, messages')
    BY <1>3, SameGrows, FlushGrows
  <1>5. \A s \in Turns : Busy(s)' => Busy(s)
    BY DEF Busy
  <1>6. LastIsBusy' /\ Alone'
    BY <1>2, <1>5 DEF PInv, LastIsBusy, Alone
  <1>10. CancelledWaits'
    BY DEF PInv, CancelledWaits, Active
  <1>7. PendingIsBusy'
    <2>1. \A s \in Turns : OwnPending(overlapped', s, Blank)
      BY BlankIsOwn
    <2>2. Tags(Blank) = {}
      BY DEF Tags, Blank
    <2>. QED
      BY <2>1, <2>2 DEF PendingIsBusy, OwnPending, Whose, Tags
  <1>8. BusyTooled'
    <2>1. ASSUME NEW s \in Turns, turn'[s].pc \in Active
          PROVE  /\ s \in overlapped'
                 /\ turn'[s].pc \in {"asked", "open"} => turn'[s].tool = <<>> /\ ~turn'[s].early
      <3>1. Tooled(s, turn[s], pending, inputs) /\ Busy(s)
        BY <2>1, ActiveIsBusy DEF PInv, BusyTooled
      <3>2. s = t => turn[t].pc # "ended"
        BY <2>1 DEF Active
      <3>. QED
        BY <1>1, <3>1, <3>2 DEF Tooled, HasUse
    <2>. QED
      BY <2>1 DEF BusyTooled, Tooled, HasUse
  <1>9. History' /\ AnswersFollowPrompt'
    BY <1>1, <1>2, <1>4, HistoryKept DEF PInv, Grown
  <1>. QED
    BY <1>6, <1>7, <1>8, <1>9, <1>10 DEF PInv

LEMMA CancelIdlePInv == ASSUME Inv, PInv, CancelIdle PROVE PInv'
  <1>1. ~Quiet /\ Overlaps({}) /\ {} \in Parts
    BY QuietIsBlank DEF CancelIdle, Parts
  <1>2. PICK t \in Turns : Busy(t)
    BY <1>1 DEF Quiet
  <1>3. overlapped \subseteq overlapped' /\ \A s \in Turns : Busy(s) => s \in overlapped'
    BY <1>1, OverlapKnown
  <1>. QED
    BY <1>2, <1>3, FlushPInv DEF CancelIdle

LEMMA CancelFlushPInv ==
    ASSUME Inv, PInv, NEW t \in Turns, CancelFlush(t) PROVE PInv'
  <1>1. /\ Busy(t) /\ turn[t].pc = "ended" /\ flushers' = flushers \ {t}
        /\ messages' = Flushed(messages, pending) /\ pending' = Blank
        /\ turn' = turn /\ inputs' = inputs /\ overlapped' = overlapped
    BY DEF CancelFlush, Busy
  <1>. QED
    BY <1>1, FlushPInv

LEMMA InitPInv == Init => PInv
  <1>. SUFFICES ASSUME Init PROVE PInv
    OBVIOUS
  <1>1. \A t \in Turns : ~Busy(t) /\ turn[t].pc = "none"
    BY DEF Init, NewTurn, Busy
  <1>2. LastIsBusy /\ Alone /\ CancelledWaits /\ BusyTooled
    BY <1>1 DEF LastIsBusy, Alone, CancelledWaits, BusyTooled, Active
  <1>3. PendingIsBusy
    BY <1>1 DEF Init, PendingIsBusy, Tags, Blank
  <1>4. DOMAIN messages = {}
    BY DEF Init
  <1>5. History /\ AnswersFollowPrompt
    BY <1>4 DEF History, AnswersFollowPrompt
  <1>. QED
    BY <1>2, <1>3, <1>5 DEF PInv

LEMMA PInvStep == ASSUME Inv, PInv, [Next]_vars PROVE PInv'
  <1>1. CASE Send \/ Resume
    BY <1>1, PromptPInv DEF Send, Resume
  <1>2. CASE Cancel
    BY <1>2, CancelPInv
  <1>3. CASE CancelIdle
    BY <1>3, CancelIdlePInv
  <1>4. CASE Truncate
    BY <1>4, TruncatePInv
  <1>5. ASSUME NEW t \in Turns, Task(t) \/ Model(t) \/ ToolFinishes(t) PROVE PInv'
    BY <1>5, PolledOwn, StreamOwn, FinishesToolOwn, OwnStepPInv
  <1>6. ASSUME NEW t \in Turns, CancelFlush(t) PROVE PInv'
    BY <1>6, CancelFlushPInv
  <1>7. CASE UNCHANGED vars
    <2>1. /\ messages' = messages /\ pending' = pending /\ turn' = turn /\ flushers' = flushers
          /\ inputs' = inputs /\ overlapped' = overlapped
      BY <1>7 DEF vars
    <2>. QED
      BY <2>1 DEF PInv, LastIsBusy, Alone, CancelledWaits, PendingIsBusy, BusyTooled, Tooled,
          HasUse, RunOnce, AtMostOne, History, OfStarted, By, AnswersFollowPrompt, Busy, Started,
          Tags, OwnPending, Whose, Quiet
  <1>. QED
    BY <1>1, <1>2, <1>3, <1>4, <1>5, <1>6, <1>7 DEF Next, AllOver

LEMMA OwnInvariance == Spec => [](Inv /\ PInv)
  <1>1. Init => Inv /\ PInv
    BY InitInv, InitPInv
  <1>2. Inv /\ PInv /\ [Next]_vars => (Inv /\ PInv)'
    BY InvStep, PInvStep
  <1>. QED
    BY <1>1, <1>2, PTL DEF Spec

\* Prompts, flushes and truncations may come at any time: no request holds a
\* result without its tool use of a turn that had the thread to itself, whatever
\* was cancelled, refused, retried or cut (process_tool_result).
THEOREM ResultsFollowUses == Spec => []NoOrphanResults
  <1>1. ASSUME Inv, PInv PROVE NoOrphanResults
    <2>1. ASSUME NEW t \in Turns, turn[t].pc = "asked"
          PROVE  pending.results \ overlapped \subseteq pending.uses
      <3>1. OwnPending(overlapped, t, pending)
        BY <1>1, <2>1, ActiveIsBusy, BusyAlone DEF Active
      <3>. QED
        BY <3>1 DEF OwnPending, Whose, Tags
    <2>2. ASSUME NEW m \in Range(messages) PROVE m.results \ overlapped \subseteq m.uses
      BY <1>1 DEF PInv, History, Range
    <2>. QED
      BY <2>1, <2>2 DEF NoOrphanResults
  <1>. QED
    BY OwnInvariance, <1>1, PTL

\* Whatever the user does to other turns, the tool of one that was neither
\* cancelled nor overlapped is run once, on partial input or on complete input but
\* never on both (handle_tool_use_event).
THEOREM ToolsRunOnce == Spec => []ToolRunsOnce
  <1>1. ASSUME Inv, PInv PROVE ToolRunsOnce
    <2>. SUFFICES ASSUME NEW t \in Turns \ overlapped, ~turn[t].cancelled
                  PROVE  Len(turn[t].tool) + (IF turn[t].early THEN 1 ELSE 0) <= 1
      BY DEF ToolRunsOnce
    <2>1. turn[t].tool = <<>> \/ (Len(turn[t].tool) = 1 /\ ~turn[t].early)
      <3>1. CASE turn[t].pc \in Active
        BY <1>1, <3>1 DEF PInv, BusyTooled, Tooled, RunOnce, AtMostOne
      <3>2. CASE turn[t].pc \notin Active
        BY <1>1, <3>2 DEF Inv, AtRest
      <3>. QED
        BY <3>1, <3>2
    <2>2. CASE turn[t].tool = <<>>
      <3>1. Len(turn[t].tool) = 0
        BY <2>2
      <3>. QED
        BY <3>1
    <2>3. CASE Len(turn[t].tool) = 1 /\ ~turn[t].early
      BY <2>3
    <2>. QED
      BY <2>1, <2>2, <2>3
  <1>. QED
    BY OwnInvariance, <1>1, PTL

\* The answer of a turn that had the thread to itself stands after its own prompt
\* and before all later ones, also when turns before or after it overlapped and
\* wrote into each other's messages (flush_pending_message, truncate, run_turn).
THEOREM AnswersInPlace == Spec => []AnswersFollowPrompt
  <1>1. PInv => AnswersFollowPrompt
    BY DEF PInv
  <1>. QED
    BY OwnInvariance, <1>1, PTL
=============================================================================
