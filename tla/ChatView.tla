------------------------------ MODULE ChatView ------------------------------
(***************************************************************************)
(* What the chat window makes of one answer: the handlers of               *)
(* RealChatClient._streamAssistantResponse, each a function of the message *)
(* under construction and of one event, and what MessageBubble then shows. *)
(*                                                                         *)
(* A message has its text (content) and a list of steps: the thoughts, the *)
(* pieces of text, the tool calls and the requests for confirmation.  The  *)
(* bubble shows the steps, and the text only when there is no step.        *)
(***************************************************************************)
EXTENDS Naturals, SequencesExt

(* early is history: the text there was when thoughts became the first step. *)
EmptyMessage == [content |-> <<>>, thoughts |-> <<>>, pieces |-> 0,
                 steps |-> <<>>, early |-> <<>>, live |-> TRUE]

TextStep(text) == [type |-> "text", text |-> text]

HasThoughts(steps) == \E i \in DOMAIN steps : steps[i].type = "thinking"

(* The thoughts being written are finished by whatever else comes. *)
FinishThoughts(steps) ==
  [i \in DOMAIN steps |->
     IF steps[i].type = "thinking" THEN [steps[i] EXCEPT !.finished = TRUE]
                                   ELSE steps[i]]

(* reasoning_delta: the first one makes the step and leaves it empty. *)
OnReasoning(m, e) ==
  LET thoughts == m.thoughts \o e.content
  IN [m EXCEPT
        !.thoughts = thoughts, !.pieces = IF @ < 2 THEN @ + 1 ELSE @,
        !.early = IF m.steps = <<>> THEN m.content ELSE @,
        !.steps =
          IF HasThoughts(@)
          THEN [i \in DOMAIN @ |->
                  IF @[i].type = "thinking"
                  THEN [@[i] EXCEPT !.text = thoughts, !.finished = FALSE]
                  ELSE @[i]]
          ELSE Append(@, [type |-> "thinking", text |-> <<>>, finished |-> FALSE])]

(* delta: the last step goes on if it is text, or a new one begins; a *)
(* message without steps has its text only.                           *)
AddText(steps, text) ==
  IF steps = <<>> THEN steps
  ELSE IF Last(steps).type = "text"
  THEN [steps EXCEPT ![Len(steps)].text = @ \o text]
  ELSE Append(steps, TextStep(text))

OnDelta(m, e) ==
  [m EXCEPT !.content = @ \o e.content,
            !.steps = AddText(FinishThoughts(@), e.content)]

\* Mutant of TextBefore: the text is not made a step before the first call.
NoTextBefore(m) == m.steps

(* The text written so far becomes a step when there is none yet. *)
TextBefore(m) ==
  IF m.steps = <<>> /\ m.content # <<>> THEN <<TextStep(m.content)>> ELSE m.steps

(* tool_call: a running step for each call. *)
OnToolCall(m, e) ==
  [m EXCEPT !.steps =
     FinishThoughts(TextBefore(m))
     \o [i \in DOMAIN e.calls |->
           [type |-> "tool", call |-> e.calls[i].call, name |-> e.calls[i].name,
            status |-> "running", result |-> "none"]]]

(* tool_result: found by the call or by the name of the tool. *)
OnToolResult(m, e) ==
  [m EXCEPT !.steps =
     [i \in DOMAIN @ |->
        IF @[i].type = "tool" /\ (@[i].call = e.call \/ @[i].name = e.name)
        THEN [@[i] EXCEPT !.status = "completed", !.result = e.call]
        ELSE @[i]]]

(* confirm_request and confirm_response. *)
OnConfirmRequest(m, e) ==
  [m EXCEPT !.steps =
     Append(TextBefore(m), [type |-> "confirm", call |-> e.call, status |-> "pending"])]

OnConfirmResponse(m, e) ==
  [m EXCEPT !.steps =
     [i \in DOMAIN @ |->
        IF @[i].type = "confirm" /\ @[i].call = e.call
        THEN [@[i] EXCEPT !.status = "answered"] ELSE @[i]]]

(* complete, and an error of the job or of the connection: the stream is *)
(* closed and nothing is read any more.                                  *)
OnComplete(m) == [m EXCEPT !.steps = FinishThoughts(@), !.live = FALSE]

OnError(m) == [m EXCEPT !.live = FALSE]

Handle(m, e) ==
  IF ~m.live THEN m
  ELSE CASE e.type = "reasoning_delta" -> OnReasoning(m, e)
         [] e.type = "delta" -> OnDelta(m, e)
         [] e.type = "tool_call" -> OnToolCall(m, e)
         [] e.type = "tool_result" -> OnToolResult(m, e)
         [] e.type = "confirm_request" -> OnConfirmRequest(m, e)
         [] e.type = "confirm_response" -> OnConfirmResponse(m, e)
         [] e.type = "complete" -> OnComplete(m)
         [] e.type = "error" -> OnError(m)

(* One event after the other. *)
HandleAll(m, events) ==
  LET after[i \in 0..Len(events)] ==
        IF i = 0 THEN m ELSE Handle(after[i - 1], events[i])
  IN after[Len(events)]

(* The text the bubble shows. *)
TextIn(step) == IF step.type = "text" THEN step.text ELSE <<>>

ShownText(m) ==
  IF m.steps = <<>> THEN m.content
  ELSE FlattenSeq([i \in DOMAIN m.steps |-> TextIn(m.steps[i])])
=============================================================================
