----------------------------- MODULE ModelCalls -----------------------------
(***************************************************************************)
(* The calls of a language model, what the agent makes of the answers, and *)
(* what the chat window shows of them.                                     *)
(*                                                                         *)
(* A call is a stream (a turn of the agent), a completion (the agent       *)
(* without streaming, the phases) or a structured completion (the tools).  *)
(* OpenAI's provider settles refused parameters with at most two more      *)
(* requests; both providers repeat a structured request that failed or was *)
(* cut off.  A stream brings text in chunks of any size and the pieces of  *)
(* tool calls; the agent takes it apart into content, thoughts written     *)
(* between thinking tags, and the calls it dispatches when the stream says *)
(* it is final.  When their results are in, the next turn goes on in the   *)
(* same message of the window.                                             *)
(*                                                                         *)
(* A text is a sequence of letters.  The tags <thinking> and </thinking>   *)
(* are written <> and </>: the letters of the word, which no other part of *)
(* a tag can be mistaken for, are left out.  Events reach the window in    *)
(* their order (module JobEvents says when they do).                       *)
(***************************************************************************)
EXTENDS Integers, ChatView

CONSTANTS
  Tools,          \* the tools the model calls
  Confirmed,      \* those of them the user has to confirm
  MaxText,        \* bound: letters of a job, a tool call counting for three
  MaxPieces,      \* bound: pieces the arguments of a call come in
  MaxRetries,     \* requests of one structured completion (max_retries)
  MaxIterations   \* turns of the agent's loop (max_iterations)

ASSUME CallsAssumption ==
  /\ Confirmed \subseteq Tools
  /\ {MaxText, MaxPieces} \subseteq Nat
  /\ {MaxRetries, MaxIterations} \subseteq Nat \ {0}

VARIABLES
  provider,   \* who answers: "openai" or "anthropic"
  kind,       \* "stream", "complete" or "structured"
  pc,         \* "turn", "asking", "streaming", "waiting", "done" or "failed"
  iteration,  \* state.iteration
  request,    \* what is asked, while it is: [params, refuses, refusals, attempt]
  said,       \* what the model has said in this turn: [text, calls], of a call
              \* how many pieces it has and how many have come
  parse,      \* the agent's parser, below
  open,       \* current_tool_calls: the pieces that have come of each call begun
  tools,      \* tool_calls: the calls handed to the agent
  finish,     \* why the stream finished: "none", "stop" or "length"
  result,     \* of a structured completion: "none", "whole" or "cut"
  waiting,    \* calls without a result: "confirm" until the user has answered
  view,       \* the message in the window
  spent       \* bound: letters and calls of the job

turn == <<said, parse, open, tools, finish>>
rest == <<provider, kind, iteration, result>>
callsVars == <<rest, turn, pc, request, waiting, view, spent>>

-----------------------------------------------------------------------------
(* Texts, tags and the parser *)

Letters == {"<", "/", ">", "a"}
Open == <<"<", ">">>
Close == <<"<", "/", ">">>

(* The tag that ends the thoughts, or that begins them. *)
Tag(inside) == IF inside THEN Close ELSE Open

(* content_buffer, reasoning_buffer, pending_buffer, in_thinking_tag and     *)
(* thinking_buffer; events are those of the step under way, in order.        *)
Fresh == [content |-> <<>>, reasoning |-> <<>>, pending |-> <<>>,
          inside |-> FALSE, buffer |-> <<>>, events |-> <<>>]

Parser ==
  [content : Seq(Letters), reasoning : Seq(Letters \cup {"r"}), pending : Seq(Letters),
   inside : BOOLEAN, buffer : Seq(Letters),
   events : Seq([type : {"delta", "reasoning_delta"}, content : Seq(Letters)])]

Found(text, tag) ==
  {i \in 1..(Len(text) - Len(tag) + 1) : SubSeq(text, i, i + Len(tag) - 1) = tag}

\* Mutant of Partial: the beginning of a tag is shown as text.
HoldsNothing(text, tag) == 0

(* The length of the longest end of text that may be the beginning of tag. *)
Partial(text, tag) ==
  Max({0} \cup {i \in 1..Min({Len(text), Len(tag)}) :
                  IsSuffix(SubSeq(tag, 1, i), text)})

(* A delta: thoughts inside the tags, content outside. *)
Emit(p, letters) ==
  IF letters = <<>> THEN p
  ELSE IF p.inside
  THEN [p EXCEPT !.reasoning = @ \o letters, !.buffer = @ \o letters,
                 !.events = Append(@, [type |-> "reasoning_delta", content |-> letters])]
  ELSE [p EXCEPT !.content = @ \o letters,
                 !.events = Append(@, [type |-> "delta", content |-> letters])]

(* The buffer of the thoughts is emptied at a closing tag only when thoughts *)
(* stand before the tag in the same chunk.                                   *)
Cross(p, before) ==
  [Emit(p, before) EXCEPT
     !.inside = ~@,
     !.buffer = IF p.inside /\ before # <<>> THEN <<>> ELSE @]

(* What is left to scan is pending: a tag found in it is taken out, with the *)
(* text before it on this side of the tag and the rest on the other; without *)
(* a tag all but the beginning of one is emitted.                            *)
Scan[p \in Parser] ==
  LET text == p.pending
      tag == Tag(p.inside)
      tags == Found(text, tag)
      kept == Len(text) - Partial(text, tag)
  IN IF tags # {}
     THEN LET i == Min(tags)
          IN Scan[[Cross(p, SubSeq(text, 1, i - 1)) EXCEPT
                     !.pending = SubSeq(text, i + Len(tag), Len(text))]]
     ELSE [Emit(p, SubSeq(text, 1, kept)) EXCEPT
             !.pending = SubSeq(text, kept + 1, Len(text))]

Take(p, chunk) == Scan[[p EXCEPT !.pending = @ \o chunk]]

(* The end of the stream: what was held back is shown, and an unclosed tag's *)
(* thoughts, although they were shown as they came.                          *)
Flush(p) ==
  LET shown == Emit([p EXCEPT !.pending = <<>>], p.pending)
      again == Emit(shown, p.buffer)
  IN IF p.inside THEN [again EXCEPT !.buffer = <<>>] ELSE shown

(* The agent's events of a step go to the window. *)
Sends(p, more) ==
  /\ parse' = [p EXCEPT !.events = <<>>]
  /\ view' = HandleAll(view, p.events \o more)

-----------------------------------------------------------------------------
(* The request *)

NoRequest == [params |-> {}, refuses |-> {}, refusals |-> <<>>, attempt |-> 0]

(* What a model may refuse. *)
Refusable == {"temperature", "max_tokens", "reasoning_effort"}

(* What a request says of the model's parameters, by the name of the model: *)
(* "o1" stands for o1, o4 and gpt-5-mini, "gpt" for every other name.  The   *)
(* effort is sent if the installed library knows it.                         *)
Params(series, effort) ==
  (IF series = "o1" THEN {} ELSE {"temperature"})
  \cup (IF effort /\ series # "gpt" THEN {"reasoning_effort"} ELSE {})
  \cup (IF kind = "stream" THEN {}
        ELSE IF series = "gpt" THEN {"max_tokens"} ELSE {"max_completion_tokens"})

Providers == {"openai", "anthropic"}
Kinds == {"stream", "complete", "structured"}

Nothing == [text |-> <<>>, calls |-> <<>>]

FreshTurn ==
  /\ said' = Nothing /\ parse' = Fresh
  /\ open' = <<>> /\ tools' = <<>> /\ finish' = "none"

CallsInit ==
  /\ provider \in Providers
  /\ kind \in Kinds
  /\ pc = "turn" /\ iteration = 0
  /\ request = NoRequest
  /\ said = Nothing /\ parse = Fresh
  /\ open = <<>> /\ tools = <<>> /\ finish = "none" /\ result = "none"
  /\ waiting = <<>> /\ view = EmptyMessage /\ spent = 0

(* A turn of the loop: fresh buffers, the provider, the request.  What the   *)
(* model refuses of it is the provider's to know.                            *)
Ask ==
  /\ pc = "turn" /\ iteration < MaxIterations
  /\ pc' = "asking" /\ iteration' = iteration + 1
  /\ IF provider = "openai" /\ kind # "structured"
     THEN \E series \in {"o1", "o3", "gpt"}, effort \in BOOLEAN :
            \E no \in SUBSET (Refusable \cap Params(series, effort)) :
              request' = [NoRequest EXCEPT !.params = Params(series, effort), !.refuses = no]
     ELSE request' = NoRequest
  /\ FreshTurn
  /\ UNCHANGED <<provider, kind, result, waiting, view, spent>>

(* A job that fails says so, and the window stops reading. *)
GivesUp ==
  /\ pc' = "failed" /\ request' = NoRequest /\ FreshTurn
  /\ view' = Handle(view, [type |-> "error"])

(* The loop has run out of turns. *)
OutOfTurns ==
  /\ pc = "turn" /\ iteration = MaxIterations
  /\ GivesUp
  /\ UNCHANGED <<rest, waiting, spent>>

\* Mutant of Without: the parameter is taken out under another name.
MissesKey(params, p) ==
  IF p = "max_tokens" THEN (params \ {p}) \cup {"max_completion_tokens"} ELSE params

(* The request without what was refused. *)
Without(params, p) ==
  IF p = "max_tokens" THEN (params \ {p}) \cup {"max_completion_tokens"}
                      ELSE params \ {p}

(* The first refusal is settled unless it is of the effort, the second only  *)
(* if it is of the temperature, the third never.                             *)
Settles(refusals, p) ==
  \/ refusals = <<>> /\ p # "reasoning_effort"
  \/ Len(refusals) = 1 /\ p = "temperature"

(* A bad request: the model refuses one of the parameters sent. *)
Refused ==
  /\ pc = "asking"
  /\ \E p \in request.params \cap request.refuses :
       /\ request' = [request EXCEPT !.params = Without(@, p),
                                     !.refusals = Append(@, p)]
       /\ IF Settles(request.refusals, p) THEN pc' = "asking" /\ view' = view
          ELSE pc' = "failed" /\ view' = Handle(view, [type |-> "error"])
  /\ UNCHANGED <<rest, turn, waiting, spent>>

Accepts == pc = "asking" /\ request.params \cap request.refuses = {}

(* A completion comes in one piece; nobody looks for tags in it. *)
Complete(calls) == [i \in DOMAIN calls |-> [call |-> i, args |-> "whole"]]

Completes ==
  /\ Accepts /\ kind = "complete"
  /\ \E n \in 0..2, name \in Tools :
       /\ said' = [Nothing EXCEPT !.calls =
                     [i \in 1..n |-> [name |-> name, pieces |-> 0, sent |-> 0]]]
       /\ tools' = Complete(said'.calls)
  /\ pc' = "done" /\ finish' = "stop" /\ request' = NoRequest
  /\ UNCHANGED <<rest, parse, open, waiting, view, spent>>

\* Mutant of Structured: what was cut off is taken like the rest.
TakesAnything(whole) == "done"

(* A structured completion is whole, or was cut off at the token limit.  It  *)
(* is asked for again while requests are left.                               *)
Structured(whole) ==
  IF whole THEN "done"
  ELSE IF request.attempt < MaxRetries - 1 THEN "asking" ELSE "failed"

StructuredArrives ==
  /\ pc = "asking" /\ kind = "structured"
  /\ \E whole \in BOOLEAN :
       /\ pc' = Structured(whole)
       /\ result' = IF pc' # "done" THEN "none" ELSE IF whole THEN "whole" ELSE "cut"
  /\ request' = [request EXCEPT !.attempt = IF pc' = "asking" THEN @ + 1 ELSE 0]
  /\ UNCHANGED <<provider, kind, iteration, turn, waiting, view, spent>>

(* An error that may pass, of the connection or of the service: a structured *)
(* completion is asked for again while requests are left.                    *)
Again ==
  /\ kind = "structured" /\ request.attempt < MaxRetries - 1
  /\ pc' = "asking" /\ request' = [request EXCEPT !.attempt = @ + 1]
  /\ UNCHANGED <<turn, view>>

StructuredFails ==
  /\ pc = "asking" /\ kind = "structured"
  /\ Again \/ GivesUp
  /\ UNCHANGED <<rest, waiting, spent>>

(* Every other call fails the job, before its answer or in the middle of it. *)
RequestFails ==
  /\ pc = "asking" /\ kind # "structured"
  /\ GivesUp
  /\ UNCHANGED <<rest, waiting, spent>>

StreamFails ==
  /\ pc = "streaming"
  /\ GivesUp
  /\ UNCHANGED <<rest, waiting, spent>>

-----------------------------------------------------------------------------
(* The stream *)

Begins ==
  /\ Accepts /\ kind = "stream"
  /\ pc' = "streaming" /\ request' = NoRequest
  /\ UNCHANGED <<rest, turn, waiting, view, spent>>

Streaming == pc = "streaming" /\ finish = "none"

(* The model's own reasoning, which precedes what it says. *)
Reasons ==
  /\ Streaming /\ said = Nothing /\ parse.reasoning = <<>>
  /\ Sends([parse EXCEPT !.reasoning = <<"r">>],
           <<[type |-> "reasoning_delta", content |-> <<"r">>]>>)
  /\ UNCHANGED <<rest, pc, request, said, open, tools, finish, waiting, spent>>

(* A chunk of text, as long as the network made it.  Anthropic sends no text *)
(* inside the block of a call.                                               *)
TextArrives ==
  /\ Streaming
  /\ provider = "anthropic" => open = <<>>
  /\ \E chunk \in BoundedSeq(Letters, MaxText - spent) \ {<<>>} :
       /\ said' = [said EXCEPT !.text = @ \o chunk]
       /\ spent' = spent + Len(chunk)
       /\ Sends(Take(parse, chunk), <<>>)
  /\ UNCHANGED <<rest, pc, request, open, tools, finish, waiting>>

(* The first piece of a call names it.  OpenAI's calls are told apart by     *)
(* their index and may overlap; Anthropic's are blocks, one after the other. *)
CallBegins ==
  /\ Streaming /\ spent + 3 <= MaxText
  /\ provider = "anthropic" => open = <<>>
  /\ \E name \in Tools, n \in 0..MaxPieces :
       said' = [said EXCEPT !.calls = Append(@, [name |-> name, pieces |-> n, sent |-> 0])]
  /\ open' = Append(open, [call |-> Len(said'.calls), got |-> 0])
  /\ spent' = spent + 3
  /\ UNCHANGED <<rest, pc, request, parse, tools, finish, waiting, view>>

\* Mutant of AddPiece: a piece goes to the call begun last.
AddToLast(calls, i) == [calls EXCEPT ![Len(calls)].got = @ + 1]

(* A further piece of the arguments of one of the calls begun. *)
AddPiece(calls, i) == [calls EXCEPT ![i].got = @ + 1]

AllSent(c) == said.calls[c.call].sent = said.calls[c.call].pieces

PieceArrives ==
  /\ Streaming
  /\ \E i \in DOMAIN open :
       /\ ~AllSent(open[i])
       /\ said' = [said EXCEPT !.calls[open[i].call].sent = @ + 1]
       /\ open' = AddPiece(open, i)
  /\ UNCHANGED <<rest, pc, request, parse, tools, finish, waiting, view, spent>>

(* The arguments of a call are read as JSON: {} when they are not whole. *)
Loads(c) ==
  [call |-> c.call,
   args |-> IF c.got = said.calls[c.call].pieces THEN "whole" ELSE "none"]

(* The calls gathered are handed over: OpenAI's all at once when the stream  *)
(* gives its reason to finish, Anthropic's each at the end of its block.     *)
HandOver ==
  /\ tools' = tools \o [i \in DOMAIN open |-> Loads(open[i])]
  /\ open' = <<>>

BlockStops ==
  /\ Streaming /\ provider = "anthropic"
  /\ open # <<>> /\ AllSent(open[1])
  /\ HandOver
  /\ UNCHANGED <<rest, pc, request, said, parse, finish, waiting, view, spent>>

(* The model is done, or has used up its tokens in the middle of a call (a   *)
(* text cut off is a shorter text).                                          *)
Finishes ==
  /\ Streaming
  /\ \/ /\ finish' = "stop"
        /\ \A i \in DOMAIN open : AllSent(open[i])
        /\ provider = "anthropic" => open = <<>>
     \/ finish' = "length" /\ \E i \in DOMAIN open : ~AllSent(open[i])
  /\ HandOver
  /\ UNCHANGED <<rest, pc, request, said, parse, waiting, view, spent>>

-----------------------------------------------------------------------------
(* The end of a turn *)

Id(t) == <<iteration, t.call>>
Name(t) == said.calls[t.call].name

ToolCallEvent ==
  [type |-> "tool_call",
   calls |-> [i \in DOMAIN tools |-> [call |-> Id(tools[i]), name |-> Name(tools[i])]]]

(* One for each call the user has to confirm. *)
ConfirmRequests ==
  FlattenSeq([i \in DOMAIN tools |->
                IF Name(tools[i]) \in Confirmed
                THEN <<[type |-> "confirm_request", call |-> Id(tools[i])]>>
                ELSE <<>>])

(* The final chunk: what is left in the buffers is shown; with calls the job *)
(* is suspended until their results are in, without it is complete.          *)
(* OpenAI's stream is final at its end whether or not it gave a reason; the  *)
(* calls it had gathered without one are dropped.                            *)
Final ==
  /\ pc = "streaming"
  /\ finish # "none" \/ provider = "openai"
  /\ IF tools = <<>>
     THEN /\ pc' = "done" /\ waiting' = <<>>
          /\ Sends(Flush(parse), <<[type |-> "complete"]>>)
     ELSE /\ pc' = "waiting"
          /\ waiting' = [i \in DOMAIN tools |->
                           [call |-> Id(tools[i]), name |-> Name(tools[i]),
                            at |-> IF Name(tools[i]) \in Confirmed THEN "user" ELSE "tool"]]
          /\ Sends(Flush(parse), <<ToolCallEvent>> \o ConfirmRequests)
  /\ open' = <<>>
  /\ UNCHANGED <<rest, request, said, tools, finish, spent>>

(* The user answers a request for confirmation. *)
UserAnswers ==
  /\ pc = "waiting"
  /\ \E i \in DOMAIN waiting :
       /\ waiting[i].at = "user"
       /\ waiting' = [waiting EXCEPT ![i].at = "tool"]
       /\ view' = Handle(view, [type |-> "confirm_response", call |-> waiting[i].call])
  /\ UNCHANGED <<rest, turn, pc, request, spent>>

(* A result comes, and with the last of them the next turn. *)
ResultArrives ==
  /\ pc = "waiting"
  /\ \E i \in DOMAIN waiting :
       /\ waiting[i].at = "tool"
       /\ waiting' = [waiting EXCEPT ![i].at = "done"]
       /\ view' = Handle(view, [type |-> "tool_result", call |-> waiting[i].call,
                                name |-> waiting[i].name])
       /\ pc' = IF \A j \in DOMAIN waiting : waiting'[j].at = "done"
                THEN "turn" ELSE "waiting"
  /\ UNCHANGED <<rest, turn, request, spent>>

(* Anthropic's stream ends without a final chunk: the turn is thrown away    *)
(* and the model is asked once more, though the text was shown.              *)
EndsEarly ==
  /\ Streaming /\ provider = "anthropic"
  /\ pc' = "turn"
  /\ FreshTurn
  /\ UNCHANGED <<rest, request, waiting, view, spent>>

Ended == pc \in {"done", "failed"} /\ UNCHANGED callsVars

CallsNext ==
  \/ Ask \/ OutOfTurns \/ Refused
  \/ Completes \/ StructuredArrives
  \/ StructuredFails \/ RequestFails \/ StreamFails
  \/ Begins \/ Reasons \/ TextArrives
  \/ CallBegins \/ PieceArrives \/ BlockStops
  \/ Finishes \/ Final \/ UserAnswers \/ ResultArrives \/ EndsEarly
  \/ Ended

CallsSpec == CallsInit /\ [][CallsNext]_callsVars

-----------------------------------------------------------------------------
(* Properties *)

(* What a text says outside and inside the tags, read from its first letter  *)
(* to its last: the reference the parser is held against.                    *)
Split[from \in [text : Seq(Letters), inside : BOOLEAN]] ==
  IF from.text = <<>> THEN [content |-> <<>>, thoughts |-> <<>>]
  ELSE IF IsPrefix(Tag(from.inside), from.text)
  THEN Split[[text |-> SubSeq(from.text, Len(Tag(from.inside)) + 1, Len(from.text)),
              inside |-> ~from.inside]]
  ELSE LET more == Split[[from EXCEPT !.text = Tail(@)]]
       IN IF from.inside
          THEN [more EXCEPT !.thoughts = <<Head(from.text)>> \o @]
          ELSE [more EXCEPT !.content = <<Head(from.text)>> \o @]

(* However the network cuts the text of a turn into chunks, the answer and   *)
(* the thoughts the agent has sent, with what its parser holds back, are the *)
(* text outside and inside the thinking tags: no letter is lost, sent twice  *)
(* or sent on the wrong side, and no part of a tag is sent.  When the stream *)
(* ends inside a tag the thoughts may be followed by a repetition            *)
(* (agent.py:445).                                                           *)
SplitRight ==
  pc \in {"streaming", "waiting", "done"} =>
    LET split == Split[[text |-> said.text, inside |-> FALSE]]
        held(here) == IF parse.inside = here THEN parse.pending ELSE <<>>
        own == IF parse.reasoning # <<>> /\ parse.reasoning[1] = "r" THEN <<"r">> ELSE <<>>
        thoughts == own \o split.thoughts
    IN /\ parse.content \o held(FALSE) = split.content
       /\ IF pc # "streaming" /\ parse.inside
          THEN IsPrefix(thoughts, parse.reasoning)
          ELSE parse.reasoning \o held(TRUE) = thoughts

(* The window shows the whole text it was sent, once and in order: what was  *)
(* written before the first thoughts is lost when they become the message's  *)
(* first step (the bubble shows steps only), nothing else is.  The thoughts  *)
(* are shown whole from their second piece on, and finished when the job is. *)
(* A completed tool shows the result of its own call, unless another call of *)
(* the message was of the same tool.                                         *)
ShownAsSent ==
  LET steps == view.steps
      Tool(i) == steps[i].type = "tool"
  IN /\ view.early \o ShownText(view) = view.content
     /\ \A i \in DOMAIN steps :
          steps[i].type = "thinking" =>
            /\ view.pieces > 1 => steps[i].text = view.thoughts
            /\ pc = "done" => steps[i].finished
     /\ \A i \in DOMAIN steps :
          Tool(i) /\ steps[i].status = "completed" =>
            \/ steps[i].result = steps[i].call
            \/ \E j \in DOMAIN steps \ {i} : Tool(j) /\ steps[j].name = steps[i].name

(* A call that has ended well hands over what the model said and no more:    *)
(* the calls of the answer once each, in their order, all of them and with   *)
(* whole arguments unless the model ran out of tokens; and a structured      *)
(* completion that was cut off is never taken for a result.  A stream of     *)
(* OpenAI that ends without a reason is left out: its calls are lost.        *)
HandedOverWhole ==
  pc \in {"waiting", "done"} =>
    /\ kind = "structured" => result = "whole"
    /\ \A i \in DOMAIN tools : tools[i].call = i
    /\ finish = "stop" =>
         /\ Len(tools) = Len(said.calls)
         /\ \A i \in DOMAIN tools : tools[i].args = "whole"

(* A parameter the model has refused is never sent to it a second time, and  *)
(* refusals make a call fail in two cases only: the effort refused, which    *)
(* nothing settles, or max_tokens refused after the temperature was (the     *)
(* other order is settled).                                                  *)
RefusalsSettled ==
  /\ IsInjective(request.refusals)
  /\ pc = "failed" /\ request.refusals # <<>> =>
       \/ request.refusals = <<"temperature", "max_tokens">>
       \/ request.refusals[Len(request.refusals)] = "reasoning_effort"
=============================================================================
