------------------------------ MODULE LiveSessions ------------------------------
(***************************************************************************)
(* One live voice session: the browser's connection to the WebSocket       *)
(* gateway, and in the live session manager the object of the session with *)
(* the asyncio tasks that share it.  The control listener starts, pauses,  *)
(* resumes, interrupts and ends the session; the audio listener interrupts *)
(* an answer that is spoken over; a transcript becomes a turn, that is a   *)
(* job of the orchestrator; the response listener follows the events of    *)
(* one job and has its answer spoken; a timer ends the session.            *)
(*                                                                         *)
(* A step lasts from one await to the next.  Turns are numbered as they    *)
(* are heard, and a turn names its job and its answer as well.             *)
(***************************************************************************)
EXTENDS Naturals, Sequences, FiniteSets

CONSTANTS
    MaxTurns,    \* bound: what the user says
    MaxControls, \* bound: control messages of the client
    MaxFailures  \* bound: calls to Redis, the database, Kafka or Deepgram that fail

ASSUME LiveAssumption == {MaxTurns, MaxControls, MaxFailures} \subseteq Nat

VARIABLES
    client,    \* the connection: "connected", "started" or "over"
    inbox,     \* live_sessions:control, as the manager will receive it
    control,   \* what the control listener is doing
    session,   \* LiveSessionData, and whether SessionManager._sessions has it
    row,       \* the session's row
    turns,     \* what has become of each turn
    listener,  \* _listen_responses
    speech,    \* _stream_tts of each answer
    audio,     \* _listen_audio_input
    timer,     \* _session_timeout
    ending,    \* how far end_session is, and the speech it will cancel
    controls, failures,
    overlapped, \* history: turns whose jobs were under way together with others
    silenced,  \* history: answers that had begun when the last interrupt came
    sound,     \* history: whose speech the client has heard since the last interrupt
    late       \* history: what was under way when the session was ended

vars == <<client, inbox, control, session, row, turns, listener, speech, audio,
          timer, ending, controls, failures, overlapped, silenced, sound, late>>
historyVars == <<overlapped, silenced, sound, late>>
clientVars == <<client, controls>>

Turn == 1 .. MaxTurns
None == 0

ClientState == {"connected", "started", "over"}
Controls == {"pause", "resume", "interrupt", "end"}
SessionState == {"starting", "listening", "processing", "speaking", "paused", "ended"}
LiveSessionData ==
    [state : SessionState, known : BOOLEAN, paused : BOOLEAN, interrupted : BOOLEAN,
     current : Turn \cup {None}, spoken : Turn \cup {None}]
LiveSessionStatus == {"none", "active", "ended"}
TurnState ==
    {"unsaid", "heard", "thinking", "named", "created", "answered", "relayed", "failed"}

TypeOK ==
    /\ client \in ClientState
    /\ inbox \in Seq(Controls \cup {"start"})
    /\ control \in {"idle", "starting", "interrupting", "ending", "dead"}
    /\ session \in LiveSessionData
    /\ row \in LiveSessionStatus
    /\ turns \in [Turn -> TurnState]
    /\ listener \in [at : {"off", "idle", "listening", "speaking"},
                     job : Turn \cup {None}, event : BOOLEAN]
    /\ speech \in [Turn -> {"none", "playing", "cancelled", "over"}]
    /\ audio \in {"off", "on", "interrupting", "flushing"}
    /\ timer \in {"off", "armed", "ending"}
    /\ ending \in [at : {"no", "audio", "another", "speech", "response", "responding",
                         "row", "done", "failed"},
                   speech : Turn \cup {None}]
    /\ controls \in Nat
    /\ failures \in Nat
    /\ overlapped \subseteq Turn
    /\ silenced \subseteq Turn
    /\ sound \in Turn \cup {None}
    /\ late \in BOOLEAN

Init ==
    /\ client = "connected"
    /\ inbox = <<>>
    /\ control = "idle"
    /\ session = [state |-> "starting", known |-> FALSE, paused |-> FALSE,
                  interrupted |-> FALSE, current |-> None, spoken |-> None]
    /\ row = "none"
    /\ turns = [t \in Turn |-> "unsaid"]
    /\ listener = [at |-> "off", job |-> None, event |-> FALSE]
    /\ speech = [t \in Turn |-> "none"]
    /\ audio = "off"
    /\ timer = "off"
    /\ ending = [at |-> "no", speech |-> None]
    /\ controls = 0
    /\ failures = 0
    /\ overlapped = {}
    /\ silenced = {}
    /\ sound = None
    /\ late = FALSE

With(field, value) == [session EXCEPT ![field] = value]
SetState(s) == session' = With("state", s)

-----------------------------------------------------------------------------
(* The client and the gateway                                              *)

Send(action) == inbox' = Append(inbox, action)

StartSession ==
    /\ client = "connected"
    /\ client' = "started"
    /\ Send("start")
    /\ UNCHANGED <<control, session, row, turns, listener, speech, audio, timer,
                   ending, controls, failures, historyVars>>

SendControl(action) ==
    /\ client = "started"
    /\ controls < MaxControls
    /\ controls' = controls + 1
    /\ client' = IF action = "end" THEN "over" ELSE client
    /\ Send(action)
    /\ UNCHANGED <<control, session, row, turns, listener, speech, audio, timer,
                   ending, failures, historyVars>>

\* The gateway only forgets the connection: nothing tells the manager.
Disconnect ==
    /\ client = "started"
    /\ client' = "over"
    /\ UNCHANGED <<inbox, control, session, row, turns, listener, speech, audio,
                   timer, ending, controls, failures, historyVars>>

-----------------------------------------------------------------------------
(* The control listener                                                    *)

Receive(action) ==
    /\ control = "idle"
    /\ inbox # <<>>
    /\ Head(inbox) = action
    /\ inbox' = Tail(inbox)

\* An exception that start_session or end_session raises ends the listener.
Raise(doing) ==
    /\ failures < MaxFailures
    /\ failures' = failures + 1
    /\ control' = IF control = doing THEN "dead" ELSE control

BeginStart ==
    /\ Receive("start")
    /\ control' = "starting"
    /\ session' = With("known", TRUE)
    /\ UNCHANGED <<row, turns, listener, speech, audio, timer, ending, failures,
                   clientVars, historyVars>>

FinishStart ==
    /\ control = "starting"
    /\ control' = "idle"
    /\ row' = "active"
    /\ SetState("listening")
    /\ audio' = "on"
    /\ listener' = [listener EXCEPT !.at = "idle"]
    /\ timer' = "armed"
    /\ UNCHANGED <<inbox, turns, speech, ending, failures, clientVars, historyVars>>

FailStart ==
    /\ control = "starting"
    /\ Raise("starting")
    /\ row' \in {"none", "active"}
    /\ UNCHANGED <<inbox, session, turns, listener, speech, audio, timer, ending,
                   clientVars, historyVars>>

Pause ==
    /\ Receive("pause")
    /\ session' = IF session.known
                  THEN [session EXCEPT !.state = "paused", !.paused = TRUE]
                  ELSE session
    /\ UNCHANGED <<control, row, turns, listener, speech, audio, timer, ending,
                   failures, clientVars, historyVars>>

Resume ==
    /\ Receive("resume")
    /\ session' = IF session.known
                  THEN [session EXCEPT !.state = "listening", !.paused = FALSE]
                  ELSE session
    /\ UNCHANGED <<control, row, turns, listener, speech, audio, timer, ending,
                   failures, clientVars, historyVars>>

-----------------------------------------------------------------------------
(* Interrupting an answer                                                  *)

Begun == {t \in Turn : speech[t] # "none"}
Playing == {t \in Turn : speech[t] = "playing"}
Cancelled == {t \in Turn : speech[t] = "cancelled"}

\* interrupt_session up to the wait for the speech it cancels, which is only the
\* last one.
Cut ==
    /\ session' = With("interrupted", TRUE)
    /\ speech' = [t \in Turn |-> IF t = session.spoken /\ t \in Playing
                                 THEN "cancelled" ELSE speech[t]]
    /\ silenced' = Begun
    /\ sound' = None
    /\ UNCHANGED <<overlapped, late>>

BeginInterrupt ==
    /\ Receive("interrupt")
    /\ IF session.known
       THEN Cut /\ control' = "interrupting"
       ELSE UNCHANGED <<session, speech, control, historyVars>>
    /\ UNCHANGED <<row, turns, listener, audio, timer, ending, failures, clientVars>>

FinishInterrupt ==
    /\ control = "interrupting"
    /\ Cancelled = {}
    /\ control' = "idle"
    /\ SetState("listening")
    /\ UNCHANGED <<inbox, row, turns, listener, speech, audio, timer, ending,
                   failures, clientVars, historyVars>>

\* Audio of the user while an answer is spoken.
SpeakOver ==
    /\ audio = "on"
    /\ session.known
    /\ session.state = "speaking"
    /\ Cut
    /\ audio' = IF session.spoken \in Playing \cup Cancelled THEN "interrupting" ELSE "flushing"
    /\ UNCHANGED <<inbox, control, row, turns, listener, timer, ending, failures,
                   clientVars>>

\* The speech it waits for is over.
AwaitSpeech ==
    /\ audio = "interrupting"
    /\ Cancelled = {}
    /\ audio' = "flushing"
    /\ UNCHANGED <<inbox, control, session, row, turns, listener, speech, timer, ending,
                   failures, clientVars, historyVars>>

\* The speech client is flushed: nothing keeps off a cancellation there.
FinishSpeakOver ==
    /\ audio = "flushing"
    /\ ending.at # "audio"
    /\ SetState("listening")
    /\ audio' = "on"
    /\ UNCHANGED <<inbox, control, row, turns, listener, speech, timer, ending,
                   failures, clientVars, historyVars>>

\* A call to Redis or Deepgram raises and ends the audio or the response listener:
\* nobody waits for either before the end of the session.
ListenerFails ==
    /\ failures < MaxFailures
    /\ failures' = failures + 1
    /\ \/ /\ listener.at # "off"
          /\ ending.at # "responding"
          /\ listener' = [at |-> "off", job |-> None, event |-> FALSE]
          /\ audio' = audio
       \/ /\ audio # "off"
          /\ ending.at \notin {"audio", "another"}
          /\ audio' = "off"
          /\ listener' = listener
    /\ UNCHANGED <<inbox, control, session, row, turns, speech, timer, ending,
                   clientVars, historyVars>>

-----------------------------------------------------------------------------
(* A turn: _on_transcript and _create_job_from_transcript                  *)

TurnGoes(t, from, to) ==
    /\ turns[t] = from
    /\ turns' = [turns EXCEPT ![t] = to]

Heard == {t \in Turn : turns[t] # "unsaid"}

Transcript(t) ==
    /\ t - 1 \in Heard \cup {None}
    /\ audio # "off"
    /\ session.known
    /\ ~session.paused
    /\ TurnGoes(t, "unsaid", "heard")
    /\ UNCHANGED <<inbox, control, session, row, listener, speech, audio, timer,
                   ending, failures, clientVars, historyVars>>

Think(t) ==
    /\ TurnGoes(t, "heard", "thinking")
    /\ SetState("processing")
    /\ UNCHANGED <<inbox, control, row, listener, speech, audio, timer, ending,
                   failures, clientVars, historyVars>>

\* A job is under way until its answer is relayed, or is lost.
UnderWay(t) ==
    \/ turns[t] \in {"named", "created"}
    \/ listener.job = t /\ (listener.event \/ listener.at = "speaking")

NameJob(t) ==
    /\ TurnGoes(t, "thinking", "named")
    /\ session' = With("current", t)
    /\ LET others == {u \in Turn \ {t} : UnderWay(u)} IN
         overlapped' = overlapped \cup others \cup (IF others = {} THEN {} ELSE {t})
    /\ UNCHANGED <<inbox, control, row, listener, speech, audio, timer, ending,
                   failures, clientVars, silenced, sound, late>>

CreateJob(t) ==
    /\ TurnGoes(t, "named", "created")
    /\ UNCHANGED <<inbox, control, session, row, listener, speech, audio, timer,
                   ending, failures, clientVars, historyVars>>

FailTurn(t) ==
    /\ failures < MaxFailures
    /\ failures' = failures + 1
    /\ TurnGoes(t, "named", "failed")
    /\ UNCHANGED <<inbox, control, session, row, listener, speech, audio, timer,
                   ending, clientVars, historyVars>>

\* The orchestrator's complete or error event, which nobody keeps for later.
Follows(t) == listener.at = "listening" /\ listener.job = t

Answer(t) ==
    /\ TurnGoes(t, "created", "answered")
    /\ listener' = [listener EXCEPT !.event = @ \/ Follows(t)]
    /\ UNCHANGED <<inbox, control, session, row, speech, audio, timer, ending,
                   failures, clientVars, historyVars>>

-----------------------------------------------------------------------------
(* The response listener and what it has spoken                            *)

Poll ==
    /\ listener.at = "idle"
    /\ listener' = IF session.state = "ended" THEN [listener EXCEPT !.at = "off"]
                   ELSE [at |-> "listening", job |-> session.current, event |-> FALSE]
    /\ session.state = "ended" \/ session.current # None
    /\ UNCHANGED <<inbox, control, session, row, turns, speech, audio, timer, ending,
                   failures, clientVars, historyVars>>

\* Mutant: the session keeps the job that has ended.
KeepsJob == session

\* It forgets the current job, though another one may have become it since.
ForgetsJob == With("current", None)

NothingToSay ==
    /\ listener.at = "listening"
    /\ listener.event
    /\ session.state # "ended"
    /\ TurnGoes(listener.job, "answered", "relayed")
    /\ session' = ForgetsJob
    /\ listener' = [at |-> "idle", job |-> None, event |-> FALSE]
    /\ UNCHANGED <<inbox, control, row, speech, audio, timer, ending, failures,
                   clientVars, historyVars>>

BeginSpeaking ==
    /\ listener.at = "listening"
    /\ listener.event
    /\ session.state # "ended"
    /\ SetState("speaking")
    /\ listener' = [listener EXCEPT !.at = "speaking", !.event = FALSE]
    /\ UNCHANGED <<inbox, control, row, turns, speech, audio, timer, ending, failures,
                   clientVars, historyVars>>

\* An earlier answer that is still spoken goes on, and is no task of the
\* session's any more.
Speak ==
    /\ listener.at = "speaking"
    /\ TurnGoes(listener.job, "answered", "relayed")
    /\ session' = [ForgetsJob EXCEPT !.interrupted = FALSE, !.spoken = listener.job]
    /\ speech' = [speech EXCEPT ![listener.job] = "playing"]
    /\ listener' = [at |-> "idle", job |-> None, event |-> FALSE]
    /\ UNCHANGED <<inbox, control, row, audio, timer, ending, failures,
                   clientVars, historyVars>>

\* Mutant: only the end of the session stops a speech nobody cancels.
OnlyEnded == session.state # "ended"

MaySound == ~session.interrupted /\ session.state # "ended"

Sound(t) ==
    /\ speech[t] = "playing"
    /\ MaySound
    /\ sound' = t
    /\ UNCHANGED <<inbox, control, session, row, turns, listener, speech, audio,
                   timer, ending, failures, clientVars, overlapped, silenced, late>>

\* The speech is over, cancelled or stopped by a flag.  It sets the state, even of
\* a session that has ended, unless it was interrupted or had not begun to run.
SpeechOver(t) ==
    /\ t \in Playing \cup Cancelled
    /\ speech' = [speech EXCEPT ![t] = "over"]
    /\ \/ ~session.interrupted /\ SetState("listening")
       \/ /\ session.interrupted \/ t \in Cancelled \/ ~session.known
          /\ UNCHANGED session
    /\ UNCHANGED <<inbox, control, row, turns, listener, audio, timer, ending,
                   failures, clientVars, historyVars>>

-----------------------------------------------------------------------------
(* end_session, for the control listener or the timer                      *)

\* What keeps the response listener in the session, and what sets the state of a
\* session that is being ended.
TurnUnderWay ==
    \/ listener.at = "listening"
    \/ session.current # None
    \/ \E t \in Turn : turns[t] \in {"heard", "thinking"}
StateComes ==
    \/ Playing \cup Cancelled # {}
    \/ listener.at = "speaking"
    \/ \E t \in Turn : turns[t] = "heard"
    \/ control = "interrupting"

\* The first task it cancels is the audio listener's, and the wait for a speech
\* swallows the cancellation.
Pop ==
    /\ session' = [session EXCEPT !.known = FALSE, !.state = "ended"]
    /\ ending' = [at |-> IF audio = "interrupting" THEN "another" ELSE "audio",
                  speech |-> session.spoken]
    /\ late' = (audio = "interrupting" \/ (TurnUnderWay /\ StateComes))
    /\ UNCHANGED <<overlapped, silenced, sound>>

ControlEnd ==
    /\ Receive("end")
    /\ IF session.known THEN Pop /\ control' = "ending"
       ELSE UNCHANGED <<session, ending, control, historyVars>>
    /\ UNCHANGED <<row, turns, listener, speech, audio, timer, failures, clientVars>>

Timeout ==
    /\ timer = "armed"
    /\ IF session.known THEN Pop /\ timer' = "ending"
       ELSE UNCHANGED <<session, ending, historyVars>> /\ timer' = "off"
    /\ UNCHANGED <<inbox, control, row, turns, listener, speech, audio, failures,
                   clientVars>>

\* pubsub.listen() takes the cancellation for the end of its loop.
EndAudio ==
    /\ ending.at = "audio"
    /\ audio' = "off"
    /\ ending' = [ending EXCEPT !.at = "speech"]
    /\ UNCHANGED <<inbox, control, session, row, turns, listener, speech, timer,
                   failures, clientVars, historyVars>>

\* A listener that was not cancelled, or in vain, looks for the session when the
\* client's next audio comes.
MissSession ==
    /\ audio = "on"
    /\ ~session.known
    /\ ending.at # "audio"
    /\ audio' = "off"
    /\ ending' = [ending EXCEPT !.at = IF @ = "another" THEN "speech" ELSE @]
    /\ UNCHANGED <<inbox, control, session, row, turns, listener, speech, timer,
                   failures, clientVars, historyVars>>

CancelSpeech ==
    /\ ending.at = "speech"
    /\ ending.speech \in Playing
    /\ speech' = [speech EXCEPT ![ending.speech] = "cancelled"]
    /\ UNCHANGED <<inbox, control, session, row, turns, listener, audio, timer, ending,
                   failures, clientVars, historyVars>>

EndSpeech ==
    /\ ending.at = "speech"
    /\ ending.speech \notin Playing \cup Cancelled
    /\ ending' = [ending EXCEPT !.at = "response"]
    /\ UNCHANGED <<inbox, control, session, row, turns, listener, speech, audio, timer,
                   failures, clientVars, historyVars>>

CancelResponse ==
    /\ ending.at = "response"
    /\ listener' = [listener EXCEPT !.at = "off"]
    /\ ending' = [ending EXCEPT !.at = "responding"]
    /\ UNCHANGED <<inbox, control, session, row, turns, speech, audio, timer, failures,
                   clientVars, historyVars>>

\* It is cancelled once: in pubsub.listen() that may end no more than the inner
\* loop, and the outer one looks at the state.
SwallowCancel ==
    /\ ending.at = "response"
    /\ listener.at = "listening"
    /\ session.state # "ended"
    /\ listener' = [at |-> "idle", job |-> None, event |-> FALSE]
    /\ ending' = [ending EXCEPT !.at = "responding"]
    /\ UNCHANGED <<inbox, control, session, row, turns, speech, audio, timer, failures,
                   clientVars, historyVars>>

\* Mutant: the timer that runs end_session does not survive its own cancellation.
CancelsItself ==
    /\ ending.at = "responding"
    /\ listener.at = "off"
    /\ timer # "ending"
    /\ timer' = "off"
    /\ ending' = [ending EXCEPT !.at = "row"]
    /\ UNCHANGED <<inbox, control, session, row, turns, listener, speech, audio,
                   failures, clientVars, historyVars>>

\* The timer that runs end_session cancels itself, to no effect.
EndTimer ==
    /\ ending.at = "responding"
    /\ listener.at = "off"
    /\ timer' = IF timer = "armed" THEN "off" ELSE timer
    /\ ending' = [ending EXCEPT !.at = "row"]
    /\ UNCHANGED <<inbox, control, session, row, turns, listener, speech, audio,
                   failures, clientVars, historyVars>>

Persist ==
    /\ ending.at = "row"
    /\ row' = "ended"
    /\ ending' = [ending EXCEPT !.at = "done"]
    /\ control' = IF control = "ending" THEN "idle" ELSE control
    /\ timer' = "off"
    /\ UNCHANGED <<inbox, session, turns, listener, speech, audio, failures,
                   clientVars, historyVars>>

\* A call of its own, or a task it has cancelled and waits for, raises.
FailEnd ==
    /\ ending.at \notin {"no", "done", "failed"}
    /\ Raise("ending")
    /\ ending' = [ending EXCEPT !.at = "failed"]
    /\ audio' = IF ending.at = "audio" THEN "off" ELSE audio
    /\ timer' = IF timer = "ending" THEN "off" ELSE timer
    /\ UNCHANGED <<inbox, session, row, turns, listener, speech, clientVars,
                   historyVars>>

-----------------------------------------------------------------------------
ControlNext ==
    \/ BeginStart \/ FinishStart \/ FailStart
    \/ Pause \/ Resume
    \/ BeginInterrupt \/ FinishInterrupt
    \/ ControlEnd

EndNext ==
    \/ EndAudio \/ CancelSpeech \/ EndSpeech \/ CancelResponse \/ SwallowCancel
    \/ EndTimer \/ Persist

ListenerNext == Poll \/ NothingToSay \/ BeginSpeaking \/ Speak

Next ==
    \/ StartSession
    \/ \E action \in Controls : SendControl(action)
    \/ Disconnect
    \/ ControlNext
    \/ SpeakOver \/ AwaitSpeech \/ FinishSpeakOver \/ MissSession
    \/ ListenerFails \/ FailEnd
    \/ \E t \in Turn :
          \/ Transcript(t) \/ Think(t) \/ NameJob(t) \/ CreateJob(t) \/ FailTurn(t)
          \/ Answer(t)
          \/ Sound(t) \/ SpeechOver(t)
    \/ ListenerNext
    \/ Timeout
    \/ EndNext

\* asyncio runs every task that is ready; nothing is asked of the client, of the
\* user or of the orchestrator.
Spec ==
    /\ Init
    /\ [][Next]_vars
    /\ WF_vars(EndNext)
    /\ WF_vars(Timeout)
    /\ WF_vars(ListenerNext)
    /\ WF_vars(AwaitSpeech) /\ WF_vars(FinishSpeakOver)
    /\ \A t \in Turn : WF_vars(SpeechOver(t))

-----------------------------------------------------------------------------
(* Properties                                                              *)

\* The listener waits for a job that says nothing any more: it could not be
\* created, or it was answered before the listener subscribed.
Deaf ==
    /\ listener.at = "listening"
    /\ ~listener.event
    /\ turns[listener.job] \in {"failed", "answered"}

\* There are four ways to lose the answer to a turn, and no other: its job is under
\* way together with another turn's, the listener has not come to its job yet, it
\* waits in vain for an earlier job, or a failing call has ended it.  A failure the
\* listener was not waiting for loses nothing, nor does an interrupt, a pause or an
\* answer that is still spoken.
TurnsFollowed ==
    [][\A t \in Turn \ overlapped :
          turns[t] = "created" /\ turns'[t] = "answered" /\ ending.at = "no"
          => \/ Follows(t)
             \/ listener.at = "idle" /\ session.current = t
             \/ Deaf
             \/ listener.at = "off"]_vars

\* After an interrupt no answer that had begun is heard again, not even one the
\* session has lost sight of, before another answer begins.
SilencedStaysSilent == sound \in silenced => Begun \ silenced # {}

\* A session that has started is ended in the database, by the timer at the latest
\* and whether or not the client ever says so, unless a call of end_session fails,
\* or the end comes while the audio listener waits for the answer the user has
\* spoken over, or while a turn is under way and, at the same time, an answer is
\* spoken, a transcript is taken in or an interruption goes on: then the session may
\* wait for audio or for an answer that never comes.
SessionEnds == timer = "armed" ~> row = "ended" \/ ending.at = "failed" \/ late
=============================================================================
