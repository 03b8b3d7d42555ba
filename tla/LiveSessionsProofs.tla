------------------------- MODULE LiveSessionsProofs -------------------------
(***************************************************************************)
(* After an interrupt what was silenced stays silent, and a turn that is   *)
(* under way alone is followed but for three reasons, for every number of  *)
(* turns, of control messages and of failures.                             *)
(***************************************************************************)
EXTENDS LiveSessions, SequenceTheorems, TLAPS

\* What an assignment to one field of the session leaves as it was.
LEMMA WithFacts ==
    ASSUME session \in LiveSessionData
    PROVE  /\ \A s \in SessionState :
                /\ With("state", s) \in LiveSessionData
                /\ With("state", s) = [session EXCEPT !.state = s]
           /\ \A b \in BOOLEAN :
                /\ With("known", b) \in LiveSessionData
                /\ With("known", b) = [session EXCEPT !.known = b]
                /\ With("interrupted", b) \in LiveSessionData
                /\ With("interrupted", b) = [session EXCEPT !.interrupted = b]
           /\ \A t \in Turn \cup {None} :
                /\ With("current", t) \in LiveSessionData
                /\ With("current", t) = [session EXCEPT !.current = t]
  BY DEF With, LiveSessionData

\* The same of the assignments that change several fields.
LEMMA FieldsFacts ==
    ASSUME session \in LiveSessionData
    PROVE  /\ [session EXCEPT !.known = FALSE, !.state = "ended"] \in LiveSessionData
           /\ \A t \in Turn :
                /\ [ForgetsJob EXCEPT !.interrupted = FALSE, !.spoken = t]
                     = [session EXCEPT !.current = None, !.interrupted = FALSE, !.spoken = t]
                /\ [session EXCEPT !.current = None, !.interrupted = FALSE, !.spoken = t]
                     \in LiveSessionData
  BY DEF With, LiveSessionData, SessionState, ForgetsJob

\* A listener at work has a job.
Listens == listener.at \in {"listening", "speaking"} => listener.job # None

\* The fields a Boolean is not written to.
LEMMA BooleanFacts ==
    ASSUME session \in LiveSessionData
    PROVE  /\ With("known", TRUE).current = session.current
           /\ With("known", TRUE).interrupted = session.interrupted
           /\ With("known", TRUE).state = session.state
           /\ With("interrupted", TRUE).current = session.current
           /\ With("interrupted", TRUE).interrupted
           /\ With("interrupted", TRUE).state = session.state
           /\ \A t \in Turn :
                [session EXCEPT !.current = None, !.interrupted = FALSE, !.spoken = t].current
                  = None
           /\ \A t \in Turn :
                [session EXCEPT !.current = None, !.interrupted = FALSE, !.spoken = t].state
                  = session.state
  BY DEF With, LiveSessionData

\* The program starts in the state the type invariant describes.
LEMMA InitType == Init => TypeOK
  <1> SUFFICES ASSUME Init
               PROVE  TypeOK
    OBVIOUS
  <1>1. inbox \in Seq(Controls \cup {"start"})
    BY DEF Init
  <1>2. session \in LiveSessionData
    BY DEF Init, LiveSessionData, SessionState
  <1> QED  BY <1>1, <1>2 DEF Init, TypeOK, ClientState, LiveSessionStatus, TurnState

\* Every step keeps the session's record one of a session.
LEMMA NextSession ==
    ASSUME TypeOK, Listens, [Next]_vars
    PROVE  session' \in LiveSessionData
  <1>0. /\ session \in LiveSessionData
        /\ listener.job \in Turn \cup {None}
        /\ listener.at \in {"listening", "speaking"} => listener.job \in Turn
    BY DEF TypeOK, Listens
  <1>00. {"listening", "processing", "speaking", "paused", "ended"} \subseteq SessionState
    BY DEF SessionState
  <1>1. CASE FinishStart
    BY <1>0, <1>00, <1>1, WithFacts DEF FinishStart, SetState
  <1>2. CASE BeginStart
    BY <1>0, <1>00, <1>2, WithFacts DEF BeginStart, SetState
  <1>3. CASE Pause
    BY <1>0, <1>00, <1>3, WithFacts DEF Pause, SetState, LiveSessionData
  <1>4. CASE Resume
    BY <1>0, <1>00, <1>4, WithFacts DEF Resume, SetState, LiveSessionData
  <1>5. CASE BeginInterrupt
    BY <1>0, <1>00, <1>5, WithFacts DEF BeginInterrupt, SetState, Cut
  <1>6. CASE FinishInterrupt
    BY <1>0, <1>00, <1>6, WithFacts DEF FinishInterrupt, SetState
  <1>7. CASE ControlEnd
    BY <1>0, <1>00, <1>7, FieldsFacts DEF ControlEnd, SetState, Pop
  <1>8. CASE SpeakOver
    BY <1>0, <1>00, <1>8, WithFacts DEF SpeakOver, SetState, Cut
  <1>9. CASE FinishSpeakOver
    BY <1>0, <1>00, <1>9, WithFacts DEF FinishSpeakOver, SetState
  <1>10. CASE NothingToSay
    BY <1>0, <1>00, <1>10, WithFacts DEF NothingToSay, SetState, ForgetsJob
  <1>11. CASE BeginSpeaking
    BY <1>0, <1>00, <1>11, WithFacts DEF BeginSpeaking, SetState
  <1>12. CASE Speak
    BY <1>0, <1>00, <1>12, FieldsFacts DEF Speak, SetState, TurnGoes
  <1>13. CASE Timeout
    BY <1>0, <1>00, <1>13, FieldsFacts DEF Timeout, SetState, Pop
  <1>14. ASSUME NEW t \in Turn, Think(t)
        PROVE  session' \in LiveSessionData
    BY <1>0, <1>00, <1>14, WithFacts DEF Think, SetState
  <1>15. ASSUME NEW t \in Turn, NameJob(t)
        PROVE  session' \in LiveSessionData
    BY <1>0, <1>00, <1>15, WithFacts DEF NameJob, SetState
  <1>16. ASSUME NEW t \in Turn, SpeechOver(t)
        PROVE  session' \in LiveSessionData
    BY <1>0, <1>00, <1>16, WithFacts DEF SpeechOver, SetState
  <1>17. CASE UNCHANGED session
    BY <1>0, <1>17
  <1> QED
    BY <1>1, <1>2, <1>3, <1>4, <1>5, <1>6, <1>7, <1>8, <1>9, <1>10, <1>11, <1>12, <1>13, <1>14,
       <1>15, <1>16, <1>17
    DEF Next, ControlNext, ListenerNext, EndNext, vars, StartSession, Disconnect, FailStart, Poll,
        EndAudio, CancelSpeech, EndSpeech, CancelResponse, SwallowCancel, EndTimer, Persist,
        FailEnd, AwaitSpeech, ListenerFails, MissSession, Transcript, CreateJob, FailTurn, Answer, Sound, SendControl

\* What one field or another of a record in the type invariant is.
LEMMA Types ==
    ASSUME TypeOK
    PROVE  /\ session.current \in Turn \cup {None}
           /\ session.spoken \in Turn \cup {None}
           /\ session.known \in BOOLEAN
           /\ session.interrupted \in BOOLEAN
           /\ session.state \in SessionState
           /\ listener.job \in Turn \cup {None}
           /\ listener.event \in BOOLEAN
           /\ listener.at \in {"off", "idle", "listening", "speaking"}
           /\ ending.speech \in Turn \cup {None}
           /\ \A t \in Turn : speech[t] \in {"none", "playing", "cancelled", "over"}
           /\ None \notin Turn
  <1>1. None \notin Turn
    BY LiveAssumption DEF Turn, None
  <1>2. session \in LiveSessionData
    BY DEF TypeOK
  <1>3. /\ session.current \in Turn \cup {None}
        /\ session.spoken \in Turn \cup {None}
        /\ session.known \in BOOLEAN
        /\ session.interrupted \in BOOLEAN
        /\ session.state \in SessionState
    BY <1>2 DEF LiveSessionData
  <1>4. /\ listener.job \in Turn \cup {None}
        /\ listener.event \in BOOLEAN
        /\ listener.at \in {"off", "idle", "listening", "speaking"}
    BY DEF TypeOK
  <1>5. /\ ending.speech \in Turn \cup {None}
        /\ \A t \in Turn : speech[t] \in {"none", "playing", "cancelled", "over"}
    BY DEF TypeOK
  <1> QED  BY <1>1, <1>3, <1>4, <1>5

\* A message taken from the control channel.
LEMMA ReceiveType ==
    ASSUME TypeOK, NEW action, Receive(action)
    PROVE  inbox' \in Seq(Controls \cup {"start"})
  BY DEF TypeOK, Receive

\* What an interruption writes.
LEMMA CutType ==
    ASSUME TypeOK, Cut
    PROVE  /\ speech' \in [Turn -> {"none", "playing", "cancelled", "over"}]
           /\ silenced' \subseteq Turn
           /\ sound' = None
           /\ overlapped' = overlapped
           /\ late' = late
  BY DEF TypeOK, Cut, Begun

\* What the beginning of the end writes.
LEMMA PopType ==
    ASSUME TypeOK, Pop
    PROVE  /\ ending' \in [at : {"no", "audio", "another", "speech", "response",
                                 "responding", "row", "done", "failed"},
                           speech : Turn \cup {None}]
           /\ late' \in BOOLEAN
           /\ UNCHANGED <<overlapped, silenced, sound>>
  <1>1. late' \in BOOLEAN
    BY DEF Pop
  <1> QED  BY <1>1, Types DEF Pop

\* Every step keeps the types and gives a listener at work a job.
LEMMA NextType ==
    ASSUME TypeOK, Listens, [Next]_vars
    PROVE  TypeOK' /\ Listens'
  <1>1. session' \in LiveSessionData
    BY NextSession
  <1>2. CASE StartSession
    BY <1>1, <1>2
    DEF TypeOK, Listens, ClientState, LiveSessionStatus, TurnState, clientVars, historyVars,
        StartSession, Send
  <1>3. CASE Disconnect
    BY <1>1, <1>3
    DEF TypeOK, Listens, ClientState, LiveSessionStatus, TurnState, clientVars, historyVars,
        Disconnect
  <1>4. CASE BeginStart
    <2>1. inbox' \in Seq(Controls \cup {"start"})
      BY <1>4, ReceiveType DEF BeginStart
    <2>2. /\ control' = "starting"
          /\ UNCHANGED <<row, turns, listener, speech, audio, timer, ending, failures,
                         client, controls, overlapped, silenced, sound, late>>
      BY <1>4 DEF BeginStart, clientVars, historyVars
    <2> QED
      BY <1>1, <2>1, <2>2
         DEF TypeOK, Listens, ClientState, LiveSessionStatus, TurnState, clientVars, historyVars
  <1>5. CASE FinishStart
    BY <1>1, <1>5
    DEF TypeOK, Listens, ClientState, LiveSessionStatus, TurnState, clientVars, historyVars,
        FinishStart
  <1>6. CASE FailStart
    BY <1>1, <1>6
    DEF TypeOK, Listens, ClientState, LiveSessionStatus, TurnState, clientVars, historyVars,
        FailStart, Raise
  <1>7. CASE Pause
    BY <1>1, <1>7, ReceiveType
    DEF TypeOK, Listens, ClientState, LiveSessionStatus, TurnState, clientVars, historyVars, Pause
  <1>8. CASE Resume
    BY <1>1, <1>8, ReceiveType
    DEF TypeOK, Listens, ClientState, LiveSessionStatus, TurnState, clientVars, historyVars, Resume
  <1>9. CASE BeginInterrupt
    BY <1>1, <1>9, ReceiveType, CutType
    DEF TypeOK, Listens, ClientState, LiveSessionStatus, TurnState, clientVars, historyVars,
        BeginInterrupt
  <1>10. CASE FinishInterrupt
    BY <1>1, <1>10
    DEF TypeOK, Listens, ClientState, LiveSessionStatus, TurnState, clientVars, historyVars,
        FinishInterrupt
  <1>11. CASE ControlEnd
    BY <1>1, <1>11, ReceiveType, PopType
    DEF TypeOK, Listens, ClientState, LiveSessionStatus, TurnState, clientVars, historyVars,
        ControlEnd
  <1>12. CASE SpeakOver
    BY <1>1, <1>12, CutType
    DEF TypeOK, Listens, ClientState, LiveSessionStatus, TurnState, clientVars, historyVars,
        SpeakOver
  <1>13. CASE FinishSpeakOver
    BY <1>1, <1>13
    DEF TypeOK, Listens, ClientState, LiveSessionStatus, TurnState, clientVars, historyVars,
        FinishSpeakOver
  <1>14. CASE Poll
    BY <1>1, <1>14, Types
    DEF TypeOK, Listens, ClientState, LiveSessionStatus, TurnState, clientVars, historyVars, Poll
  <1>15. CASE NothingToSay
    BY <1>1, <1>15
    DEF TypeOK, Listens, ClientState, LiveSessionStatus, TurnState, clientVars, historyVars,
        NothingToSay, TurnGoes
  <1>16. CASE BeginSpeaking
    <2>1. /\ listener' \in [at : {"off", "idle", "listening", "speaking"},
                           job : Turn \cup {None}, event : BOOLEAN]
          /\ listener'.at = "speaking" /\ listener'.job = listener.job
      BY <1>16 DEF BeginSpeaking, TypeOK
    <2>2. listener.job # None
      BY <1>16 DEF BeginSpeaking, Listens
    <2>3. Listens'
      BY <2>1, <2>2 DEF Listens
    <2> QED
      BY <1>1, <1>16, <2>1, <2>3
      DEF TypeOK, Listens, ClientState, LiveSessionStatus, TurnState, clientVars, historyVars,
          BeginSpeaking
  <1>17. CASE Speak
    BY <1>1, <1>17
    DEF TypeOK, Listens, ClientState, LiveSessionStatus, TurnState, clientVars, historyVars, Speak,
        TurnGoes
  <1>18. CASE Timeout
    BY <1>1, <1>18, PopType
    DEF TypeOK, Listens, ClientState, LiveSessionStatus, TurnState, clientVars, historyVars, Timeout
  <1>19. CASE EndAudio
    BY <1>1, <1>19
    DEF TypeOK, Listens, ClientState, LiveSessionStatus, TurnState, clientVars, historyVars,
        EndAudio
  <1>20. CASE CancelSpeech
    BY <1>1, <1>20
    DEF TypeOK, Listens, ClientState, LiveSessionStatus, TurnState, clientVars, historyVars,
        CancelSpeech, Playing
  <1>21. CASE EndSpeech
    <2>1. ending' \in [at : {"no", "audio", "another", "speech", "response", "responding",
                            "row", "done", "failed"},
                      speech : Turn \cup {None}]
      BY <1>21, Types DEF EndSpeech, TypeOK
    <2> QED
      BY <1>1, <1>21, <2>1
      DEF TypeOK, Listens, ClientState, LiveSessionStatus, TurnState, clientVars, historyVars,
          EndSpeech
  <1>22. CASE CancelResponse
    BY <1>1, <1>22
    DEF TypeOK, Listens, ClientState, LiveSessionStatus, TurnState, clientVars, historyVars,
        CancelResponse
  <1>23. CASE SwallowCancel
    BY <1>1, <1>23
    DEF TypeOK, Listens, ClientState, LiveSessionStatus, TurnState, clientVars, historyVars,
        SwallowCancel
  <1>24. CASE EndTimer
    BY <1>1, <1>24
    DEF TypeOK, Listens, ClientState, LiveSessionStatus, TurnState, clientVars, historyVars,
        EndTimer
  <1>25. CASE Persist
    BY <1>1, <1>25
    DEF TypeOK, Listens, ClientState, LiveSessionStatus, TurnState, clientVars, historyVars, Persist
  <1>26. CASE FailEnd
    BY <1>1, <1>26
    DEF TypeOK, Listens, ClientState, LiveSessionStatus, TurnState, clientVars, historyVars,
        FailEnd, Raise
  <1>27. ASSUME NEW action \in Controls, SendControl(action)
        PROVE  TypeOK' /\ Listens'
    BY <1>1, <1>27
    DEF TypeOK, Listens, ClientState, LiveSessionStatus, TurnState, clientVars, historyVars,
        SendControl, Send
  <1>28. ASSUME NEW t \in Turn, Transcript(t)
        PROVE  TypeOK' /\ Listens'
    BY <1>1, <1>28
    DEF TypeOK, Listens, ClientState, LiveSessionStatus, TurnState, clientVars, historyVars,
        Transcript, TurnGoes
  <1>29. ASSUME NEW t \in Turn, Think(t)
        PROVE  TypeOK' /\ Listens'
    BY <1>1, <1>29
    DEF TypeOK, Listens, ClientState, LiveSessionStatus, TurnState, clientVars, historyVars, Think,
        TurnGoes
  <1>30. ASSUME NEW t \in Turn, NameJob(t)
        PROVE  TypeOK' /\ Listens'
    <2>1. overlapped' \subseteq Turn
      BY <1>30 DEF NameJob, TypeOK
    <2> QED
    BY <1>1, <1>30, <2>1
    DEF TypeOK, Listens, ClientState, LiveSessionStatus, TurnState, clientVars, historyVars,
        NameJob, TurnGoes
  <1>31. ASSUME NEW t \in Turn, CreateJob(t)
        PROVE  TypeOK' /\ Listens'
    BY <1>1, <1>31
    DEF TypeOK, Listens, ClientState, LiveSessionStatus, TurnState, clientVars, historyVars,
        CreateJob, TurnGoes
  <1>32. ASSUME NEW t \in Turn, FailTurn(t)
        PROVE  TypeOK' /\ Listens'
    BY <1>1, <1>32
    DEF TypeOK, Listens, ClientState, LiveSessionStatus, TurnState, clientVars, historyVars,
        FailTurn, TurnGoes
  <1>33. ASSUME NEW t \in Turn, Answer(t)
        PROVE  TypeOK' /\ Listens'
    <2> DEFINE b == listener.event \/ Follows(t)
    <2>1. listener' = [listener EXCEPT !.event = b]
      BY <1>33 DEF Answer
    <2>2. b \in BOOLEAN
      BY Types DEF Follows
    <2> HIDE DEF b
    <2>3. /\ listener' \in [at : {"off", "idle", "listening", "speaking"},
                           job : Turn \cup {None}, event : BOOLEAN]
          /\ Listens'
      BY <2>1, <2>2 DEF TypeOK, Listens
    <2> QED
      BY <1>1, <1>33, <2>3
      DEF TypeOK, Listens, ClientState, LiveSessionStatus, TurnState, clientVars, historyVars,
          Answer, TurnGoes
  <1>34. ASSUME NEW t \in Turn, Sound(t)
        PROVE  TypeOK' /\ Listens'
    BY <1>1, <1>34
    DEF TypeOK, Listens, ClientState, LiveSessionStatus, TurnState, clientVars, historyVars, Sound,
        TurnGoes
  <1>35. ASSUME NEW t \in Turn, SpeechOver(t)
        PROVE  TypeOK' /\ Listens'
    BY <1>1, <1>35
    DEF TypeOK, Listens, ClientState, LiveSessionStatus, TurnState, clientVars, historyVars,
        SpeechOver, TurnGoes
  <1>36. CASE UNCHANGED vars
    BY <1>36 DEF TypeOK, Listens, vars
  <1>37. CASE AwaitSpeech
    BY <1>1, <1>37
    DEF TypeOK, Listens, ClientState, LiveSessionStatus, TurnState, clientVars, historyVars,
        AwaitSpeech
  <1>38. CASE ListenerFails
    <2>1. \/ /\ listener' = [at |-> "off", job |-> None, event |-> FALSE]
             /\ audio' = audio
          \/ audio' = "off" /\ listener' = listener
      BY <1>38 DEF ListenerFails
    <2>2. /\ listener' \in [at : {"off", "idle", "listening", "speaking"},
                           job : Turn \cup {None}, event : BOOLEAN]
          /\ audio' \in {"off", "on", "interrupting", "flushing"}
          /\ Listens'
      <3>1. CASE /\ listener' = [at |-> "off", job |-> None, event |-> FALSE]
                 /\ audio' = audio
        BY <3>1 DEF TypeOK, Listens
      <3>2. CASE audio' = "off" /\ listener' = listener
        BY <3>2 DEF TypeOK, Listens
      <3> QED
        BY <2>1, <3>1, <3>2
    <2>3. failures' \in Nat
      BY <1>38 DEF ListenerFails, TypeOK
    <2> QED
    BY <1>1, <1>38, <2>2, <2>3
    DEF TypeOK, Listens, ClientState, LiveSessionStatus, TurnState, clientVars, historyVars,
        ListenerFails
  <1>39. CASE MissSession
    BY <1>1, <1>39
    DEF TypeOK, Listens, ClientState, LiveSessionStatus, TurnState, clientVars, historyVars,
        MissSession
  <1> QED
    BY <1>2, <1>3, <1>4, <1>5, <1>6, <1>7, <1>8, <1>9, <1>10, <1>11, <1>12, <1>13, <1>14, <1>15,
       <1>16, <1>17, <1>18, <1>19, <1>20, <1>21, <1>22, <1>23, <1>24, <1>25, <1>26, <1>27, <1>28,
       <1>29, <1>30, <1>31, <1>32, <1>33, <1>34, <1>35, <1>36, <1>37, <1>38, <1>39
    DEF Next, ControlNext, ListenerNext, EndNext

-----------------------------------------------------------------------------
(* A session starts once                                                   *)

StartWaits == \E i \in DOMAIN inbox : inbox[i] = "start"

\* The start is the first message of the client.
StartFirst ==
    /\ client = "connected" => inbox = <<>> /\ control = "idle"
    /\ \A i \in DOMAIN inbox : inbox[i] = "start" => i = 1 /\ control = "idle"

\* Until the session has started, nobody listens to the user or to a job, and
\* nothing has been heard.
NotYet == client = "connected" \/ control = "starting" \/ StartWaits
Quiet == NotYet => listener.at = "off" /\ audio = "off" /\ Heard = {}

\* A message is taken after the client has sent it, and leaves no start behind.
LEMMA ReceiveStart ==
    ASSUME TypeOK, StartFirst, NEW action, Receive(action)
    PROVE  /\ client # "connected"
           /\ control = "idle"
           /\ ~StartWaits'
           /\ action # "start" => ~StartWaits
           /\ action = "start" => StartWaits
  <1>1. inbox \in Seq(Controls \cup {"start"}) /\ inbox # <<>> /\ Head(inbox) = action
        /\ inbox' = Tail(inbox) /\ control = "idle"
    BY DEF Receive, TypeOK
  <1>2. /\ Len(inbox) \in Nat /\ Len(inbox) >= 1 /\ DOMAIN inbox = 1 .. Len(inbox)
        /\ inbox[1] = action
    BY <1>1
  <1>3. /\ DOMAIN inbox' = 1 .. Len(inbox) - 1
        /\ \A i \in 1 .. Len(inbox) - 1 : inbox'[i] = inbox[i + 1]
    BY <1>1, HeadTailProperties
  <1>4. ~StartWaits'
    <2> SUFFICES ASSUME NEW i \in DOMAIN inbox', inbox'[i] = "start"
                 PROVE  FALSE
      BY DEF StartWaits
    <2>1. i \in 1 .. Len(inbox) - 1
      BY <1>3
    <2>2. i + 1 \in DOMAIN inbox /\ inbox[i + 1] = "start" /\ i + 1 # 1
      BY <1>2, <1>3, <2>1
    <2> QED  BY <2>2 DEF StartFirst
  <1>5. action # "start" => ~StartWaits
    BY <1>2 DEF StartFirst, StartWaits
  <1>6. action = "start" => StartWaits
    BY <1>2 DEF StartWaits
  <1> QED  BY <1>1, <1>4, <1>5, <1>6 DEF StartFirst

\* A message of the client that has started the session is not a start.
LEMMA SendStart ==
    ASSUME TypeOK, NEW action \in Controls \cup {"start"}, Send(action)
    PROVE  /\ action # "start" => (StartWaits' <=> StartWaits)
           /\ StartFirst /\ action # "start" /\ client' # "connected" /\ control' = control
                => StartFirst'
           /\ inbox = <<>> /\ control' = "idle" /\ client' # "connected" => StartFirst'
  <1>1. inbox \in Seq(Controls \cup {"start"}) /\ inbox' = Append(inbox, action)
    BY DEF Send, TypeOK
  <1>2. /\ Len(inbox) \in Nat /\ DOMAIN inbox = 1 .. Len(inbox)
        /\ DOMAIN inbox' = 1 .. Len(inbox) + 1
        /\ \A i \in 1 .. Len(inbox) : inbox'[i] = inbox[i]
        /\ inbox'[Len(inbox) + 1] = action
    BY <1>1, AppendProperties
  <1>3. \A i \in DOMAIN inbox' : i \in DOMAIN inbox \/ i = Len(inbox) + 1
    BY <1>2
  <1>4. DOMAIN inbox \subseteq DOMAIN inbox'
    BY <1>2
  <1>5. action # "start" => (StartWaits' <=> StartWaits)
    BY <1>2, <1>3, <1>4 DEF StartWaits
  <1>6. StartFirst /\ action # "start" /\ client' # "connected" /\ control' = control
          => StartFirst'
    BY <1>2, <1>3, <1>4 DEF StartFirst
  <1>7. inbox = <<>> /\ control' = "idle" /\ client' # "connected" => StartFirst'
    <2>1. inbox = <<>> => Len(inbox) = 0
      BY <1>1
    <2>2. inbox = <<>> => \A i \in DOMAIN inbox' : i = 1
      BY <1>2, <2>1
    <2> QED  BY <2>2 DEF StartFirst
  <1> QED  BY <1>5, <1>6, <1>7

\* A start that is finished is over.
LEMMA StartOver ==
    ASSUME StartFirst, FinishStart
    PROVE  StartFirst' /\ ~NotYet'
  <1>1. control = "starting" /\ control' = "idle" /\ inbox' = inbox /\ client' = client
    BY DEF FinishStart, clientVars
  <1>2. client # "connected" /\ ~StartWaits
    BY <1>1 DEF StartFirst, StartWaits
  <1>3. ~StartWaits' /\ client' # "connected"
    BY <1>1, <1>2 DEF StartWaits
  <1> QED  BY <1>1, <1>3 DEF StartFirst, NotYet, StartWaits

\* The start stays the first message, and what has started never waits to start
\* again.
LEMMA StartStep ==
    ASSUME TypeOK, StartFirst, [Next]_vars
    PROVE  StartFirst' /\ (NotYet' => NotYet)
  <1> DEFINE Goal == StartFirst' /\ (NotYet' => NotYet)
  <1>0. /\ Controls \subseteq Controls \cup {"start"}
        /\ "start" \in Controls \cup {"start"}
        /\ \A action \in Controls : action # "start"
    BY DEF Controls
  <1>1. CASE StartSession
    <2>1. StartFirst'
      BY <1>0, <1>1, SendStart DEF StartSession, StartFirst
    <2>2. NotYet
      BY <1>1 DEF StartSession, NotYet
    <2> QED  BY <2>1, <2>2
  <1>2. ASSUME NEW action \in Controls, SendControl(action)
        PROVE  Goal
    <2>1. client = "started" /\ client' # "connected" /\ control' = control /\ Send(action)
      BY <1>2 DEF SendControl
    <2>2. StartFirst' /\ (StartWaits' <=> StartWaits)
      BY <1>0, <2>1, SendStart
    <2> QED  BY <2>1, <2>2 DEF NotYet
  <1>3. CASE FinishStart
    BY <1>3, StartOver
  <1>4. ASSUME NEW action, Receive(action), client' = client,
               control' = "starting" => action = "start"
        PROVE  Goal
    <2>1. client' # "connected" /\ ~StartWaits'
      BY <1>4, ReceiveStart
    <2>2. control' = "starting" => StartWaits
      BY <1>4, ReceiveStart
    <2> QED  BY <1>4, <2>1, <2>2 DEF StartFirst, StartWaits, NotYet
  <1>5. /\ inbox' = inbox
        /\ client' = client \/ client' = "over"
        /\ control' = control \/ (control # "idle" /\ control' # "starting")
        => Goal
    <2> SUFFICES ASSUME inbox' = inbox,
                        client' = client \/ client' = "over",
                        control' = control \/ (control # "idle" /\ control' # "starting")
                 PROVE  Goal
      OBVIOUS
    <2>1. StartWaits' <=> StartWaits
      BY DEF StartWaits
    <2>2. StartFirst'
      BY DEF StartFirst
    <2> QED  BY <2>1, <2>2 DEF NotYet
  <1>6. CASE BeginStart
    BY <1>4, <1>6 DEF BeginStart, clientVars
  <1>7. CASE Pause
    <2>1. Receive("pause") /\ client' = client /\ control' = control /\ control = "idle"
      BY <1>7 DEF Pause, Receive, clientVars
    <2> QED  BY <1>4, <2>1
  <1>8. CASE Resume
    <2>1. Receive("resume") /\ client' = client /\ control' = control /\ control = "idle"
      BY <1>8 DEF Resume, Receive, clientVars
    <2> QED  BY <1>4, <2>1
  <1>9. CASE BeginInterrupt
    <2>1. Receive("interrupt") /\ client' = client /\ control' # "starting"
      BY <1>9 DEF BeginInterrupt, Receive, clientVars
    <2> QED  BY <1>4, <2>1
  <1>10. CASE ControlEnd
    <2>1. Receive("end") /\ client' = client /\ control' # "starting"
      BY <1>10 DEF ControlEnd, Receive, clientVars
    <2> QED  BY <1>4, <2>1
  <1>11. CASE Disconnect
    BY <1>5, <1>11 DEF Disconnect
  <1>12. CASE FailStart \/ FinishInterrupt \/ Persist \/ FailEnd
    BY <1>5, <1>12 DEF FailStart, FinishInterrupt, Persist, FailEnd, Raise, clientVars
  <1>13. CASE UNCHANGED <<inbox, client, control>>
    BY <1>5, <1>13
  <1> QED
    BY <1>1, <1>2, <1>3, <1>6, <1>7, <1>8, <1>9, <1>10, <1>11, <1>12, <1>13
    DEF Next, ControlNext, ListenerNext, EndNext, vars, clientVars, SpeakOver,
        FinishSpeakOver, Transcript, Think, NameJob, CreateJob, FailTurn, Answer, Sound,
        SpeechOver, Poll, NothingToSay, BeginSpeaking, Speak, Timeout, EndAudio,
        CancelSpeech, EndSpeech, CancelResponse, SwallowCancel, EndTimer, AwaitSpeech,
        ListenerFails, MissSession

-----------------------------------------------------------------------------
(* What a step does to the session and to the turns                        *)

\* The current job, the flag of an interruption and the end of a session are
\* written by few steps.
LEMMA SessionStep ==
    ASSUME TypeOK, Listens, [Next]_vars
    PROVE  /\ \/ session'.current = session.current
              \/ \E t \in Turn : NameJob(t) /\ session'.current = t
              \/ (NothingToSay \/ Speak) /\ session'.current = None
           /\ session'.interrupted \/ session'.interrupted = session.interrupted \/ Speak
           /\ session'.state # "ended" \/ session'.state = session.state \/ Pop
  <1> DEFINE Kept == /\ session'.current = session.current
                     /\ session'.interrupted = session.interrupted
                     /\ session'.state # "ended" \/ session'.state = session.state
  <1>0. /\ session \in LiveSessionData
        /\ listener.at \in {"listening", "speaking"} => listener.job \in Turn
        /\ session.interrupted \in BOOLEAN
        /\ {"listening", "processing", "speaking", "paused", "ended"} \subseteq SessionState
    BY Types DEF TypeOK, Listens, SessionState
  <1>1. CASE BeginStart
    BY <1>0, <1>1, WithFacts, BooleanFacts DEF BeginStart, SetState
  <1>2. CASE FinishStart
    BY <1>0, <1>2, WithFacts DEF FinishStart, SetState, LiveSessionData
  <1>3. CASE Pause
    BY <1>0, <1>3, WithFacts DEF Pause, SetState, LiveSessionData
  <1>4. CASE Resume
    BY <1>0, <1>4, WithFacts DEF Resume, SetState, LiveSessionData
  <1>5. CASE FinishInterrupt
    BY <1>0, <1>5, WithFacts DEF FinishInterrupt, SetState, LiveSessionData
  <1>6. CASE FinishSpeakOver
    BY <1>0, <1>6, WithFacts DEF FinishSpeakOver, SetState, LiveSessionData
  <1>7. CASE BeginSpeaking
    BY <1>0, <1>7, WithFacts DEF BeginSpeaking, SetState, LiveSessionData
  <1>8. ASSUME NEW t \in Turn, Think(t)
        PROVE  Kept
    BY <1>0, <1>8, WithFacts DEF Think, SetState, LiveSessionData
  <1>9. ASSUME NEW t \in Turn, SpeechOver(t)
        PROVE  Kept
    BY <1>0, <1>9, WithFacts DEF SpeechOver, SetState, LiveSessionData
  <1>10. ASSUME NEW t \in Turn, NameJob(t)
        PROVE  /\ session'.current = t
               /\ session'.interrupted = session.interrupted
               /\ session'.state = session.state
    BY <1>0, <1>10, WithFacts DEF NameJob, LiveSessionData
  <1>11. ASSUME Cut
        PROVE  /\ session'.current = session.current
               /\ session'.interrupted
               /\ session'.state = session.state
    BY <1>0, <1>11, BooleanFacts DEF Cut
  <1>12. ASSUME Pop
        PROVE  /\ session'.current = session.current
               /\ session'.interrupted = session.interrupted
    BY <1>0, <1>12 DEF Pop, LiveSessionData
  <1>13. CASE BeginInterrupt
    BY <1>11, <1>13 DEF BeginInterrupt
  <1>14. CASE SpeakOver
    BY <1>11, <1>14 DEF SpeakOver
  <1>15. CASE ControlEnd \/ Timeout
    BY <1>12, <1>15 DEF ControlEnd, Timeout
  <1>16. CASE NothingToSay
    BY <1>0, <1>16, WithFacts DEF NothingToSay, ForgetsJob, LiveSessionData
  <1>17. CASE Speak
    BY <1>0, <1>17, FieldsFacts, BooleanFacts DEF Speak
  <1>18. CASE UNCHANGED session
    BY <1>18
  <1> QED
    BY <1>1, <1>2, <1>3, <1>4, <1>5, <1>6, <1>7, <1>8, <1>9, <1>10, <1>13, <1>14,
        <1>15, <1>16, <1>17, <1>18
    DEF Next, ControlNext, ListenerNext, EndNext, vars, StartSession, Disconnect,
        FailStart, Poll, EndAudio, CancelSpeech, EndSpeech, CancelResponse,
        SwallowCancel, EndTimer, Persist, FailEnd, AwaitSpeech, ListenerFails, MissSession,
        SendControl, Transcript, CreateJob, FailTurn, Answer, Sound

\* Turns are heard one after the other, and a turn that was answered and relayed,
\* or has failed, stays so.
LEMMA TurnStep ==
    ASSUME TypeOK, [Next]_vars
    PROVE  /\ \/ Heard' = Heard
              \/ \E t \in Turn : Transcript(t) /\ Heard' = Heard \cup {t}
           /\ \A u \in Turn : turns[u] = "relayed" => turns'[u] = "relayed"
           /\ \/ turns' = turns
              \/ \E t \in Turn : turns' = [turns EXCEPT ![t] = "heard"]
                                 /\ turns[t] = "unsaid"
              \/ \E t \in Turn : turns' = [turns EXCEPT ![t] = "thinking"]
                                 /\ turns[t] = "heard"
              \/ \E t \in Turn : NameJob(t)
              \/ \E t \in Turn : turns' = [turns EXCEPT ![t] = "created"]
                                 /\ turns[t] = "named"
              \/ \E t \in Turn : turns' = [turns EXCEPT ![t] = "failed"]
                                 /\ turns[t] = "named"
              \/ \E t \in Turn : Answer(t)
              \/ NothingToSay
              \/ Speak
  <1>0. turns \in [Turn -> TurnState]
    BY DEF TypeOK
  <1>1. ASSUME NEW t, NEW from, NEW to, TurnGoes(t, from, to), from # "unsaid",
               from # "relayed", to # "unsaid"
        PROVE  Heard' = Heard /\ \A u \in Turn : turns[u] = "relayed" => turns'[u] = "relayed"
    BY <1>0, <1>1 DEF TurnGoes, Heard
  <1>2. ASSUME NEW t \in Turn, Transcript(t)
        PROVE  /\ Heard' = Heard \cup {t}
               /\ \A u \in Turn : turns[u] = "relayed" => turns'[u] = "relayed"
               /\ turns' = [turns EXCEPT ![t] = "heard"] /\ turns[t] = "unsaid"
    BY <1>0, <1>2 DEF Transcript, TurnGoes, Heard
  <1>3. ASSUME NEW t \in Turn, Think(t)
        PROVE  /\ TurnGoes(t, "heard", "thinking")
               /\ turns' = [turns EXCEPT ![t] = "thinking"] /\ turns[t] = "heard"
    BY <1>3 DEF Think, TurnGoes
  <1>4. ASSUME NEW t \in Turn, NameJob(t)
        PROVE  TurnGoes(t, "thinking", "named")
    BY <1>4 DEF NameJob
  <1>5. ASSUME NEW t \in Turn, CreateJob(t)
        PROVE  /\ TurnGoes(t, "named", "created")
               /\ turns' = [turns EXCEPT ![t] = "created"] /\ turns[t] = "named"
    BY <1>5 DEF CreateJob, TurnGoes
  <1>6. ASSUME NEW t \in Turn, FailTurn(t)
        PROVE  /\ TurnGoes(t, "named", "failed")
               /\ turns' = [turns EXCEPT ![t] = "failed"] /\ turns[t] = "named"
    BY <1>6 DEF FailTurn, TurnGoes
  <1>7. ASSUME NEW t \in Turn, Answer(t)
        PROVE  TurnGoes(t, "created", "answered")
    BY <1>7 DEF Answer
  <1>8. CASE NothingToSay \/ Speak
    <2>1. TurnGoes(listener.job, "answered", "relayed")
      BY <1>8 DEF NothingToSay, Speak
    <2> QED  BY <1>1, <1>8, <2>1
  <1>9. CASE UNCHANGED turns
    BY <1>9 DEF Heard
  <1> QED
    BY <1>1, <1>2, <1>3, <1>4, <1>5, <1>6, <1>7, <1>8, <1>9
    DEF Next, ControlNext, ListenerNext, EndNext, vars, StartSession,
        SendControl, Disconnect, BeginStart, FinishStart, FailStart, Pause, Resume,
        BeginInterrupt, FinishInterrupt, ControlEnd, SpeakOver, FinishSpeakOver, Sound,
        SpeechOver, Poll, BeginSpeaking, Timeout, EndAudio, CancelSpeech, EndSpeech,
        CancelResponse, SwallowCancel, EndTimer, Persist, FailEnd, AwaitSpeech, ListenerFails,
        MissSession

\* Until the start is over the listeners stay off.
LEMMA QuietStep ==
    ASSUME TypeOK, StartFirst, Quiet, [Next]_vars
    PROVE  Quiet'
  <1> SUFFICES ASSUME NotYet'
               PROVE  listener'.at = "off" /\ audio' = "off" /\ Heard' = {}
    BY DEF Quiet
  <1>1. NotYet /\ listener.at = "off" /\ audio = "off" /\ Heard = {} /\ ~FinishStart
    BY StartStep, StartOver DEF Quiet
  <1>2. ~BeginSpeaking /\ ~NothingToSay /\ ~Speak /\ ~Poll /\ ~SwallowCancel
    BY <1>1 DEF BeginSpeaking, NothingToSay, Speak, Poll, SwallowCancel
  <1>3. ~SpeakOver /\ ~AwaitSpeech /\ ~FinishSpeakOver /\ ~MissSession
    BY <1>1 DEF SpeakOver, AwaitSpeech, FinishSpeakOver, MissSession
  <1>4. ASSUME NEW t \in Turn, Answer(t)
        PROVE  listener'.at = "off" /\ audio' = "off"
    BY <1>1, <1>4 DEF Answer, TypeOK
  <1>5. ASSUME CancelResponse
        PROVE  listener'.at = "off" /\ audio' = "off"
    BY <1>1, <1>5 DEF CancelResponse, TypeOK
  <1>6. ASSUME EndAudio \/ FailEnd \/ ListenerFails
        PROVE  listener'.at = "off" /\ audio' = "off"
    BY <1>1, <1>6 DEF EndAudio, FailEnd, ListenerFails
  <1>7. ASSUME UNCHANGED <<listener, audio>>
        PROVE  listener'.at = "off" /\ audio' = "off"
    BY <1>1, <1>7
  <1>8. Heard' = {}
    <2>1. \A t \in Turn : ~Transcript(t)
      BY <1>1 DEF Transcript
    <2> QED  BY <1>1, <2>1, TurnStep
  <1> QED
    BY <1>1, <1>2, <1>3, <1>4, <1>5, <1>6, <1>7, <1>8
    DEF Next, ControlNext, ListenerNext, EndNext, vars, clientVars, StartSession,
        SendControl, Disconnect, BeginStart, FailStart, Pause, Resume, BeginInterrupt,
        FinishInterrupt, ControlEnd, Transcript, Think, NameJob, CreateJob, FailTurn,
        Sound, SpeechOver, Timeout, CancelSpeech, EndSpeech, EndTimer, Persist

\* The session forgets its job with an answer that is relayed.
LEMMA Forgets ==
    ASSUME TypeOK, Listens, NothingToSay \/ Speak
    PROVE  session'.current = None
  <1>0. /\ session \in LiveSessionData
        /\ listener.at \in {"listening", "speaking"} => listener.job \in Turn
    BY Types DEF TypeOK, Listens
  <1>1. CASE NothingToSay
    BY <1>0, <1>1, WithFacts DEF NothingToSay, ForgetsJob, LiveSessionData
  <1>2. CASE Speak
    BY <1>0, <1>2, FieldsFacts, BooleanFacts DEF Speak
  <1> QED  BY <1>1, <1>2

\* The response listener is moved by its own steps, by the start and by the end
\* of the session; an end once begun stays begun.
LEMMA ListenerStep ==
    ASSUME TypeOK, [Next]_vars
    PROVE  /\ \/ listener' = listener
              \/ FinishStart /\ listener' = [listener EXCEPT !.at = "idle"]
              \/ \E t \in Turn : Answer(t)
              \/ Poll \/ NothingToSay \/ BeginSpeaking \/ Speak
              \/ listener' = [at |-> "off", job |-> None, event |-> FALSE]
              \/ /\ ending.at # "no"
                 /\ listener' = [listener EXCEPT !.at = "off"]
              \/ /\ ending.at # "no"
                 /\ listener' = [at |-> "idle", job |-> None, event |-> FALSE]
           /\ \/ ending' = ending
              \/ Pop /\ ending'.at # "no"
              \/ ending.at # "no" /\ ending'.at # "no"
  <1>1. ASSUME Pop
        PROVE  ending'.at # "no"
    BY <1>1 DEF Pop
  <1>2. CASE EndAudio \/ EndSpeech \/ EndTimer \/ Persist \/ FailEnd
    <2>1. /\ ending.at # "no" /\ ending'.at # "no" /\ listener' = listener
      BY <1>2 DEF EndAudio, EndSpeech, EndTimer, Persist, FailEnd, TypeOK
    <2> QED  BY <2>1
  <1>3. CASE CancelResponse
    BY <1>3 DEF CancelResponse, TypeOK
  <1>4. CASE SwallowCancel
    BY <1>4 DEF SwallowCancel, TypeOK
  <1>5. CASE FinishStart
    BY <1>5 DEF FinishStart
  <1>6. ASSUME NEW t \in Turn, Answer(t)
        PROVE  ending' = ending
    BY <1>6 DEF Answer
  <1>7. CASE Poll \/ NothingToSay \/ BeginSpeaking \/ Speak
    BY <1>7 DEF Poll, NothingToSay, BeginSpeaking, Speak
  <1>8. CASE ControlEnd
    <2>1. listener' = listener /\ (Pop \/ ending' = ending)
      BY <1>8 DEF ControlEnd
    <2> QED  BY <1>1, <2>1
  <1>9. CASE Timeout
    <2>1. listener' = listener /\ (Pop \/ ending' = ending)
      BY <1>9 DEF Timeout
    <2> QED  BY <1>1, <2>1
  <1>10. CASE UNCHANGED <<listener, ending>>
    BY <1>10
  <1>11. CASE ListenerFails
    BY <1>11 DEF ListenerFails
  <1>12. CASE MissSession
    <2>1. listener' = listener /\ (ending' = ending \/ (ending.at # "no" /\ ending'.at # "no"))
      BY <1>12 DEF MissSession, TypeOK
    <2> QED  BY <2>1
  <1> QED
    BY <1>2, <1>3, <1>4, <1>5, <1>6, <1>7, <1>8, <1>9, <1>10, <1>11, <1>12
    DEF Next, ControlNext, ListenerNext, EndNext, vars, StartSession, SendControl,
        Disconnect, BeginStart, FailStart, Pause, Resume, BeginInterrupt,
        FinishInterrupt, SpeakOver, AwaitSpeech, FinishSpeakOver, Sound, SpeechOver, Transcript,
        Think, NameJob, CreateJob, FailTurn, CancelSpeech

-----------------------------------------------------------------------------
(* A turn that is under way alone is followed                              *)

JobStates == {"named", "created", "answered", "failed"}

\* The job of the session, and that of a listener at work, are not relayed yet; a
\* listener that has seen the end of its job finds the job answered.
Jobs ==
    /\ session.current # None => turns[session.current] \in JobStates
    /\ listener.at = "listening" =>
          /\ turns[listener.job] \in JobStates
          /\ listener.event => turns[listener.job] = "answered"
    /\ listener.at = "speaking" => turns[listener.job] = "answered"

\* A job goes on until the listener relays its answer.
LEMMA JobGoesOn ==
    ASSUME TypeOK, Listens, [Next]_vars, NEW u \in Turn
    PROVE  /\ turns[u] \in JobStates /\ ~NothingToSay /\ ~Speak => turns'[u] \in JobStates
           /\ turns[u] = "answered" /\ ~NothingToSay /\ ~Speak => turns'[u] = "answered"
  <1>0. turns \in [Turn -> TurnState]
    BY DEF TypeOK
  <1>1. ASSUME NEW t \in Turn, NameJob(t)
        PROVE  turns[t] = "thinking" /\ turns' = [turns EXCEPT ![t] = "named"]
    BY <1>1 DEF NameJob, TurnGoes
  <1>2. ASSUME NEW t \in Turn, Answer(t)
        PROVE  turns[t] = "created" /\ turns' = [turns EXCEPT ![t] = "answered"]
    BY <1>2 DEF Answer, TurnGoes
  <1> QED  BY <1>0, <1>1, <1>2, TurnStep DEF JobStates

\* Every step keeps what is said of the jobs.
LEMMA JobsStep ==
    ASSUME TypeOK, Listens, Jobs, [Next]_vars
    PROVE  Jobs'
  <1>0. /\ session.current \in Turn \cup {None}
        /\ listener.at \in {"listening", "speaking"} => listener.job \in Turn
        /\ None \notin Turn
        /\ turns \in [Turn -> TurnState]
    BY Types DEF Listens, TypeOK
  <1> DEFINE CurrentRight == session'.current # None => turns'[session'.current] \in JobStates
             ListenerRight ==
               /\ listener'.at = "listening" =>
                     /\ turns'[listener'.job] \in JobStates
                     /\ listener'.event => turns'[listener'.job] = "answered"
               /\ listener'.at = "speaking" => turns'[listener'.job] = "answered"
  <1>1. CurrentRight
    <2>1. CASE NothingToSay \/ Speak
      BY <2>1, Forgets
    <2>2. CASE ~NothingToSay /\ ~Speak /\ session'.current = session.current
      BY <1>0, <2>2, JobGoesOn DEF Jobs
    <2>3. ASSUME NEW t \in Turn, NameJob(t), session'.current = t
          PROVE  CurrentRight
      <3>1. turns' = [turns EXCEPT ![t] = "named"]
        BY <2>3 DEF NameJob, TurnGoes
      <3> QED  BY <1>0, <2>3, <3>1 DEF JobStates
    <2> QED  BY <2>1, <2>2, <2>3, SessionStep
  <1>2. ListenerRight
    <2>1. CASE NothingToSay \/ Speak
      <3>1. listener' = [at |-> "idle", job |-> None, event |-> FALSE]
        BY <2>1 DEF NothingToSay, Speak
      <3> QED  BY <3>1
    <2>2. CASE ~NothingToSay /\ ~Speak /\ listener' = listener
      BY <1>0, <2>2, JobGoesOn DEF Jobs
    <2>3. CASE listener' = [listener EXCEPT !.at = "idle"]
               \/ listener' = [listener EXCEPT !.at = "off"]
               \/ listener' = [at |-> "idle", job |-> None, event |-> FALSE]
               \/ listener' = [at |-> "off", job |-> None, event |-> FALSE]
      <3>1. listener'.at \in {"idle", "off"}
        BY <2>3 DEF TypeOK
      <3> QED  BY <3>1
    <2>4. ASSUME NEW t \in Turn, Answer(t)
          PROVE  ListenerRight
      <3> DEFINE b == listener.event \/ Follows(t)
      <3>1. /\ turns[t] = "created" /\ turns' = [turns EXCEPT ![t] = "answered"]
            /\ listener' = [listener EXCEPT !.event = b]
        BY <2>4 DEF Answer, TurnGoes
      <3>2. b \in BOOLEAN
        BY Types DEF Follows
      <3>3. b => listener.event \/ Follows(t)
        OBVIOUS
      <3> HIDE DEF b
      <3>4. /\ listener'.at = listener.at /\ listener'.job = listener.job
            /\ listener'.event => b
        BY <3>1, <3>2 DEF TypeOK
      <3>5. ASSUME NEW u \in Turn
            PROVE  /\ turns[u] \in JobStates => turns'[u] \in JobStates
                   /\ turns[u] = "answered" => turns'[u] = "answered"
        BY <1>0, <3>1 DEF JobStates
      <3>6. CASE listener.at = "listening"
        <4>1. listener.job \in Turn /\ turns'[listener.job] \in JobStates
          BY <1>0, <3>5, <3>6 DEF Jobs
        <4>2. listener.event => turns'[listener.job] = "answered"
          BY <1>0, <3>5, <3>6 DEF Jobs
        <4>3. Follows(t) => turns'[listener.job] = "answered"
          BY <1>0, <3>1 DEF Follows
        <4> QED  BY <3>3, <3>4, <3>6, <4>1, <4>2, <4>3
      <3>7. CASE listener.at # "listening"
        BY <1>0, <3>4, <3>5, <3>7 DEF Jobs
      <3> QED  BY <3>6, <3>7
    <2>5. CASE Poll
      <3>1. /\ turns' = turns
            /\ \/ listener' = [listener EXCEPT !.at = "off"]
               \/ /\ listener' = [at |-> "listening", job |-> session.current, event |-> FALSE]
                  /\ session.current # None
        BY <2>5 DEF Poll
      <3>2. CASE listener' = [listener EXCEPT !.at = "off"]
        BY <2>3, <3>2, <3>1 DEF TypeOK
      <3>3. CASE listener' = [at |-> "listening", job |-> session.current, event |-> FALSE]
                 /\ session.current # None
        BY <3>1, <3>3 DEF Jobs
      <3> QED  BY <3>1, <3>2, <3>3
    <2>6. CASE BeginSpeaking
      <3>1. /\ turns' = turns /\ listener.at = "listening" /\ listener.event
            /\ listener'.at = "speaking" /\ listener'.job = listener.job
        BY <2>6 DEF BeginSpeaking, TypeOK
      <3> QED  BY <3>1 DEF Jobs
    <2> QED  BY <2>1, <2>2, <2>3, <2>4, <2>5, <2>6, ListenerStep
  <1> QED  BY <1>1, <1>2 DEF Jobs

\* Until its end begins a session is not ended.
Running == ending.at = "no" => session.state # "ended"

LEMMA RunningStep ==
    ASSUME TypeOK, Listens, Running, [Next]_vars
    PROVE  Running'
  <1>1. ending'.at = "no" => ending.at = "no" /\ ~Pop
    BY ListenerStep DEF Pop
  <1> QED  BY <1>1, SessionStep DEF Running

Awaited(t) == turns[t] \in {"named", "created"}

\* While a turn that was never under way with another waits for its answer, no other
\* is under way.
Apart ==
    \A t \in Turn \ overlapped :
        Awaited(t) => \A u \in Turn \ {t} : ~UnderWay(u)

\* It has become the job of the session, and the listener has come to it or will,
\* unless it is deaf or over.
Followed ==
    ending.at = "no" =>
      \A t \in Turn \ overlapped : Awaited(t) =>
         \/ listener.at = "idle" /\ session.current = t
         \/ Follows(t)
         \/ Deaf
         \/ listener.at = "off"

\* A turn begins to be under way when its job is named, and is overlapped if
\* another one is.
LEMMA NameJobFacts ==
    ASSUME TypeOK, NEW t \in Turn, NameJob(t)
    PROVE  /\ turns[t] = "thinking" /\ turns' = [turns EXCEPT ![t] = "named"]
           /\ session'.current = t /\ listener' = listener
           /\ \A u \in Turn \ {t} : UnderWay(u) => {t, u} \subseteq overlapped'
           /\ overlapped \subseteq overlapped'
  <1> DEFINE others == {u \in Turn \ {t} : UnderWay(u)}
  <1>1. /\ turns[t] = "thinking" /\ turns' = [turns EXCEPT ![t] = "named"]
        /\ session' = With("current", t) /\ listener' = listener
        /\ overlapped' = overlapped \cup others \cup (IF others = {} THEN {} ELSE {t})
    BY DEF NameJob, TurnGoes
  <1>2. session'.current = t
    BY <1>1, WithFacts DEF TypeOK, LiveSessionData
  <1>3. \A u \in Turn \ {t} : UnderWay(u) => {t, u} \subseteq overlapped'
    BY <1>1
  <1> QED  BY <1>1, <1>2, <1>3

\* Nothing else changes what overlaps.
LEMMA OverlapStep ==
    ASSUME [Next]_vars
    PROVE  overlapped' = overlapped \/ \E t \in Turn : NameJob(t)
  <1>1. Cut \/ Pop => overlapped' = overlapped
    BY DEF Cut, Pop
  <1> QED
    BY <1>1
    DEF Next, ControlNext, ListenerNext, EndNext, vars, historyVars, StartSession,
        SendControl, Disconnect, BeginStart, FinishStart, FailStart, Pause, Resume,
        BeginInterrupt, FinishInterrupt, ControlEnd, SpeakOver, AwaitSpeech,
        FinishSpeakOver, ListenerFails, Transcript, Think, CreateJob, FailTurn, Answer,
        Poll, NothingToSay, BeginSpeaking, Speak, Sound, SpeechOver, Timeout, EndAudio,
        MissSession, CancelSpeech, EndSpeech, CancelResponse, SwallowCancel, EndTimer,
        Persist, FailEnd

\* Only the name of its job brings a turn under way.
LEMMA UnderWayStep ==
    ASSUME TypeOK, Listens, Jobs, [Next]_vars, NEW u \in Turn, UnderWay(u)'
    PROVE  UnderWay(u) \/ NameJob(u)
  <1>0. /\ turns \in [Turn -> TurnState] /\ None \notin Turn
        /\ listener.event \in BOOLEAN
        /\ listener.at \in {"listening", "speaking"} => listener.job \in Turn
    BY Types DEF TypeOK, Listens
  <1>1. CASE turns'[u] \in {"named", "created"}
    <2>1. turns[u] \in {"named", "created"} \/ NameJob(u)
      <3>1. ASSUME NEW t \in Turn, NameJob(t)
            PROVE  turns' = [turns EXCEPT ![t] = "named"]
        BY <3>1 DEF NameJob, TurnGoes
      <3>2. ASSUME NEW t \in Turn, Answer(t)
            PROVE  turns' = [turns EXCEPT ![t] = "answered"]
        BY <3>2 DEF Answer, TurnGoes
      <3>3. ASSUME NothingToSay \/ Speak
            PROVE  turns' = [turns EXCEPT ![listener.job] = "relayed"] /\ listener.job \in Turn
        BY <1>0, <3>3 DEF NothingToSay, Speak, TurnGoes
      <3> QED  BY <1>0, <1>1, <3>1, <3>2, <3>3, TurnStep
    <2> QED  BY <2>1 DEF UnderWay
  <1>2. CASE listener'.job = u /\ (listener'.event \/ listener'.at = "speaking")
    <2>1. ~(listener' = [at |-> "idle", job |-> None, event |-> FALSE])
          /\ ~(listener' = [at |-> "off", job |-> None, event |-> FALSE])
      BY <1>0, <1>2
    <2>2. ASSUME NEW t \in Turn, Answer(t)
          PROVE  UnderWay(u)
      <3> DEFINE b == listener.event \/ Follows(t)
      <3>1. listener' = [listener EXCEPT !.event = b] /\ turns[t] = "created"
        BY <2>2 DEF Answer, TurnGoes
      <3>2. b => listener.event \/ Follows(t)
        OBVIOUS
      <3> HIDE DEF b
      <3>3. /\ listener'.at = listener.at /\ listener'.job = listener.job
            /\ listener'.event => b
        BY <3>1 DEF TypeOK
      <3> QED  BY <1>2, <3>1, <3>2, <3>3 DEF UnderWay, Follows
    <2>3. CASE listener' = listener
      BY <1>2, <2>3 DEF UnderWay
    <2>4. CASE FinishStart \/ listener' = [listener EXCEPT !.at = "off"]
      <3>1. /\ listener'.at # "speaking" /\ listener'.job = listener.job
            /\ listener'.event = listener.event
        BY <2>4 DEF FinishStart, TypeOK
      <3> QED  BY <1>2, <3>1 DEF UnderWay
    <2>5. CASE Poll
      <3>1. \/ listener' = [listener EXCEPT !.at = "off"]
            \/ listener' = [at |-> "listening", job |-> session.current, event |-> FALSE]
        BY <2>5 DEF Poll
      <3>2. ~(listener' = [at |-> "listening", job |-> session.current, event |-> FALSE])
        BY <1>2
      <3> QED  BY <2>4, <3>1, <3>2
    <2>6. CASE BeginSpeaking
      <3>1. listener'.job = listener.job /\ listener.event
        BY <2>6 DEF BeginSpeaking, TypeOK
      <3> QED  BY <1>2, <3>1 DEF UnderWay
    <2>7. ~NothingToSay /\ ~Speak
      BY <2>1 DEF NothingToSay, Speak
    <2> QED  BY <2>1, <2>2, <2>3, <2>4, <2>5, <2>6, <2>7, ListenerStep
  <1> QED  BY <1>1, <1>2 DEF UnderWay

LEMMA ApartStep ==
    ASSUME TypeOK, Listens, Jobs, Apart, [Next]_vars
    PROVE  Apart'
  <1> SUFFICES ASSUME NEW t \in Turn \ overlapped', Awaited(t)',
                      NEW u \in Turn \ {t}, UnderWay(u)'
               PROVE  FALSE
    BY DEF Apart
  <1>1. t \notin overlapped
    BY OverlapStep, NameJobFacts
  <1>2. UnderWay(t)'
    BY DEF UnderWay, Awaited
  <1>3. CASE NameJob(t)
    <2>1. ~NameJob(u)
      <3>1. NameJob(u) => turns' = [turns EXCEPT ![u] = "named"] /\ turns[u] = "thinking"
        BY NameJobFacts
      <3>2. turns' = [turns EXCEPT ![t] = "named"] /\ turns[t] = "thinking"
        BY <1>3, NameJobFacts
      <3> QED  BY <3>1, <3>2 DEF TypeOK
    <2>2. UnderWay(u)
      BY <2>1, UnderWayStep
    <2> QED  BY <1>3, <2>2, NameJobFacts
  <1>4. CASE ~NameJob(t)
    <2>1. Awaited(t)
      <3>1. ASSUME NEW v \in Turn, NameJob(v)
            PROVE  turns' = [turns EXCEPT ![v] = "named"]
        BY <3>1, NameJobFacts
      <3>2. ASSUME NEW v \in Turn, Answer(v)
            PROVE  turns' = [turns EXCEPT ![v] = "answered"]
        BY <3>2 DEF Answer, TurnGoes
      <3>3. ASSUME NothingToSay \/ Speak
            PROVE  turns' = [turns EXCEPT ![listener.job] = "relayed"] /\ listener.job \in Turn
        BY <3>3, Types DEF NothingToSay, Speak, TurnGoes, Listens
      <3> QED  BY <1>4, <3>1, <3>2, <3>3, TurnStep DEF Awaited, TypeOK
    <2>2. CASE NameJob(u)
      <3>1. UnderWay(t)
        BY <2>1 DEF UnderWay, Awaited
      <3> QED  BY <2>2, <3>1, NameJobFacts
    <2>3. CASE UnderWay(u)
      BY <1>1, <2>1, <2>3 DEF Apart
    <2> QED  BY <2>2, <2>3, UnderWayStep
  <1> QED  BY <1>3, <1>4

\* Before a turn's job is answered nothing takes the listener off it.
LEMMA FollowedStep ==
    ASSUME TypeOK, Listens, StartFirst, Quiet, Jobs, Running, Apart, Followed, [Next]_vars
    PROVE  Followed'
  <1> DEFINE Found(t) == \/ listener.at = "idle" /\ session.current = t
                         \/ Follows(t)
                         \/ Deaf
                         \/ listener.at = "off"
  <1> SUFFICES ASSUME ending'.at = "no", NEW t \in Turn \ overlapped', Awaited(t)'
               PROVE  Found(t)'
    BY DEF Followed
  <1>0. /\ listener.at \in {"listening", "speaking"} => listener.job \in Turn
        /\ listener.at \in {"off", "idle", "listening", "speaking"}
        /\ None \notin Turn
        /\ turns \in [Turn -> TurnState]
    BY Types DEF Listens, TypeOK
  <1>1. ending.at = "no" /\ session.state # "ended"
    BY ListenerStep DEF Pop, Running
  <1>2. t \notin overlapped
    BY OverlapStep, NameJobFacts
  <1>3. CASE NameJob(t)
    <2>1. /\ turns[t] = "thinking" /\ turns' = [turns EXCEPT ![t] = "named"]
          /\ session'.current = t /\ listener' = listener
          /\ \A u \in Turn \ {t} : ~UnderWay(u)
      BY <1>3, NameJobFacts
    <2>2. CASE listener.at \in {"idle", "off"}
      BY <2>1, <2>2
    <2>3. CASE listener.at \in {"listening", "speaking"}
      <3>1. listener.job \in Turn /\ turns[listener.job] \in JobStates
        BY <1>0, <2>3 DEF Jobs, JobStates
      <3>2. listener.job # t
        BY <2>1, <3>1 DEF JobStates
      <3>3. ~UnderWay(listener.job)
        BY <2>1, <3>1, <3>2
      <3>4. /\ listener.at = "listening" /\ ~listener.event
            /\ turns[listener.job] \in {"answered", "failed"}
        BY <2>3, <3>1, <3>3 DEF UnderWay, JobStates
      <3>5. turns'[listener'.job] = turns[listener.job]
        BY <1>0, <2>1, <3>1, <3>2
      <3>6. Deaf'
        BY <2>1, <3>4, <3>5 DEF Deaf
      <3> QED  BY <3>6
    <2> QED  BY <1>0, <2>2, <2>3
  <1>4. CASE ~NameJob(t)
    <2>1. UnderWay(t)' /\ ~(\E u \in Turn : NameJob(u)) /\ Awaited(t)
      <3>1. ASSUME NEW v \in Turn, NameJob(v)
            PROVE  turns' = [turns EXCEPT ![v] = "named"]
        BY <3>1, NameJobFacts
      <3>2. ASSUME NEW v \in Turn, Answer(v)
            PROVE  turns' = [turns EXCEPT ![v] = "answered"]
        BY <3>2 DEF Answer, TurnGoes
      <3>3. ASSUME NothingToSay \/ Speak
            PROVE  turns' = [turns EXCEPT ![listener.job] = "relayed"] /\ listener.job \in Turn
        BY <1>0, <3>3 DEF NothingToSay, Speak, TurnGoes
      <3>4. Awaited(t)
        BY <1>0, <1>4, <3>1, <3>2, <3>3, TurnStep DEF Awaited
      <3>5. UnderWay(t)
        BY <3>4 DEF UnderWay, Awaited
      <3>6. ~(\E u \in Turn : NameJob(u))
        BY <1>4, <3>5, NameJobFacts
      <3> QED  BY <3>4, <3>6 DEF UnderWay, Awaited
    <2>2. Found(t)
      BY <1>1, <1>2, <2>1 DEF Followed
    <2>3. listener.at # "speaking" /\ ~(listener.at = "listening" /\ listener.event)
      <3> SUFFICES ASSUME listener.at = "speaking" \/ (listener.at = "listening" /\ listener.event)
                   PROVE  FALSE
        OBVIOUS
      <3>1. listener.job \in Turn /\ turns[listener.job] = "answered" /\ UnderWay(listener.job)
        BY <1>0 DEF Jobs, UnderWay
      <3>2. listener.job # t
        BY <2>1, <3>1 DEF Awaited
      <3> QED  BY <1>2, <2>1, <3>1, <3>2 DEF Apart
    <2>4. ~NothingToSay /\ ~Speak /\ ~BeginSpeaking
      BY <2>3 DEF NothingToSay, Speak, BeginSpeaking
    <2>5. session'.current = session.current
      BY <2>1, <2>4, SessionStep
    <2>6. ~FinishStart
      <3>1. FinishStart => Heard = {}
        BY DEF FinishStart, Quiet, NotYet
      <3> QED  BY <2>1, <3>1 DEF Heard, Awaited
    <2>7. Deaf => turns'[listener.job] \in {"failed", "answered"}
      <3> SUFFICES ASSUME Deaf
                   PROVE  turns'[listener.job] \in {"failed", "answered"}
        OBVIOUS
      <3>1. listener.job \in Turn /\ turns[listener.job] \in {"failed", "answered"}
        BY <1>0 DEF Deaf
      <3>2. ASSUME NEW v \in Turn, Answer(v)
            PROVE  turns' = [turns EXCEPT ![v] = "answered"]
        BY <3>2 DEF Answer, TurnGoes
      <3> QED  BY <1>0, <2>1, <2>4, <3>1, <3>2, TurnStep
    <2>8. CASE listener' = listener
      BY <2>2, <2>5, <2>7, <2>8 DEF Follows, Deaf
    <2>9. ASSUME NEW u \in Turn, Answer(u)
          PROVE  Found(t)'
      <3>1. /\ listener'.at = listener.at /\ listener'.job = listener.job
            /\ ~listener.event /\ ~Follows(u) => ~listener'.event
        BY <2>9 DEF Answer, TypeOK
      <3>2. turns[u] = "created"
        BY <2>9 DEF Answer, TurnGoes
      <3>3. Deaf => ~Follows(u)
        BY <3>2 DEF Deaf, Follows
      <3> QED  BY <2>2, <2>5, <2>7, <3>1, <3>3 DEF Follows, Deaf
    <2>10. CASE Poll
      <3>1. listener.at = "idle" /\ session.current = t
        BY <2>2, <2>10 DEF Poll, Follows, Deaf
      <3>2. listener' = [at |-> "listening", job |-> t, event |-> FALSE]
        BY <1>1, <2>10, <3>1 DEF Poll
      <3> QED  BY <3>2 DEF Follows
    <2>11. CASE listener' = [at |-> "off", job |-> None, event |-> FALSE]
      BY <2>11
    <2> QED  BY <1>1, <2>1, <2>4, <2>6, <2>8, <2>9, <2>10, <2>11, ListenerStep
  <1> QED  BY <1>3, <1>4

-----------------------------------------------------------------------------
(* After an interrupt                                                      *)

\* An answer that has begun to be spoken has been relayed, and begins once.
Relayed == \A t \in Begun : turns[t] = "relayed"

\* Only answers that had begun are silenced, and while there is no other the flag
\* that silences them is up.
Silent ==
    /\ silenced \subseteq Begun
    /\ Begun # {} /\ Begun = silenced => session.interrupted

\* What a step does to the answers spoken, silenced and heard.
LEMMA SpeechStep ==
    ASSUME TypeOK, Listens, Jobs, [Next]_vars
    PROVE  \/ Cut /\ Begun' = Begun
           \/ /\ Speak /\ Begun' = Begun \cup {listener.job} /\ listener.job \in Turn
              /\ turns[listener.job] = "answered" /\ turns'[listener.job] = "relayed"
              /\ silenced' = silenced /\ sound' = sound
           \/ /\ Begun' = Begun /\ silenced' = silenced /\ sound' = sound /\ ~Speak
           \/ /\ Begun' = Begun /\ silenced' = silenced /\ ~Speak
              /\ \E t \in Turn : Sound(t)
  <1>0. /\ speech \in [Turn -> {"none", "playing", "cancelled", "over"}]
        /\ turns \in [Turn -> TurnState]
        /\ listener.at \in {"listening", "speaking"} => listener.job \in Turn
    BY Types DEF TypeOK, Listens
  <1>1. ASSUME Cut
        PROVE  Begun' = Begun
    BY <1>0, <1>1 DEF Cut, Begun, Playing
  <1>2. CASE Speak
    <2>1. /\ listener.job \in Turn /\ turns[listener.job] = "answered"
          /\ turns' = [turns EXCEPT ![listener.job] = "relayed"]
          /\ speech' = [speech EXCEPT ![listener.job] = "playing"]
          /\ silenced' = silenced /\ sound' = sound
      BY <1>0, <1>2 DEF Speak, TurnGoes, historyVars
    <2>2. Begun' = Begun \cup {listener.job}
      BY <1>0, <2>1 DEF Begun
    <2> QED  BY <1>0, <1>2, <2>1, <2>2
  <1> DEFINE Same == Begun' = Begun /\ silenced' = silenced /\ sound' = sound
  <1>3. ASSUME NEW t \in Turn, SpeechOver(t)
        PROVE  Same
    <2>1. /\ speech[t] # "none" /\ speech' = [speech EXCEPT ![t] = "over"]
          /\ silenced' = silenced /\ sound' = sound
      BY <1>3 DEF SpeechOver, Playing, Cancelled, historyVars
    <2> QED  BY <1>0, <2>1 DEF Begun
  <1>4. ASSUME CancelSpeech
        PROVE  Same
    <2>1. /\ ending.speech \in Playing
          /\ speech' = [speech EXCEPT ![ending.speech] = "cancelled"]
          /\ silenced' = silenced /\ sound' = sound
      BY <1>4 DEF CancelSpeech, historyVars
    <2>2. ending.speech \in Turn /\ speech[ending.speech] = "playing"
      BY <2>1 DEF Playing
    <2>3. Begun' = Begun
      BY <1>0, <2>1, <2>2 DEF Begun
    <2> QED  BY <2>1, <2>3
  <1>5. ASSUME NEW t \in Turn, Sound(t)
        PROVE  Begun' = Begun /\ silenced' = silenced
    BY <1>5 DEF Sound, Begun
  <1>6. UNCHANGED <<speech, silenced, sound>> => Same
    BY DEF Begun
  <1>7. ASSUME ControlEnd \/ Timeout
        PROVE  Same
    <2>1. speech' = speech /\ silenced' = silenced /\ sound' = sound
      BY <1>7 DEF ControlEnd, Timeout, Pop, historyVars
    <2> QED  BY <1>6, <2>1
  <1>8. ASSUME BeginInterrupt
        PROVE  Cut \/ Same
    BY <1>1, <1>6, <1>8 DEF BeginInterrupt, historyVars
  <1>9. ASSUME SpeakOver
        PROVE  Cut
    BY <1>9 DEF SpeakOver
  <1> HIDE DEF Same
  <1>10. Speak \/ Cut \/ Same \/ \E t \in Turn : Sound(t)
    BY <1>3, <1>4, <1>6, <1>7, <1>8, <1>9
    DEF Next, ControlNext, ListenerNext, EndNext, vars, historyVars, StartSession,
        SendControl, Disconnect, BeginStart, FinishStart, FailStart, Pause, Resume,
        FinishInterrupt, FinishSpeakOver, Transcript, Think, NameJob, CreateJob,
        FailTurn, Answer, Poll, NothingToSay, BeginSpeaking, EndAudio, EndSpeech,
        CancelResponse, SwallowCancel, EndTimer, Persist, FailEnd, AwaitSpeech,
        ListenerFails, MissSession
  <1> QED  BY <1>1, <1>2, <1>5, <1>10 DEF Same

\* Every step keeps the silence.
LEMMA SilentStep ==
    ASSUME TypeOK, Listens, Jobs, Relayed, Silent, SilencedStaysSilent, [Next]_vars
    PROVE  Relayed' /\ Silent' /\ SilencedStaysSilent'
  <1>0. /\ Begun \subseteq Turn /\ None \notin Turn
        /\ silenced \subseteq Turn
        /\ \A u \in Turn : turns[u] = "relayed" => turns'[u] = "relayed"
    BY Types, TurnStep DEF Begun, TypeOK
  <1>1. CASE Cut /\ Begun' = Begun
    <2>1. silenced' = Begun /\ sound' = None /\ session' = With("interrupted", TRUE)
      BY <1>1 DEF Cut
    <2>2. session'.interrupted
      BY <2>1, BooleanFacts DEF TypeOK
    <2> QED
      BY <1>0, <1>1, <2>1, <2>2 DEF Relayed, Silent, SilencedStaysSilent
  <1>2. CASE /\ Speak /\ Begun' = Begun \cup {listener.job} /\ listener.job \in Turn
             /\ turns[listener.job] = "answered" /\ turns'[listener.job] = "relayed"
             /\ silenced' = silenced /\ sound' = sound
    <2>1. listener.job \notin Begun
      BY <1>2 DEF Relayed
    <2>2. listener.job \in Begun' \ silenced'
      BY <1>2, <2>1 DEF Silent
    <2>3. Relayed'
      BY <1>0, <1>2 DEF Relayed
    <2> QED  BY <1>2, <2>2, <2>3 DEF Silent, SilencedStaysSilent
  <1>3. CASE Begun' = Begun /\ silenced' = silenced /\ ~Speak
    <2>1. Relayed'
      BY <1>0, <1>3 DEF Relayed
    <2>2. session'.interrupted \/ session'.interrupted = session.interrupted
      BY <1>3, SessionStep
    <2>3. Silent'
      BY <1>3, <2>2 DEF Silent
    <2> QED
      <3>1. CASE sound' = sound
        BY <1>3, <2>1, <2>3, <3>1 DEF SilencedStaysSilent
      <3>2. ASSUME NEW t \in Turn, Sound(t)
            PROVE  SilencedStaysSilent'
        <4>1. t \in Begun /\ sound' = t /\ ~session.interrupted
          BY <3>2 DEF Sound, MaySound, Begun
        <4>2. Begun # silenced
          BY <4>1 DEF Silent
        <4> QED  BY <1>3, <4>2 DEF Silent, SilencedStaysSilent
      <3> QED  BY <1>3, <2>1, <2>3, <3>1, <3>2, SpeechStep, <1>1, <1>2
  <1> QED  BY <1>1, <1>2, <1>3, SpeechStep

-----------------------------------------------------------------------------
(* The theorems                                                            *)

\* The inductive invariant.
LiveInv ==
    /\ TypeOK /\ Listens
    /\ StartFirst /\ Quiet
    /\ Jobs /\ Running /\ Apart /\ Followed
    /\ Relayed /\ Silent /\ SilencedStaysSilent

\* It holds before the session starts.
LEMMA InitLive == Init => LiveInv
  <1> SUFFICES ASSUME Init
               PROVE  LiveInv
    OBVIOUS
  <1>1. TypeOK
    BY InitType
  <1>2. Heard = {} /\ Begun = {} /\ silenced = {} /\ sound = None
    BY DEF Init, Heard, Begun
  <1>3. Listens /\ StartFirst /\ Quiet
    BY <1>2 DEF Init, Listens, StartFirst, Quiet
  <1>4. Relayed /\ Silent /\ SilencedStaysSilent
    BY <1>2 DEF Relayed, Silent, SilencedStaysSilent
  <1>5. Jobs /\ Running /\ Apart /\ Followed
    BY DEF Init, Jobs, Running, Apart, Followed, Awaited
  <1> QED  BY <1>1, <1>3, <1>4, <1>5 DEF LiveInv

\* The inductive invariant of a live session, for every number of turns, control
\* messages and failures.
THEOREM LiveInvariant == Spec => []LiveInv
<1>1. LiveInv /\ [Next]_vars => LiveInv'
  <2> SUFFICES ASSUME LiveInv, [Next]_vars
               PROVE  LiveInv'
    OBVIOUS
  <2>1. TypeOK' /\ Listens'
    BY NextType DEF LiveInv
  <2>2. StartFirst' /\ Quiet'
    BY StartStep, QuietStep DEF LiveInv
  <2>3. Apart'
    BY ApartStep DEF LiveInv
  <2>4. Jobs'
    BY JobsStep DEF LiveInv
  <2>5. Running'
    BY RunningStep DEF LiveInv
  <2>6. Followed'
    BY FollowedStep DEF LiveInv
  <2>7. Relayed' /\ Silent' /\ SilencedStaysSilent'
    BY SilentStep DEF LiveInv
  <2> QED  BY <2>1, <2>2, <2>3, <2>4, <2>5, <2>6, <2>7 DEF LiveInv
<1> QED  BY <1>1, InitLive, PTL DEF Spec

\* Every variable of a live session keeps its type.
THEOREM LiveTypeCorrect == Spec => []TypeOK
<1>1. LiveInv => TypeOK
  BY DEF LiveInv
<1> QED  BY <1>1, LiveInvariant, PTL

\* interrupt_session's flag silences every answer that had begun, the ones the
\* session has lost sight of too, until another answer begins.
THEOREM SilencedAnswersStaySilent == Spec => []SilencedStaysSilent
<1>1. LiveInv => SilencedStaysSilent
  BY DEF LiveInv
<1> QED  BY <1>1, LiveInvariant, PTL

\* The orchestrator's answer to a turn that was under way alone is heard, unless
\* _listen_responses has not come to its job yet, waits for one that failed or was
\* answered before, or has ended with a failing call.
THEOREM TurnsAreFollowed == Spec => TurnsFollowed
<1>1. LiveInv /\ [Next]_vars =>
        [\A t \in Turn \ overlapped :
            turns[t] = "created" /\ turns'[t] = "answered" /\ ending.at = "no"
            => \/ Follows(t)
               \/ listener.at = "idle" /\ session.current = t
               \/ Deaf
               \/ listener.at = "off"]_vars
  BY DEF LiveInv, Followed, Awaited
<1> QED  BY <1>1, LiveInvariant, PTL DEF Spec, TurnsFollowed
=============================================================================
