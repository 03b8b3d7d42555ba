------------------------------- MODULE JobEvents -------------------------------
(***************************************************************************)
(* The way of one job's events from the orchestrator to one browser.       *)
(*                                                                         *)
(* EventPublisher.publish_event appends an event to the Redis stream of    *)
(* the job and then publishes it, with the id the stream gave it, on the   *)
(* job's pub/sub channel.  Requests to the browser (confirm_request,       *)
(* client_tool_call) are only published.  The SSE endpoint subscribes to   *)
(* the channel, replays the stream after the browser's Last-Event-ID, then *)
(* forwards what arrives on the channel and now and then looks at the      *)
(* stream again.  The browser may lose its connection and come back.       *)
(*                                                                         *)
(* An entry's id is its position in the stream (XADD ids increase; MAXLEN  *)
(* 10000 is not reached), 0 stands for no id.  What the server yields and  *)
(* the connection loses is the same as what it never yielded.              *)
(***************************************************************************)
EXTENDS Naturals, Sequences, FiniteSets

CONSTANTS
    Publishers,    \* tasks that publish: job handler, resume tasks, ...
    Events,        \* events, each published once
    Deltas,        \* delta and reasoning_delta events
    Terminals,     \* complete, error and cancelled events
    Raw,           \* confirm_request, client_tool_call: pub/sub only
    Idle,          \* a publisher with nothing to publish
    MaxTries,      \* attempts to publish one event
    CatchupLimit,  \* catchup_max_events
    CheckLimit,    \* entries one periodic check reads
    MayBeCold,     \* the browser may come back after the hot window
    MaxConnects,   \* bound: connections the browser opens
    MaxFailures    \* bound: failing calls to Redis, and cold catch-ups

ASSUME EventsAssumption ==
    /\ Deltas \subseteq Events /\ Terminals \subseteq Events /\ Raw \subseteq Events
    /\ Deltas \cap Terminals = {} /\ Raw \cap (Deltas \cup Terminals) = {}
    /\ Idle \notin Events

ASSUME LimitsAssumption ==
    /\ MaxTries \in Nat \ {0}
    /\ CatchupLimit \in Nat /\ CheckLimit \in Nat
    /\ MayBeCold \in BOOLEAN
    /\ MaxConnects \in Nat /\ MaxFailures \in Nat

VARIABLES
    stream,    \* the entries of events:<job>
    unsent,    \* events no publisher has begun
    pub,       \* pub[p]: the event p has stored and is publishing, or Idle
    channel,   \* what the connection's subscription has received
    conn,      \* where event_generator is
    batch,     \* the ids a catch-up has read and not yielded yet
    lastId,    \* last_yielded_id, and the browser's Last-Event-ID
    connects, failures,
    \* history, read by properties only
    got,       \* got[e]: times the browser received e
    published, \* the ids that reached the channel
    excused,   \* the ids the connection had no chance to see in time
    unsure,    \* events stored or published by a call that raised
    cold       \* a cold catch-up took place

publishing == <<stream, unsent, pub>>
serving == <<conn, batch, lastId>>
budgets == <<connects, failures>>
vars == <<publishing, channel, serving, budgets, got, published, excused, unsure, cold>>

Where == {"none", "open", "subscribed", "archived", "catchup", "live", "check",
          "checking", "refused"}

\* The subscription exists.
Listening == conn \in {"subscribed", "archived", "catchup", "live", "check", "checking"}

Init ==
    /\ stream = <<>>
    /\ unsent = Events
    /\ pub = [p \in Publishers |-> Idle]
    /\ channel = <<>>
    /\ conn = "none"
    /\ batch = {}
    /\ lastId = 0
    /\ connects = 0
    /\ failures = 0
    /\ got = [e \in Events |-> 0]
    /\ published = {}
    /\ excused = {}
    /\ unsure = {}
    /\ cold = FALSE

-----------------------------------------------------------------------------
(* EventPublisher.publish_event, and the raw publish of ToolHandler and    *)
(* ConfirmHandler.                                                         *)

Begin(p, e, id) ==
    /\ pub' = [pub EXCEPT ![p] = [event |-> e, id |-> id, tries |-> 0]]
    /\ unsent' = unsent \ {e}

Add(p, e) ==
    /\ pub[p] = Idle
    /\ e \in unsent \ Raw
    /\ stream' = Append(stream, e)
    /\ Begin(p, e, Len(stream) + 1)
    /\ UNCHANGED <<channel, serving, budgets, got, published, excused, unsure, cold>>

\* XADD raises, applied or not: the event goes on without an id.
AddFails(p, e) ==
    /\ pub[p] = Idle
    /\ e \in unsent \ Raw
    /\ failures < MaxFailures
    /\ failures' = failures + 1
    /\ stream' \in {stream, Append(stream, e)}
    /\ Begin(p, e, 0)
    /\ unsure' = unsure \cup {e}
    /\ UNCHANGED <<channel, serving, connects, got, published, excused, cold>>

\* PUBLISH: at most once, to the connections that listen.  The entries before
\* id that are not published yet are overtaken.
Send(e, id) ==
    /\ channel' = IF Listening THEN Append(channel, [event |-> e, id |-> id]) ELSE channel
    /\ published' = published \cup {id}
    /\ excused' = excused \cup {i \in 1 .. id - 1 : i \notin published}

Publish(p) ==
    /\ pub[p] # Idle
    /\ Send(pub[p].event, pub[p].id)
    /\ pub' = [pub EXCEPT ![p] = Idle]
    /\ UNCHANGED <<stream, unsent, serving, budgets, got, unsure, cold>>

\* PUBLISH raises, received by the subscribers or not.
PublishFails(p) ==
    /\ pub[p] # Idle
    /\ failures < MaxFailures
    /\ failures' = failures + 1
    /\ \/ Send(pub[p].event, pub[p].id)
       \/ UNCHANGED <<channel, published, excused>>
    /\ unsure' = unsure \cup {pub[p].event}
    /\ LET n == pub[p].tries + 1
       IN pub' = [pub EXCEPT ![p] = IF n = MaxTries THEN Idle
                                    ELSE [pub[p] EXCEPT !.tries = n]]
    /\ UNCHANGED <<stream, unsent, serving, connects, got, cold>>

PublishRaw(e) ==
    /\ e \in unsent \cap Raw
    /\ Send(e, 0)
    /\ unsent' = unsent \ {e}
    /\ UNCHANGED <<stream, pub, serving, budgets, got, unsure, cold>>

-----------------------------------------------------------------------------
(* stream_events_authenticated: a used one-time token is accepted again    *)
(* only with a Last-Event-ID.                                              *)

Connect ==
    /\ conn = "none"
    /\ connects < MaxConnects
    /\ connects' = connects + 1
    /\ conn' = IF connects = 0 \/ lastId # 0 THEN "open" ELSE "refused"
    /\ UNCHANGED <<publishing, channel, batch, lastId, failures, got, published, excused,
                   unsure, cold>>

\* The browser, the network or the server's process drops the connection.
Disconnect ==
    /\ Listening \/ conn = "open"
    /\ conn' = "none"
    /\ channel' = <<>>
    /\ batch' = {}
    /\ UNCHANGED <<publishing, lastId, budgets, got, published, excused, unsure, cold>>

-----------------------------------------------------------------------------
(* event_generator                                                         *)

\* The first `limit` ids of the stream after id, without those in Skip.
After(id, limit, Skip) ==
    {i \in 1..Len(stream) : id < i /\ i <= id + limit /\ stream[i] \notin Skip}

Subscribe ==
    /\ conn = "open"
    /\ conn' = "subscribed"
    /\ UNCHANGED <<publishing, channel, batch, lastId, budgets, got, published, excused,
                   unsure, cold>>

\* Ids the hot catch-up after id leaves to the channel although they precede it.
Truncated(id) == {i \in 1..Len(stream) : id + CatchupLimit < i}

\* Mutant: what was stored before the subscription is not replayed.
HotCatchupFromNow ==
    /\ conn = "subscribed"
    /\ batch' = {}
    /\ conn' = "catchup"
    /\ UNCHANGED <<publishing, channel, lastId, budgets, got, published, excused, unsure,
                   cold>>

\* Mutant: everything is replayed.
HotCatchupFromZero ==
    /\ conn = "subscribed"
    /\ batch' = After(0, CatchupLimit, Deltas)
    /\ conn' = "catchup"
    /\ excused' = excused \cup Truncated(0)
    /\ UNCHANGED <<publishing, channel, lastId, budgets, got, published, unsure, cold>>

\* _hot_catchup after Last-Event-ID; deltas count in the limit and are dropped.
HotCatchup ==
    /\ conn = "subscribed"
    /\ batch' = After(lastId, CatchupLimit, Deltas)
    /\ conn' = "catchup"
    /\ excused' = excused \cup Truncated(lastId)
    /\ UNCHANGED <<publishing, channel, lastId, budgets, got, published, unsure, cold>>

\* _cold_catchup yields archived rows, whose ids carry the time they were
\* archived: the last of them may sort after any entry.
ColdCatchup ==
    /\ conn = "subscribed"
    /\ MayBeCold
    /\ lastId # 0
    /\ failures < MaxFailures
    /\ failures' = failures + 1
    /\ lastId' \in {lastId} \cup 1..Len(stream)
    /\ cold' = TRUE
    /\ conn' = "archived"
    /\ UNCHANGED <<publishing, channel, batch, connects, got, published, excused, unsure>>

\* ... and is followed by the hot catch-up of the whole stream.
HotAfterCold ==
    /\ conn = "archived"
    /\ batch' = After(0, CatchupLimit, Deltas)
    /\ conn' = "catchup"
    /\ excused' = excused \cup Truncated(0)
    /\ UNCHANGED <<publishing, channel, lastId, budgets, got, published, unsure, cold>>

\* XRANGE raises: logged, and the live loop starts.
CatchupFails ==
    /\ conn \in {"subscribed", "archived"}
    /\ failures < MaxFailures
    /\ failures' = failures + 1
    /\ batch' = {}
    /\ conn' = "catchup"
    /\ excused' = excused \cup 1..Len(stream)
    /\ UNCHANGED <<publishing, channel, lastId, connects, got, published, unsure, cold>>

\* An event without an id leaves the browser's Last-Event-ID alone.
LastEventId(id) == IF id # 0 THEN id ELSE lastId

Receive(e, id) ==
    /\ got' = [got EXCEPT ![e] = @ + 1]
    /\ lastId' = LastEventId(id)

\* The next event of a catch-up or of a periodic check is yielded.
YieldCaught ==
    /\ conn \in {"catchup", "checking"}
    /\ \E i \in batch :
         /\ \A j \in batch : i <= j
         /\ Receive(stream[i], i)
         /\ batch' = batch \ {i}
    /\ UNCHANGED <<publishing, channel, conn, budgets, published, excused, unsure, cold>>

EndCatchup ==
    /\ conn \in {"catchup", "checking"}
    /\ batch = {}
    /\ conn' = "live"
    /\ UNCHANGED <<publishing, channel, batch, lastId, budgets, got, published, excused,
                   unsure, cold>>

Duplicate(id) == id # 0 /\ lastId # 0 /\ id <= lastId

SkipDuplicate ==
    /\ conn = "live"
    /\ channel # <<>>
    /\ Duplicate(Head(channel).id)
    /\ channel' = Tail(channel)
    /\ UNCHANGED <<publishing, serving, budgets, got, published, excused, unsure, cold>>

\* A terminal event ends the stream; after another one the periodic check may
\* be due.
Forward ==
    /\ conn = "live"
    /\ channel # <<>>
    /\ LET m == Head(channel) IN
         /\ ~Duplicate(m.id)
         /\ Receive(m.event, m.id)
         /\ IF m.event \in Terminals
            THEN conn' = "none" /\ channel' = <<>>
            ELSE conn' \in {"live", "check"} /\ channel' = Tail(channel)
    /\ UNCHANGED <<publishing, batch, budgets, published, excused, unsure, cold>>

\* _check_missed_events: deltas included.
CheckMissed ==
    /\ conn = "check"
    /\ batch' = After(lastId, CheckLimit, {})
    /\ conn' = "checking"
    /\ UNCHANGED <<publishing, channel, lastId, budgets, got, published, excused, unsure,
                   cold>>

CheckFails ==
    /\ conn = "check"
    /\ failures < MaxFailures
    /\ failures' = failures + 1
    /\ conn' = "live"
    /\ UNCHANGED <<publishing, channel, batch, lastId, connects, got, published, excused,
                   unsure, cold>>

\* The pub/sub connection breaks and is set up again: listen() logs it and goes
\* on, without what was sent meanwhile.
SubscriptionLost ==
    /\ Listening
    /\ channel # <<>>
    /\ failures < MaxFailures
    /\ failures' = failures + 1
    /\ channel' = <<>>
    /\ excused' = excused \cup ({channel[i].id : i \in 1..Len(channel)} \ {0})
    /\ UNCHANGED <<publishing, serving, connects, got, published, unsure, cold>>

Serve ==
    \/ Subscribe \/ HotCatchup \/ ColdCatchup \/ HotAfterCold \/ CatchupFails
    \/ YieldCaught \/ EndCatchup \/ SkipDuplicate \/ Forward \/ CheckMissed \/ CheckFails

Next ==
    \/ \E p \in Publishers :
         \/ \E e \in Events : Add(p, e) \/ AddFails(p, e)
         \/ Publish(p) \/ PublishFails(p)
    \/ \E e \in Events : PublishRaw(e)
    \/ Connect \/ Disconnect \/ SubscriptionLost
    \/ Serve

Spec == Init /\ [][Next]_vars
FairSpec == Spec /\ WF_vars(Serve) /\ \A p \in Publishers : WF_vars(Publish(p))

-----------------------------------------------------------------------------
\* Across catch-ups, live forwarding, periodic checks and reconnections the
\* browser receives an event once, unless Redis raised on it or the browser
\* came back after the hot window.
ReceivedOnce ==
    \A e \in Events : got[e] > 1 => cold \/ e \in unsure

\* Whenever the live loop has nothing to forward, every published entry was
\* received, deltas apart, unless it was published after a later
\* entry or never, lay beyond the limit of a catch-up, or Redis failed on it.
\* (events.py: "ensure no events missed between job creation and SSE connection")
NothingMissed ==
    conn = "live" /\ channel = <<>> /\ ~cold
    => \A i \in published \ {0} :
         got[stream[i]] > 0 \/ stream[i] \in Deltas \/ i \in excused

\* An entry never has a gap below it that the connection could have filled.
\* Unlike NothingMissed this holds while events are on their way, and so for a
\* browser that is cut off at any moment.
PrefixReceived ==
    ~cold => \A i \in 1..lastId :
        got[stream[i]] > 0 \/ stream[i] \in Deltas \/ i \in excused

\* A terminal event that was published reaches the browser, or the connection
\* is over, or the event was excused as above.
TerminalArrives ==
    \A e \in Terminals :
        (\E i \in published \ {0} : stream[i] = e /\ Listening)
        ~> \/ got[e] > 0 \/ conn \in {"none", "open", "refused"} \/ cold
           \/ \E i \in excused : stream[i] = e
=============================================================================
