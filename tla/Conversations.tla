----------------------------- MODULE Conversations -----------------------------
(***************************************************************************)
(* One conversation as the API gateway keeps it: the tree of messages that *)
(* chat completions and edits write, the active branch that edits and      *)
(* switches write, and the branch a client is shown, which is put together *)
(* from the rows the archiver has written so far and, for jobs without     *)
(* any, from the job's event stream.                                       *)
(*                                                                         *)
(* A message is <<job, n>>: the user's message is number 0 of its job and  *)
(* the records of the answer (tool calls, tool results, text) follow.      *)
(***************************************************************************)
EXTENDS Naturals, Sequences, SequencesExt, FiniteSetsExt

CONSTANTS
    Clients,    \* requests in progress at a time
    MaxJobs,    \* bound: user messages
    MaxRecords, \* bound: records of an answer
    MaxSwitches, \* bound: branch switches
    MaxFailures \* bound: requests that fail half way

ASSUME ConversationAssumption == MaxRecords \in Nat

VARIABLES
    jobs,     \* jobs in the order of created_at
    branch,   \* Conversation.active_branch
    op,       \* what each client's request does next
    switches, failed

convVars == <<jobs, branch, op, switches, failed>>

Root == <<0, 0>>
None == <<>>

\* A job row with its user message; who reads it in the stream is JobEvents.
NewJob(parent) ==
    [parent |-> parent, committed |-> FALSE, published |-> FALSE,
     emitted |-> 0, archived |-> 0]

\* active_branch is empty, and has an entry for each message with a chosen child.
NewConversation == <<>>

Idle == [kind |-> "idle"]

\* A conversation begins with its first job.
ConvInit ==
    /\ jobs = <<[NewJob(Root) EXCEPT !.committed = TRUE, !.published = TRUE]>>
    /\ branch = NewConversation
    /\ op = [c \in Clients |-> Idle]
    /\ switches = 0
    /\ failed = 0

-----------------------------------------------------------------------------
(* The branch a client is shown                                            *)

Committed == {j \in DOMAIN jobs : jobs[j].committed}

\* Records of the answer a reader finds: the rows or, while there is none, the
\* events in the stream.
Hot(j) == jobs[j].archived = 0
Found(j) == IF Hot(j) THEN jobs[j].emitted ELSE jobs[j].archived

ParentOf(m) == IF m[2] = 0 THEN jobs[m[1]].parent ELSE <<m[1], m[2] - 1>>

\* A hot record's identifier is no row's.
IsRow(m) == m[2] <= jobs[m[1]].archived

Answer(m) ==
    IF m # Root /\ m[2] < Found(m[1]) THEN <<m[1], m[2] + 1>> ELSE None

InOrder(numbers) ==
    CHOOSE s \in [1..Cardinality(numbers) -> numbers] :
        \A i, k \in DOMAIN s : i < k => s[i] < s[k]

Questions(m) == InOrder({j \in Committed : jobs[j].parent = m})

Chosen(nodes) ==
    LET key == jobs[nodes[1]].parent
        marked == {j \in Range(nodes) :
                      /\ key # Root
                      /\ key \in DOMAIN branch
                      /\ branch[key] = <<j, 0>>}
    IN  <<IF marked = {} THEN Last(nodes) ELSE CHOOSE j \in marked : TRUE, 0>>

\* Mutant: an answer written after the next question is taken for a branch.
QuestionsFirst(answer, questions) == answer # None /\ questions = <<>>

\* An answer goes before the questions beside it.
AnswerNext(answer, questions) == answer # None

\* Mutant: the questions beside an answer are dropped for those below it.
Below(questions, answer) == Questions(answer)

Beside(questions, answer) == questions \o Questions(answer)

\* What a reader can find.
Messages == {m \in Committed \X (0..MaxRecords) : m[2] <= Found(m[1])}

\* What may come next in a walk: the answer to the last message, and the questions
\* met since the last one that was chosen.
Ahead == [answer : {None} \cup Messages, questions : Seq(Committed)]

Past(answer, questions) ==
    [answer |-> Answer(answer), questions |-> Beside(questions, answer)]

Under(m) == [answer |-> Answer(m), questions |-> Questions(m)]

\* The walk down the tree: each message shown, with the questions it was chosen
\* from.
Walk[ahead \in Ahead] ==
    LET answer    == ahead.answer
        questions == ahead.questions
    IN  IF AnswerNext(answer, questions)
        THEN <<[message |-> answer, among |-> {}]>> \o Walk[Past(answer, questions)]
        ELSE IF questions # <<>>
        THEN <<[message |-> Chosen(questions), among |-> Range(questions)]>>
                 \o Walk[Under(Chosen(questions))]
        ELSE <<>>

Walked == Walk[[answer |-> None, questions |-> Questions(Root)]]

\* Without any parent there is no tree and the rows are listed as they are.
HasTree == \E j \in Committed : jobs[j].parent # Root \/ jobs[j].archived > 0

MessagesOf(walked) == [i \in DOMAIN walked |-> walked[i].message]

Shown ==
    IF HasTree THEN MessagesOf(Walked)
    ELSE LET roots == Questions(Root) IN [i \in DOMAIN roots |-> <<roots[i], 0>>]

-----------------------------------------------------------------------------
(* Requests                                                                *)

\* What a request in progress has seen is out of date once another one writes.
Disturbed(c, ops) ==
    [d \in Clients |-> IF d = c \/ ops[d] = Idle THEN ops[d]
                       ELSE [ops[d] EXCEPT !.alone = FALSE]]

Continue(c, next) == op' = [op EXCEPT ![c] = next]
Write(c, next) == op' = Disturbed(c, [op EXCEPT ![c] = next])

\* The records of an answer are merged into one message, under the first one's
\* identifier.
Merged(m) == IsRow(m) /\ m[2] <= 1

LastRow ==
    LET shown == Shown
    IN  shown[Max({i \in DOMAIN shown : Merged(shown[i])})]

\* A completion in this conversation, up to its commit: the transaction has
\* begun, which dates the job, and the tree is read in another session.
BeginPost(c) ==
    /\ op[c] = Idle
    /\ Len(jobs) < MaxJobs
    /\ jobs' = Append(jobs, NewJob(None))
    /\ Continue(c, [kind |-> "post", step |-> "tree", alone |-> TRUE,
                    job |-> Len(jobs')])
    /\ UNCHANGED <<branch, switches, failed>>

ReadTree(c) ==
    /\ op[c].kind = "post"
    /\ op[c].step = "tree"
    /\ jobs' = [jobs EXCEPT ![op[c].job].parent = LastRow]
    /\ Continue(c, [op[c] EXCEPT !.step = "commit", !.alone = TRUE])
    /\ UNCHANGED <<branch, switches, failed>>

CommitPost(c) ==
    /\ op[c].kind = "post"
    /\ op[c].step = "commit"
    /\ jobs' = [jobs EXCEPT ![op[c].job].committed = TRUE]
    /\ Write(c, [op[c] EXCEPT !.step = "publish"])
    /\ UNCHANGED <<branch, switches, failed>>

\* An edit: the new message gets the edited one's parent.
Edit(c, j) ==
    /\ op[c] = Idle
    /\ Len(jobs) < MaxJobs
    /\ jobs' = Append(jobs, [NewJob(jobs[j].parent) EXCEPT !.committed = TRUE])
    /\ Write(c, [kind |-> "edit",
                 step |-> IF jobs[j].parent = Root THEN "publish" ELSE "read",
                 alone |-> <<j, 0>> \in Range(Shown), job |-> Len(jobs'),
                 key |-> jobs[j].parent, target |-> <<Len(jobs'), 0>>,
                 map |-> NewConversation])
    /\ UNCHANGED <<branch, switches, failed>>

\* The arrows beside a question that was chosen from several: the client sends
\* the parent of the one it shows and the one it wants.
Switch(c) ==
    /\ op[c] = Idle
    /\ switches < MaxSwitches
    /\ HasTree
    /\ \E point \in Range(Walked) : \E wanted \in point.among \ {point.message[1]} :
          /\ ParentOf(point.message) # Root
          /\ Continue(c, [kind |-> "switch", step |-> "read", alone |-> TRUE, job |-> 0,
                          key |-> ParentOf(point.message), target |-> <<wanted, 0>>,
                          map |-> NewConversation])
    /\ switches' = switches + 1
    /\ UNCHANGED <<jobs, branch, failed>>

\* switch_branch: the whole map is read, changed and written back.
ReadBranch(c) ==
    /\ op[c].kind \in {"edit", "switch"}
    /\ op[c].step = "read"
    /\ Continue(c, [op[c] EXCEPT !.step = "write", !.map = branch])
    /\ UNCHANGED <<jobs, branch, switches, failed>>

\* Mutant: an entry that is there already stays.
KeptEntry(map, key, target) ==
    [k \in DOMAIN map \cup {key} |-> IF k \in DOMAIN map THEN map[k] ELSE target]

WithEntry(map, key, target) ==
    [k \in DOMAIN map \cup {key} |-> IF k = key THEN target ELSE map[k]]

WriteBranch(c) ==
    /\ op[c].kind \in {"edit", "switch"}
    /\ op[c].step = "write"
    /\ branch' = WithEntry(op[c].map, op[c].key, op[c].target)
    /\ Write(c, IF op[c].kind = "switch" THEN Idle
                ELSE [op[c] EXCEPT !.step = "publish", !.map = NewConversation])
    /\ UNCHANGED <<jobs, switches, failed>>

\* The request ends once Kafka has the job.
SendJob(c) ==
    /\ op[c].step = "publish"
    /\ jobs' = [jobs EXCEPT ![op[c].job].published = TRUE]
    /\ Continue(c, Idle)
    /\ UNCHANGED <<branch, switches, failed>>

PublishPost(c) == op[c].kind = "post" /\ SendJob(c)
PublishEdit(c) == op[c].kind = "edit" /\ SendJob(c)

\* A step raises: what was committed stays, and a job not published is never run.
FailRequest(c) ==
    /\ op[c] # Idle
    /\ failed < MaxFailures
    /\ failed' = failed + 1
    /\ Continue(c, Idle)
    /\ UNCHANGED <<jobs, branch, switches>>

-----------------------------------------------------------------------------
(* The orchestrator and the archiver                                       *)

EmitRecord(j) ==
    /\ jobs[j].published
    /\ jobs[j].emitted < MaxRecords
    /\ jobs' = [jobs EXCEPT ![j].emitted = @ + 1]
    /\ UNCHANGED <<branch, op, switches, failed>>

\* A flush writes the records of the job it has, each the child of the one before.
ArchiveRecords(j) ==
    /\ \E n \in jobs[j].archived + 1 .. jobs[j].emitted :
          jobs' = [jobs EXCEPT ![j].archived = n]
    /\ UNCHANGED <<branch, op, switches, failed>>

ConvNext ==
    \/ \E c \in Clients :
          \/ BeginPost(c)
          \/ ReadTree(c)
          \/ CommitPost(c)
          \/ \E j \in Committed : Edit(c, j)
          \/ Switch(c)
          \/ ReadBranch(c)
          \/ WriteBranch(c)
          \/ PublishPost(c)
          \/ PublishEdit(c)
          \/ FailRequest(c)
    \/ \E j \in DOMAIN jobs : EmitRecord(j) \/ ArchiveRecords(j)

ConvSpec == ConvInit /\ [][ConvNext]_convVars

-----------------------------------------------------------------------------
(* Properties                                                              *)

\* An answer is shown whole, right after its question and before the next one,
\* in whatever order requests and the archiver have written them.
AnswersInPlace ==
    LET shown == Shown
    IN  HasTree =>
            \A i \in DOMAIN shown :
                /\ Answer(shown[i]) # None =>
                       i < Len(shown) /\ shown[i + 1] = Answer(shown[i])
                /\ shown[i][2] > 0 => i > 1 /\ shown[i - 1] = ParentOf(shown[i])

\* Two posts that read the tree at different moments of an answer become siblings
\* with different parents, and the branch map has one key for all of them.
Mixed ==
    \E point \in Range(Walked) : \E i, j \in point.among :
        jobs[i].parent # jobs[j].parent

\* A request that no other one disturbed has its message or branch shown when it
\* has written, unless overlapping posts have mixed the siblings.
Written(c) ==
    /\ op[c] # Idle
    /\ op[c].step \in {"commit", "write"}
    /\ op'[c] = Idle \/ op'[c].step # op[c].step
    /\ failed' = failed
Target(o) == IF o.kind = "post" THEN <<o.job, 0>> ELSE o.target
OwnWriteShown ==
    [][\A c \in Clients :
          Written(c) /\ op[c].alone /\ ~Mixed' => Target(op[c]) \in Range(Shown')]_convVars

\* The orchestrator and the archiver never move a client to another branch.
Asked[path \in Seq(Nat \X Nat)] ==
    IF path = <<>> THEN <<>>
    ELSE (IF path[1][2] = 0 THEN <<path[1]>> ELSE <<>>) \o Asked[Tail(path)]
AnswersKeepBranch ==
    [][UNCHANGED op /\ HasTree => Asked[Shown'] = Asked[Shown]]_convVars
=============================================================================
