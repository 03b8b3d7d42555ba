CONSTANTS
    Job = job
    Resumer = resumer
    Responder = responder
    Nobody = nobody
    Plans <- MCPlans
    FollowUps <- MCFollowUps
    MaxEvaluations = 1
    MaxIterations = 2
    MaxQuestions = 2
    MaxReplies = 2
    MaxCalls = 2
    MaxFailures = 1
SPECIFICATION Spec
INVARIANTS
    SynthesisCoversPlan
    ConversationAnswered
PROPERTIES
    NoWorkAfterEnd
CHECK_DEADLOCK FALSE
