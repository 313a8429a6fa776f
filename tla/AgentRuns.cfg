\* A chain with a group in it, one feedback at any time, two workers, one retry
\* and one death or second delivery.
SPECIFICATION FairSpec
CONSTANTS
    classification = classification
    graph = graph
    logseq = logseq
    Learner = learner
    Stages <- Chain
    Enriching = {classification}
    Pipeline = pipeline
    Feedback = {f1}
    Worker = {w1, w2}
    MaxRetries = 1
    MaxSlips = 1
INVARIANTS
    ResultsInv
    FeedbackAccounted
PROPERTIES
    OutputsStay
    PipelineEnds
CHECK_DEADLOCK FALSE
