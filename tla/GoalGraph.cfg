\* Two goals, one of them proposed for a session; a memory that is restricted or
\* may become so; two requests and two jobs, in any order and at the same time,
\* and one second delivery.
SPECIFICATION GoalSpec
CONSTANTS
    g1 = g1
    g2 = g2
    m1 = m1
    s1 = s1
    Goal = {g1, g2}
    Node = {n1, n2}
    Memory = {m1}
    Session = {s1}
    Classification = {"internal", "restricted"}
    Confidence = {40, 55}
    Payload <- Created
    Proposal <- Proposals
    Patch <- Patches
    Job <- Sent
    Told = {"blocked"}
    User = {u1}
    Worker = {w1, w2}
    MaxRequests = 2
    MaxSent = 2
    MaxSlips = 1
INVARIANTS
    GoalInv
    MetadataMerged
    LinksAccounted
PROPERTIES
    StatusSupervised
SYMMETRY Symmetry
CHECK_DEADLOCK FALSE
