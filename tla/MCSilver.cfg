CONSTANTS
    proposal = proposal
    topic = topic
    probe = probe
    post1 = post1
    post2 = post2
    r1 = r1
    r2 = r2
    r3 = r3
    q1 = q1
    q2 = q2
    b1 = b1
    b2 = b2
    Docs = {proposal, topic, probe}
    TopicDocs = {topic}
    Configured = {proposal, topic}
    Entities = {proposal, post1, post2, probe}
    Records = {r1, r2, r3}
    Rests = {q1, q2}
    Bodies <- MCBodies
    Builders = {b1}
    MaxObjects = 3
    MaxCode = 2
SPECIFICATION FairSpec
INVARIANTS
    TypeOK
    ExactlyOneCurrent
    OneVersionAtATime
    PureFunctionOfBronze
PROPERTIES
    PastIsSettled
    EveryVersionArrives
