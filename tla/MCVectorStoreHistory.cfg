CONSTANTS
    proposal = proposal
    twin = twin
    post = post
    reply = reply
    topic = topic
    old = old
    new = new
    said = said
    thanks = thanks
    rant = rant
    plain = plain
    welcome = welcome
    none = none
    l1 = l1
    Entities = {proposal, twin, post, reply}
    Posts = {post, reply}
    DocumentOf <- MCDocumentOf
    PostId <- MCPostId
    Spread = 2
    Versions <- MCVersions
    Boilerplate = {welcome}
    Bodies <- MCBodies
    Wide = {300}
    Words <- MCWords
    NoHeading = none
    Settings <- MCSettings
    MinTokens = 2
    MinBody = 3
    Loaders = {l1}
    MaxBatch = 1
    MaxRecords = 2
    MaxWaste = 0
SPECIFICATION Spec
INVARIANT
    HistoryIsFaithful
