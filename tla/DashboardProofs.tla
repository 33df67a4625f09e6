-------------------------- MODULE DashboardProofs --------------------------
(***************************************************************************)
(* Theorems about Dashboard for any number of questions, fetches, visits   *)
(* and changes of the table.                                               *)
(*                                                                         *)
(* The chat page: a visit has at most one open request, its last, and has  *)
(* it exactly while the progress line is there (ChatInv).                  *)
(*                                                                         *)
(* The list page: only the last fetch is heeded, it is for the page that   *)
(* is awaited, what it read of a version of the table is the beginning of  *)
(* that page (Live), and the rows loaded are those before it (Loaded).     *)
(***************************************************************************)
EXTENDS Dashboard, SequenceTheorems, FiniteSetTheorems, TLAPS

Events == Nodes \cup {"error", "end"}
SentRequest ==
    [kind : {"stream", "post"}, visit : Nat \ {0}, open : BOOLEAN,
     next : Nodes \cup {"done", "over"}, queue : Seq(Events), runs : {1}]
Page == [visit : Nat, stage : Nodes \cup {None}, answer : Nat, error : BOOLEAN, stop : Nat]

ChatTypes == /\ requests \in Seq(SentRequest) /\ chat \in Page /\ visits \in Nat
             /\ ~ Mounted => chat = Unmounted

\* A visit is counted before it is used.
Counted == /\ chat.visit <= visits
           /\ \A n \in DOMAIN requests : requests[n].visit <= visits

Focus(n) == requests[n].visit = chat.visit

\* The open request of this visit is its last, so there is only one.
OneOpen == \A m, n \in DOMAIN requests :
              Focus(m) /\ Focus(n) /\ requests[n].open => m <= n

\* A question clears what was shown.
Cleared == chat.stage # None => chat.answer = 0 /\ ~ chat.error

Shown == chat.answer # 0 => chat.answer \in DOMAIN requests

ChatInv == /\ ChatTypes /\ Counted
           /\ OneOpen /\ ProgressIsTrue
           /\ Cleared /\ Shown /\ AnswerIsToLastQuestion

\* What is known of a request that was sent.
LEMMA RequestFacts ==
    ASSUME ChatTypes, NEW n \in DOMAIN requests
    PROVE  /\ requests[n] \in SentRequest /\ n \in 1..Len(requests) /\ n # 0
           /\ Len(requests) \in Nat /\ DOMAIN requests = 1..Len(requests)
           /\ Focus(n) => Mounted
<1>1. Len(requests) \in Nat /\ DOMAIN requests = 1..Len(requests)
  BY LenProperties DEF ChatTypes
<1>2. requests[n] \in SentRequest
  BY <1>1, ElementOfSeq DEF ChatTypes
<1>3. Focus(n) => Mounted
  BY <1>2 DEF Focus, Mounted, SentRequest
<1> QED BY <1>1, <1>2, <1>3

\* One request becomes r, which is of the same visit.
LEMMA BecomeFacts ==
    ASSUME ChatTypes, NEW n \in DOMAIN requests, NEW r \in SentRequest,
           requests' = [requests EXCEPT ![n] = r]
    PROVE  /\ requests' \in Seq(SentRequest) /\ DOMAIN requests' = DOMAIN requests
           /\ requests'[n] = r
           /\ \A m \in DOMAIN requests \ {n} : requests'[m] = requests[m]
<1>1. n \in 1..Len(requests) /\ DOMAIN requests = 1..Len(requests)
  BY RequestFacts
<1>2. requests' \in Seq(SentRequest)
  BY <1>1, ExceptSeq DEF ChatTypes
<1> QED BY <1>1, <1>2

\* The server goes on with an open request, or an event moves the progress line.
LEMMA GoesOn ==
    ASSUME ChatInv, UNCHANGED visits,
           NEW n \in DOMAIN requests, requests[n].open,
           NEW r \in SentRequest, r.visit = requests[n].visit, r.open,
           requests' = [requests EXCEPT ![n] = r],
           NEW stage \in Nodes,
           UNCHANGED chat \/ Show(n, [chat EXCEPT !.stage = stage])
    PROVE  ChatInv'
<1>0. ChatTypes /\ Counted /\ OneOpen /\ ProgressIsTrue /\ Cleared /\ Shown /\ AnswerIsToLastQuestion
  BY DEF ChatInv
<1>1. /\ requests' \in Seq(SentRequest) /\ DOMAIN requests' = DOMAIN requests
      /\ \A m \in DOMAIN requests : /\ requests'[m].visit = requests[m].visit
                                    /\ requests'[m].open = requests[m].open
  BY <1>0, BecomeFacts
<1>2. chat' \in Page /\ chat'.visit = chat.visit /\ chat'.answer = chat.answer
      /\ chat'.error = chat.error
  BY <1>0 DEF Show, Page, ChatTypes
<1>3. None \notin Nodes
  BY BranchAssumption DEF Nodes, None
<1>4. Mounted => (chat'.stage # None <=> chat.stage # None)
  <2>1. Mounted /\ Focus(n) => chat.stage # None
    BY <1>0 DEF ProgressIsTrue, Focus
  <2> QED BY <1>0, <1>3, <2>1 DEF Show, ChatTypes, Page, Focus
<1>5. ~ Mounted => chat' = chat
  BY <1>0, RequestFacts DEF Show, Focus
<1>6. ChatTypes'
  BY <1>0, <1>1, <1>2, <1>5 DEF ChatTypes, Mounted, Unmounted
<1>7. Counted' /\ OneOpen' /\ Shown' /\ AnswerIsToLastQuestion'
  BY <1>0, <1>1, <1>2 DEF Counted, OneOpen, Focus, Shown, AnswerIsToLastQuestion
<1>8. ProgressIsTrue'
  BY <1>0, <1>1, <1>2, <1>4 DEF ProgressIsTrue, Mounted
<1>9. Cleared'
  BY <1>0, <1>2, <1>4, <1>5 DEF Cleared
<1> QED BY <1>6, <1>7, <1>8, <1>9 DEF ChatInv

\* A request ends: the page that is still there has its answer or an error, or
\* only loses the progress line.
LEMMA Ends ==
    ASSUME ChatInv, UNCHANGED visits,
           NEW n \in DOMAIN requests, requests[n].open,
           NEW r \in SentRequest, r.visit = requests[n].visit, ~ r.open,
           requests' = [requests EXCEPT ![n] = r],
           \/ Show(n, [chat EXCEPT !.answer = n, !.stage = None])
           \/ Show(n, [chat EXCEPT !.error = TRUE, !.stage = None])
           \/ Show(n, [chat EXCEPT !.stage = None])
    PROVE  ChatInv'
<1>0. ChatTypes /\ Counted /\ OneOpen /\ ProgressIsTrue /\ Cleared /\ Shown /\ AnswerIsToLastQuestion
  BY DEF ChatInv
<1>1. /\ requests' \in Seq(SentRequest) /\ DOMAIN requests' = DOMAIN requests
      /\ ~ requests'[n].open
      /\ \A m \in DOMAIN requests : /\ requests'[m].visit = requests[m].visit
                                    /\ m # n => requests'[m].open = requests[m].open
  BY <1>0, BecomeFacts
<1>2. chat' \in Page /\ chat'.visit = chat.visit
  <2>1. n \in Nat
    BY <1>0, RequestFacts
  <2> QED BY <1>0, <2>1 DEF Show, Page, ChatTypes
<1>3. ~ Focus(n) => chat' = chat
  BY DEF Show, Focus
<1>4. Focus(n) => /\ Mounted /\ chat.answer = 0 /\ ~ chat.error
                  /\ chat'.stage = None
                  /\ \/ chat'.answer = n /\ chat'.error = FALSE
                     \/ chat'.answer = 0
  <2>1. Focus(n) => Mounted
    BY <1>0, RequestFacts
  <2>2. Focus(n) => chat.stage # None
    BY <1>0, <2>1 DEF ProgressIsTrue, Focus
  <2>3. chat.error \in BOOLEAN
    BY <1>0 DEF ChatTypes, Page
  <2> QED BY <1>0, <2>1, <2>2, <2>3 DEF Show, Focus, Cleared, ChatTypes, Page
<1>5. ChatTypes'
  BY <1>0, <1>1, <1>2, <1>3, <1>4 DEF ChatTypes, Mounted
<1>6. Counted' /\ OneOpen'
  BY <1>0, <1>1, <1>2 DEF Counted, OneOpen, Focus
<1>7. Cleared' /\ Shown'
  BY <1>0, <1>1, <1>3, <1>4 DEF Cleared, Shown
<1>8. ProgressIsTrue'
  <2>1. Focus(n) => \A m \in DOMAIN requests : Focus(m) /\ requests[m].open => m = n
    <3>1. \A m \in DOMAIN requests : m \in Nat
      BY <1>0, RequestFacts
    <3> QED BY <1>0, <3>1 DEF OneOpen
  <2> QED BY <1>0, <1>1, <1>2, <1>3, <1>4, <2>1 DEF ProgressIsTrue, Mounted, Focus
<1>9. AnswerIsToLastQuestion'
  BY <1>0, <1>1, <1>2, <1>3, <1>4 DEF AnswerIsToLastQuestion, OneOpen, Focus
<1> QED BY <1>5, <1>6, <1>7, <1>8, <1>9 DEF ChatInv

\* A question is sent while there is no progress line; the requests before it
\* are as they were, but for one that may have been closed.
LEMMA Sends ==
    ASSUME ChatInv, UNCHANGED visits, Mounted, chat.stage = None,
           NEW before \in Seq(SentRequest), DOMAIN before = DOMAIN requests,
           \A m \in DOMAIN requests : /\ before[m].visit = requests[m].visit
                                      /\ before[m].open => requests[m].open,
           NEW kind \in {"stream", "post"}, requests' = Append(before, Sent(kind)),
           chat' \in Page, chat'.visit = chat.visit,
           chat'.stage = "router", chat'.answer = 0, ~ chat'.error
    PROVE  ChatInv'
<1>0. ChatTypes /\ Counted /\ OneOpen /\ ProgressIsTrue /\ Cleared /\ Shown /\ AnswerIsToLastQuestion
  BY DEF ChatInv
<1> DEFINE new == Len(requests) + 1
           r == Sent(kind)
<1>1. r \in SentRequest /\ r.visit = chat.visit /\ r.open
  <2>1. <<>> \in Seq(Events)
    BY EmptySeq
  <2>2. chat.visit \in Nat \ {0}
    BY <1>0 DEF ChatTypes, Page, Mounted
  <2> QED BY <2>1, <2>2 DEF Sent, SentRequest, Nodes
<1>2. Len(requests) \in Nat /\ Len(before) = Len(requests) /\ DOMAIN requests = 1..Len(requests)
  <2>1. Len(requests) \in Nat /\ DOMAIN requests = 1..Len(requests)
    BY <1>0, LenProperties DEF ChatTypes
  <2>2. Len(before) \in Nat /\ DOMAIN before = 1..Len(before)
    BY LenProperties
  <2> QED BY <2>1, <2>2
<1> HIDE DEF r
<1>3. /\ requests' \in Seq(SentRequest) /\ Len(requests') = new
      /\ requests'[new] = r
      /\ \A m \in DOMAIN requests : requests'[m] = before[m]
  BY <1>1, <1>2, AppendProperties DEF r
<1>4. DOMAIN requests' = DOMAIN requests \cup {new} /\ new \notin DOMAIN requests
  <2>1. DOMAIN requests' = 1..new
    BY <1>3, LenProperties
  <2> QED BY <1>2, <2>1
<1>5. \A m \in DOMAIN requests : m <= new
  BY <1>2
<1>6. \A m \in DOMAIN requests : ~ (Focus(m) /\ requests'[m].open)
  BY <1>0, <1>3 DEF ProgressIsTrue, Focus
<1>7. ChatTypes'
  BY <1>0, <1>3 DEF ChatTypes, Mounted
<1>8. Counted'
  BY <1>0, <1>1, <1>3, <1>4 DEF Counted
<1>9. OneOpen'
  <2>1. \A m \in DOMAIN requests' : requests'[m].open /\ Focus(m)' => m = new
    BY <1>3, <1>4, <1>6 DEF Focus
  <2> QED BY <1>2, <1>4, <1>5, <2>1 DEF OneOpen
<1>10. ProgressIsTrue'
  <2>1. chat'.stage # None
    BY DEF None
  <2> QED BY <1>1, <1>3, <1>4, <2>1 DEF ProgressIsTrue
<1>11. Cleared' /\ Shown' /\ AnswerIsToLastQuestion'
  BY DEF Cleared, Shown, AnswerIsToLastQuestion
<1> QED BY <1>7, <1>8, <1>9, <1>10, <1>11 DEF ChatInv

\* The page is left, or opened for a visit nobody has used.
LEMMA Navigates ==
    ASSUME ChatInv, UNCHANGED requests, visits' = visits + 1,
           chat' = Unmounted \/ chat' = [Unmounted EXCEPT !.visit = visits + 1]
    PROVE  ChatInv'
<1>0. ChatTypes /\ Counted
  BY DEF ChatInv
<1>1. chat' \in Page /\ chat'.stage = None /\ chat'.answer = 0 /\ chat'.error = FALSE
  <2>1. visits + 1 \in Nat
    BY <1>0 DEF ChatTypes
  <2>2. CASE chat' = Unmounted
    BY <2>2 DEF Unmounted, Page
  <2>3. CASE chat' = [Unmounted EXCEPT !.visit = visits + 1]
    BY <2>1, <2>3 DEF Unmounted, Page
  <2> QED BY <2>2, <2>3
<1>2. chat'.visit = 0 \/ chat'.visit = visits + 1
  BY DEF Unmounted
<1>3. \A n \in DOMAIN requests : /\ requests[n].visit \in Nat \ {0}
                                 /\ requests[n].visit <= visits
  <2>1. \A n \in DOMAIN requests : requests[n] \in SentRequest
    BY <1>0, RequestFacts
  <2> QED BY <1>0, <2>1 DEF Counted, SentRequest
<1>4. visits \in Nat
  BY <1>0 DEF ChatTypes
<1>5. \A n \in DOMAIN requests' : requests'[n].visit # chat'.visit
  BY <1>2, <1>3, <1>4
<1>6. ChatTypes'
  BY <1>0, <1>1 DEF ChatTypes, Mounted, Unmounted
<1>7. Counted'
  BY <1>0, <1>2, <1>3, <1>4 DEF Counted
<1>8. OneOpen' /\ ProgressIsTrue' /\ Cleared' /\ Shown' /\ AnswerIsToLastQuestion'
  BY <1>1, <1>5 DEF OneOpen, Focus, ProgressIsTrue, Cleared, Shown, AnswerIsToLastQuestion
<1> QED BY <1>6, <1>7, <1>8 DEF ChatInv

\* No question was asked at first.
LEMMA InitChat == Init => ChatInv
<1> SUFFICES ASSUME Init PROVE ChatInv
  OBVIOUS
<1>1. visits = 0 /\ chat = Unmounted /\ requests = <<>>
  BY DEF Init, ChatInit
<1>2. ChatTypes
  <2>1. requests \in Seq(SentRequest)
    BY <1>1, EmptySeq
  <2> QED BY <1>1, <2>1 DEF ChatTypes, Page, Unmounted, Mounted
<1>3. DOMAIN requests = {}
  BY <1>1
<1> QED BY <1>1, <1>2, <1>3 DEF ChatInv, Counted, OneOpen, ProgressIsTrue, Cleared, Shown,
          AnswerIsToLastQuestion, Mounted, Unmounted

\* The queue of an open request gets longer, and its node changes.
LEMMA ServeKeeps ==
    ASSUME ChatInv, UNCHANGED visits, NEW n \in DOMAIN requests, Serve(n)
    PROVE  ChatInv'
<1>1. requests[n] \in SentRequest
  BY RequestFacts DEF ChatInv
<1>2. ASSUME NEW event \in Events
      PROVE  Append(requests[n].queue, event) \in Seq(Events)
  BY <1>1, AppendProperties DEF SentRequest
<1>3. PICK event \in Events, next \in Nodes \cup {"done", "over"} :
         requests' = [requests EXCEPT ![n].queue = Append(@, event), ![n].next = next]
  <2>1. CASE NodeCompletes(n)
    <3>1. requests[n].next \in Nodes
      BY <2>1 DEF NodeCompletes, Working
    <3>2. After(requests[n].next) \subseteq Nodes \cup {"done", "over"}
      BY <3>1, BranchAssumption DEF After, Nodes
    <3> QED BY <2>1, <3>1, <3>2 DEF NodeCompletes, Events
  <2>2. CASE GraphRaises(n)
    BY <2>2 DEF GraphRaises, Events
  <2>3. CASE ResponseEnds(n)
    BY <2>3 DEF ResponseEnds, Events
  <2>4. CASE ConnectionLost(n)
    BY <2>4 DEF ConnectionLost, Events
  <2> QED BY <2>1, <2>2, <2>3, <2>4 DEF Serve
<1>4. requests[n].open /\ UNCHANGED chat
  BY DEF Serve, NodeCompletes, GraphRaises, ResponseEnds, ConnectionLost, Working
<1> DEFINE r == [requests[n] EXCEPT !.queue = Append(requests[n].queue, event), !.next = next]
<1>5. r \in SentRequest /\ r.visit = requests[n].visit /\ r.open
  BY <1>1, <1>2, <1>4 DEF SentRequest
<1>6. requests' = [requests EXCEPT ![n] = r]
  BY <1>3
<1> HIDE DEF r
<1>7. "router" \in Nodes
  BY DEF Nodes
<1> QED BY <1>4, <1>5, <1>6, <1>7, GoesOn

\* A source that is closed receives nothing more, and asks no more.
LEMMA ShutFacts ==
    ASSUME NEW r \in SentRequest
    PROVE  Shut(r) \in SentRequest /\ Shut(r).visit = r.visit /\ ~ Shut(r).open
<1>1. <<>> \in Seq(Events)
  BY EmptySeq
<1> QED BY <1>1 DEF Shut, SentRequest

\* An event is dispatched, or a POST settles.
LEMMA DispatchKeeps ==
    ASSUME ChatInv, UNCHANGED visits, NEW n \in DOMAIN requests, Dispatch(n) \/ Settle(n)
    PROVE  ChatInv'
<1>1. requests[n] \in SentRequest
  BY RequestFacts DEF ChatInv
<1>2. requests[n].open
  BY DEF Dispatch, OnNode, OnSynthesis, OnErrorEvent, OnConnectionError, Due,
         Settle, PostAnswers, PostFails
<1>3. Shut(requests[n]) \in SentRequest /\ Shut(requests[n]).visit = requests[n].visit
      /\ ~ Shut(requests[n]).open
  BY <1>1, ShutFacts
<1>4. CASE OnNode(n)
  <2>1. /\ requests[n].queue # <<>> /\ Head(requests[n].queue) \in Nodes
        /\ requests' = [requests EXCEPT ![n] = Popped(n)]
        /\ Show(n, [chat EXCEPT !.stage = Head(requests[n].queue)])
    BY <1>4 DEF OnNode, Due, Become
  <2>2. Tail(requests[n].queue) \in Seq(Events)
    BY <1>1, <2>1, HeadTailProperties DEF SentRequest
  <2>3. Popped(n) \in SentRequest /\ Popped(n).visit = requests[n].visit /\ Popped(n).open
    BY <1>1, <1>2, <2>2 DEF Popped, SentRequest
  <2> QED BY <1>2, <2>1, <2>3, GoesOn
<1>5. CASE OnSynthesis(n) \/ OnErrorEvent(n) \/ PostAnswers(n) \/ PostFails(n)
  <2>1. requests' = [requests EXCEPT ![n] = Shut(requests[n])]
    BY <1>5 DEF OnSynthesis, OnErrorEvent, PostAnswers, PostFails, Become
  <2>2. \/ Show(n, [chat EXCEPT !.answer = n, !.stage = None])
        \/ Show(n, [chat EXCEPT !.error = TRUE, !.stage = None])
    BY <1>5 DEF OnSynthesis, OnErrorEvent, PostAnswers, PostFails
  <2> QED BY <1>2, <1>3, <2>1, <2>2, Ends
<1>6. CASE OnConnectionError(n)
  <2>1. /\ requests[n].queue # <<>> /\ Show(n, [chat EXCEPT !.stage = None])
        /\ requests' = [requests EXCEPT ![n] = Reconnected(AfterOnError(Popped(n)))]
    BY <1>6 DEF OnConnectionError, Due, Become
  <2>2. Tail(requests[n].queue) \in Seq(Events)
    BY <1>1, <2>1, HeadTailProperties DEF SentRequest
  <2>3. Popped(n) \in SentRequest /\ Popped(n).visit = requests[n].visit
    BY <1>1, <2>2 DEF Popped, SentRequest
  <2> DEFINE r == Shut(Popped(n))
  <2>4. r \in SentRequest /\ r.visit = requests[n].visit /\ ~ r.open
    BY <2>3, ShutFacts
  <2>5. requests' = [requests EXCEPT ![n] = r]
    BY <2>1, <2>4 DEF AfterOnError, Reconnected
  <2> HIDE DEF r
  <2> QED BY <1>2, <2>1, <2>4, <2>5, Ends
<1> QED BY <1>4, <1>5, <1>6 DEF Dispatch, Settle

\* A question asked on the button, and one asked again beside an error.
LEMMA AskKeeps ==
    ASSUME ChatInv, UNCHANGED visits, Ask \/ AskViaPost
    PROVE  ChatInv'
<1>0. ChatTypes /\ Cleared
  BY DEF ChatInv
<1>1. requests \in Seq(SentRequest) /\ Len(requests) \in Nat /\ DOMAIN requests = 1..Len(requests)
  BY <1>0, LenProperties DEF ChatTypes
<1>2. Mounted /\ chat.stage = None
  BY <1>0 DEF Ask, AskViaPost, Cleared
<1>3. chat' \in Page /\ chat'.visit = chat.visit /\ chat'.stage = "router" /\ ~ chat'.error
  <2> DEFINE stages == Nodes \cup {None}
  <2>1. "router" \in stages
    BY DEF Nodes
  <2> HIDE DEF stages
  <2>2. chat \in [visit : Nat, stage : stages, answer : Nat, error : BOOLEAN, stop : Nat]
    BY <1>0 DEF ChatTypes, Page, stages
  <2>3. /\ chat' \in [visit : Nat, stage : stages, answer : Nat, error : BOOLEAN, stop : Nat]
        /\ chat'.visit = chat.visit /\ chat'.stage = "router" /\ ~ chat'.error
    <3>1. CASE Ask
      <4>1. PICK n \in Nat : n = Len(requests) + 1
        BY <1>1
      <4>2. chat' = [chat EXCEPT !.stage = "router", !.answer = 0, !.error = FALSE, !.stop = n]
        BY <3>1, <4>1 DEF Ask
      <4> QED BY <2>1, <2>2, <4>2
    <3>2. CASE AskViaPost
      BY <2>1, <2>2, <3>2 DEF AskViaPost
    <3> QED BY <3>1, <3>2
  <2> QED BY <2>3 DEF Page, stages
<1>4. chat'.answer = 0
  <2>1. CASE Ask
    BY <1>0, <2>1 DEF Ask, ChatTypes, Page
  <2>2. CASE AskViaPost
    <3>1. chat.error
      BY <2>2 DEF AskViaPost
    <3>2. chat.answer = 0
      <4>1. chat.answer # 0 => ~ chat.error
        BY DEF ChatInv, AnswerIsToLastQuestion
      <4> QED BY <3>1, <4>1
    <3> QED BY <1>0, <2>2, <3>2 DEF AskViaPost, ChatTypes, Page
  <2> QED BY <2>1, <2>2
<1>5. CASE AskViaPost
  BY <1>1, <1>2, <1>3, <1>4, <1>5, Sends DEF AskViaPost
<1>6. CASE Ask
  <2> DEFINE before == Closed(requests, chat.stop)
  <2>1. requests' = Append(before, Sent("stream"))
    BY <1>6 DEF Ask
  <2>2. /\ before \in Seq(SentRequest) /\ DOMAIN before = DOMAIN requests
        /\ \A m \in DOMAIN requests : /\ before[m].visit = requests[m].visit
                                      /\ before[m].open => requests[m].open
    <3>1. CASE chat.stop \notin DOMAIN requests
      <4>1. requests \in [1..Len(requests) -> SentRequest]
        BY <1>1, LenProperties
      <4>2. before = requests
        BY <1>1, <3>1, <4>1 DEF Closed
      <4> HIDE DEF before
      <4> QED BY <1>1, <4>2
    <3>2. CASE chat.stop \in DOMAIN requests
      <4> DEFINE n == chat.stop
                 r == Shut(requests[n])
      <4>1. r \in SentRequest /\ r.visit = requests[n].visit /\ ~ r.open
        BY <1>1, <3>2, ElementOfSeq, ShutFacts
      <4>2. before = [requests EXCEPT ![n] = r]
        BY <1>1, <3>2 DEF Closed
      <4> HIDE DEF r, before
      <4>3. before \in Seq(SentRequest)
        BY <1>1, <3>2, <4>1, <4>2, ExceptSeq
      <4> QED BY <3>2, <4>1, <4>2, <4>3
    <3> QED BY <3>1, <3>2
  <2> HIDE DEF before
  <2> QED BY <1>2, <1>3, <1>4, <2>1, <2>2, Sends
<1> QED BY <1>5, <1>6

\* Every step keeps the chat page's invariant; those of the list page leave it
\* alone.
LEMMA NextChat == ChatInv /\ [Next]_vars => ChatInv'
<1> SUFFICES ASSUME ChatInv, [Next]_vars
             PROVE  ChatInv'
  OBVIOUS
<1>1. CASE OpenChat \/ OpenProposals
  BY <1>1, Navigates DEF OpenChat, OpenProposals
<1>2. CASE ChatStep /\ UNCHANGED visits
  <2>1. CASE Ask \/ AskViaPost
    BY <1>2, <2>1, AskKeeps
  <2>2. CASE \E n \in 1..Len(requests) : Serve(n) \/ Dispatch(n) \/ Settle(n)
    <3>1. PICK n \in 1..Len(requests) : Serve(n) \/ Dispatch(n) \/ Settle(n)
      BY <2>2
    <3>2. n \in DOMAIN requests
      BY LenProperties DEF ChatInv, ChatTypes
    <3> QED BY <1>2, <3>1, <3>2, ServeKeeps, DispatchKeeps
  <2> QED BY <1>2, <2>1, <2>2 DEF ChatStep
<1>3. CASE UNCHANGED <<chat, requests, visits>>
  BY <1>3 DEF ChatInv, ChatTypes, Counted, OneOpen, Focus, ProgressIsTrue, Mounted, Cleared,
              Shown, AnswerIsToLastQuestion
<1> QED BY <1>1, <1>2, <1>3 DEF Next, vars, chatVars

\* The chat page keeps its invariant, whatever else the tab does.
LEMMA ChatInvariant == Spec => []ChatInv
BY InitChat, NextChat, PTL DEF Spec

\* No connection that ends makes the browser put the question to the agent
\* again (onerror in streamChat closes the source).
THEOREM QuestionsRunOnce == Spec => []AgentRunsOnce
<1>1. ChatInv => AgentRunsOnce
  <2> SUFFICES ASSUME ChatInv, NEW n \in DOMAIN requests
               PROVE  requests[n].runs = 1
    BY DEF AgentRunsOnce
  <2>1. requests[n] \in SentRequest
    BY RequestFacts DEF ChatInv
  <2> QED BY <2>1 DEF SentRequest
<1> QED BY <1>1, ChatInvariant, PTL

\* The page shows the answer to its last question and no error beside it (the
\* listeners of streamChat and the two handlers of the page).
THEOREM AnswersTheLast == Spec => []AnswerIsToLastQuestion
<1>1. ChatInv => AnswerIsToLastQuestion
  BY DEF ChatInv
<1> QED BY <1>1, ChatInvariant, PTL

\* The progress line is there exactly while an answer can still come (ask,
\* askViaPost, and the callbacks that set the stage).
THEOREM ProgressTellsTheTruth == Spec => []ProgressIsTrue
<1>1. ChatInv => ProgressIsTrue
  BY DEF ChatInv
<1> QED BY <1>1, ChatInvariant, PTL

-----------------------------------------------------------------------------
(* The list page: lists and pages of lists. *)

\* A sequence of whatever it holds.
List(s) == s \in Seq(Range(s))

\* A sequence is a list of its own elements.
LEMMA ListOf ==
    ASSUME NEW S, NEW s \in Seq(S)
    PROVE  /\ List(s) /\ Len(s) \in Nat /\ DOMAIN s = 1..Len(s)
           /\ Range(s) \subseteq S
<1>1. Len(s) \in Nat /\ DOMAIN s = 1..Len(s) /\ s \in [1..Len(s) -> S]
  BY LenProperties
<1>2. \A i \in 1..Len(s) : s[i] \in Range(s)
  BY <1>1 DEF Range
<1>3. SubSeq(s, 1, Len(s)) \in Seq(Range(s))
  <2>1. 1 \in Int /\ Len(s) \in Int
    BY <1>1
  <2> QED BY <1>2, <2>1, SubSeqProperties
<1>4. SubSeq(s, 1, Len(s)) = s
  BY SubSeqFull
<1> QED BY <1>1, <1>3, <1>4 DEF List, Range

\* A list has a length, and its places are its domain.
LEMMA ListFacts ==
    ASSUME NEW s, List(s)
    PROVE  Len(s) \in Nat /\ DOMAIN s = 1..Len(s)
BY LenProperties DEF List

\* The list of what matches is one.
LEMMA MatchingIsList ==
    ASSUME IsFiniteSet(DOMAIN table), NEW f
    PROVE  List(Matching(f))
<1> DEFINE rows == {[id |-> p, state |-> table[p]] : p \in DOMAIN table}
           fitting == {r \in rows : Fits(r, f)}
           newer(r) == {s \in fitting : Created[s.id] > Created[r.id]}
           row(n) == CHOOSE r \in fitting : Cardinality(newer(r)) = n - 1
           size == Cardinality(fitting)
           s == [n \in 1..size |-> row(n)]
<1>1. Matching(f) = s
  BY DEF Matching
<1>2. size \in Nat
  <2> DEFINE g == [p \in DOMAIN table |-> [id |-> p, state |-> table[p]]]
  <2>1. g \in Surjection(DOMAIN table, rows)
    BY DEF Surjection
  <2>2. IsFiniteSet(rows)
    BY <2>1, FS_Surjection
  <2>3. fitting \in SUBSET rows
    OBVIOUS
  <2>4. IsFiniteSet(fitting)
    BY <2>2, <2>3, FS_Subset
  <2> QED BY <2>4, FS_CardinalityType
<1> DEFINE S == {row(n) : n \in 1..size}
<1>3. s \in [1..size -> S]
  OBVIOUS
<1> HIDE DEF s, S, size
<1>4. s \in Seq(S)
  BY <1>2, <1>3
<1> QED BY <1>1, <1>4, ListOf

\* The first rows of a list and the page that follows them are the first rows
\* of one page more; the first page is the first rows.
LEMMA PageFacts ==
    ASSUME NEW s, List(s), NEW n \in Nat
    PROVE  /\ List(PageOf(s, n)) /\ List(FirstRows(s, n))
           /\ FirstRows(s, n) \o PageOf(s, n) = FirstRows(s, n + PageSize)
           /\ PageOf(s, 0) = FirstRows(s, PageSize)
<1> DEFINE S == Range(s)
           size == Len(s)
           upto(k) == IF k < size THEN k ELSE size
<1>1. s \in Seq(S) /\ size \in Nat /\ PageSize \in Nat \ {0}
  BY ListFacts, PageAssumption DEF List
<1>2. \A i \in 1..size : s[i] \in S
  BY <1>1, ElementOfSeq
<1>3. ASSUME NEW k \in Nat
      PROVE  /\ upto(k) \in Nat /\ upto(k) <= size
             /\ FirstRows(s, k) = SubSeq(s, 1, upto(k))
             /\ FirstRows(s, k) \in Seq(S) /\ Len(FirstRows(s, k)) = upto(k)
  <2>1. upto(k) \in Nat /\ upto(k) <= size
    BY <1>1
  <2>2. FirstRows(s, k) = SubSeq(s, 1, upto(k))
    BY DEF FirstRows
  <2>3. \A i \in 1..upto(k) : s[i] \in S
    BY <1>1, <1>2, <2>1
  <2> HIDE DEF upto, S, size
  <2>4. /\ SubSeq(s, 1, upto(k)) \in Seq(S)
        /\ Len(SubSeq(s, 1, upto(k))) = IF 1 <= upto(k) THEN upto(k) - 1 + 1 ELSE 0
    BY <2>1, <2>3, SubSeqProperties
  <2> QED BY <2>1, <2>2, <2>4
<1>4. ASSUME NEW k \in Nat
      PROVE  PageOf(s, k) = SubSeq(s, k + 1, upto(k + PageSize))
  <2> DEFINE m == upto(k + PageSize)
  <2>1. k + PageSize \in Nat
    BY <1>1
  <2>2. /\ m \in Nat /\ m <= size
        /\ FirstRows(s, k + PageSize) = SubSeq(s, 1, m)
        /\ FirstRows(s, k + PageSize) \in Seq(S) /\ Len(FirstRows(s, k + PageSize)) = m
    BY <1>3, <2>1
  <2>3. PageOf(s, k) = SubSeq(SubSeq(s, 1, m), k + 1, m)
    BY <2>2 DEF PageOf
  <2> HIDE DEF m, upto, S
  <2>4. CASE k + 1 <= m
    <3>1. 1 \in 1..Len(s) /\ m \in 1..Len(s) /\ k + 1 \in 1..(m - 1 + 1) /\ m \in 1..(m - 1 + 1)
      BY <1>1, <2>2, <2>4
    <3>2. SubSeq(SubSeq(s, 1, m), k + 1, m) = SubSeq(s, 1 + (k + 1) - 1, 1 + m - 1)
      BY <1>1, <3>1, SubSeqOfSubSeq
    <3> QED BY <2>2, <2>3, <3>2 DEF m
  <2>5. CASE ~ (k + 1 <= m)
    <3>1. k + 1 \in Int /\ m \in Int /\ m < k + 1
      BY <2>2, <2>5
    <3> QED BY <2>3, <3>1, SubSeqEmpty DEF m
  <2> QED BY <2>4, <2>5
<1>5. List(FirstRows(s, n))
  BY <1>3, ListOf
<1>6. n + PageSize \in Nat /\ upto(n + PageSize) \in Nat /\ upto(n + PageSize) <= size
  BY <1>1, <1>3
<1>7. List(PageOf(s, n))
  <2>1. \A i \in (n + 1)..upto(n + PageSize) : s[i] \in S
    BY <1>1, <1>2, <1>6
  <2> DEFINE m == upto(n + PageSize)
  <2>2. m \in Int /\ n + 1 \in Int
    BY <1>6
  <2>3. PageOf(s, n) = SubSeq(s, n + 1, m)
    BY <1>4
  <2> HIDE DEF m, upto, S
  <2>4. PageOf(s, n) \in Seq(S)
    BY <2>1, <2>2, <2>3, SubSeqProperties DEF m
  <2> QED BY <2>4, ListOf
<1>8. FirstRows(s, n) \o PageOf(s, n) = FirstRows(s, n + PageSize)
  <2> DEFINE m == upto(n + PageSize)
  <2>1. /\ FirstRows(s, n) = SubSeq(s, 1, upto(n)) /\ PageOf(s, n) = SubSeq(s, n + 1, m)
        /\ FirstRows(s, n + PageSize) = SubSeq(s, 1, m)
        /\ FirstRows(s, n) \in Seq(S)
    BY <1>3, <1>4, <1>6
  <2>2. CASE n <= size
    <3>1. upto(n) = n /\ n <= m /\ m <= size /\ m \in Nat
      BY <1>1, <1>6, <2>2
    <3> HIDE DEF m, upto, S
    <3>2. 1 \in 1..Len(s) + 1 /\ n \in (1 - 1)..Len(s) /\ m \in n..Len(s)
      BY <1>1, <2>2, <3>1
    <3>3. SubSeq(s, 1, n) \o SubSeq(s, n + 1, m) = SubSeq(s, 1, m)
      BY <1>1, <3>2, ConcatAdjacentSubSeq
    <3> QED BY <2>1, <3>1, <3>3
  <2>3. CASE ~ (n <= size)
    <3>1. upto(n) = size /\ m = size /\ size < n + 1
      BY <1>1, <1>6, <2>3
    <3>2. SubSeq(s, n + 1, m) = <<>>
      <4>1. n + 1 \in Int /\ m \in Int /\ m < n + 1
        BY <1>6, <3>1
      <4> HIDE DEF m, upto
      <4> QED BY <4>1, SubSeqEmpty
    <3>3. FirstRows(s, n) \o <<>> = FirstRows(s, n)
      BY <2>1, ConcatEmptySeq
    <3> QED BY <2>1, <3>1, <3>2, <3>3
  <2> QED BY <2>2, <2>3
<1>9. PageOf(s, 0) = FirstRows(s, PageSize)
  <2>1. 0 + PageSize = PageSize /\ 0 + 1 = 1
    BY <1>1
  <2>2. PageOf(s, 0) = SubSeq(s, 0 + 1, upto(0 + PageSize))
    BY <1>4
  <2>3. FirstRows(s, PageSize) = SubSeq(s, 1, upto(PageSize))
    BY <1>1, <1>3
  <2> QED BY <2>1, <2>2, <2>3
<1> QED BY <1>5, <1>7, <1>8, <1>9

-----------------------------------------------------------------------------
(* The list page: its invariant. *)

ListFields  == {"visit", "filter", "offset", "rows", "loading", "error", "read", "missed"}
FetchFields == {"filter", "offset", "pc", "version", "query"}

ListTypes == /\ moves \in Nat /\ IsFiniteSet(DOMAIN table) /\ List(fetches)
             /\ DOMAIN list = ListFields
             /\ list.offset \in Nat /\ list.loading \in BOOLEAN
             /\ \A v \in list.read : v \in Nat /\ v <= moves

\* What was read of a query is the beginning of its result.
QueryHolds(q) == /\ DOMAIN q = {"attempt", "result", "rows"} /\ List(q.result)
                 /\ \E m \in 0..Len(q.result) : q.rows = SubSeq(q.result, 1, m)

\* A fetch the page heeds is for the page it waits for, and what it read of
\* this version of the table is that page.
Live(f) ==
    /\ DOMAIN f = FetchFields
    /\ list.visit # 0 /\ list.loading
    /\ f.filter = list.filter /\ f.offset = list.offset
    /\ f.pc \in {"reading", "answered"} =>
          /\ QueryHolds(f.query) /\ f.version \in Nat /\ f.version <= moves
          /\ f.version = moves => f.query.result = PageOf(Matching(f.filter), f.offset)
    /\ f.pc = "answered" => f.query.rows = f.query.result

OnlyLast == \A n \in DOMAIN fetches :
               fetches[n].pc # "ended" => n = Len(fetches) /\ Live(fetches[n])

\* The rows of a list of which no page failed are those before the page it
\* waits for, or all it asked for; of a first page that is awaited nothing is
\* known.
Loaded(l) ==
    l.visit # 0 /\ ~ l.missed =>
        /\ ~ l.loading \/ l.offset > 0 => l.read # {}
        /\ l.read = {moves} /\ ~ l.loading =>
              l.rows = FirstRows(Matching(l.filter), l.offset + PageSize)
        /\ l.read = {moves} /\ l.loading /\ l.offset > 0 =>
              l.rows = FirstRows(Matching(l.filter), l.offset)

\* What the page waits for is on its way.
Awaited == list.loading => \E n \in DOMAIN fetches : fetches[n].pc # "ended"

ListInv == ListTypes /\ OnlyLast /\ Loaded(list) /\ Awaited

\* The list to show depends on nothing but the table.
LEMMA TableSame ==
    ASSUME UNCHANGED table
    PROVE  \A f : Matching(f)' = Matching(f)
BY DEF Matching

\* A query that was posted, and one more payload.
LEMMA QueryFacts ==
    /\ \A result, attempt : List(result) => QueryHolds(Posted(result, attempt))
    /\ \A q : QueryHolds(q) => \A k \in 0..Unread(q) : QueryHolds(Read(q, k))
    /\ \A q : QueryHolds(q) /\ AllRead(q) => q.rows = q.result
<1>1. ASSUME NEW result, NEW attempt, List(result)
      PROVE  QueryHolds(Posted(result, attempt))
  <2>1. Len(result) \in Nat
    BY <1>1, ListFacts
  <2>2. SubSeq(result, 1, 0) = <<>>
    BY SubSeqEmpty
  <2>3. 0 \in 0..Len(result)
    BY <2>1
  <2> QED BY <1>1, <2>2, <2>3 DEF QueryHolds, Posted
<1>2. ASSUME NEW q, QueryHolds(q)
      PROVE  \E m \in 0..Len(q.result) :
                /\ q.rows = SubSeq(q.result, 1, m) /\ Len(q.rows) = m
                /\ q.result \in Seq(Range(q.result)) /\ Len(q.result) \in Nat
  <2>1. q.result \in Seq(Range(q.result)) /\ Len(q.result) \in Nat
    BY <1>2, ListFacts DEF QueryHolds, List
  <2>2. PICK m \in 0..Len(q.result) : q.rows = SubSeq(q.result, 1, m)
    BY <1>2 DEF QueryHolds
  <2>3. \A i \in 1..m : q.result[i] \in Range(q.result)
    BY <2>1, ElementOfSeq
  <2>4. m \in Int /\ 1 \in Int
    BY <2>1
  <2>5. Len(q.rows) = IF 1 <= m THEN m - 1 + 1 ELSE 0
    BY <2>2, <2>3, <2>4, SubSeqProperties
  <2>6. Len(q.rows) = m
    BY <2>1, <2>5
  <2> QED BY <2>1, <2>2, <2>6
<1>3. ASSUME NEW q, QueryHolds(q), NEW k \in 0..Unread(q)
      PROVE  QueryHolds(Read(q, k))
  <2> DEFINE s == q.result
  <2>1. PICK m \in 0..Len(s) : /\ q.rows = SubSeq(s, 1, m) /\ Len(q.rows) = m
                               /\ s \in Seq(Range(s)) /\ Len(s) \in Nat
    BY <1>2, <1>3
  <2>2. k \in Nat /\ m + k \in m..Len(s) /\ m + k \in 0..Len(s) /\ m \in (1 - 1)..Len(s)
    BY <1>3, <2>1 DEF Unread
  <2>3. 1 \in 1..Len(s) + 1
    BY <2>1
  <2>4. SubSeq(s, 1, m) \o SubSeq(s, m + 1, m + k) = SubSeq(s, 1, m + k)
    BY <2>1, <2>2, <2>3, ConcatAdjacentSubSeq
  <2>5. DOMAIN q = {"attempt", "result", "rows"} /\ List(s)
    BY <1>3 DEF QueryHolds
  <2>6. /\ DOMAIN Read(q, k) = {"attempt", "result", "rows"} /\ Read(q, k).result = s
        /\ Read(q, k).rows = SubSeq(s, 1, m + k)
    BY <2>1, <2>4, <2>5 DEF Read
  <2> QED BY <2>2, <2>5, <2>6 DEF QueryHolds
<1>4. ASSUME NEW q, QueryHolds(q), AllRead(q)
      PROVE  q.rows = q.result
  <2>1. PICK m \in 0..Len(q.result) :
           /\ q.rows = SubSeq(q.result, 1, m) /\ Len(q.rows) = m
           /\ q.result \in Seq(Range(q.result)) /\ Len(q.result) \in Nat
    BY <1>2, <1>4
  <2>2. m = Len(q.result)
    BY <1>4, <2>1 DEF AllRead, Unread
  <2> QED BY <2>1, <2>2, SubSeqFull
<1> QED BY <1>1, <1>3, <1>4

\* No fetch is heeded any more.
LEMMA CancelledFacts ==
    ASSUME List(fetches)
    PROVE  /\ List(Cancelled(fetches)) /\ Len(Cancelled(fetches)) = Len(fetches)
           /\ DOMAIN Cancelled(fetches) = DOMAIN fetches
           /\ \A n \in DOMAIN fetches : Cancelled(fetches)[n].pc = "ended"
<1>1. Len(fetches) \in Nat /\ DOMAIN fetches = 1..Len(fetches)
  BY ListFacts
<1>2. Ended.pc = "ended"
  BY DEF Ended, Fetch
<1> DEFINE c == Cancelled(fetches)
<1>3. c = [n \in 1..Len(fetches) |-> Ended]
  BY <1>1 DEF Cancelled
<1>4. c \in [1..Len(fetches) -> {Ended}]
  BY <1>3
<1>5. c \in Seq({Ended}) /\ Len(c) = Len(fetches)
  BY <1>1, <1>4
<1> QED BY <1>1, <1>2, <1>3, <1>5, ListOf

\* The effect runs for a list l that waits for a page.
LEMMA EffectKeeps ==
    ASSUME ListInv, UNCHANGED <<table, moves>>, NEW l, Effect(l),
           DOMAIN l = ListFields, l.offset \in Nat, l.loading = TRUE, l.visit # 0,
           \A v \in l.read : v \in Nat /\ v <= moves,
           Loaded(l)
    PROVE  ListInv'
<1> DEFINE before == Cancelled(fetches)
<1>0. PICK new \in Nat : new = Len(fetches) + 1
  BY ListFacts DEF ListInv, ListTypes
<1>1. /\ List(before) /\ Len(before) = Len(fetches) /\ Len(fetches) \in Nat
      /\ DOMAIN before = 1..Len(fetches)
      /\ \A n \in 1..Len(fetches) : before[n].pc = "ended"
  BY CancelledFacts, ListFacts DEF ListInv, ListTypes
<1>2. list' = l /\ fetches' = Append(before, Fetch(l))
  BY DEF Effect
<1> HIDE DEF before
<1>3. /\ List(fetches') /\ Len(fetches') = new /\ DOMAIN fetches' = 1..new
      /\ fetches'[new] = Fetch(l)
      /\ \A n \in 1..Len(fetches) : fetches'[n] = before[n]
  <2> DEFINE S == Range(before) \cup {Fetch(l)}
  <2>1. before \in Seq(S) /\ Fetch(l) \in S
    BY <1>1, SeqMonotonic DEF List
  <2> HIDE DEF S
  <2>2. /\ fetches' \in Seq(S) /\ Len(fetches') = Len(before) + 1
        /\ \A n \in 1..Len(before) : fetches'[n] = before[n]
        /\ fetches'[Len(before) + 1] = Fetch(l)
    BY <1>2, <2>1, AppendProperties
  <2> QED BY <1>0, <1>1, <2>2, ListOf
<1>4. DOMAIN Fetch(l) = FetchFields /\ Fetch(l).pc = "sent"
      /\ Fetch(l).filter = l.filter /\ Fetch(l).offset = l.offset
  BY DEF Fetch, FetchFields
<1>5. ListTypes'
  BY <1>2, <1>3 DEF ListInv, ListTypes
<1>6. OnlyLast'
  <2>1. \A n \in DOMAIN fetches' : fetches'[n].pc # "ended" => n = new
    BY <1>0, <1>1, <1>3
  <2>2. Live(fetches[new])'
    BY <1>2, <1>3, <1>4 DEF Live
  <2> QED BY <1>3, <2>1, <2>2 DEF OnlyLast
<1>7. Loaded(list)'
  BY <1>2, TableSame DEF Loaded
<1>8. Awaited'
  BY <1>0, <1>1, <1>3, <1>4 DEF Awaited
<1> QED BY <1>5, <1>6, <1>7, <1>8 DEF ListInv

\* The request goes on: the fetch the page heeds becomes f.
LEMMA GoesOnFetching ==
    ASSUME ListInv, NEW n \in DOMAIN fetches, fetches[n].pc # "ended",
           NEW f, Becomes(n, f), Live(f), f.pc # "ended"
    PROVE  ListInv'
<1>1. UNCHANGED <<table, moves, list>> /\ fetches' = [fetches EXCEPT ![n] = f]
  BY DEF Becomes
<1>2. Len(fetches) \in Nat /\ DOMAIN fetches = 1..Len(fetches)
  BY ListFacts DEF ListInv, ListTypes
<1>3. List(fetches') /\ Len(fetches') = Len(fetches) /\ DOMAIN fetches' = DOMAIN fetches
  <2> DEFINE S == Range(fetches) \cup {f}
  <2>1. fetches \in Seq(S) /\ f \in S
    BY SeqMonotonic DEF List, ListInv, ListTypes
  <2> HIDE DEF S
  <2>2. fetches' \in Seq(S) /\ Len(fetches') = Len(fetches)
    BY <1>1, <1>2, <2>1, ExceptSeq
  <2> QED BY <1>1, <2>2, ListOf
<1>4. ListTypes'
  BY <1>1, <1>3 DEF ListInv, ListTypes
<1>5. fetches'[n] = f /\ \A m \in DOMAIN fetches \ {n} : fetches'[m] = fetches[m]
  BY <1>1
<1>6. n = Len(fetches) /\ \A m \in DOMAIN fetches \ {n} : fetches[m].pc = "ended"
  BY DEF ListInv, OnlyLast
<1>7. OnlyLast'
  <2>1. Live(fetches[n])'
    BY <1>1, <1>5, TableSame DEF Live
  <2> QED BY <1>3, <1>5, <1>6, <2>1 DEF OnlyLast
<1>8. Loaded(list)'
  BY <1>1, TableSame DEF Loaded, ListInv
<1>9. Awaited'
  BY <1>3, <1>5 DEF Awaited
<1> QED BY <1>4, <1>7, <1>8, <1>9 DEF ListInv

\* A filter is chosen or one more page asked for.
LEMMA AsksForPage ==
    ASSUME ListInv, (\E f \in Filters \cup {Everything} : ChooseFilter(f)) \/ LoadMore
    PROVE  ListInv'
<1>0. /\ DOMAIN list = ListFields /\ list.offset \in Nat /\ PageSize \in Nat \ {0}
      /\ \A v \in list.read : v \in Nat /\ v <= moves
  BY PageAssumption DEF ListInv, ListTypes
<1>1. CASE LoadMore
  <2> DEFINE l == [list EXCEPT !.offset = @ + PageSize, !.loading = TRUE]
  <2>1. list.visit # 0 /\ ~ list.loading /\ Effect(l) /\ UNCHANGED <<table, moves>>
    BY <1>1 DEF LoadMore
  <2>2. /\ DOMAIN l = ListFields /\ l.offset = list.offset + PageSize /\ l.loading = TRUE
        /\ l.visit = list.visit /\ l.read = list.read /\ l.rows = list.rows
        /\ l.filter = list.filter /\ l.missed = list.missed
    BY <1>0 DEF ListFields
  <2> HIDE DEF l
  <2>3. l.offset \in Nat
    BY <1>0, <2>2
  <2>4. Loaded(l)
    BY <2>1, <2>2 DEF ListInv, Loaded
  <2> QED BY <1>0, <2>1, <2>2, <2>3, <2>4, EffectKeeps
<1>2. CASE \E f \in Filters \cup {Everything} : ChooseFilter(f)
  <2>1. PICK f \in Filters \cup {Everything} : ChooseFilter(f)
    BY <1>2
  <2> DEFINE l == [list EXCEPT !.filter = f, !.offset = 0, !.loading = TRUE]
  <2>2. list.visit # 0 /\ Effect(l) /\ UNCHANGED <<table, moves>>
    BY <2>1 DEF ChooseFilter
  <2>3. /\ DOMAIN l = ListFields /\ l.offset = 0 /\ l.loading = TRUE
        /\ l.visit = list.visit /\ l.read = list.read
    BY <1>0 DEF ListFields
  <2> HIDE DEF l
  <2>4. Loaded(l)
    BY <2>3 DEF Loaded
  <2>5. /\ DOMAIN l = ListFields /\ l.offset \in Nat /\ l.loading = TRUE /\ l.visit # 0
        /\ \A v \in l.read : v \in Nat /\ v <= moves
    BY <1>0, <2>2, <2>3
  <2> QED BY <2>2, <2>4, <2>5, EffectKeeps
<1> QED BY <1>1, <1>2

\* The server and the query: posted, read, retried, returned or failed.
LEMMA ServerKeeps ==
    ASSUME ListInv, NEW n \in DOMAIN fetches,
           Post(n) \/ ReadPage(n) \/ QueryReturns(n) \/ Abandoned(n) \/ RequestFails(n)
    PROVE  ListInv'
<1>1. fetches[n].pc \in {"sent", "reading", "answered"}
  BY DEF Post, ReadPage, QueryReturns, Abandoned, RequestFails
<1> DEFINE g == fetches[n]
<1>2. Live(g) /\ g.pc # "ended"
  BY <1>1 DEF ListInv, OnlyLast
<1>3. moves \in Nat /\ List(RowsNow(n))
  <2>1. moves \in Nat /\ IsFiniteSet(DOMAIN table) /\ list.offset \in Nat
    BY DEF ListInv, ListTypes
  <2>2. fetches[n].offset \in Nat
    BY <1>2, <2>1 DEF Live
  <2>3. List(Matching(fetches[n].filter))
    BY <2>1, MatchingIsList
  <2> QED BY <2>1, <2>2, <2>3, PageFacts DEF RowsNow
<1>4. DOMAIN g = FetchFields
  BY <1>2 DEF Live
<1> HIDE DEF g
<1>5. ASSUME NEW attempt,
             Becomes(n, [g EXCEPT !.pc = "reading", !.version = moves,
                                  !.query = Posted(RowsNow(n), attempt)])
      PROVE  ListInv'
  <2> DEFINE f == [g EXCEPT !.pc = "reading", !.version = moves,
                            !.query = Posted(RowsNow(n), attempt)]
  <2>1. /\ DOMAIN f = FetchFields /\ f.pc = "reading" /\ f.version = moves
        /\ f.query = Posted(RowsNow(n), attempt)
        /\ f.filter = g.filter /\ f.offset = g.offset
    BY <1>4 DEF FetchFields
  <2>2. f.query.result = PageOf(Matching(f.filter), f.offset)
    BY <2>1 DEF Posted, RowsNow, g
  <2>3. QueryHolds(f.query)
    BY <1>3, <2>1, QueryFacts
  <2>4. Becomes(n, f)
    BY <1>5
  <2> HIDE DEF f
  <2>5. Live(f)
    BY <1>2, <1>3, <2>1, <2>2, <2>3 DEF Live
  <2> QED BY <1>2, <2>1, <2>4, <2>5, GoesOnFetching DEF g
<1>6. ASSUME Becomes(n, [g EXCEPT !.pc = "failed"])
      PROVE  ListInv'
  <2> DEFINE f == [g EXCEPT !.pc = "failed"]
  <2>1. DOMAIN f = FetchFields /\ f.pc = "failed" /\ f.filter = g.filter /\ f.offset = g.offset
    BY <1>4 DEF FetchFields
  <2>2. Becomes(n, f)
    BY <1>6
  <2> HIDE DEF f
  <2>3. Live(f)
    BY <1>2, <2>1 DEF Live
  <2> QED BY <1>2, <2>1, <2>2, <2>3, GoesOnFetching DEF g
<1>7. CASE Post(n)
  BY <1>5, <1>7 DEF Post, g
<1>8. CASE ReadPage(n)
  <2>1. PICK k \in 0..Unread(g.query) : Becomes(n, [g EXCEPT !.query = Read(g.query, k)])
    BY <1>8 DEF ReadPage, g
  <2>2. g.pc = "reading" /\ QueryHolds(g.query)
    BY <1>2, <1>8 DEF ReadPage, Live, g
  <2> DEFINE f == [g EXCEPT !.query = Read(g.query, k)]
  <2>3. /\ DOMAIN f = FetchFields /\ f.pc = "reading" /\ f.version = g.version
        /\ f.query = Read(g.query, k) /\ f.filter = g.filter /\ f.offset = g.offset
    BY <1>4, <2>2 DEF FetchFields
  <2>4. QueryHolds(f.query)
    BY <2>2, <2>3, QueryFacts
  <2>5. f.query.result = g.query.result
    BY <2>2, <2>3 DEF Read, QueryHolds
  <2>6. Becomes(n, f)
    BY <2>1
  <2> HIDE DEF f
  <2>7. Live(f)
    BY <1>2, <2>2, <2>3, <2>4, <2>5 DEF Live
  <2> QED BY <1>2, <2>3, <2>6, <2>7, GoesOnFetching DEF g
<1>9. CASE QueryReturns(n)
  <2>1. /\ g.pc = "reading" /\ AllRead(g.query) /\ QueryHolds(g.query)
        /\ Becomes(n, [g EXCEPT !.pc = "answered"])
    BY <1>2, <1>9 DEF QueryReturns, Live, g
  <2> DEFINE f == [g EXCEPT !.pc = "answered"]
  <2>2. /\ DOMAIN f = FetchFields /\ f.pc = "answered" /\ f.version = g.version
        /\ f.query = g.query /\ f.filter = g.filter /\ f.offset = g.offset
    BY <1>4 DEF FetchFields
  <2>3. f.query.rows = f.query.result
    BY <2>1, <2>2, QueryFacts
  <2>4. Becomes(n, f)
    BY <2>1
  <2> HIDE DEF f
  <2>5. Live(f)
    BY <1>2, <2>1, <2>2, <2>3 DEF Live
  <2> QED BY <1>2, <2>2, <2>4, <2>5, GoesOnFetching DEF g
<1>10. CASE Abandoned(n)
  <2>1. g.pc = "reading"
    BY <1>10 DEF Abandoned, g
  <2>2. CASE CanRetry(g.query)
    <3> DEFINE attempt == g.query.attempt + 1
    <3>1. Becomes(n, [g EXCEPT !.query = Posted(RowsNow(n), attempt), !.version = moves])
      BY <1>10, <2>2 DEF Abandoned, Retried, g
    <3>2. [g EXCEPT !.query = Posted(RowsNow(n), attempt), !.version = moves]
             = [g EXCEPT !.pc = "reading", !.version = moves,
                         !.query = Posted(RowsNow(n), attempt)]
      BY <1>4, <2>1 DEF FetchFields
    <3> HIDE DEF attempt
    <3> QED BY <1>5, <3>1, <3>2
  <2>3. CASE ~ CanRetry(g.query)
    <3>1. Becomes(n, [g EXCEPT !.pc = "failed"])
      BY <1>10, <2>3 DEF Abandoned, g
    <3> QED BY <1>6, <3>1
  <2> QED BY <2>2, <2>3
<1>11. CASE RequestFails(n)
  BY <1>6, <1>11 DEF RequestFails, g
<1> QED BY <1>7, <1>8, <1>9, <1>10, <1>11

\* The promise settles, and the page has a list l that waits for nothing.
LEMMA SettlesFetch ==
    ASSUME ListInv, UNCHANGED <<table, moves>>, NEW n \in DOMAIN fetches,
           fetches[n].pc # "ended", fetches' = [fetches EXCEPT ![n] = Ended],
           NEW l, list' = l, DOMAIN l = ListFields, l.offset \in Nat, l.loading = FALSE,
           \A v \in l.read : v \in Nat /\ v <= moves, Loaded(l)
    PROVE  ListInv'
<1>1. Len(fetches) \in Nat /\ DOMAIN fetches = 1..Len(fetches)
  BY ListFacts DEF ListInv, ListTypes
<1>2. List(fetches') /\ DOMAIN fetches' = DOMAIN fetches
  <2> DEFINE S == Range(fetches) \cup {Ended}
  <2>1. fetches \in Seq(S) /\ Ended \in S
    BY SeqMonotonic DEF List, ListInv, ListTypes
  <2> HIDE DEF S
  <2>2. fetches' \in Seq(S)
    BY <1>1, <2>1, ExceptSeq
  <2> QED BY <2>2, ListOf
<1>3. ListTypes'
  BY <1>2 DEF ListInv, ListTypes
<1>4. \A m \in DOMAIN fetches : fetches'[m].pc = "ended"
  <2>1. Ended.pc = "ended"
    BY DEF Ended, Fetch
  <2>2. \A m \in DOMAIN fetches \ {n} : fetches[m].pc = "ended"
    BY DEF ListInv, OnlyLast
  <2> QED BY <2>1, <2>2
<1>5. OnlyLast'
  BY <1>2, <1>4 DEF OnlyLast
<1>6. Loaded(list)' /\ Awaited'
  BY TableSame DEF Loaded, Awaited
<1> QED BY <1>3, <1>5, <1>6 DEF ListInv

\* A page arrives: it replaces the rows, or is added to them.
LEMMA ArrivesKeeps ==
    ASSUME ListInv, NEW n \in DOMAIN fetches, Arrives(n)
    PROVE  ListInv'
<1> DEFINE f == fetches[n]
           first == f.offset = 0
           l == Finally([list EXCEPT !.rows = IF first THEN f.query.rows ELSE @ \o f.query.rows,
                                     !.error = FALSE,
                                     !.read = IF first THEN {f.version} ELSE @ \cup {f.version},
                                     !.missed = IF first THEN FALSE ELSE @])
           shown == Matching(list.filter)
<1>1. f.pc = "answered" /\ fetches' = [fetches EXCEPT ![n] = Ended] /\ list' = l
      /\ UNCHANGED <<table, moves>>
  BY DEF Arrives
<1>2. Live(f) /\ DOMAIN list = ListFields /\ list.offset \in Nat /\ moves \in Nat
  BY <1>1 DEF ListInv, ListTypes, OnlyLast
<1> HIDE DEF f
<1>3. /\ list.visit # 0 /\ list.loading /\ f.offset = list.offset
      /\ f.query.rows = f.query.result /\ f.version \in Nat /\ f.version <= moves
      /\ f.version = moves => f.query.rows = PageOf(shown, list.offset)
  BY <1>1, <1>2 DEF Live
<1>4. /\ DOMAIN l = ListFields /\ l.offset = list.offset /\ l.loading = FALSE
      /\ l.visit = list.visit /\ l.filter = list.filter
      /\ l.rows = (IF first THEN f.query.rows ELSE list.rows \o f.query.rows)
      /\ l.read = (IF first THEN {f.version} ELSE list.read \cup {f.version})
      /\ l.missed = (IF first THEN FALSE ELSE list.missed)
  BY <1>2 DEF Finally, ListFields
<1> HIDE DEF l
<1>5. \A v \in l.read : v \in Nat /\ v <= moves
  BY <1>3, <1>4 DEF ListInv, ListTypes
<1>6. List(shown)
  BY MatchingIsList DEF ListInv, ListTypes
<1> HIDE DEF shown
<1>7. ASSUME ~ l.missed, l.read = {moves}
      PROVE  l.rows = FirstRows(shown, l.offset + PageSize)
  <2>1. f.version = moves /\ f.query.rows = PageOf(shown, list.offset)
    BY <1>3, <1>4, <1>7
  <2>2. CASE first
    <3>1. list.offset = 0 /\ l.rows = PageOf(shown, 0) /\ 0 + PageSize = PageSize
      BY <1>3, <1>4, <2>1, <2>2, PageAssumption
    <3> QED BY <1>2, <1>4, <1>6, <3>1, PageFacts
  <2>3. CASE ~ first
    <3>1. list.offset > 0 /\ ~ list.missed /\ list.read \subseteq {moves}
      BY <1>2, <1>3, <1>4, <1>7, <2>3
    <3>2. list.read = {moves}
      BY <1>3, <3>1 DEF ListInv, Loaded
    <3>3. list.rows = FirstRows(shown, list.offset)
      BY <1>3, <3>1, <3>2 DEF ListInv, Loaded, shown
    <3> QED BY <1>2, <1>4, <1>6, <2>1, <2>3, <3>3, PageFacts
  <2> QED BY <2>2, <2>3
<1>8. Loaded(l)
  BY <1>4, <1>7 DEF Loaded, shown
<1> QED BY <1>1, <1>2, <1>4, <1>5, <1>8, SettlesFetch DEF f

\* A page that fails leaves the rows and notes the failure.
LEMMA ArrivesFailedKeeps ==
    ASSUME ListInv, NEW n \in DOMAIN fetches, ArrivesFailed(n)
    PROVE  ListInv'
<1> DEFINE l == Finally([list EXCEPT !.error = TRUE, !.missed = TRUE])
<1>1. fetches[n].pc # "ended" /\ fetches' = [fetches EXCEPT ![n] = Ended] /\ list' = l
      /\ UNCHANGED <<table, moves>>
  BY DEF ArrivesFailed
<1>2. DOMAIN list = ListFields /\ list.offset \in Nat
      /\ \A v \in list.read : v \in Nat /\ v <= moves
  BY DEF ListInv, ListTypes
<1>3. /\ DOMAIN l = ListFields /\ l.offset = list.offset /\ l.loading = FALSE
      /\ l.read = list.read /\ l.missed = TRUE
  BY <1>2 DEF Finally, ListFields
<1> HIDE DEF l
<1>4. Loaded(l)
  BY <1>3 DEF Loaded
<1> QED BY <1>1, <1>2, <1>3, <1>4, SettlesFetch

\* The table changes: nothing that was read is of the version there is now.
LEMMA TableKeeps ==
    ASSUME ListInv, NEW p \in Proposals, Publish(p) \/ Advance(p)
    PROVE  ListInv'
<1>1. moves' = moves + 1 /\ UNCHANGED <<list, fetches>> /\ moves \in Nat
  BY DEF Publish, Advance, ListInv, ListTypes
<1>2. IsFiniteSet(DOMAIN table')
  <2>1. DOMAIN table' = DOMAIN table \/ DOMAIN table' = DOMAIN table \cup {p}
    BY DEF Publish, Advance
  <2>2. IsFiniteSet(DOMAIN table)
    BY DEF ListInv, ListTypes
  <2> QED BY <2>1, <2>2, FS_AddElement
<1>3. ListTypes'
  BY <1>1, <1>2 DEF ListInv, ListTypes
<1>4. \A f : Live(f) => Live(f)'
  BY <1>1 DEF Live
<1>5. OnlyLast'
  BY <1>1, <1>4 DEF ListInv, OnlyLast
<1>6. list.read # {moves'}
  BY <1>1 DEF ListInv, ListTypes
<1>7. Loaded(list)' /\ Awaited'
  BY <1>1, <1>6 DEF ListInv, Loaded, Awaited
<1> QED BY <1>3, <1>5, <1>7 DEF ListInv

\* What the page is before its first mount and after it was left.
LEMMA NoListFacts ==
    /\ DOMAIN NoList = ListFields /\ NoList.offset \in Nat /\ NoList.loading = FALSE
    /\ NoList.visit = 0 /\ \A v : v \notin NoList.read
BY DEF NoList, ListFields

\* No list was loaded at first.
LEMMA InitList == Init => ListInv
<1> SUFFICES ASSUME Init PROVE ListInv
  OBVIOUS
<1>1. table = [p \in AtFirst |-> States[1]] /\ moves = 0 /\ list = NoList /\ fetches = <<>>
  BY DEF Init, ListInit
<1>2. IsFiniteSet(DOMAIN table)
  BY <1>1, TableAssumption
<1>3. List(fetches) /\ DOMAIN fetches = {}
  <2>1. fetches \in Seq({})
    BY <1>1, EmptySeq
  <2>2. List(fetches)
    BY <2>1, ListOf
  <2>3. DOMAIN fetches = {}
    BY <1>1
  <2> QED BY <2>2, <2>3
<1>4. ListTypes
  BY <1>1, <1>2, <1>3, NoListFacts DEF ListTypes
<1> QED BY <1>1, <1>3, <1>4, NoListFacts DEF ListInv, OnlyLast, Loaded, Awaited

\* Navigation: a list page that is mounted fetches, one that is left heeds nothing.
LEMMA OpensKeep ==
    ASSUME ListInv, OpenChat \/ OpenProposals, visits \in Nat
    PROVE  ListInv'
<1>1. CASE OpenProposals
  <2> DEFINE l == [NoList EXCEPT !.visit = visits + 1, !.loading = TRUE]
  <2>1. Effect(l) /\ UNCHANGED <<table, moves>>
    BY <1>1 DEF OpenProposals, MountList
  <2>2. /\ DOMAIN l = ListFields /\ l.offset = 0 /\ l.loading = TRUE
        /\ l.read = {} /\ l.visit = visits + 1
    BY DEF NoList, ListFields
  <2> HIDE DEF l
  <2>3. Loaded(l) /\ l.visit # 0
    BY <2>2 DEF Loaded
  <2>4. l.offset \in Nat /\ \A v \in l.read : v \in Nat /\ v <= moves
    BY <2>2
  <2> QED BY <2>1, <2>2, <2>3, <2>4, EffectKeeps
<1>2. CASE OpenChat
  <2>1. /\ list' = NoList /\ fetches' = Cancelled(fetches)
        /\ UNCHANGED <<table, moves>>
    BY <1>2 DEF OpenChat, UnmountList
  <2>2. List(fetches') /\ \A n \in DOMAIN fetches' : fetches'[n].pc = "ended"
    BY <2>1, CancelledFacts DEF ListInv, ListTypes
  <2>3. ListTypes'
    BY <2>1, <2>2, NoListFacts DEF ListInv, ListTypes
  <2>4. OnlyLast'
    BY <2>2 DEF OnlyLast
  <2>5. Loaded(list)' /\ Awaited'
    BY <2>1, NoListFacts DEF Loaded, Awaited
  <2> QED BY <2>3, <2>4, <2>5 DEF ListInv
<1> QED BY <1>1, <1>2

\* Every step keeps the list page's invariant; those of the chat page leave it
\* alone.
LEMMA NextList == ListInv /\ visits \in Nat /\ [Next]_vars => ListInv'
<1> SUFFICES ASSUME ListInv, visits \in Nat, [Next]_vars
             PROVE  ListInv'
  OBVIOUS
<1>1. CASE OpenChat \/ OpenProposals
  BY <1>1, OpensKeep
<1>2. CASE ListStep
  <2>1. CASE (\E f \in Filters \cup {Everything} : ChooseFilter(f)) \/ LoadMore
    BY <2>1, AsksForPage
  <2>2. CASE \E n \in 1..Len(fetches) : Request(n)
    <3>1. PICK n \in 1..Len(fetches) : Request(n)
      BY <2>2
    <3>2. n \in DOMAIN fetches
      BY ListFacts DEF ListInv, ListTypes
    <3> QED BY <3>1, <3>2, ServerKeeps, ArrivesKeeps, ArrivesFailedKeeps DEF Request
  <2>3. CASE \E p \in Proposals : Publish(p) \/ Advance(p)
    BY <2>3, TableKeeps
  <2> QED BY <1>2, <2>1, <2>2, <2>3 DEF ListStep
<1>3. CASE UNCHANGED listVars
  <2>1. UNCHANGED <<table, moves, list, fetches>>
    BY <1>3 DEF listVars
  <2>2. \A f : Live(f) => Live(f)'
    BY <2>1, TableSame DEF Live
  <2> QED BY <2>1, <2>2, TableSame DEF ListInv, ListTypes, OnlyLast, Loaded, Awaited
<1> QED BY <1>1, <1>2, <1>3 DEF Next, vars

\* A list no page of which failed, read from the table as it is, is the
\* beginning of what was asked for, as far as was asked (the page's effect with
\* its cleanup, list_proposals, and the retries of query).
THEOREM ListIsInOrder == Spec => []LoadedInOrder
<1>1. ChatInv => visits \in Nat
  BY DEF ChatInv, ChatTypes
<1>2. ListInv => LoadedInOrder
  BY DEF ListInv, Loaded, LoadedInOrder, AtRest
<1> QED BY <1>1, <1>2, InitList, NextList, ChatInvariant, PTL DEF Spec

\* "Loading..." is there exactly while the request the page waits for is out
\* (the effect with its cleanup, and `finally`).
THEOREM LoadingTellsTheTruth == Spec => []LoadingIsTrue
<1>1. ChatInv => visits \in Nat
  BY DEF ChatInv, ChatTypes
<1>2. ListInv => LoadingIsTrue
  BY DEF ListInv, ListTypes, OnlyLast, Live, Awaited, LoadingIsTrue
<1> QED BY <1>1, <1>2, InitList, NextList, ChatInvariant, PTL DEF Spec
=============================================================================
