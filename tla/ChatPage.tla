------------------------------ MODULE ChatPage ------------------------------
(***************************************************************************)
(* A question on its way from the chat page to the agent and back:         *)
(*   dashboard/app/chat/page.tsx     the page: ask, askViaPost             *)
(*   dashboard/lib/api.ts            streamChat over an EventSource,       *)
(*                                   postChat                              *)
(*   backend_api/routes/chat.py      the stream of node events, the POST   *)
(*                                                                         *)
(* Requests are numbered in the order they were sent, and an answer is     *)
(* known by the number of its request; texts are left out.  A visit is one *)
(* mounting of the page: leaving it drops its state, but closes no stream. *)
(***************************************************************************)
EXTENDS Naturals, Sequences

CONSTANTS Branches,     \* the nodes the router may choose
          MaxRequests   \* bound: questions sent

\* "sql", "vector" and "hybrid" are no other word of this protocol.
ASSUME BranchAssumption ==
    /\ Branches # {}
    /\ {"router", "synthesis", "done", "over", "error", "end", "none"} \cap Branches = {}

VARIABLES chat,      \* the state hooks of the mounted page
          requests   \* every request sent, with its connection and its server side

chatVars == <<chat, requests>>

None  == "none"
Nodes == {"router", "synthesis"} \cup Branches

-----------------------------------------------------------------------------
(* The page. *)

Unmounted == [visit |-> 0, stage |-> None, answer |-> 0, error |-> FALSE, stop |-> 0]
Mounted   == chat.visit # 0

ChatInit == chat = Unmounted /\ requests = <<>>

\* `next` is the node the server is to complete; `queue` the events sent and
\* not dispatched yet; `open` whether the client has neither closed the
\* source nor seen the POST settle; `runs` how often the agent was started.
Sent(kind) == [kind |-> kind, visit |-> chat.visit, open |-> TRUE, next |-> "router",
               queue |-> <<>>, runs |-> 1]

\* source.close(): nothing the server sends is dispatched any more.
Shut(r) == [r EXCEPT !.open = FALSE, !.next = "over", !.queue = <<>>]

\* stopRef may be null.
Closed(rs, n) == IF n = 0 THEN rs ELSE [rs EXCEPT ![n] = Shut(@)]

\* Faulty variant: a question can be sent while another is out.
AskAnyTime ==
    /\ Mounted
    /\ Len(requests) < MaxRequests
    /\ chat' = [chat EXCEPT !.stage = "router", !.answer = 0, !.error = FALSE,
                            !.stop = Len(requests) + 1]
    /\ requests' = Append(Closed(requests, chat.stop), Sent("stream"))

\* The button is disabled while there is a stage, and with it the form.
Ask ==
    /\ Mounted /\ chat.stage = None
    /\ Len(requests) < MaxRequests
    /\ chat' = [chat EXCEPT !.stage = "router", !.answer = 0, !.error = FALSE,
                            !.stop = Len(requests) + 1]
    /\ requests' = Append(Closed(requests, chat.stop), Sent("stream"))

\* The link is rendered beside an error.
AskViaPost ==
    /\ Mounted /\ chat.error
    /\ Len(requests) < MaxRequests
    /\ chat' = [chat EXCEPT !.stage = "router", !.error = FALSE]
    /\ requests' = Append(requests, Sent("post"))

\* Setters of an instance that is no longer mounted do nothing.
Show(n, page) == chat' = IF requests[n].visit = chat.visit THEN page ELSE chat

-----------------------------------------------------------------------------
(* The server. *)

\* The generator of an open stream has not ended.
Working(n) == requests[n].kind = "stream" /\ requests[n].open /\ requests[n].next \in Nodes

After(node) == CASE node = "router"     -> Branches
                 [] node \in Branches   -> {"synthesis"}
                 [] node = "synthesis"  -> {"done"}

\* events() yields one event for each completed node.
NodeCompletes(n) ==
    /\ Working(n)
    /\ \E m \in After(requests[n].next) :
        requests' = [requests EXCEPT ![n].queue = Append(@, requests[n].next), ![n].next = m]
    /\ UNCHANGED chat

\* A model, the database or Trino fails: the except clause yields an event.
GraphRaises(n) ==
    /\ Working(n)
    /\ requests' = [requests EXCEPT ![n].queue = Append(@, "error"), ![n].next = "done"]
    /\ UNCHANGED chat

\* The response ends with the generator.
ResponseEnds(n) ==
    /\ requests[n].kind = "stream" /\ requests[n].open /\ requests[n].next = "done"
    /\ requests' = [requests EXCEPT ![n].queue = Append(@, "end"), ![n].next = "over"]
    /\ UNCHANGED chat

\* The connection breaks, or was never made.  Events that are lost with it are
\* as good as never sent: nothing else depends on what the server did.
ConnectionLost(n) ==
    /\ Working(n)
    /\ requests' = [requests EXCEPT ![n].queue = Append(@, "end"), ![n].next = "over"]
    /\ UNCHANGED chat

-----------------------------------------------------------------------------
(* The browser dispatches the next event of an open source. *)

Due(n, events) ==
    /\ requests[n].kind = "stream" /\ requests[n].open
    /\ requests[n].queue # <<>> /\ Head(requests[n].queue) \in events

Popped(n) == [requests[n] EXCEPT !.queue = Tail(@)]
Become(n, r) == requests' = [requests EXCEPT ![n] = r]

\* onEvent of a node that is not the last.
OnNode(n) ==
    /\ Due(n, Nodes \ {"synthesis"})
    /\ Show(n, [chat EXCEPT !.stage = Head(requests[n].queue)])
    /\ Become(n, Popped(n))

\* onEvent of the last one, then close() and onDone().
OnSynthesis(n) ==
    /\ Due(n, {"synthesis"})
    /\ Show(n, [chat EXCEPT !.answer = n, !.stage = None])
    /\ Become(n, Shut(requests[n]))

\* Faulty variant: an error that reaches onEvent leaves the progress line.
OnErrorEventStuck(n) ==
    /\ Due(n, {"error"})
    /\ Show(n, [chat EXCEPT !.error = TRUE])
    /\ Become(n, Shut(requests[n]))

\* The server's error event: its listener reports it, closes and is done;
\* onerror, which the same event reaches, closes and is done once more.
OnErrorEvent(n) ==
    /\ Due(n, {"error"})
    /\ Show(n, [chat EXCEPT !.error = TRUE, !.stage = None])
    /\ Become(n, Shut(requests[n]))

\* Faulty variant: the source is left open.
SourceKept(r) == r

\* What onerror does to the source.
AfterOnError(r) == Shut(r)

\* An EventSource whose connection ended asks again unless it was closed.
Reconnected(r) == IF r.open THEN [r EXCEPT !.next = "router", !.runs = @ + 1] ELSE r

\* The browser's own error event.  It carries no data, so the "error" listener
\* throws before it tells the page; onerror closes, and onDone ends the stage.
OnConnectionError(n) ==
    /\ Due(n, {"end"})
    /\ Show(n, [chat EXCEPT !.stage = None])
    /\ Become(n, Reconnected(AfterOnError(Popped(n))))

\* ainvoke answers the POST, or the request fails; `finally` ends the stage.
PostAnswers(n) ==
    /\ requests[n].kind = "post" /\ requests[n].open
    /\ Show(n, [chat EXCEPT !.answer = n, !.stage = None])
    /\ Become(n, Shut(requests[n]))

PostFails(n) ==
    /\ requests[n].kind = "post" /\ requests[n].open
    /\ Show(n, [chat EXCEPT !.error = TRUE, !.stage = None])
    /\ Become(n, Shut(requests[n]))

-----------------------------------------------------------------------------

Serve(n)    == NodeCompletes(n) \/ GraphRaises(n) \/ ResponseEnds(n) \/ ConnectionLost(n)
Dispatch(n) == OnNode(n) \/ OnSynthesis(n) \/ OnErrorEvent(n) \/ OnConnectionError(n)
Settle(n)   == PostAnswers(n) \/ PostFails(n)

ChatStep == \/ Ask \/ AskViaPost
            \/ \E n \in 1..Len(requests) : Serve(n) \/ Dispatch(n) \/ Settle(n)

-----------------------------------------------------------------------------

\* A question is put to the agent once: no connection that ends, however it
\* ends, makes the browser's EventSource ask (and pay) again.
AgentRunsOnce == \A n \in DOMAIN requests : requests[n].runs = 1

\* The page shows the answer to the last question it sent, and never beside
\* an error: events and replies of an earlier question, or of an earlier
\* visit whose stream is still running, do not reach it.
AnswerIsToLastQuestion ==
    chat.answer # 0 =>
        /\ requests[chat.answer].visit = chat.visit
        /\ \A n \in DOMAIN requests : requests[n].visit = chat.visit => n <= chat.answer
        /\ ~chat.error

\* The progress line tells the truth: it is there exactly while an answer to
\* this visit's question can still come, and the button is disabled by it.
ProgressIsTrue ==
    Mounted => ( chat.stage # None <=>
                   \E n \in DOMAIN requests : requests[n].visit = chat.visit /\ requests[n].open )

\* "The plan keeps POST as an explicit path precisely so a fragile SSE
\* connection doesn't strand the user": a question that is over has left an
\* answer, or the error beside which the retry is offered.
AnswerOrRetry ==
    (Mounted /\ chat.stage = None /\ \E n \in DOMAIN requests : requests[n].visit = chat.visit)
        => chat.answer # 0 \/ chat.error
=============================================================================
