--------------------------- MODULE ProposalsPage ---------------------------
(***************************************************************************)
(* The list of proposals, from the page down to the table:                 *)
(*   dashboard/app/proposals/page.tsx    filters, "Load more", the effect  *)
(*   dashboard/lib/api.ts                listProposals, getJSON            *)
(*   backend_api/routes/proposals.py     list_proposals                    *)
(*   ai_agent/graph/sql_templates.py     the template of that name         *)
(*   ai_agent/chains/trino_client.py     query, as in TrinoQuery           *)
(* The table changes meanwhile: proposals are published, and close.        *)
(***************************************************************************)
EXTENDS TrinoQuery, SequencesExt

CONSTANTS Proposals,
          ProtocolOf,   \* ProtocolOf[p]
          Created,      \* Created[p]: proposal_created, which the list is ordered by
          AtFirst,      \* the proposals in the table at first
          States,       \* proposal_state, in the order a proposal goes through them
          All,          \* the empty option of a select
          Filters,      \* what the two selects are set to: [protocol, state]
          PageSize,     \* PAGE_SIZE
          MaxFetches,   \* bound: requests of the page
          MaxMoves      \* bound: changes of the table

ASSUME PageAssumption == PageSize \in Nat \ {0}
ASSUME TableAssumption == /\ AtFirst \subseteq Proposals /\ IsFiniteSet(AtFirst)
                          /\ Len(States) > 0
                          /\ Created \in [Proposals -> Nat] /\ All \notin ToSet(States)

\* The template orders by creation time alone, and rows of one time may come
\* in any order, a new one for each page.  Times are distinct here.
ASSUME DistinctTimes == \A p, q \in Proposals : Created[p] = Created[q] => p = q

VARIABLES table,     \* the current rows: the state of each proposal published
          moves,     \* how often it changed
          list,      \* the state hooks of the mounted page
          fetches    \* every request of the page

listVars == <<table, moves, list, fetches>>

Everything == [protocol |-> All, state |-> All]

-----------------------------------------------------------------------------
(* list_proposals. *)

Fits(row, f) == /\ f.protocol \in {All, ProtocolOf[row.id]}
                /\ f.state \in {All, row.state}

\* Newest first: the n-th row is the one with n - 1 newer ones.
Matching(f) ==
    LET rows     == {[id |-> p, state |-> table[p]] : p \in DOMAIN table}
        fitting  == {r \in rows : Fits(r, f)}
        newer(r) == {s \in fitting : Created[s.id] > Created[r.id]}
    IN [n \in 1..Cardinality(fitting) |->
           CHOOSE r \in fitting : Cardinality(newer(r)) = n - 1]

\* The first n rows; OFFSET {offset} LIMIT {limit}.
FirstRows(rows, n)   == SubSeq(rows, 1, IF n < Len(rows) THEN n ELSE Len(rows))
PageOf(rows, offset) == LET upto == FirstRows(rows, offset + PageSize)
                        IN  SubSeq(upto, offset + 1, Len(upto))

-----------------------------------------------------------------------------
(* The page. *)

\* Observers: the versions of the table the rows on display were read from,
\* and whether a page of this list failed.
NoList == [visit |-> 0, filter |-> Everything, offset |-> 0,
           rows |-> <<>>, loading |-> FALSE, error |-> FALSE, read |-> {}, missed |-> FALSE]

Fetch(l) == [filter |-> l.filter, offset |-> l.offset, pc |-> "sent",
             version |-> 0, query |-> Posted(<<>>, 0)]

\* A promise that has settled, or that nobody heeds: its `cancelled` is set.
Ended == [Fetch(NoList) EXCEPT !.pc = "ended"]

Cancelled(fs) == [n \in DOMAIN fs |-> Ended]

\* Faulty variant: the effect has no cleanup.
EffectOnly(l) == list' = l /\ fetches' = Append(fetches, Fetch(l))

\* A render whose dependencies changed: the cleanup of the last effect sets
\* its flag, and the effect fetches.
Effect(l) == list' = l /\ fetches' = Append(Cancelled(fetches), Fetch(l))

MountList(visit) == Effect([NoList EXCEPT !.visit = visit, !.loading = TRUE])

UnmountList == list' = NoList /\ fetches' = Cancelled(fetches)

\* updateProtocol, updateState: one of the two selects changes.
ChooseFilter(f) ==
    /\ list.visit # 0 /\ Len(fetches) < MaxFetches
    /\ f # list.filter
    /\ f.protocol = list.filter.protocol \/ f.state = list.filter.state
    /\ Effect([list EXCEPT !.filter = f, !.offset = 0, !.loading = TRUE])
    /\ UNCHANGED <<table, moves>>

LoadMore ==
    /\ list.visit # 0 /\ Len(fetches) < MaxFetches
    /\ ~list.loading
    /\ Effect([list EXCEPT !.offset = @ + PageSize, !.loading = TRUE])
    /\ UNCHANGED <<table, moves>>

-----------------------------------------------------------------------------
(* The server. *)

Becomes(n, f) == fetches' = [fetches EXCEPT ![n] = f] /\ UNCHANGED <<table, moves, list>>

RowsNow(n) == PageOf(Matching(fetches[n].filter), fetches[n].offset)

\* The route calls query(), whose first attempt is posted.
Post(n) ==
    /\ fetches[n].pc = "sent"
    /\ Becomes(n, [fetches[n] EXCEPT !.pc = "reading", !.version = moves,
                                     !.query = Posted(RowsNow(n), 1)])

\* A payload with the next rows, or one without any: while the query is planned
\* and run, Trino may answer with nothing but the next URI, as often as it likes.
ReadPage(n) ==
    /\ fetches[n].pc = "reading"
    /\ \E k \in 0..Unread(fetches[n].query) :
        Becomes(n, [fetches[n] EXCEPT !.query = Read(@, k)])

\* The last payload: query() returns.
QueryReturns(n) ==
    /\ fetches[n].pc = "reading" /\ AllRead(fetches[n].query)
    /\ Becomes(n, [fetches[n] EXCEPT !.pc = "answered"])

\* Trino dropped the query: again, or raise after the last attempt.
Abandoned(n) ==
    /\ fetches[n].pc = "reading"
    /\ Becomes(n, IF CanRetry(fetches[n].query)
                  THEN [fetches[n] EXCEPT !.query = Retried(@, RowsNow(n)), !.version = moves]
                  ELSE [fetches[n] EXCEPT !.pc = "failed"])

\* Any other error of Trino or of HTTP raises at once; or the browser cannot
\* reach the API.
RequestFails(n) ==
    /\ fetches[n].pc \in {"sent", "reading", "answered"}
    /\ Becomes(n, [fetches[n] EXCEPT !.pc = "failed"])

-----------------------------------------------------------------------------
(* The promise of listProposals settles. *)

\* Faulty variant: nothing ends "Loading...".
Unfinished(l) == l

\* .finally
Finally(l) == [l EXCEPT !.loading = FALSE]

\* .then
Arrives(n) ==
    /\ fetches[n].pc = "answered"
    /\ fetches' = [fetches EXCEPT ![n] = Ended]
    /\ LET f     == fetches[n]
           first == f.offset = 0
       IN  list' = Finally(
               [list EXCEPT !.rows = IF first THEN f.query.rows ELSE @ \o f.query.rows,
                            !.error = FALSE,
                            !.read = IF first THEN {f.version} ELSE @ \cup {f.version},
                            !.missed = IF first THEN FALSE ELSE @])
    /\ UNCHANGED <<table, moves>>

\* .catch: the offset stays where it is.
ArrivesFailed(n) ==
    /\ fetches[n].pc = "failed"
    /\ fetches' = [fetches EXCEPT ![n] = Ended]
    /\ list' = Finally([list EXCEPT !.error = TRUE, !.missed = TRUE])
    /\ UNCHANGED <<table, moves>>

-----------------------------------------------------------------------------
(* The table: a build of silver adds a proposal, or a proposal moves on. *)

Publish(p) ==
    /\ moves < MaxMoves /\ p \notin DOMAIN table
    /\ table' = [q \in DOMAIN table \cup {p} |-> IF q = p THEN States[1] ELSE table[q]]
    /\ moves' = moves + 1
    /\ UNCHANGED <<list, fetches>>

Advance(p) ==
    /\ moves < MaxMoves /\ p \in DOMAIN table
    /\ \E i \in 1..(Len(States) - 1) :
        table[p] = States[i] /\ table' = [table EXCEPT ![p] = States[i + 1]]
    /\ moves' = moves + 1
    /\ UNCHANGED <<list, fetches>>

ListInit ==
    /\ table = [p \in AtFirst |-> States[1]] /\ moves = 0
    /\ list = NoList /\ fetches = <<>>

Request(n) == Post(n) \/ ReadPage(n) \/ QueryReturns(n) \/ Abandoned(n) \/ RequestFails(n)
                \/ Arrives(n) \/ ArrivesFailed(n)

ListStep == \/ \E f \in Filters \cup {Everything} : ChooseFilter(f)
            \/ LoadMore
            \/ \E n \in 1..Len(fetches) : Request(n)
            \/ \E p \in Proposals : Publish(p) \/ Advance(p)

-----------------------------------------------------------------------------

\* "Loading..." tells the truth: the page shows it, and keeps "Load more"
\* disabled, exactly while the request it waits for is out; no request that
\* ended, was overtaken or was cancelled leaves it standing or takes it away.
LoadingIsTrue ==
    list.visit # 0 =>
        ( list.loading <=> \E n \in DOMAIN fetches : fetches[n].pc # "ended" )

AtRest == list.visit # 0 /\ ~list.loading /\ ~list.error

\* While the table stands still the page shows the beginning of the list that
\* was asked for, each row once, as far as was asked: no reply to an earlier
\* filter, no rows of an abandoned attempt.
LoadedInOrder ==
    AtRest /\ ~list.missed /\ list.read = {moves} =>
        list.rows = FirstRows(Matching(list.filter), list.offset + PageSize)

\* "The list can reach all 978 current Aave proposals via repeated "load
\* more"": the same of any page that shows no error.
LoadMoreReachesAll ==
    AtRest /\ list.read = {moves} =>
        list.rows = FirstRows(Matching(list.filter), list.offset + PageSize)
=============================================================================
