------------------------------- MODULE Listing -------------------------------
(***************************************************************************)
(* How a harvester lists what a source holds: fetch_proposals of           *)
(* snapshot_client.py and fetch_topics of discourse_client.py.  Both ask   *)
(* for one page after another while the source changes under them, the     *)
(* first by a cursor on the creation time, the second by page number over  *)
(* a list ordered by latest activity.  Bronze.tla takes a listing as one   *)
(* step; this module is what happens inside it.                            *)
(***************************************************************************)
EXTENDS Integers, Sequences, FiniteSets, SequencesExt

CONSTANTS Items,     \* proposals or topics
          Created,   \* Created[i]: the second proposal i is created in
          First,     \* the feed when the listing starts, newest first
          Limit,     \* limit
          PageSize,  \* page_size; the topics on a page of /latest.json
          MaxPages,  \* max_pages
          MaxMoves   \* bound: changes of the feed during a listing

ASSUME FeedAssumption == /\ First \in Seq(Items) /\ IsInjective(First)
                         /\ Created \in [Items -> Nat \ {0}]
ASSUME PageAssumption == {PageSize, Limit, MaxPages} \subseteq Nat \ {0}

VARIABLES source,     \* "snapshot" or "discourse"
          feed,       \* what the source holds, newest first
          pc,         \* "list", "done" or "failed"
          collected,  \* collected
          seen,       \* seen
          cursor,     \* cursor; NoCursor before the first page
          page,       \* page
          \* Observers:
          moves,      \* changes of the feed so far
          touched,    \* topics that were bumped
          deleted,    \* items that were deleted
          ignored     \* a reply ignored the cursor

client   == <<pc, collected, seen, cursor, page>>
observed == <<moves, touched, deleted, ignored>>
vars     == <<source, feed, client, observed>>

NoCursor == 0
Held     == ToSet(feed)
Lesser(a, b) == IF a <= b THEN a ELSE b

Init ==
    /\ source \in {"snapshot", "discourse"}
    /\ feed = First
    /\ pc = "list" /\ collected = {} /\ seen = {} /\ cursor = NoCursor /\ page = 0
    /\ moves = 0 /\ touched = {} /\ deleted = {} /\ ignored = FALSE

-----------------------------------------------------------------------------
(* The source changes. *)

Move == moves < MaxMoves /\ moves' = moves + 1 /\ UNCHANGED <<source, client, ignored>>

Arrive(i) ==
    /\ Move
    /\ i \notin Held \cup deleted
    /\ \A j \in Held \cup deleted : Created[i] >= Created[j]
    /\ feed' = <<i>> \o feed
    /\ UNCHANGED <<touched, deleted>>

\* A reply moves the n-th topic to the front.
Bump(n) ==
    /\ source = "discourse" /\ Move
    /\ feed' = <<feed[n]>> \o RemoveAt(feed, n)
    /\ touched' = touched \cup {feed[n]}
    /\ UNCHANGED deleted

Delete(n) ==
    /\ Move
    /\ feed' = RemoveAt(feed, n)
    /\ deleted' = deleted \cup {feed[n]}
    /\ UNCHANGED touched

-----------------------------------------------------------------------------
(* fetch_proposals *)

BatchSize == Lesser(PageSize, Limit - Cardinality(collected))

\* Up to n of C, newest first; the API orders ties as it likes.
Newest(C, n) ==
    {B \in SUBSET C : /\ Cardinality(B) = Lesser(n, Cardinality(C))
                      /\ \A i \in B, j \in C \ B : Created[i] >= Created[j]}

\* proposals(first, created_lt): a reply that honours the cursor or ignores it.
Replies(honoured) ==
    Newest(IF honoured /\ cursor # NoCursor THEN {i \in Held : Created[i] < cursor} ELSE Held,
           BatchSize)

\* Faulty variant: the cursor skips the second of the last proposal as well.
OldestLessOne(B) == (CHOOSE t \in {Created[i] : i \in B} : \A i \in B : t <= Created[i]) - 1

Oldest(B) == CHOOSE t \in {Created[i] : i \in B} : \A i \in B : t <= Created[i]

\* Faulty variant: a cursor that stands still is not noticed.
StalledNever(B) == FALSE

\* The cursor failed to advance.
Stalled(B) == cursor # NoCursor /\ Oldest(B) >= cursor

FetchProposals ==
    /\ source = "snapshot" /\ pc = "list"
    /\ \E honoured \in BOOLEAN : \E B \in Replies(honoured) :
        /\ ignored' = (ignored \/ (~honoured /\ cursor # NoCursor))
        /\ collected' = collected \cup (B \ seen)
        /\ seen' = seen \cup B
        /\ IF B = {} \/ Stalled(B)
           THEN pc' = "done" /\ UNCHANGED cursor
           ELSE /\ cursor' = Oldest(B)
                /\ pc' = IF Cardinality(B) < BatchSize \/ Cardinality(collected') >= Limit
                         THEN "done" ELSE "list"
    /\ UNCHANGED <<source, feed, page, moves, touched, deleted>>

-----------------------------------------------------------------------------
(* fetch_topics *)

\* Faulty variant: pages counted from one.
PageOfFeedFromOne(p) == {n \in DOMAIN feed : (p + 1) * PageSize < n /\ n <= (p + 2) * PageSize}

\* latest.json?page=p, as places of the feed.
PageOfFeed(p) == {n \in DOMAIN feed : p * PageSize < n /\ n <= (p + 1) * PageSize}

\* The first n places of P.
Foremost(P, n) ==
    {Q \in SUBSET P : /\ Cardinality(Q) = Lesser(n, Cardinality(P))
                      /\ \A i \in Q, j \in P \ Q : i < j}

\* collected[:limit] keeps of the fresh topics what there is room for.
FetchTopics ==
    /\ source = "discourse" /\ pc = "list"
    /\ LET batch == PageOfFeed(page)
           fresh == {n \in batch : feed[n] \notin seen}
       IN  /\ \E kept \in Foremost(fresh, Limit - Cardinality(collected)) :
                 collected' = collected \cup {feed[n] : n \in kept}
           /\ seen' = seen \cup {feed[n] : n \in batch}
           /\ IF fresh = {}
              THEN pc' = "done" /\ UNCHANGED page
              ELSE /\ page' = page + 1
                   /\ pc' = IF page' = MaxPages \/ Cardinality(collected') >= Limit
                            THEN "done" ELSE "list"
    /\ UNCHANGED <<source, feed, cursor, observed>>

\* The request fails for good, or the reply is a GraphQL error: what was
\* collected is lost with the exception.
Fail ==
    /\ pc = "list"
    /\ pc' = "failed" /\ collected' = {}
    /\ UNCHANGED <<source, feed, seen, cursor, page, observed>>

Fetch == FetchProposals \/ FetchTopics

Next ==
    \/ \E i \in Items : Arrive(i)
    \/ \E n \in DOMAIN feed : Bump(n) \/ Delete(n)
    \/ Fetch
    \/ Fail

\* Every request returns or fails: request_json gives up in the end.
Spec == Init /\ [][Next]_vars /\ WF_vars(Fetch)

-----------------------------------------------------------------------------

Stayed == ToSet(First) \ deleted

\* "A cursor stays correct even if new proposals arrive mid-pagination": of the
\* proposals that were there throughout, the listing has the newest ones
\* without a gap, up to the limit.  Proposals created in the same second as a
\* collected one are the exception: a page may end between them, and
\* created_lt then skips the rest.
ProposalsComplete ==
    source = "snapshot" /\ pc = "done" /\ ~ignored =>
        \A i \in Stayed \ collected :
            \/ \E c \in collected : Created[c] = Created[i]
            \/ /\ Cardinality(collected) = Limit
               /\ \A c \in collected : Created[i] < Created[c]

Place(i) == CHOOSE n \in 1..Len(First) : First[n] = i
Untouched == Stayed \ touched

\* Page numbers over a moving list: as long as no topic is deleted, replies and
\* new topics that push the list down open no gap among the topics that did
\* not move, and unless a whole page of them comes in, the listing only stops
\* at a limit or at the end.
TopicsComplete ==
    source = "discourse" /\ pc = "done" /\ deleted = {} =>
        \A i \in Untouched \ collected :
            /\ \A c \in Untouched \cap collected : Place(c) < Place(i)
            /\ moves < PageSize => Cardinality(collected) = Limit \/ page = MaxPages

\* A listing ends, even if the API ignores the cursor.
ListingEnds == <>(pc # "list")
=============================================================================
