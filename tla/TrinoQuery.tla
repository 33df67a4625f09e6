----------------------------- MODULE TrinoQuery -----------------------------
(***************************************************************************)
(* One call of query() of ai_agent/chains/trino_client.py: a statement is  *)
(* posted, its rows are fetched over several pages, and the whole of it is *)
(* tried again if the server says it was abandoned.                        *)
(*                                                                         *)
(* A query is a record that its caller keeps: the attempt, the rows the    *)
(* server holds for it (those of the snapshot the attempt began with), and *)
(* the rows read so far.                                                   *)
(***************************************************************************)
EXTENDS Naturals, Sequences

CONSTANT MaxAttempts

ASSUME AttemptsAssumption == MaxAttempts \in Nat \ {0}

\* _run_once begins: the server runs the statement, the local rows are empty.
Posted(result, attempt) == [attempt |-> attempt, result |-> result, rows |-> <<>>]

\* A payload brought k rows, or none and a nextUri.
Read(q, k) == [q EXCEPT !.rows = @ \o SubSeq(q.result, Len(q.rows) + 1, Len(q.rows) + k)]

Unread(q) == Len(q.result) - Len(q.rows)

\* No nextUri.
AllRead(q) == Unread(q) = 0

CanRetry(q) == q.attempt < MaxAttempts

\* Faulty variant: the rows read before stay.
ContinuedWith(q, result) == [q EXCEPT !.attempt = @ + 1, !.result = q.rows \o result]

\* "abandoned by the client": the next attempt starts from nothing, and reads
\* the snapshot there is by then.
Retried(q, result) == Posted(result, q.attempt + 1)
=============================================================================
