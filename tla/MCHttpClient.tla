---------------------------- MODULE MCHttpClient ----------------------------
(* Two threads on a bucket of one token that refills at 40 a minute: one    *)
(* token every second and a half, so waits do not fall on whole seconds.     *)
EXTENDS HttpClient

CONSTANTS t1, t2

MCThreads == {t1, t2}

\* At once, and more than the backoff cap.
MCRetryAfters == {0, 9}
=============================================================================
