------------------------------ MODULE MCSilver ------------------------------
(* A proposal, a topic with two posts, and documents of sources that are not *)
(* configured.                                                               *)
EXTENDS Silver

CONSTANTS proposal, topic, probe, post1, post2, r1, r2, r3, q1, q2, b1, b2

Version(r, q) == [record |-> r, rest |-> q]
Alone(e, v)   == [x \in {e} |-> v]
Thread(v, w)  == [x \in {post1, post2} |-> IF x = post1 THEN v ELSE w]

\* The proposal moves between three records, and between two quorums within
\* one; a reply joins the topic, is edited, and is deleted again.
MCBodies ==
    [d \in {proposal, topic, probe} |->
        CASE d = proposal -> {Alone(proposal, Version(r1, q1)),
                              Alone(proposal, Version(r2, q1)),
                              Alone(proposal, Version(r3, q1)),
                              Alone(proposal, Version(r1, q2))}
          [] d = topic    -> {Alone(post1, Version(r1, q1)),
                              Thread(Version(r1, q1), Version(r1, q1)),
                              Thread(Version(r2, q1), Version(r1, q1)),
                              Thread(Version(r1, q1), Version(r2, q1))}
          [] d = probe    -> {Alone(probe, Version(r1, q1))}]
=============================================================================
