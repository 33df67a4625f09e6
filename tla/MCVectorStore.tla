--------------------------- MODULE MCVectorStore ---------------------------
(* A proposal that is edited and has a twin with the same text, and a post   *)
(* whose topic is renamed to a boilerplate title, with a reply that may have *)
(* a heading too wide to be stored.                                          *)
EXTENDS VectorStore

CONSTANTS proposal, twin, post, reply, topic, old, new, said, thanks, rant, plain, welcome, none, l1

Titled(t, x) == [text |-> t, title |-> x]

MCDocumentOf == [e \in {proposal, twin, post, reply} |-> IF e \in {post, reply} THEN topic ELSE e]
MCPostId     == [e \in {post, reply} |-> IF e = post THEN 7 ELSE 8]
MCVersions   == [e \in {proposal, twin, post, reply} |->
                    CASE e = proposal -> {Titled(old, plain), Titled(new, plain)}
                      [] e = twin     -> {Titled(old, plain)}
                      [] e = post     -> {Titled(said, plain), Titled(said, welcome)}
                      [] e = reply    -> {Titled(thanks, plain), Titled(rant, plain)}]

Section(heading, words) == [heading |-> heading, body |-> words]

\* The first scheme cuts the long section of the new text in two, the second
\* does not.  Runts follow and precede; the post has a heading with no body.
MCWords == 1..8 \cup {100, 200, 300}

MCBodies == [t \in {old, new, said, thanks, rant} |->
    CASE t = old  -> <<Section(none, <<1>>), Section(100, <<2, 3, 4>>), Section(200, <<5>>)>>
      [] t = new  -> <<Section(100, <<1, 2, 3, 4, 5, 6, 7>>), Section(200, <<8>>)>>
      [] t = said -> <<Section(100, <<>>), Section(200, <<1, 2, 3>>)>>
      [] t = thanks -> <<Section(none, <<1, 2, 3>>)>>
      [] t = rant -> <<Section(300, <<1, 2, 3>>)>>]

MCSettings == <<[target |-> 5, overlap |-> 3], [target |-> 7, overlap |-> 3]>>
=============================================================================
