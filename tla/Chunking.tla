------------------------------ MODULE Chunking ------------------------------
(***************************************************************************)
(* How a document becomes the chunks that are embedded:                    *)
(*   ai_agent/chains/chunking.py   sections, windows, runts                *)
(*   config/corpus_filters.py      is_substantive_chunk                    *)
(*                                                                         *)
(* A document is the sequence of its sections: a heading, or NoHeading for *)
(* what stands before the first one, and a body of words.  A word stands   *)
(* for a token, and so does a heading.  The protocol and the title before  *)
(* each chunk are the same for all of them, and left out.                  *)
(***************************************************************************)
EXTENDS Naturals, SequencesExt

CONSTANTS Words,
          NoHeading,
          Settings,    \* Settings[s]: [target, overlap] of chunk scheme s
          MinTokens,   \* MIN_TOKENS
          MinBody      \* MIN_BODY_TOKENS

\* 12, 20, 80, 400.
ASSUME SettingsAssumption ==
    \A s \in DOMAIN Settings : /\ {MinTokens, MinBody, Settings[s].overlap, Settings[s].target} \subseteq Nat
                               /\ 0 < MinTokens /\ MinTokens <= MinBody
                               /\ MinBody <= Settings[s].overlap
                               /\ Settings[s].overlap < Settings[s].target

Schemes == DOMAIN Settings

\* A section of a document, a piece of one, a chunk.
Piece == [heading : Words \cup {NoHeading}, body : Seq(Words)]

\* The text of it.
Prefixed(p) == IF p.heading = NoHeading THEN p.body ELSE <<p.heading>> \o p.body

\* _split_by_headings: a section without a body is dropped, unless its heading
\* is the only one of the document.
Sections(d) ==
    LET headed == {i \in DOMAIN d : d[i].heading # NoHeading}
    IN  IF Cardinality(headed) = 1 /\ d[Len(d)].body = <<>>
        THEN << [heading |-> NoHeading, body |-> FlattenSeq([i \in DOMAIN d |-> Prefixed(d[i])])] >>
        ELSE FlattenSeq([i \in DOMAIN d |-> IF d[i].body = <<>> THEN <<>> ELSE <<d[i]>>])

\* Faulty variant: windows side by side.
StepWithoutOverlap(s) == Settings[s].target

Step(s) == Settings[s].target - Settings[s].overlap

\* _window: from every Step words on, until one reaches the end.
Windows(s, body) ==
    LET target == Settings[s].target
        after  == IF Len(body) <= target THEN 0 ELSE (Len(body) - target + Step(s) - 1) \div Step(s)
        upto(n) == IF n < Len(body) THEN n ELSE Len(body)
    IN  [k \in 1..(after + 1) |-> SubSeq(body, (k - 1) * Step(s) + 1,
                                               upto((k - 1) * Step(s) + target))]

PiecesOfSection(s, p) ==
    LET windows == Windows(s, p.body)
    IN  [k \in DOMAIN windows |-> [heading |-> p.heading, body |-> windows[k]]]

\* Faulty variant: a runt is dropped.
DropRunt(merged, p) ==
    IF merged # <<>> /\ Len(p.body) < MinTokens THEN merged ELSE Append(merged, p)

\* A runt joins the piece before it, with its heading.
Merge(merged, p) ==
    IF merged # <<>> /\ Len(p.body) < MinTokens
    THEN [merged EXCEPT ![Len(merged)].body = @ \o Prefixed(p)]
    ELSE Append(merged, p)

\* The pieces, one after the other.
Merged(pieces) ==
    LET upto[k \in 0..Len(pieces)] == IF k = 0 THEN <<>> ELSE Merge(upto[k - 1], pieces[k])
    IN  upto[Len(pieces)]

\* chunk_document
ChunkDocument(s, d) ==
    LET sections == Sections(d)
    IN  Merged(FlattenSeq([i \in DOMAIN sections |-> PiecesOfSection(s, sections[i])]))

\* chunk_proposal, chunk_forum_post: of a document without a body the title
\* alone is a chunk, which has no words of its own.
Chunks(s, d) == IF d = <<>> THEN << [heading |-> NoHeading, body |-> <<>>] >> ELSE ChunkDocument(s, d)

IsSubstantive(words, indivisible) ==
    /\ Len(words) > 0
    /\ indivisible \/ Len(words) >= MinBody

\* The numbers of the chunks the loader keeps.  Only a proposal is exempt from
\* the floor, if it is a single chunk.
Substantive(chunks, isProposal) ==
    {i \in DOMAIN chunks : IsSubstantive(Prefixed(chunks[i]), isProposal /\ Len(chunks) = 1)}

-----------------------------------------------------------------------------
(* What chunking promises. *)

\* The sections worth finding: those above the floor, and a runt beside one.
Said(d) ==
    LET sections == Sections(d)
        Long(i)  == Len(sections[i].body) >= MinBody
    IN  {Prefixed(sections[i]) : i \in {j \in DOMAIN sections :
             Long(j) \/ (j > 1 /\ Len(sections[j].body) < MinTokens /\ Long(j - 1))}}

\* The runs of up to n words of x.
Phrases(x, n) == IF Len(x) <= n THEN {x} ELSE {SubSeq(x, i, i + n - 1) : i \in 1..(Len(x) - n + 1)}

Within(p, x) == \E i \in 0..(Len(x) - Len(p)) : SubSeq(x, i + 1, i + Len(p)) = p

\* "Overlap is what keeps a sentence straddling the boundary retrievable from
\* at least one side": a sentence longer than the overlap by no more than a
\* word.
Sentences(s, d) == UNION {Phrases(x, Settings[s].overlap + 1) : x \in Said(d)}
=============================================================================
