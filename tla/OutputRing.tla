----------------------------- MODULE OutputRing -----------------------------
(***************************************************************************)
(* The bounded output of one job (packages/jobs/jobs-local/src/ring.ts): a  *)
(* stream of bytes of which only the newest are retained.  A chunk is known  *)
(* by the offset it starts at, because offsets never move; it ends where the *)
(* next one starts, the last one at total.  Text, channel labels and gap     *)
(* markers are left out, and a byte cut never has to step over a code point. *)
(***************************************************************************)
EXTENDS Naturals, FiniteSetsExt

EmptyRing == [starts |-> {}, total |-> 0]

\* Offset of the oldest retained byte; total when nothing is retained.
Earliest(ring) == Min(ring.starts \union {ring.total})

\* Drops whole chunks from the head until the rest fits the cap; a last chunk
\* that is too large by itself keeps its tail.
Trim(ring, cap) ==
    LET fitting == {at \in ring.starts : ring.total - at <= cap}
    IN  IF ring.starts = {} \/ fitting # {}
        THEN [ring EXCEPT !.starts = fitting]
        ELSE [ring EXCEPT !.starts = {ring.total - cap}]

\* One chunk of the given size; an empty one changes nothing.
AppendChunk(ring, size, cap) ==
    IF size = 0
    THEN ring
    ELSE Trim([starts |-> ring.starts \union {ring.total}, total |-> ring.total + size], cap)

\* Chunks that readFrom returns: those with a byte at or after the offset.
ChunksFrom(ring, from) ==
    {at \in ring.starts : \E end \in ring.starts \union {ring.total} :
        at < end /\ from < end /\ \A other \in ring.starts : other <= at \/ end <= other}
=============================================================================
