------------------------ MODULE BackgroundJobs_proofs ------------------------
(***************************************************************************)
(* Proofs about BackgroundJobs, for every set of jobs, streams and callers,  *)
(* every limit and every size of a ring.                                    *)
(***************************************************************************)
EXTENDS BackgroundJobs, QueueLemmas

-----------------------------------------------------------------------------
(* Rings. *)

Ring == [starts : SUBSET Nat, total : Nat]

\* Trimming gives up bytes, never the count of what was written.
LEMMA TrimRing ==
    ASSUME NEW r \in Ring, NEW cap \in Nat
    PROVE  Trim(r, cap) \in Ring /\ Trim(r, cap).total = r.total
  <1> DEFINE fitting == {at \in r.starts : r.total - at <= cap}
  <1>1. CASE r.starts = {} \/ fitting # {}
    BY <1>1 DEF Trim, Ring
  <1>2. CASE r.starts # {} /\ fitting = {}
    <2>1. PICK at \in r.starts : TRUE
      BY <1>2
    <2>2. at \in Nat /\ r.total \in Nat
      BY <2>1 DEF Ring
    <2>3. r.total - cap \in Nat
      BY <1>2, <2>1, <2>2
    <2>4. Trim(r, cap) = [r EXCEPT !.starts = {r.total - cap}]
      BY <1>2 DEF Trim
    <2> QED
      BY <2>3, <2>4 DEF Ring
  <1> QED
    BY <1>1, <1>2

\* A chunk adds its size to the count.
LEMMA AppendRing ==
    ASSUME NEW r \in Ring, NEW size \in Nat, NEW cap \in Nat
    PROVE  /\ AppendChunk(r, size, cap) \in Ring
           /\ AppendChunk(r, size, cap).total = r.total + size
  <1>1. CASE size = 0
    BY <1>1 DEF AppendChunk, Ring
  <1>2. CASE size # 0
    <2> DEFINE longer == [starts |-> r.starts \union {r.total}, total |-> r.total + size]
    <2>1. longer \in Ring
      BY DEF Ring
    <2>2. AppendChunk(r, size, cap) = Trim(longer, cap)
      BY <1>2 DEF AppendChunk
    <2> HIDE DEF longer
    <2>3. longer.total = r.total + size
      BY DEF longer
    <2> QED
      BY <2>1, <2>2, <2>3, TrimRing
  <1> QED
    BY <1>1, <1>2

\* A drain that reads gets to the end of the source, and puts in the ring what it
\* got, which is everything unless the read is lossy.
LEMMA SourceIsRead ==
    ASSUME TypeOK, PumpInv, NEW j \in Streams, SourceReads(j)
    PROVE  /\ ring' \in [Jobs -> Ring] /\ gaps' \subseteq Jobs
           /\ \A k \in Jobs \ {j} : ring'[k] = ring[k] /\ (k \in gaps' <=> k \in gaps)
           /\ ring'[j].total <= written[j]
           /\ j \notin gaps' => j \notin gaps /\ ring'[j].total = ring[j].total + (written[j] - pulled[j])
  <1> DEFINE fresh == written[j] - pulled[j]
             r == ring[j]
  <1>1. /\ j \in Jobs /\ r \in Ring /\ r.total \in Nat /\ RetainBytes \in Nat
        /\ written[j] \in Nat /\ pulled[j] \in Nat /\ fresh \in Nat
        /\ r.total <= pulled[j] /\ pulled[j] <= written[j] /\ ring \in [Jobs -> Ring]
    BY JobsAssumption, RetainAssumption DEF TypeOK, PumpInv, Ring
  <1>2. PICK kept \in 0 .. fresh :
            /\ gaps' = IF kept < fresh THEN gaps \union {j} ELSE gaps
            /\ ring' = [ring EXCEPT ![j] = AppendChunk(r, kept, RetainBytes)]
    BY <1>1 DEF SourceReads
  <1>3. kept \in Nat /\ kept <= fresh
    BY <1>1, <1>2
  <1> DEFINE longer == AppendChunk(r, kept, RetainBytes)
  <1>4. longer \in Ring /\ longer.total = r.total + kept
    <2> HIDE DEF r, fresh
    <2> QED
      BY <1>1, <1>3, AppendRing
  <1> HIDE DEF longer
  <1>5. ring' = [ring EXCEPT ![j] = longer]
    BY <1>2 DEF longer
  <1>6. /\ ring' \in [Jobs -> Ring] /\ ring'[j] = longer
        /\ \A k \in Jobs \ {j} : ring'[k] = ring[k]
    BY <1>1, <1>4, <1>5
  <1>7. gaps' \subseteq Jobs /\ \A k \in Jobs \ {j} : k \in gaps' <=> k \in gaps
    BY <1>1, <1>2 DEF TypeOK
  <1>8. j \notin gaps' => j \notin gaps /\ kept = fresh
    BY <1>1, <1>2, <1>3
  <1> QED
    BY <1>1, <1>3, <1>4, <1>6, <1>7, <1>8

\* A drain of a live job leaves nothing of the source behind unless it throws, and
\* one of a settled job changes nothing.
LEMMA DrainKeeps ==
    ASSUME TypeOK, PumpInv, NEW j \in Streams, Drain(j)
    PROVE  /\ ring' \in [Jobs -> Ring] /\ pulled' \in [Jobs -> Nat]
           /\ broken' \subseteq Jobs /\ gaps' \subseteq Jobs
           /\ \A k \in Jobs \ {j} :
                /\ ring'[k] = ring[k] /\ pulled'[k] = pulled[k]
                /\ (k \in broken' <=> k \in broken) /\ (k \in gaps' <=> k \in gaps)
           /\ status[j] \in Terminal => UNCHANGED <<source, ring>>
           /\ ring'[j].total <= pulled'[j] /\ pulled'[j] <= written[j]
           /\ status[j] \notin Terminal =>
                /\ j \notin broken' => pulled'[j] = written[j]
                /\ j \notin gaps' => ring'[j].total = pulled'[j]
  <1>1. /\ j \in Jobs /\ ring \in [Jobs -> Ring] /\ pulled \in [Jobs -> Nat]
        /\ ring[j].total \in Nat /\ written[j] \in Nat
        /\ broken \subseteq Jobs /\ gaps \subseteq Jobs
        /\ ring[j].total <= pulled[j] /\ pulled[j] <= written[j]
        /\ status[j] \notin Terminal /\ j \notin gaps => ring[j].total = pulled[j]
    BY JobsAssumption DEF TypeOK, PumpInv, Ring
  <1>2. CASE status[j] \in Terminal
    <2>1. UNCHANGED <<pulled, broken, gaps, ring>>
      BY <1>2 DEF Drain, source
    <2> QED
      BY <1>1, <1>2, <2>1 DEF source
  <1>3. CASE status[j] \notin Terminal /\ SourceFails(j)
    BY <1>1, <1>3 DEF SourceFails
  <1>4. CASE status[j] \notin Terminal /\ SourceReads(j)
    <2>1. /\ pulled' = [pulled EXCEPT ![j] = written[j]] /\ broken' = broken
      BY <1>4 DEF SourceReads
    <2>2. pulled' \in [Jobs -> Nat] /\ pulled'[j] = written[j]
          /\ \A k \in Jobs \ {j} : pulled'[k] = pulled[k]
      BY <1>1, <2>1
    <2>3. /\ ring' \in [Jobs -> Ring] /\ gaps' \subseteq Jobs
          /\ \A k \in Jobs \ {j} : ring'[k] = ring[k] /\ (k \in gaps' <=> k \in gaps)
          /\ ring'[j].total <= written[j]
          /\ j \notin gaps' => /\ j \notin gaps
                               /\ ring'[j].total = ring[j].total + (written[j] - pulled[j])
      BY <1>4, SourceIsRead
    <2> QED
      BY <1>1, <1>4, <2>1, <2>2, <2>3
  <1> QED
    BY <1>2, <1>3, <1>4 DEF Drain

\* What a drop leaves is well typed, and untouched for the jobs it spares.
LEMMA DropTypes ==
    ASSUME TypeOK, NEW STATE S, S \subseteq Jobs, Drop(S)
    PROVE  /\ cause' \in [Jobs -> Causes] /\ announced' \in [Jobs -> Causes]
           /\ written' \in [Jobs -> Nat] /\ pulled' \in [Jobs -> Nat]
           /\ ring' \in [Jobs -> Ring] /\ cursor' \in [Jobs -> Nat]
           /\ told' \in [Jobs -> SUBSET Channels]
  <1>1. EmptyRing \in Ring /\ "none" \in Causes
    BY DEF EmptyRing, Ring, Causes
  <1> QED
    BY <1>1 DEF TypeOK, Drop, Ring

\* No chunk of the ring lies across the cursor of a reader who has not read it all.
NoneAcross(r, from) ==
    /\ from <= r.total
    /\ \A at \in r.starts :
        /\ at < r.total
        /\ at < from /\ from < r.total
                => \E next \in r.starts : at < next /\ next <= from

\* A reader who has read everything is inside no chunk.
LEMMA ReadAllAcross ==
    ASSUME NEW r \in Ring, NEW from \in Nat, NoneAcross(r, from)
    PROVE  NoneAcross(r, r.total)
  BY DEF NoneAcross, Ring

\* Dropping chunks from the head, or the head of the last one, cuts no chunk at
\* the cursor.
LEMMA TrimAcross ==
    ASSUME NEW r \in Ring, NEW cap \in Nat \ {0}, NEW from \in Nat, NoneAcross(r, from)
    PROVE  NoneAcross(Trim(r, cap), from)
  <1> DEFINE fitting == {at \in r.starts : r.total - at <= cap}
  <1>1. r.total \in Nat /\ r.starts \subseteq Nat /\ r = [starts |-> r.starts, total |-> r.total]
    BY DEF Ring
  <1>2. CASE r.starts = {} \/ fitting # {}
    <2>1. Trim(r, cap) = [starts |-> fitting, total |-> r.total]
      BY <1>1, <1>2 DEF Trim
    <2>2. ASSUME NEW at \in fitting, at < from, from < r.total
          PROVE  \E next \in fitting : at < next /\ next <= from
      <3>1. PICK next \in r.starts : at < next /\ next <= from
        BY <2>2 DEF NoneAcross
      <3>2. next \in fitting
        BY <1>1, <3>1
      <3> QED
        BY <3>1, <3>2
    <2> HIDE DEF fitting
    <2>3. \A at \in fitting : at < r.total
      BY DEF NoneAcross, fitting
    <2> QED
      BY <2>1, <2>2, <2>3 DEF NoneAcross
  <1>3. CASE r.starts # {} /\ fitting = {}
    <2>1. Trim(r, cap) = [starts |-> {r.total - cap}, total |-> r.total]
      BY <1>1, <1>3 DEF Trim
    <2>2. \A at \in r.starts : at <= r.total
      BY <1>1 DEF NoneAcross
    <2>3. PICK last \in r.starts : \A at \in r.starts : at <= last
      BY <1>1, <1>3, <2>2, GreatestOf
    <2>4. last < r.total - cap
      BY <1>1, <1>3, <2>3
    <2>5. ~(r.total - cap < from /\ from < r.total)
      <3>1. SUFFICES ASSUME r.total - cap < from, from < r.total
                     PROVE  FALSE
        OBVIOUS
      <3>2. last < from
        BY <1>1, <2>4, <3>1
      <3>3. PICK next \in r.starts : last < next
        BY <3>1, <3>2 DEF NoneAcross
      <3> QED
        BY <1>1, <2>3, <3>3
    <2> QED
      BY <1>1, <2>1, <2>5 DEF NoneAcross
  <1> QED
    BY <1>2, <1>3

\* A chunk starts where the previous one ends.
LEMMA AppendAcross ==
    ASSUME NEW r \in Ring, NEW size \in Nat, NEW cap \in Nat \ {0}, NEW from \in Nat,
           NoneAcross(r, from)
    PROVE  NoneAcross(AppendChunk(r, size, cap), from)
  <1>1. CASE size = 0
    BY <1>1 DEF AppendChunk
  <1>2. CASE size # 0
    <2> DEFINE longer == [starts |-> r.starts \union {r.total}, total |-> r.total + size]
    <2>1. longer \in Ring
      BY DEF Ring
    <2>2. r.total \in Nat /\ r.starts \subseteq Nat
      BY DEF Ring
    <2>3. NoneAcross(longer, from)
      <3>1. from <= longer.total
        BY <2>2 DEF NoneAcross
      <3>2. ASSUME NEW at \in longer.starts
            PROVE  /\ at < longer.total
                   /\ at < from /\ from < longer.total
                        => \E next \in longer.starts : at < next /\ next <= from
        <4>1. CASE at \in r.starts
          <5>1. at < r.total
            BY <4>1 DEF NoneAcross
          <5>2. CASE from < r.total
            BY <1>2, <2>2, <4>1, <5>1, <5>2 DEF NoneAcross
          <5>3. CASE from = r.total
            BY <1>2, <2>2, <4>1, <5>1, <5>3
          <5> QED
            BY <2>2, <5>2, <5>3 DEF NoneAcross
        <4>2. CASE at = r.total
          BY <1>2, <2>2, <4>2 DEF NoneAcross
        <4> QED
          BY <4>1, <4>2
      <3> HIDE DEF longer
      <3> QED
        BY <3>1, <3>2 DEF NoneAcross
    <2>4. AppendChunk(r, size, cap) = Trim(longer, cap)
      BY <1>2 DEF AppendChunk
    <2> HIDE DEF longer
    <2> QED
      BY <2>1, <2>3, <2>4, TrimAcross
  <1> QED
    BY <1>1, <1>2

\* The oldest retained byte is retained, and nothing older is.
LEMMA EarliestIs ==
    ASSUME NEW r \in Ring
    PROVE  /\ Earliest(r) \in r.starts \union {r.total}
           /\ \A at \in r.starts \union {r.total} : Earliest(r) <= at
  <1> DEFINE T == r.starts \union {r.total}
  <1>1. T \subseteq Nat /\ T # {}
    BY DEF Ring
  <1>2. Earliest(r) = CHOOSE n \in T : \A m \in T : n =< m
    BY DEF Earliest, Min
  <1> HIDE DEF T
  <1>3. \E n \in T : \A m \in T : n =< m
    BY <1>1, LeastOf
  <1>4. Earliest(r) \in T /\ \A m \in T : Earliest(r) =< m
    BY <1>2, <1>3
  <1> QED
    BY <1>4 DEF T

\* Trimming to a cap that covers what lies past the cursor drops nothing past it.
LEMMA TrimKeepsUnread ==
    ASSUME NEW r \in Ring, NEW cap \in Nat \ {0}, NEW from \in Nat, NoneAcross(r, from),
           r.total - from <= cap
    PROVE  Earliest(Trim(r, cap)) <= from \/ Earliest(Trim(r, cap)) = Earliest(r)
  <1> DEFINE fitting == {at \in r.starts : r.total - at <= cap}
             trimmed == Trim(r, cap)
  <1>1. r.total \in Nat /\ r.starts \subseteq Nat /\ r = [starts |-> r.starts, total |-> r.total]
    BY DEF Ring
  <1>2. trimmed \in Ring /\ trimmed.total = r.total
    BY TrimRing
  <1>3. /\ Earliest(trimmed) \in Nat
        /\ \A at \in trimmed.starts \union {r.total} : Earliest(trimmed) <= at
    <2> HIDE DEF trimmed
    <2> QED
      BY <1>2, EarliestIs DEF Ring
  <1>4. CASE fitting = r.starts
    <2>1. trimmed = r
      BY <1>1, <1>4 DEF Trim
    <2> QED
      BY <2>1
  <1>5. CASE from = r.total
    BY <1>3, <1>5
  <1>6. CASE from < r.total /\ fitting # r.starts /\ fitting # {}
    <2>1. trimmed.starts = fitting
      BY <1>1, <1>6 DEF Trim
    <2> DEFINE D == r.starts \ fitting
    <2>2. D \subseteq Nat /\ D # {} /\ \A at \in D : at <= r.total
      BY <1>1, <1>6 DEF NoneAcross
    <2>3. PICK last \in D : \A at \in D : at <= last
      <3> HIDE DEF D
      <3> QED
        BY <1>1, <2>2, GreatestOf
    <2>4. last < from
      BY <1>1, <2>3
    <2>5. PICK next \in r.starts : last < next /\ next <= from
      BY <1>6, <2>3, <2>4 DEF NoneAcross
    <2>6. next \in fitting
      BY <1>1, <2>2, <2>3, <2>5
    <2>7. Earliest(trimmed) <= next /\ next \in Nat
      BY <1>1, <1>3, <2>1, <2>5, <2>6
    <2> QED
      BY <1>3, <2>5, <2>7
  <1>7. CASE fitting # r.starts /\ fitting = {}
    <2>1. trimmed.starts = {r.total - cap} /\ r.total - cap <= from
      BY <1>1, <1>7 DEF Trim
    <2> QED
      BY <1>1, <1>2, <1>3, <2>1 DEF Ring
  <1> QED
    BY <1>1, <1>4, <1>5, <1>6, <1>7 DEF NoneAcross

-----------------------------------------------------------------------------
(* A settlement. *)

\* What a settlement leaves of the rings and of the controller is well typed.
LEMMA SettleTypes ==
    ASSUME TypeOK, NEW STATE S, NEW STATE reason, S \subseteq Jobs, reason \in [S -> Causes],
           Settle(S, reason)
    PROVE  /\ announced' \in [Jobs -> Causes]
           /\ ring' \in [Jobs -> Ring]
           /\ \A j \in Jobs : ring'[j].total = ring[j].total
           /\ waitResolvers' \in [Jobs -> SUBSET Callers]
           /\ waiting' \in [Callers -> Jobs \union {NoJob}]
           /\ returning' \in [Callers -> Jobs \union {NoJob}]
           /\ killedByModel' \subseteq Jobs
           /\ told' \in [Jobs -> SUBSET Channels]
           /\ busy' \in BOOLEAN /\ spent' \in Nat
  <1>1. announced' \in [Jobs -> Causes]
    BY DEF Settle, TypeOK
  <1>2. \A j \in Jobs : ring[j] \in Ring /\ cursor[j] \in Nat
    BY DEF TypeOK, Ring
  <1>3. \A j \in Jobs : Trim(ring[j], SettledCap(j)) \in Ring
                        /\ Trim(ring[j], SettledCap(j)).total = ring[j].total
    <2>1. TAKE j \in Jobs
    <2>2. SettledCap(j) \in Nat
      <3>1. ring[j].total \in Nat /\ cursor[j] \in Nat /\ SettledRetainBytes \in Nat
        BY <1>2, RetainAssumption DEF Ring
      <3> QED
        BY <3>1 DEF SettledCap
    <2> QED
      BY <1>2, <2>2, TrimRing
  <1>4. /\ ring' \in [Jobs -> Ring]
        /\ \A j \in Jobs : ring'[j].total = ring[j].total
    BY <1>2, <1>3 DEF Settle
  <1>5. waitResolvers' \in [Jobs -> SUBSET Callers] /\ killedByModel' \subseteq Jobs
    BY DEF Settle, TypeOK
  <1>6. /\ waiting' \in [Callers -> Jobs \union {NoJob}]
        /\ returning' \in [Callers -> Jobs \union {NoJob}]
    BY DEF Settle, TypeOK
  <1>7. told' \in [Jobs -> SUBSET Channels]
    BY DEF Settle, TypeOK, Channels
  <1>8. busy' \in BOOLEAN /\ spent' \in Nat
    BY DEF Settle, TypeOK
  <1> QED
    BY <1>1, <1>4, <1>5, <1>6, <1>7, <1>8

\* A settlement is told by a wait, a kill or a notice, and by a notice alone.
LEMMA SettleTells ==
    ASSUME BooksInv, NEW STATE S, NEW STATE reason, S \subseteq LiveJobs, reason \in [S -> Causes],
           Settle(S, reason), owner # "gone"
    PROVE  \A j \in S :
              /\ reason[j] \in {"producer", "kill"} => told'[j] # {}
              /\ "notice" \in told'[j] => told'[j] = {"notice"}
  <1> USE DEF BooksInv, TypeOK, LiveJobs, WaitsAreListed
  <1> TAKE j \in S
  <1>1. j \in Jobs /\ status[j] \in Live
    OBVIOUS
  <1>2. CASE waitResolvers[j] # {}
    <2>1. PICK c \in Callers : c \in waitResolvers[j]
      BY <1>1, <1>2
    <2>2. waiting[c] = j
      BY <1>1, <2>1
    <2>3. told'[j] = UNION {{"wait"}, IF j \in killedByModel THEN {"kill"} ELSE {}, {}}
      BY <1>1, <1>2, <2>1, <2>2 DEF Settle
    <2> QED
      BY <2>3
  <1>3. CASE waitResolvers[j] = {}
    <2>1. \A c \in Callers : waiting[c] # j
      BY <1>1, <1>3
    <2>2. told'[j] = UNION {IF j \in killedByModel THEN {"kill"} ELSE {},
                            IF j \notin killedByModel /\ reason[j] # "teardown"
                            THEN {"notice"} ELSE {}}
      BY <1>1, <1>3, <2>1 DEF Settle
    <2> QED
      BY <2>2
  <1> QED
    BY <1>2, <1>3

\* A settlement releases exactly the calls that waited for its jobs.
LEMMA SettleReleases ==
    ASSUME BooksInv, NEW STATE S, NEW STATE reason, S \subseteq LiveJobs, Settle(S, reason)
    PROVE  /\ \A c \in Callers : waiting'[c] = IF waiting[c] \in S THEN NoJob ELSE waiting[c]
           /\ \A j \in Jobs : waitResolvers'[j] = IF j \in S THEN {} ELSE waitResolvers[j]
  <1> USE DEF BooksInv, TypeOK, LiveJobs, WaitsAreListed
  <1>1. \A j \in Jobs : waitResolvers'[j] = IF j \in S THEN {} ELSE waitResolvers[j]
    BY DEF Settle
  <1>2. \A c \in Callers : waiting[c] \in S => c \in waitResolvers[waiting[c]]
    OBVIOUS
  <1>3. \A c \in Callers : waiting[c] \in S <=>
            \E j \in S : waitResolvers[j] # {} /\ waiting[c] = j /\ c \in waitResolvers[j]
    BY <1>2
  <1> QED
    BY <1>1, <1>3 DEF Settle

\* The two steps that settle jobs, as the lemmas above see them.
LEMMA ProducerSettlesOne ==
    ASSUME BooksInv, NEW j \in Jobs, ProducerSettles(j)
    PROVE  /\ owner # "gone" /\ {j} \subseteq LiveJobs /\ work[j] \in Terminal
           /\ \E reason \in [{j} -> Causes \ {"none"}] : Settle({j}, reason)
  <1> DEFINE why == [k \in {j} |-> IF cause[k] = "none" THEN "producer" ELSE cause[k]]
  <1>1. {j} \subseteq LiveJobs /\ work[j] \in Terminal
    BY DEF ProducerSettles, MaySettle, LiveJobs
  <1>2. owner # "gone"
    BY <1>1 DEF BooksInv, NoJobOutlivesItsOwner
  <1>3. why \in [{j} -> Causes \ {"none"}]
    BY DEF BooksInv, TypeOK, Causes
  <1>4. Settle({j}, why)
    BY DEF ProducerSettles
  <1> QED
    BY <1>1, <1>2, <1>3, <1>4

LEMMA DisposalSettlesThrown ==
    ASSUME BooksInv, DisposeOwned
    PROVE  \E thrown \in SUBSET LiveJobs :
              /\ [j \in thrown |-> "teardown"] \in [thrown -> Causes]
              /\ Settle(thrown, [j \in thrown |-> "teardown"])
              /\ \A c \in Callers : waiting'[c] = IF waiting[c] \in thrown THEN NoJob
                                                  ELSE waiting[c]
              /\ \A j \in Jobs : waitResolvers'[j] = IF j \in thrown THEN {}
                                                     ELSE waitResolvers[j]
              /\ asked' = asked \union (LiveJobs \ thrown)
              /\ status' = [j \in Jobs |-> IF j \in thrown THEN "failed"
                                           ELSE IF j \in LiveJobs THEN "stopping"
                                           ELSE status[j]]
              /\ cause' = [j \in Jobs |-> IF j \in LiveJobs THEN "teardown" ELSE cause[j]]
  <1>1. PICK thrown \in SUBSET LiveJobs :
              /\ Settle(thrown, [j \in thrown |-> "teardown"])
              /\ asked' = asked \union (LiveJobs \ thrown)
              /\ status' = [j \in Jobs |-> IF j \in thrown THEN "failed"
                                           ELSE IF j \in LiveJobs THEN "stopping"
                                           ELSE status[j]]
              /\ cause' = [j \in Jobs |-> IF j \in LiveJobs THEN "teardown" ELSE cause[j]]
    BY DEF DisposeOwned, SettledByForce
  <1>2. [j \in thrown |-> "teardown"] \in [thrown -> Causes]
    BY DEF Causes
  <1>3. /\ \A c \in Callers : waiting'[c] = IF waiting[c] \in thrown THEN NoJob ELSE waiting[c]
        /\ \A j \in Jobs : waitResolvers'[j] = IF j \in thrown THEN {} ELSE waitResolvers[j]
    BY <1>1, SettleReleases
  <1> QED
    BY <1>1, <1>2, <1>3

-----------------------------------------------------------------------------
(* Type correctness. *)

\* A read moves the cursor to the end of the stream and may drop read bytes.
LEMMA ReadTypes ==
    ASSUME TypeOK, NEW j \in Jobs, Read(j)
    PROVE  /\ ring' \in [Jobs -> Ring] /\ cursor' \in [Jobs -> Nat]
           /\ \A k \in Jobs : ring'[k].total = ring[k].total
  <1>1. ring \in [Jobs -> Ring] /\ cursor \in [Jobs -> Nat] /\ ring[j].total \in Nat
    BY DEF TypeOK, Ring
  <1>2. /\ Trim(ring[j], SettledRetainBytes) \in Ring
        /\ Trim(ring[j], SettledRetainBytes).total = ring[j].total
    BY <1>1, RetainAssumption, TrimRing
  <1> QED
    BY <1>1, <1>2 DEF Read

\* Every step keeps the registry, the rings and the books of the controller typed.
LEMMA TypeStep ==
    ASSUME BooksInv, [Next]_vars
    PROVE  TypeOK'
  <1> USE DEF BooksInv, TypeOK, registry, producer, source, output, calls, controller
  <1>1. CASE \E j \in Jobs : Start(j)
    BY <1>1 DEF Start, Live
  <1>2. CASE \E j \in Jobs : ProducerWrites(j)
    BY <1>2 DEF ProducerWrites
  <1>3. CASE \E j \in Jobs : PumpPolls(j)
    <2>1. PICK j \in Jobs : PumpPolls(j)
      BY <1>3
    <2>2. j \in Streams
      BY <2>1 DEF PumpPolls, StreamInv
    <2>3. /\ ring' \in [Jobs -> Ring] /\ pulled' \in [Jobs -> Nat]
          /\ broken' \subseteq Jobs /\ gaps' \subseteq Jobs
      BY <2>1, <2>2, DrainKeeps DEF PumpPolls
    <2> QED
      BY <2>1, <2>3 DEF PumpPolls, Ring
  <1>4. CASE \E j \in Jobs : PumpEnds(j)
    <2>1. PICK j \in Jobs : PumpEnds(j)
      BY <1>4
    <2>2. j \in Streams
      BY <2>1 DEF PumpEnds, StreamInv
    <2>3. /\ ring' \in [Jobs -> Ring] /\ pulled' \in [Jobs -> Nat]
          /\ broken' \subseteq Jobs /\ gaps' \subseteq Jobs
      BY <2>1, <2>2, DrainKeeps DEF PumpEnds
    <2> QED
      BY <2>1, <2>3 DEF PumpEnds, Ring
  <1>5. CASE \E j \in Jobs : ProducerSettles(j)
    <2>1. PICK j \in Jobs : ProducerSettles(j)
      BY <1>5
    <2>2. PICK reason \in [{j} -> Causes \ {"none"}] : Settle({j}, reason)
      BY <2>1, ProducerSettlesOne
    <2>3. reason \in [{j} -> Causes]
      BY <2>2
    <2>4. status' \in [Jobs -> {"unborn"} \union Live \union Terminal]
      BY <2>1 DEF ProducerSettles
    <2> QED
      BY <2>1, <2>2, <2>3, <2>4, SettleTypes DEF ProducerSettles, Ring
  <1>6. CASE \E j \in Jobs, outcome \in Outcomes : ProducerEnds(j, outcome)
    BY <1>6, OutcomesAssumption DEF ProducerEnds, Terminal
  <1>7. CASE \E j \in Jobs : OutputRead(j)
    <2>1. PICK j \in Jobs : OutputRead(j)
      BY <1>7
    <2>2. ring' \in [Jobs -> Ring] /\ cursor' \in [Jobs -> Nat]
      BY <2>1, ReadTypes DEF OutputRead
    <2> QED
      BY <2>1, <2>2 DEF OutputRead, Ring
  <1>8. CASE \E j \in Jobs : KillByModel(j)
    BY <1>8 DEF KillByModel, Kill, Live, Causes
  <1>9. CASE \E j \in Jobs : KillByUser(j)
    BY <1>9 DEF KillByUser, Kill, Live, Causes
  <1>10. CASE \E c \in Callers, j \in Jobs : WaitStarts(c, j)
    BY <1>10 DEF WaitStarts
  <1>11. CASE \E c \in Callers : WaitTimesOut(c)
    BY <1>11 DEF WaitTimesOut, Unlisted
  <1>12. CASE \E c \in Callers : WaitAborts(c)
    BY <1>12 DEF WaitAborts, Unlisted
  <1>13. CASE \E c \in Callers : WaitReturns(c)
    <2>1. PICK c \in Callers, j \in Jobs :
            /\ returning' = [returning EXCEPT ![c] = NoJob]
            /\ IF j \in store THEN Read(j) ELSE UNCHANGED <<ring, cursor>>
      BY <1>13 DEF WaitReturns
    <2>2. ring' \in [Jobs -> Ring] /\ cursor' \in [Jobs -> Nat]
      BY <2>1, ReadTypes DEF Ring
    <2> QED
      BY <1>13, <2>1, <2>2 DEF WaitReturns, Ring
  <1>14. CASE UserTurn
    BY <1>14 DEF UserTurn
  <1>15. CASE TurnEnds
    BY <1>15 DEF TurnEnds
  <1>16. CASE OwnerLeaves
    BY <1>16 DEF OwnerLeaves
  <1>17. CASE DisposeOwned
    <2>1. PICK thrown \in SUBSET LiveJobs :
              /\ [j \in thrown |-> "teardown"] \in [thrown -> Causes]
              /\ Settle(thrown, [j \in thrown |-> "teardown"])
              /\ asked' = asked \union (LiveJobs \ thrown)
              /\ status' = [j \in Jobs |-> IF j \in thrown THEN "failed"
                                           ELSE IF j \in LiveJobs THEN "stopping"
                                           ELSE status[j]]
              /\ cause' = [j \in Jobs |-> IF j \in LiveJobs THEN "teardown" ELSE cause[j]]
      BY <1>17, DisposalSettlesThrown
    <2>2. thrown \subseteq Jobs /\ LiveJobs \subseteq Jobs
      BY DEF LiveJobs
    <2>3. status' \in [Jobs -> {"unborn"} \union Live \union Terminal]
      BY <2>1 DEF Live, Terminal
    <2>4. cause' \in [Jobs -> Causes] /\ asked' \subseteq Jobs
      BY <2>1, <2>2 DEF Causes
    <2>5. owner' \in {"live", "leaving", "cleanup", "gone"}
      BY <1>17 DEF DisposeOwned
    <2> QED
      BY <1>17, <2>1, <2>2, <2>3, <2>4, <2>5, SettleTypes DEF DisposeOwned, Ring
  <1>18. CASE OwnerGone
    <2>1. Drop(store) /\ owner' = "gone"
      BY <1>18 DEF OwnerGone
    <2> QED
      BY <2>1, DropTypes DEF Drop, Ring
  <1>19. CASE \E j \in Jobs : RemoveJob(j)
    <2>1. PICK S \in SUBSET Jobs : Drop(S) /\ owner' = owner
      BY <1>19 DEF RemoveJob
    <2> QED
      BY <2>1, DropTypes DEF Drop, Ring
  <1>20. CASE UNCHANGED vars
    BY <1>20 DEF vars
  <1> QED
    BY <1>1, <1>2, <1>3, <1>4, <1>5, <1>6, <1>7, <1>8, <1>9, <1>10, <1>11, <1>12, <1>13,
       <1>14, <1>15, <1>16, <1>17, <1>18, <1>19, <1>20 DEF Next, JobNext, CallNext

-----------------------------------------------------------------------------
(* The books of the registry and of its controller. *)

\* Every settlement with a reader left is told, and told once.
LEMMA ToldStep ==
    ASSUME BooksInv, [Next]_vars
    PROVE  SettlementIsTold'
  <1> USE DEF BooksInv, SettlementIsTold, registry, producer, source, output, calls, controller
  <1>1. CASE \E j \in Jobs : Start(j)
    BY <1>1 DEF Start
  <1>2. CASE \E j \in Jobs : ProducerWrites(j)
    BY <1>2 DEF ProducerWrites
  <1>3. CASE \E j \in Jobs : PumpPolls(j)
    BY <1>3 DEF PumpPolls
  <1>4. CASE \E j \in Jobs : PumpEnds(j)
    BY <1>4 DEF PumpEnds
  <1>5. CASE \E j \in Jobs : ProducerSettles(j)
    <2>1. PICK j \in Jobs : ProducerSettles(j)
      BY <1>5
    <2>2. PICK reason \in [{j} -> Causes \ {"none"}] : Settle({j}, reason)
      BY <2>1, ProducerSettlesOne
    <2>3. {j} \subseteq LiveJobs /\ owner # "gone" /\ work[j] \in Terminal
      BY <2>1, ProducerSettlesOne
    <2>4. reason \in [{j} -> Causes]
      BY <2>2
    <2>5. /\ reason[j] \in {"producer", "kill"} => told'[j] # {}
          /\ "notice" \in told'[j] => told'[j] = {"notice"}
      BY <2>2, <2>3, <2>4, SettleTells
    <2>6. announced'[j] = reason[j]
      BY <2>2 DEF Settle
    <2>7. \A k \in Jobs \ {j} : told'[k] = told[k] /\ announced'[k] = announced[k]
      BY <2>2 DEF Settle
    <2> QED
      BY <2>5, <2>6, <2>7
  <1>6. CASE \E j \in Jobs, outcome \in Outcomes : ProducerEnds(j, outcome)
    BY <1>6 DEF ProducerEnds
  <1>7. CASE \E j \in Jobs : OutputRead(j)
    BY <1>7 DEF OutputRead, Read
  <1>8. CASE \E j \in Jobs : KillByModel(j)
    BY <1>8 DEF KillByModel, Kill
  <1>9. CASE \E j \in Jobs : KillByUser(j)
    BY <1>9 DEF KillByUser, Kill
  <1>10. CASE \E c \in Callers, j \in Jobs : WaitStarts(c, j)
    BY <1>10 DEF WaitStarts
  <1>11. CASE \E c \in Callers : WaitTimesOut(c)
    BY <1>11 DEF WaitTimesOut, Unlisted
  <1>12. CASE \E c \in Callers : WaitAborts(c)
    BY <1>12 DEF WaitAborts, Unlisted
  <1>13. CASE \E c \in Callers : WaitReturns(c)
    BY <1>13 DEF WaitReturns, Read
  <1>14. CASE UserTurn
    BY <1>14 DEF UserTurn
  <1>15. CASE TurnEnds
    BY <1>15 DEF TurnEnds
  <1>16. CASE OwnerLeaves
    BY <1>16 DEF OwnerLeaves
  <1>17. CASE DisposeOwned
    <2>1. PICK thrown \in SUBSET LiveJobs :
              /\ [j \in thrown |-> "teardown"] \in [thrown -> Causes]
              /\ Settle(thrown, [j \in thrown |-> "teardown"])
              /\ \A c \in Callers : waiting'[c] = IF waiting[c] \in thrown THEN NoJob
                                                  ELSE waiting[c]
              /\ \A j \in Jobs : waitResolvers'[j] = IF j \in thrown THEN {}
                                                     ELSE waitResolvers[j]
              /\ status' = [j \in Jobs |-> IF j \in thrown THEN "failed"
                                           ELSE IF j \in LiveJobs THEN "stopping"
                                           ELSE status[j]]
      BY <1>17, DisposalSettlesThrown
    <2>2. owner # "gone"
      BY <1>17 DEF DisposeOwned
    <2>3. \A j \in thrown :
              /\ announced'[j] = "teardown"
              /\ "notice" \in told'[j] => told'[j] = {"notice"}
      <3>1. \A j \in thrown : "notice" \in told'[j] => told'[j] = {"notice"}
        BY <2>1, <2>2, SettleTells
      <3>2. \A j \in thrown : announced'[j] = "teardown"
        BY <2>1 DEF Settle, LiveJobs
      <3> QED
        BY <3>1, <3>2
    <2>4. \A k \in Jobs \ thrown : told'[k] = told[k] /\ announced'[k] = announced[k]
      BY <2>1 DEF Settle
    <2> QED
      BY <2>3, <2>4
  <1>18. CASE OwnerGone
    BY <1>18 DEF OwnerGone, Drop
  <1>19. CASE \E j \in Jobs : RemoveJob(j)
    BY <1>19 DEF RemoveJob, Drop
  <1>20. CASE UNCHANGED vars
    BY <1>20 DEF vars
  <1> QED
    BY <1>1, <1>2, <1>3, <1>4, <1>5, <1>6, <1>7, <1>8, <1>9, <1>10, <1>11, <1>12, <1>13,
       <1>14, <1>15, <1>16, <1>17, <1>18, <1>19, <1>20 DEF Next, JobNext, CallNext

\* A call is registered with the live job it waits for, and with no other.
LEMMA ListedStep ==
    ASSUME BooksInv, [Next]_vars
    PROVE  WaitsAreListed'
  <1> USE DEF BooksInv, TypeOK, Live, Terminal, LiveJobs, WaitsAreListed, LivesInv,
            registry, producer, source, output, calls, controller
  <1>1. CASE \E j \in Jobs : Start(j)
    BY <1>1, JobsAssumption DEF Start
  <1>2. CASE \E j \in Jobs : ProducerWrites(j)
    BY <1>2, JobsAssumption DEF ProducerWrites
  <1>3. CASE \E j \in Jobs : PumpPolls(j)
    BY <1>3, JobsAssumption DEF PumpPolls
  <1>4. CASE \E j \in Jobs : PumpEnds(j)
    BY <1>4, JobsAssumption DEF PumpEnds
  <1>5. CASE \E j \in Jobs : ProducerSettles(j)
    <2>1. PICK j \in Jobs : ProducerSettles(j)
      BY <1>5
    <2>2. PICK reason \in [{j} -> Causes \ {"none"}] : Settle({j}, reason)
      BY <2>1, ProducerSettlesOne
    <2>3. {j} \subseteq LiveJobs /\ owner # "gone" /\ work[j] \in Terminal
      BY <2>1, ProducerSettlesOne
    <2>4. \A c \in Callers : waiting'[c] = IF waiting[c] \in {j} THEN NoJob ELSE waiting[c]
      BY <2>2, <2>3, SettleReleases
    <2>5. \A k \in Jobs : waitResolvers'[k] = IF k \in {j} THEN {} ELSE waitResolvers[k]
      BY <2>2, <2>3, SettleReleases
    <2>6. status' = [status EXCEPT ![j] = work[j]] /\ store' = store
      BY <2>1 DEF ProducerSettles
    <2>7. \A k \in Jobs \ {j} : announced'[k] = announced[k]
      BY <2>2 DEF Settle
    <2> QED
      BY <2>3, <2>4, <2>5, <2>6, <2>7, JobsAssumption
  <1>6. CASE \E j \in Jobs, outcome \in Outcomes : ProducerEnds(j, outcome)
    BY <1>6, JobsAssumption DEF ProducerEnds
  <1>7. CASE \E j \in Jobs : OutputRead(j)
    BY <1>7, JobsAssumption DEF OutputRead, Read
  <1>8. CASE \E j \in Jobs : KillByModel(j)
    BY <1>8, JobsAssumption DEF KillByModel, Kill
  <1>9. CASE \E j \in Jobs : KillByUser(j)
    BY <1>9, JobsAssumption DEF KillByUser, Kill
  <1>10. CASE \E c \in Callers, j \in Jobs : WaitStarts(c, j)
    BY <1>10, JobsAssumption DEF WaitStarts
  <1>11. CASE \E c \in Callers : WaitTimesOut(c)
    BY <1>11, JobsAssumption DEF WaitTimesOut, Unlisted
  <1>12. CASE \E c \in Callers : WaitAborts(c)
    BY <1>12, JobsAssumption DEF WaitAborts, Unlisted
  <1>13. CASE \E c \in Callers : WaitReturns(c)
    BY <1>13, JobsAssumption DEF WaitReturns, Read
  <1>14. CASE UserTurn
    BY <1>14, JobsAssumption DEF UserTurn
  <1>15. CASE TurnEnds
    BY <1>15, JobsAssumption DEF TurnEnds
  <1>16. CASE OwnerLeaves
    BY <1>16, JobsAssumption DEF OwnerLeaves
  <1>17. CASE DisposeOwned
    <2>1. PICK thrown \in SUBSET LiveJobs :
              /\ [j \in thrown |-> "teardown"] \in [thrown -> Causes]
              /\ Settle(thrown, [j \in thrown |-> "teardown"])
              /\ \A c \in Callers : waiting'[c] = IF waiting[c] \in thrown THEN NoJob
                                                  ELSE waiting[c]
              /\ \A j \in Jobs : waitResolvers'[j] = IF j \in thrown THEN {}
                                                     ELSE waitResolvers[j]
              /\ status' = [j \in Jobs |-> IF j \in thrown THEN "failed"
                                           ELSE IF j \in LiveJobs THEN "stopping"
                                           ELSE status[j]]
      BY ZenonT(40), <1>17, DisposalSettlesThrown
    <2>2. \A c \in Callers : waiting'[c] = IF waiting[c] \in thrown THEN NoJob ELSE waiting[c]
      BY <2>1
    <2>3. \A k \in Jobs : waitResolvers'[k] = IF k \in thrown THEN {} ELSE waitResolvers[k]
      BY <2>1
    <2>4. \A k \in Jobs :
              /\ k \in thrown => status'[k] = "failed"
              /\ k \in LiveJobs \ thrown => status'[k] = "stopping"
              /\ k \notin LiveJobs => status'[k] = status[k]
      BY <2>1
    <2>5. \A k \in Jobs \ thrown : announced'[k] = announced[k]
      BY <2>1 DEF Settle
    <2>6. store' = store
      BY <1>17 DEF DisposeOwned
    <2> QED
      BY <2>1, <2>2, <2>3, <2>4, <2>5, <2>6, JobsAssumption
  <1>18. CASE OwnerGone
    BY <1>18, JobsAssumption DEF OwnerGone, Drop
  <1>19. CASE \E j \in Jobs : RemoveJob(j)
    BY <1>19, JobsAssumption DEF RemoveJob, Drop
  <1>20. CASE UNCHANGED vars
    BY <1>20 DEF vars
  <1> QED
    BY <1>1, <1>2, <1>3, <1>4, <1>5, <1>6, <1>7, <1>8, <1>9, <1>10, <1>11, <1>12, <1>13,
       <1>14, <1>15, <1>16, <1>17, <1>18, <1>19, <1>20 DEF Next, JobNext, CallNext

\* Records, statuses and announcements stay in step.
LEMMA LivesStep ==
    ASSUME BooksInv, [Next]_vars
    PROVE  LivesInv'
  <1> USE DEF BooksInv, TypeOK, Live, Terminal, LiveJobs, LivesInv, registry, producer,
            source, output, calls, controller
  <1>1. CASE \E j \in Jobs : Start(j)
    BY <1>1, JobsAssumption DEF Start
  <1>2. CASE \E j \in Jobs : ProducerWrites(j)
    BY <1>2, JobsAssumption DEF ProducerWrites
  <1>3. CASE \E j \in Jobs : PumpPolls(j)
    BY <1>3, JobsAssumption DEF PumpPolls
  <1>4. CASE \E j \in Jobs : PumpEnds(j)
    BY <1>4, JobsAssumption DEF PumpEnds
  <1>5. CASE \E j \in Jobs : ProducerSettles(j)
    <2>1. PICK j \in Jobs : ProducerSettles(j)
      BY <1>5
    <2>2. PICK reason \in [{j} -> Causes \ {"none"}] : Settle({j}, reason)
      BY <2>1, ProducerSettlesOne
    <2>3. {j} \subseteq LiveJobs /\ owner # "gone" /\ work[j] \in Terminal
      BY <2>1, ProducerSettlesOne
    <2>4. \A c \in Callers : waiting'[c] = IF waiting[c] \in {j} THEN NoJob ELSE waiting[c]
      BY <2>2, <2>3, SettleReleases
    <2>5. \A k \in Jobs : waitResolvers'[k] = IF k \in {j} THEN {} ELSE waitResolvers[k]
      BY <2>2, <2>3, SettleReleases
    <2>6. status' = [status EXCEPT ![j] = work[j]] /\ store' = store
      BY <2>1 DEF ProducerSettles
    <2>7. \A k \in Jobs \ {j} : announced'[k] = announced[k]
      BY <2>2 DEF Settle
    <2> QED
      BY <2>3, <2>4, <2>5, <2>6, <2>7, JobsAssumption
  <1>6. CASE \E j \in Jobs, outcome \in Outcomes : ProducerEnds(j, outcome)
    BY <1>6, JobsAssumption DEF ProducerEnds
  <1>7. CASE \E j \in Jobs : OutputRead(j)
    BY <1>7, JobsAssumption DEF OutputRead, Read
  <1>8. CASE \E j \in Jobs : KillByModel(j)
    BY <1>8, JobsAssumption DEF KillByModel, Kill
  <1>9. CASE \E j \in Jobs : KillByUser(j)
    BY <1>9, JobsAssumption DEF KillByUser, Kill
  <1>10. CASE \E c \in Callers, j \in Jobs : WaitStarts(c, j)
    BY <1>10, JobsAssumption DEF WaitStarts
  <1>11. CASE \E c \in Callers : WaitTimesOut(c)
    BY <1>11, JobsAssumption DEF WaitTimesOut, Unlisted
  <1>12. CASE \E c \in Callers : WaitAborts(c)
    BY <1>12, JobsAssumption DEF WaitAborts, Unlisted
  <1>13. CASE \E c \in Callers : WaitReturns(c)
    BY <1>13, JobsAssumption DEF WaitReturns, Read
  <1>14. CASE UserTurn
    BY <1>14, JobsAssumption DEF UserTurn
  <1>15. CASE TurnEnds
    BY <1>15, JobsAssumption DEF TurnEnds
  <1>16. CASE OwnerLeaves
    BY <1>16, JobsAssumption DEF OwnerLeaves
  <1>17. CASE DisposeOwned
    <2>1. PICK thrown \in SUBSET LiveJobs :
              /\ [j \in thrown |-> "teardown"] \in [thrown -> Causes]
              /\ Settle(thrown, [j \in thrown |-> "teardown"])
              /\ \A c \in Callers : waiting'[c] = IF waiting[c] \in thrown THEN NoJob
                                                  ELSE waiting[c]
              /\ \A j \in Jobs : waitResolvers'[j] = IF j \in thrown THEN {}
                                                     ELSE waitResolvers[j]
              /\ status' = [j \in Jobs |-> IF j \in thrown THEN "failed"
                                           ELSE IF j \in LiveJobs THEN "stopping"
                                           ELSE status[j]]
      BY <1>17, DisposalSettlesThrown
    <2>2. \A c \in Callers : waiting'[c] = IF waiting[c] \in thrown THEN NoJob ELSE waiting[c]
      BY <2>1
    <2>3. \A k \in Jobs : waitResolvers'[k] = IF k \in thrown THEN {} ELSE waitResolvers[k]
      BY <2>1
    <2>4. \A k \in Jobs :
              /\ k \in thrown => status'[k] = "failed"
              /\ k \in LiveJobs \ thrown => status'[k] = "stopping"
              /\ k \notin LiveJobs => status'[k] = status[k]
      BY <2>1
    <2>5. \A k \in Jobs \ thrown : announced'[k] = announced[k]
      BY <2>1 DEF Settle
    <2>6. store' = store
      BY <1>17 DEF DisposeOwned
    <2> QED
      BY <2>1, <2>2, <2>3, <2>4, <2>5, <2>6, JobsAssumption
  <1>18. CASE OwnerGone
    BY <1>18, JobsAssumption DEF OwnerGone, Drop
  <1>19. CASE \E j \in Jobs : RemoveJob(j)
    BY <1>19, JobsAssumption DEF RemoveJob, Drop
  <1>20. CASE UNCHANGED vars
    BY <1>20 DEF vars
  <1> QED
    BY <1>1, <1>2, <1>3, <1>4, <1>5, <1>6, <1>7, <1>8, <1>9, <1>10, <1>11, <1>12, <1>13,
       <1>14, <1>15, <1>16, <1>17, <1>18, <1>19, <1>20 DEF Next, JobNext, CallNext

\* A pump is started with a stream only.
LEMMA StreamStep ==
    ASSUME BooksInv, [Next]_vars
    PROVE  StreamInv'
  <1> USE DEF BooksInv, TypeOK, StreamInv, registry, producer, source, output, calls, controller
  <1>1. CASE \E j \in Jobs : Start(j)
    BY <1>1 DEF Start
  <1>2. CASE \E j \in Jobs : ProducerWrites(j)
    BY <1>2 DEF ProducerWrites
  <1>3. CASE \E j \in Jobs : PumpPolls(j)
    BY <1>3 DEF PumpPolls
  <1>4. CASE \E j \in Jobs : PumpEnds(j)
    BY <1>4 DEF PumpEnds
  <1>5. CASE \E j \in Jobs : ProducerSettles(j)
    BY <1>5 DEF ProducerSettles
  <1>6. CASE \E j \in Jobs, outcome \in Outcomes : ProducerEnds(j, outcome)
    BY <1>6 DEF ProducerEnds
  <1>7. CASE \E j \in Jobs : OutputRead(j)
    BY <1>7 DEF OutputRead, Read
  <1>8. CASE \E j \in Jobs : KillByModel(j)
    BY <1>8 DEF KillByModel, Kill
  <1>9. CASE \E j \in Jobs : KillByUser(j)
    BY <1>9 DEF KillByUser, Kill
  <1>10. CASE \E c \in Callers, j \in Jobs : WaitStarts(c, j)
    BY <1>10 DEF WaitStarts
  <1>11. CASE \E c \in Callers : WaitTimesOut(c)
    BY <1>11 DEF WaitTimesOut, Unlisted
  <1>12. CASE \E c \in Callers : WaitAborts(c)
    BY <1>12 DEF WaitAborts, Unlisted
  <1>13. CASE \E c \in Callers : WaitReturns(c)
    BY <1>13 DEF WaitReturns, Read
  <1>14. CASE UserTurn
    BY <1>14 DEF UserTurn
  <1>15. CASE TurnEnds
    BY <1>15 DEF TurnEnds
  <1>16. CASE OwnerLeaves
    BY <1>16 DEF OwnerLeaves
  <1>17. CASE DisposeOwned
    BY <1>17 DEF DisposeOwned
  <1>18. CASE OwnerGone
    BY <1>18 DEF OwnerGone, Drop
  <1>19. CASE \E j \in Jobs : RemoveJob(j)
    BY <1>19 DEF RemoveJob, Drop
  <1>20. CASE UNCHANGED vars
    BY <1>20 DEF vars
  <1> QED
    BY <1>1, <1>2, <1>3, <1>4, <1>5, <1>6, <1>7, <1>8, <1>9, <1>10, <1>11, <1>12, <1>13,
       <1>14, <1>15, <1>16, <1>17, <1>18, <1>19, <1>20 DEF Next, JobNext, CallNext

\* An owner that is gone has no jobs, and gets none.
LEMMA OwnerStep ==
    ASSUME BooksInv, [Next]_vars
    PROVE  NoJobOutlivesItsOwner'
  <1> USE DEF BooksInv, TypeOK, Live, Terminal, LiveJobs, NoJobOutlivesItsOwner,
            registry, producer, source, output, calls, controller
  <1>1. CASE \E j \in Jobs : Start(j)
    BY <1>1 DEF Start
  <1>2. CASE \E j \in Jobs : ProducerWrites(j)
    BY <1>2 DEF ProducerWrites
  <1>3. CASE \E j \in Jobs : PumpPolls(j)
    BY <1>3 DEF PumpPolls
  <1>4. CASE \E j \in Jobs : PumpEnds(j)
    BY <1>4 DEF PumpEnds
  <1>5. CASE \E j \in Jobs : ProducerSettles(j)
    BY <1>5 DEF ProducerSettles
  <1>6. CASE \E j \in Jobs, outcome \in Outcomes : ProducerEnds(j, outcome)
    BY <1>6 DEF ProducerEnds
  <1>7. CASE \E j \in Jobs : OutputRead(j)
    BY <1>7 DEF OutputRead, Read
  <1>8. CASE \E j \in Jobs : KillByModel(j)
    BY <1>8 DEF KillByModel, Kill
  <1>9. CASE \E j \in Jobs : KillByUser(j)
    BY <1>9 DEF KillByUser, Kill
  <1>10. CASE \E c \in Callers, j \in Jobs : WaitStarts(c, j)
    BY <1>10 DEF WaitStarts
  <1>11. CASE \E c \in Callers : WaitTimesOut(c)
    BY <1>11 DEF WaitTimesOut, Unlisted
  <1>12. CASE \E c \in Callers : WaitAborts(c)
    BY <1>12 DEF WaitAborts, Unlisted
  <1>13. CASE \E c \in Callers : WaitReturns(c)
    BY <1>13 DEF WaitReturns, Read
  <1>14. CASE UserTurn
    BY <1>14 DEF UserTurn
  <1>15. CASE TurnEnds
    BY <1>15 DEF TurnEnds
  <1>16. CASE OwnerLeaves
    BY <1>16 DEF OwnerLeaves
  <1>17. CASE DisposeOwned
    BY <1>17 DEF DisposeOwned
  <1>18. CASE OwnerGone
    BY <1>18 DEF OwnerGone, Drop
  <1>19. CASE \E j \in Jobs : RemoveJob(j)
    BY <1>19 DEF RemoveJob, Drop
  <1>20. CASE UNCHANGED vars
    BY <1>20 DEF vars
  <1> QED
    BY <1>1, <1>2, <1>3, <1>4, <1>5, <1>6, <1>7, <1>8, <1>9, <1>10, <1>11, <1>12, <1>13,
       <1>14, <1>15, <1>16, <1>17, <1>18, <1>19, <1>20 DEF Next, JobNext, CallNext

\* The pump stays behind the source, and the settlement behind the pump.
LEMMA PumpStep ==
    ASSUME BooksInv, OutputPrecedesSettlement, [Next]_vars
    PROVE  PumpInv' /\ OutputPrecedesSettlement'
  <1> USE DEF BooksInv, TypeOK, Live, Terminal, LiveJobs, LivesInv, StreamInv, PumpInv,
            OutputPrecedesSettlement, registry, producer, source, output, calls, controller
  <1>1. CASE \E j \in Jobs : Start(j)
    BY <1>1, JobsAssumption DEF Start
  <1>2. CASE \E j \in Jobs : ProducerWrites(j)
    BY <1>2, JobsAssumption DEF ProducerWrites
  <1>3. CASE \E j \in Jobs : PumpPolls(j)
    <2>1. PICK j \in Jobs : PumpPolls(j)
      BY <1>3
    <2>2. j \in Streams
      BY <2>1 DEF PumpPolls
    <2>3. /\ \A k \in Jobs \ {j} :
                /\ ring'[k] = ring[k] /\ pulled'[k] = pulled[k]
                /\ (k \in broken' <=> k \in broken) /\ (k \in gaps' <=> k \in gaps)
          /\ status[j] \in Terminal => UNCHANGED <<source, ring>>
          /\ ring'[j].total <= pulled'[j] /\ pulled'[j] <= written[j]
          /\ status[j] \notin Terminal =>
                /\ j \notin broken' => pulled'[j] = written[j]
                /\ j \notin gaps' => ring'[j].total = pulled'[j]
      BY <2>1, <2>2, DrainKeeps DEF PumpPolls
    <2>4. UNCHANGED <<status, announced, work, written>> /\ pump'[j] = pump[j]
          /\ \A k \in Jobs \ {j} : pump'[k] = pump[k]
      BY <2>1 DEF PumpPolls
    <2>5. \A k \in Streams \ {j} : k \in Jobs \ {j}
      BY JobsAssumption
    <2> QED
      BY <2>2, <2>3, <2>4, <2>5
  <1>4. CASE \E j \in Jobs : PumpEnds(j)
    <2>1. PICK j \in Jobs : PumpEnds(j)
      BY <1>4
    <2>2. j \in Streams
      BY <2>1 DEF PumpEnds
    <2>3. /\ \A k \in Jobs \ {j} :
                /\ ring'[k] = ring[k] /\ pulled'[k] = pulled[k]
                /\ (k \in broken' <=> k \in broken) /\ (k \in gaps' <=> k \in gaps)
          /\ status[j] \in Terminal => UNCHANGED <<source, ring>>
          /\ ring'[j].total <= pulled'[j] /\ pulled'[j] <= written[j]
          /\ status[j] \notin Terminal =>
                /\ j \notin broken' => pulled'[j] = written[j]
                /\ j \notin gaps' => ring'[j].total = pulled'[j]
      BY <2>1, <2>2, DrainKeeps DEF PumpEnds
    <2>4. UNCHANGED <<status, announced, work, written>> /\ pump'[j] = "ended" /\ (work[j] \in Terminal \/ status[j] \in Terminal)
          /\ \A k \in Jobs \ {j} : pump'[k] = pump[k]
      BY <2>1 DEF PumpEnds
    <2>5. \A k \in Streams \ {j} : k \in Jobs \ {j}
      BY JobsAssumption
    <2> QED
      BY <2>2, <2>3, <2>4, <2>5
  <1>5. CASE \E j \in Jobs : ProducerSettles(j)
    <2>1. PICK j \in Jobs : ProducerSettles(j)
      BY <1>5
    <2>2. PICK reason \in [{j} -> Causes \ {"none"}] : Settle({j}, reason)
      BY <2>1, ProducerSettlesOne
    <2>3. {j} \subseteq LiveJobs /\ owner # "gone" /\ work[j] \in Terminal
      BY <2>1, ProducerSettlesOne
    <2>4. reason \in [{j} -> Causes]
      BY <2>2
    <2>5. \A k \in Jobs : ring'[k].total = ring[k].total
      BY <2>2, <2>3, <2>4, SettleTypes
    <2>6. \A k \in Jobs \ {j} : announced'[k] = announced[k]
      BY <2>2 DEF Settle
    <2>7. j \in Streams => /\ j \notin broken => pulled[j] = written[j]
                           /\ j \notin gaps => ring[j].total = pulled[j]
      BY <2>1 DEF ProducerSettles, MaySettle
    <2> QED
      BY <2>1, <2>3, <2>5, <2>6, <2>7, JobsAssumption DEF ProducerSettles
  <1>6. CASE \E j \in Jobs, outcome \in Outcomes : ProducerEnds(j, outcome)
    BY <1>6, JobsAssumption DEF ProducerEnds
  <1>7. CASE \E j \in Jobs : OutputRead(j)
    <2>1. PICK j \in Jobs : OutputRead(j)
      BY <1>7
    <2>2. \A k \in Jobs : ring'[k].total = ring[k].total
      BY <2>1, ReadTypes DEF OutputRead
    <2> QED
      BY <1>7, <2>2, JobsAssumption DEF OutputRead
  <1>8. CASE \E j \in Jobs : KillByModel(j)
    BY <1>8, JobsAssumption DEF KillByModel, Kill
  <1>9. CASE \E j \in Jobs : KillByUser(j)
    BY <1>9, JobsAssumption DEF KillByUser, Kill
  <1>10. CASE \E c \in Callers, j \in Jobs : WaitStarts(c, j)
    BY <1>10, JobsAssumption DEF WaitStarts
  <1>11. CASE \E c \in Callers : WaitTimesOut(c)
    BY <1>11, JobsAssumption DEF WaitTimesOut, Unlisted
  <1>12. CASE \E c \in Callers : WaitAborts(c)
    BY <1>12, JobsAssumption DEF WaitAborts, Unlisted
  <1>13. CASE \E c \in Callers : WaitReturns(c)
    <2>1. PICK j \in Jobs : IF j \in store THEN Read(j) ELSE UNCHANGED <<ring, cursor>>
      BY <1>13 DEF WaitReturns
    <2>2. \A k \in Jobs : ring'[k].total = ring[k].total
      BY <2>1, ReadTypes
    <2> QED
      BY <1>13, <2>2, JobsAssumption DEF WaitReturns
  <1>14. CASE UserTurn
    BY <1>14, JobsAssumption DEF UserTurn
  <1>15. CASE TurnEnds
    BY <1>15, JobsAssumption DEF TurnEnds
  <1>16. CASE OwnerLeaves
    BY <1>16, JobsAssumption DEF OwnerLeaves
  <1>17. CASE DisposeOwned
    <2>1. PICK thrown \in SUBSET LiveJobs :
              /\ [j \in thrown |-> "teardown"] \in [thrown -> Causes]
              /\ Settle(thrown, [j \in thrown |-> "teardown"])
              /\ \A c \in Callers : waiting'[c] = IF waiting[c] \in thrown THEN NoJob
                                                  ELSE waiting[c]
              /\ \A j \in Jobs : waitResolvers'[j] = IF j \in thrown THEN {}
                                                     ELSE waitResolvers[j]
              /\ status' = [j \in Jobs |-> IF j \in thrown THEN "failed"
                                           ELSE IF j \in LiveJobs THEN "stopping"
                                           ELSE status[j]]
      BY <1>17, DisposalSettlesThrown
    <2>2. \A k \in Jobs : ring'[k].total = ring[k].total
      BY <2>1, SettleTypes
    <2>3. \A k \in Jobs : announced'[k] = IF k \in thrown THEN "teardown" ELSE announced[k]
      BY <2>1 DEF Settle
    <2>4. \A k \in Jobs : status'[k] \in Live => status[k] \in Live
      BY <2>1
    <2> QED
      BY <1>17, <2>2, <2>3, <2>4, JobsAssumption DEF DisposeOwned
  <1>18. CASE OwnerGone
    <2>1. PICK S \in SUBSET Jobs : Drop(S)
      BY <1>18 DEF OwnerGone
    <2> QED
      BY <2>1, JobsAssumption DEF Drop, EmptyRing
  <1>19. CASE \E j \in Jobs : RemoveJob(j)
    <2>1. PICK S \in SUBSET Jobs : Drop(S)
      BY <1>19 DEF RemoveJob
    <2> QED
      BY <2>1, JobsAssumption DEF Drop, EmptyRing
  <1>20. CASE UNCHANGED vars
    BY <1>20 DEF vars
  <1> QED
    BY <1>1, <1>2, <1>3, <1>4, <1>5, <1>6, <1>7, <1>8, <1>9, <1>10, <1>11, <1>12, <1>13,
       <1>14, <1>15, <1>16, <1>17, <1>18, <1>19, <1>20 DEF Next, JobNext, CallNext

-----------------------------------------------------------------------------
(* The registry as its observers see it. *)

\* One job's part of a step: nothing, its registration, a stop request, its
\* settlement or its removal.
Moved(j) ==
    \/ status'[j] = status[j] /\ (j \in store <=> j \in store')
    \/ status[j] = "unborn" /\ status'[j] \in Live
    \/ status[j] \in Live /\ status'[j] \in Live
    \/ status[j] \in Live /\ status'[j] \in Terminal /\ j \in store /\ j \in store'
    \/ status[j] \in Terminal /\ status'[j] = status[j] /\ j \in store /\ j \notin store'

\* Every job takes one of those parts in every step.
LEMMA EveryJobMoves ==
    ASSUME BooksInv, [Next]_vars
    PROVE  \A j \in Jobs : Moved(j)
  <1> USE DEF BooksInv, TypeOK, Live, Terminal, LiveJobs, LivesInv, registry, producer,
            source, output, calls, controller
  <1>1. CASE \E j \in Jobs : Start(j)
    BY <1>1 DEF Start, Moved
  <1>2. CASE \E j \in Jobs : ProducerWrites(j)
    BY <1>2 DEF ProducerWrites, Moved
  <1>3. CASE \E j \in Jobs : PumpPolls(j)
    BY <1>3 DEF PumpPolls, Moved
  <1>4. CASE \E j \in Jobs : PumpEnds(j)
    BY <1>4 DEF PumpEnds, Moved
  <1>5. CASE \E j \in Jobs : ProducerSettles(j)
    <2>1. PICK j \in Jobs : ProducerSettles(j)
      BY <1>5
    <2>2. PICK reason \in [{j} -> Causes \ {"none"}] : Settle({j}, reason)
      BY <2>1, ProducerSettlesOne
    <2>3. {j} \subseteq LiveJobs /\ owner # "gone" /\ work[j] \in Terminal
      BY <2>1, ProducerSettlesOne
    <2>4. status' = [status EXCEPT ![j] = work[j]] /\ store' = store
      BY <2>1 DEF ProducerSettles
    <2> QED
      BY <2>3, <2>4 DEF Moved
  <1>6. CASE \E j \in Jobs, outcome \in Outcomes : ProducerEnds(j, outcome)
    BY <1>6 DEF ProducerEnds, Moved
  <1>7. CASE \E j \in Jobs : OutputRead(j)
    BY <1>7 DEF OutputRead, Read, Moved
  <1>8. CASE \E j \in Jobs : KillByModel(j)
    BY <1>8 DEF KillByModel, Kill, Moved
  <1>9. CASE \E j \in Jobs : KillByUser(j)
    BY <1>9 DEF KillByUser, Kill, Moved
  <1>10. CASE \E c \in Callers, j \in Jobs : WaitStarts(c, j)
    BY <1>10 DEF WaitStarts, Moved
  <1>11. CASE \E c \in Callers : WaitTimesOut(c)
    BY <1>11 DEF WaitTimesOut, Unlisted, Moved
  <1>12. CASE \E c \in Callers : WaitAborts(c)
    BY <1>12 DEF WaitAborts, Unlisted, Moved
  <1>13. CASE \E c \in Callers : WaitReturns(c)
    BY <1>13 DEF WaitReturns, Read, Moved
  <1>14. CASE UserTurn
    BY <1>14 DEF UserTurn, Moved
  <1>15. CASE TurnEnds
    BY <1>15 DEF TurnEnds, Moved
  <1>16. CASE OwnerLeaves
    BY <1>16 DEF OwnerLeaves, Moved
  <1>17. CASE DisposeOwned
    <2>1. PICK thrown \in SUBSET LiveJobs :
              /\ [j \in thrown |-> "teardown"] \in [thrown -> Causes]
              /\ Settle(thrown, [j \in thrown |-> "teardown"])
              /\ \A c \in Callers : waiting'[c] = IF waiting[c] \in thrown THEN NoJob
                                                  ELSE waiting[c]
              /\ \A j \in Jobs : waitResolvers'[j] = IF j \in thrown THEN {}
                                                     ELSE waitResolvers[j]
              /\ status' = [j \in Jobs |-> IF j \in thrown THEN "failed"
                                           ELSE IF j \in LiveJobs THEN "stopping"
                                           ELSE status[j]]
      BY <1>17, DisposalSettlesThrown
    <2>2. store' = store
      BY <1>17 DEF DisposeOwned
    <2> QED
      BY <2>1, <2>2 DEF Moved
  <1>18. CASE OwnerGone
    BY <1>18 DEF OwnerGone, Drop, Moved
  <1>19. CASE \E j \in Jobs : RemoveJob(j)
    BY <1>19 DEF RemoveJob, Drop, Moved
  <1>20. CASE UNCHANGED vars
    BY <1>20 DEF vars, Moved
  <1> QED
    BY <1>1, <1>2, <1>3, <1>4, <1>5, <1>6, <1>7, <1>8, <1>9, <1>10, <1>11, <1>12, <1>13,
       <1>14, <1>15, <1>16, <1>17, <1>18, <1>19, <1>20 DEF Next, JobNext, CallNext

\* What a job's phase and verdict are, before and after a step.
LEMMA PhaseIs ==
    ASSUME BooksInv, BooksInv', NEW j \in Jobs
    PROVE  /\ status[j] = "unborn" => Phase(j) = "unknown" /\ Verdict(j) = "open"
           /\ status[j] \in Live => Phase(j) = "live" /\ Verdict(j) = "open"
           /\ status[j] \in Terminal =>
                /\ Phase(j) = IF j \in store THEN "settled" ELSE "removed"
                /\ Verdict(j) = status[j]
           /\ status'[j] = "unborn" => Phase(j)' = "unknown" /\ Verdict(j)' = "open"
           /\ status'[j] \in Live => Phase(j)' = "live" /\ Verdict(j)' = "open"
           /\ status'[j] \in Terminal =>
                /\ Phase(j)' = IF j \in store' THEN "settled" ELSE "removed"
                /\ Verdict(j)' = status'[j]
  BY DEF Phase, Verdict, Live, Terminal

\* The events of one step follow the protocol for every job.
LEMMA EventsStep ==
    ASSUME BooksInv, BooksInv', [Next]_vars
    PROVE  Events!PhasesNext
  <1>1. SUFFICES ASSUME NEW j \in Jobs
                 PROVE  Events!Moves(j) \/ Events!Stays(j)
    BY DEF Events!PhasesNext
  <1>2. Moved(j)
    BY EveryJobMoves
  <1>3. /\ status[j] \in {"unborn"} \union Live \union Terminal
        /\ status'[j] \in {"unborn"} \union Live \union Terminal
    BY DEF BooksInv, TypeOK
  <1>4. CASE status'[j] = status[j] /\ (j \in store <=> j \in store')
    <2>1. Phase(j)' = Phase(j) /\ Verdict(j)' = Verdict(j)
      BY <1>3, <1>4, PhaseIs
    <2> QED
      BY <2>1 DEF Events!Stays
  <1>5. CASE status[j] = "unborn" /\ status'[j] \in Live
    <2>1. /\ Phase(j) = "unknown" /\ Phase(j)' = "live"
          /\ Verdict(j)' = Verdict(j)
      BY <1>5, PhaseIs
    <2> QED
      BY <2>1 DEF Events!Moves, Events!Successors
  <1>6. CASE status[j] \in Live /\ status'[j] \in Live
    <2>1. Phase(j)' = Phase(j) /\ Verdict(j)' = Verdict(j)
      BY <1>6, PhaseIs
    <2> QED
      BY <2>1 DEF Events!Stays
  <1>7. CASE status[j] \in Live /\ status'[j] \in Terminal /\ j \in store /\ j \in store'
    <2>1. /\ Phase(j) = "live" /\ Phase(j)' = "settled"
          /\ Verdict(j)' # "open"
      BY <1>7, PhaseIs DEF Terminal
    <2> QED
      BY <2>1 DEF Events!Moves, Events!Successors, Events!Open
  <1>8. CASE status[j] \in Terminal /\ status'[j] = status[j] /\ j \in store /\ j \notin store'
    <2>1. /\ Phase(j) = "settled" /\ Phase(j)' = "removed"
          /\ Verdict(j)' = Verdict(j)
      BY <1>8, PhaseIs
    <2> QED
      BY <2>1 DEF Events!Moves, Events!Successors
  <1> QED
    BY <1>2, <1>4, <1>5, <1>6, <1>7, <1>8 DEF Moved

-----------------------------------------------------------------------------
(* The theorems. *)

\* Nothing has been started.
LEMMA InitInv ==
    ASSUME Init
    PROVE  BooksInv /\ OutputPrecedesSettlement /\ Events!PhasesInit
  <1> USE DEF Init, Live, Terminal, EmptyRing
  <1>1. TypeOK
    BY DEF TypeOK, Causes
  <1>2. LiveJobs = {}
    BY DEF LiveJobs
  <1>3. SettlementIsTold /\ NoJobOutlivesItsOwner /\ OutputPrecedesSettlement
    BY <1>2, JobsAssumption
       DEF SettlementIsTold, NoJobOutlivesItsOwner, OutputPrecedesSettlement
  <1>4. WaitsAreListed /\ LivesInv
    BY JobsAssumption DEF WaitsAreListed, LivesInv
  <1>5. StreamInv /\ PumpInv
    BY JobsAssumption DEF StreamInv, PumpInv
  <1>6. Events!PhasesInit
    BY DEF Events!PhasesInit, Events!Open, Phase, Verdict
  <1> QED
    BY <1>1, <1>3, <1>4, <1>5, <1>6 DEF BooksInv

\* One step keeps the registry's books and the order of output and settlement.
LEMMA JobsStep ==
    ASSUME BooksInv, OutputPrecedesSettlement, [Next]_vars
    PROVE  BooksInv' /\ OutputPrecedesSettlement'
  <1>1. TypeOK' /\ SettlementIsTold' /\ WaitsAreListed' /\ NoJobOutlivesItsOwner'
    BY TypeStep, ToldStep, ListedStep, OwnerStep
  <1>2. LivesInv' /\ StreamInv' /\ PumpInv' /\ OutputPrecedesSettlement'
    BY LivesStep, StreamStep, PumpStep
  <1> QED
    BY <1>1, <1>2 DEF BooksInv

\* Every settlement with a reader left is told exactly once, every call that
\* waits will be woken by its job, and no job outlives its owner.
LEMMA BooksHold == Spec => []BooksInv
  <1>1. Init => BooksInv /\ OutputPrecedesSettlement
    BY InitInv
  <1>2. BooksInv /\ OutputPrecedesSettlement /\ [Next]_vars
            => (BooksInv /\ OutputPrecedesSettlement)'
    BY JobsStep
  <1> QED
    BY <1>1, <1>2, PTL DEF Spec

\* A job its producer settles has had its source read to the end and all that was
\* read put in the ring, except what a throwing or a lossy read has cost.
THEOREM SettledIsDrained == Spec => []OutputPrecedesSettlement
  <1>1. Init => BooksInv /\ OutputPrecedesSettlement
    BY InitInv
  <1>2. BooksInv /\ OutputPrecedesSettlement /\ [Next]_vars
            => (BooksInv /\ OutputPrecedesSettlement)'
    BY JobsStep
  <1> QED
    BY <1>1, <1>2, PTL DEF Spec

-----------------------------------------------------------------------------
(* The reader's cursor. *)

\* RingInv, ring by ring.
LEMMA RingInvIs ==
    /\ RingInv <=> \A j \in Streams : NoneAcross(ring[j], cursor[j])
    /\ RingInv' <=> \A j \in Streams : NoneAcross(ring'[j], cursor'[j])
  BY DEF RingInv, NoneAcross

\* A ring that settles is trimmed to a cap that covers what is unread.
LEMMA SettleRings ==
    ASSUME TypeOK, RingInv, NEW STATE S, NEW STATE reason, S \subseteq Jobs,
           Settle(S, reason), NEW j \in Streams
    PROVE  /\ NoneAcross(ring'[j], cursor[j])
           /\ Earliest(ring'[j]) <= cursor[j] \/ Earliest(ring'[j]) = Earliest(ring[j])
  <1>1. j \in Jobs /\ ring[j] \in Ring /\ cursor[j] \in Nat /\ NoneAcross(ring[j], cursor[j])
    BY JobsAssumption, RingInvIs DEF TypeOK, Ring
  <1>2. ring'[j] = IF j \in S THEN Trim(ring[j], SettledCap(j)) ELSE ring[j]
    BY <1>1 DEF Settle
  <1>3. SettledCap(j) \in Nat \ {0} /\ ring[j].total - cursor[j] <= SettledCap(j)
    BY <1>1, RetainAssumption DEF SettledCap, Ring
  <1> QED
    BY <1>1, <1>2, <1>3, TrimAcross, TrimKeepsUnread

\* Reading moves the cursor to the end of the stream.
LEMMA ReadRings ==
    ASSUME TypeOK, RingInv, NEW k \in Jobs, Read(k), NEW j \in Streams
    PROVE  NoneAcross(ring'[j], cursor'[j])
  <1>1. j \in Jobs /\ ring[j] \in Ring /\ cursor[j] \in Nat /\ NoneAcross(ring[j], cursor[j])
    BY JobsAssumption, RingInvIs DEF TypeOK, Ring
  <1>2. ring \in [Jobs -> Ring] /\ cursor \in [Jobs -> Nat]
    BY DEF TypeOK, Ring
  <1>3. CASE j # k
    BY <1>1, <1>2, <1>3 DEF Read
  <1>4. CASE j = k
    <2>1. /\ cursor'[j] = ring[j].total
          /\ \/ ring'[j] = ring[j]
             \/ ring'[j] = Trim(ring[j], SettledRetainBytes)
      BY <1>2, <1>4 DEF Read
    <2>2. ring[j].total \in Nat /\ NoneAcross(ring[j], ring[j].total)
      BY <1>1, ReadAllAcross DEF Ring
    <2> QED
      BY <1>1, <2>1, <2>2, RetainAssumption, TrimAcross
  <1> QED
    BY <1>3, <1>4

\* A drain appends its chunk behind the cursor.
LEMMA DrainRings ==
    ASSUME BooksInv, RingInv, NEW k \in Streams, Drain(k), cursor' = cursor, NEW j \in Streams
    PROVE  NoneAcross(ring'[j], cursor'[j])
  <1>1. j \in Jobs /\ ring[j] \in Ring /\ cursor[j] \in Nat /\ NoneAcross(ring[j], cursor[j])
    BY JobsAssumption, RingInvIs DEF BooksInv, TypeOK, Ring
  <1>2. k \in Jobs /\ ring \in [Jobs -> Ring]
    BY JobsAssumption DEF BooksInv, TypeOK, Ring
  <1>3. CASE ring' = ring
    BY <1>1, <1>3
  <1>4. CASE SourceReads(k)
    <2>1. written[k] \in Nat /\ pulled[k] \in Nat /\ pulled[k] <= written[k]
      BY <1>2 DEF BooksInv, TypeOK, PumpInv
    <2>2. PICK kept \in 0 .. (written[k] - pulled[k]) :
              ring' = [ring EXCEPT ![k] = AppendChunk(ring[k], kept, RetainBytes)]
      BY <1>4 DEF SourceReads
    <2>3. kept \in Nat
      BY <2>1, <2>2
    <2>4. ring'[j] = IF j = k THEN AppendChunk(ring[j], kept, RetainBytes) ELSE ring[j]
      BY <1>1, <1>2, <2>2
    <2> QED
      BY <1>1, <2>3, <2>4, RetainAssumption, AppendAcross
  <1> QED
    BY <1>3, <1>4 DEF Drain, SourceFails

\* A record that is dropped leaves an empty ring and no cursor.
LEMMA DropRings ==
    ASSUME TypeOK, RingInv, NEW STATE S, S \subseteq Jobs, Drop(S), NEW j \in Streams
    PROVE  NoneAcross(ring'[j], cursor'[j])
  <1>1. j \in Jobs /\ NoneAcross(ring[j], cursor[j]) /\ NoneAcross(EmptyRing, 0)
    BY JobsAssumption, RingInvIs DEF NoneAcross, EmptyRing
  <1> QED
    BY <1>1 DEF Drop

\* Every step keeps the cursor out of the chunks.
LEMMA RingStep ==
    ASSUME BooksInv, RingInv, [Next]_vars
    PROVE  RingInv'
  <1>1. SUFFICES ASSUME NEW j \in Streams
                 PROVE  NoneAcross(ring'[j], cursor'[j])
    BY RingInvIs
  <1>2. TypeOK /\ NoneAcross(ring[j], cursor[j])
    BY RingInvIs DEF BooksInv
  <1>3. CASE UNCHANGED <<ring, cursor>>
    BY <1>2, <1>3
  <1>4. CASE \E k \in Jobs : PumpPolls(k) \/ PumpEnds(k)
    <2>1. PICK k \in Jobs : PumpPolls(k) \/ PumpEnds(k)
      BY <1>4
    <2>2. k \in Streams
      BY <2>1 DEF PumpPolls, PumpEnds, BooksInv, StreamInv
    <2>3. Drain(k) /\ cursor' = cursor
      BY <2>1 DEF PumpPolls, PumpEnds
    <2> QED
      BY <2>2, <2>3, DrainRings
  <1>5. CASE \E k \in Jobs : OutputRead(k)
    BY <1>2, <1>5, ReadRings DEF OutputRead
  <1>6. CASE \E c \in Callers : WaitReturns(c)
    <2>1. PICK k \in Jobs : IF k \in store THEN Read(k) ELSE UNCHANGED <<ring, cursor>>
      BY <1>6 DEF WaitReturns
    <2> QED
      BY <1>2, <2>1, ReadRings
  <1>7. CASE \E k \in Jobs : ProducerSettles(k)
    <2>1. PICK k \in Jobs : ProducerSettles(k)
      BY <1>7
    <2>2. PICK reason \in [{k} -> Causes \ {"none"}] : Settle({k}, reason)
      BY <2>1, ProducerSettlesOne
    <2>3. cursor' = cursor /\ {k} \subseteq Jobs
      BY <2>1 DEF ProducerSettles
    <2> QED
      BY <1>2, <2>2, <2>3, SettleRings
  <1>8. CASE DisposeOwned
    <2>1. PICK thrown \in SUBSET LiveJobs : Settle(thrown, [k \in thrown |-> "teardown"])
      BY <1>8, DisposalSettlesThrown
    <2>2. cursor' = cursor /\ thrown \subseteq Jobs
      BY <1>8 DEF DisposeOwned, LiveJobs
    <2> QED
      BY <1>2, <2>1, <2>2, SettleRings
  <1>9. CASE \E k \in Jobs : \/ Start(k) \/ ProducerWrites(k) \/ KillByModel(k) \/ KillByUser(k)
                             \/ \E outcome \in Outcomes : ProducerEnds(k, outcome)
    BY <1>3, <1>9 DEF Start, ProducerWrites, KillByModel, KillByUser, Kill, ProducerEnds, output
  <1>10. CASE \E c \in Callers : (\E k \in Jobs : WaitStarts(c, k)) \/ WaitTimesOut(c) \/ WaitAborts(c)
    BY <1>3, <1>10 DEF WaitStarts, WaitTimesOut, WaitAborts, output
  <1>11. CASE UserTurn \/ TurnEnds \/ OwnerLeaves \/ UNCHANGED vars
    BY <1>3, <1>11 DEF UserTurn, TurnEnds, OwnerLeaves, vars, output
  <1>12. CASE OwnerGone \/ \E k \in Jobs : RemoveJob(k)
    <2>1. PICK S \in SUBSET Jobs : Drop(S)
      BY <1>2, <1>12 DEF OwnerGone, RemoveJob, TypeOK
    <2> QED
      BY <1>2, <2>1, DropRings
  <1> QED
    BY <1>4, <1>5, <1>6, <1>7, <1>8, <1>9, <1>10, <1>11, <1>12 DEF Next, JobNext, CallNext

-----------------------------------------------------------------------------
(* The theorems about output, and the registry's protocol. *)

\* The registry's books, and a cursor that lies in no chunk.
THEOREM BooksAreKept == Spec => []JobsInv
  <1>1. Init => RingInv
    BY JobsAssumption DEF Init, RingInv, EmptyRing
  <1>2. BooksInv /\ RingInv /\ [Next]_vars => RingInv'
    BY RingStep
  <1> QED
    BY <1>1, <1>2, BooksHold, PTL DEF Spec, JobsInv

\* A read, which returns whole chunks, returns no byte that an earlier one did.
THEOREM NothingIsReadTwice == Spec => []ReadsNeverRepeat
  <1>1. JobsInv => ReadsNeverRepeat
    <2>1. SUFFICES ASSUME JobsInv, NEW j \in Streams, NEW at \in ChunksFrom(ring[j], cursor[j])
                   PROVE  at >= cursor[j]
      BY DEF ReadsNeverRepeat
    <2>2. ring[j] \in Ring /\ cursor[j] \in Nat /\ NoneAcross(ring[j], cursor[j])
      BY <2>1, JobsAssumption, RingInvIs DEF JobsInv, BooksInv, TypeOK, Ring
    <2>3. PICK end \in ring[j].starts \union {ring[j].total} :
                at < end /\ cursor[j] < end
                /\ \A other \in ring[j].starts : other <= at \/ end <= other
      BY DEF ChunksFrom
    <2>4. at \in ring[j].starts /\ at \in Nat /\ end \in Nat /\ ring[j].total \in Nat
          /\ ring[j].starts \subseteq Nat
      BY <2>2, <2>3 DEF ChunksFrom, Ring
    <2>5. end <= ring[j].total
      BY <2>2, <2>3, <2>4 DEF NoneAcross
    <2>6. SUFFICES ASSUME at < cursor[j] PROVE FALSE
      BY <2>2, <2>4
    <2>7. PICK next \in ring[j].starts : at < next /\ next <= cursor[j]
      BY <2>2, <2>3, <2>4, <2>5, <2>6 DEF NoneAcross
    <2> QED
      BY <2>2, <2>3, <2>4, <2>7
  <1> QED
    BY <1>1, BooksAreKept, PTL

\* Settling a job gives up nothing past the cursor of the model's reads.
THEOREM SettlementLosesNothing == Spec => SettlingKeepsUnread
  <1>1. JobsInv /\ [Next]_vars =>
            \A j \in Streams :
                status[j] \in Live /\ status'[j] \in Terminal
                    => \/ Earliest(ring'[j]) <= cursor[j]
                       \/ Earliest(ring'[j]) = Earliest(ring[j])
    <2>1. SUFFICES ASSUME JobsInv, [Next]_vars, NEW j \in Streams,
                          status[j] \in Live, status'[j] \in Terminal
                   PROVE  \/ Earliest(ring'[j]) <= cursor[j]
                          \/ Earliest(ring'[j]) = Earliest(ring[j])
      OBVIOUS
    <2>2. BooksInv /\ TypeOK /\ RingInv /\ status \in [Jobs -> {"unborn"} \union Live \union Terminal]
          /\ j \in Jobs
      BY <2>1, JobsAssumption DEF JobsInv, BooksInv, TypeOK
    <2>3. CASE ring' = ring
      BY <2>3
    <2>4. status'[j] # status[j]
      BY <2>1 DEF Live, Terminal
    <2>5. CASE \E k \in Jobs : ProducerSettles(k)
      <3>1. PICK k \in Jobs : ProducerSettles(k)
        BY <2>5
      <3>2. PICK reason \in [{k} -> Causes \ {"none"}] : Settle({k}, reason)
        BY <2>2, <3>1, ProducerSettlesOne
      <3> QED
        BY <2>2, <3>2, SettleRings
    <2>6. CASE DisposeOwned
      <3>1. PICK thrown \in SUBSET LiveJobs : Settle(thrown, [k \in thrown |-> "teardown"])
        BY <2>2, <2>6, DisposalSettlesThrown
      <3>2. thrown \subseteq Jobs
        BY DEF LiveJobs
      <3> QED
        BY <2>2, <3>1, <3>2, SettleRings
    <2>7. CASE \E k \in Jobs : \/ Start(k) \/ KillByModel(k) \/ KillByUser(k)
      BY <2>3, <2>7 DEF Start, KillByModel, KillByUser, Kill, output
    <2>8. CASE \/ \E k \in Jobs : \/ ProducerWrites(k) \/ PumpPolls(k) \/ PumpEnds(k) \/ OutputRead(k)
                                  \/ \E outcome \in Outcomes : ProducerEnds(k, outcome)
               \/ \E c \in Callers : CallNext(c)
               \/ UserTurn \/ TurnEnds \/ OwnerLeaves \/ OwnerGone \/ UNCHANGED vars
               \/ \E k \in Jobs : RemoveJob(k)
      <3>1. UNCHANGED status
        BY <2>8 DEF ProducerWrites, PumpPolls, PumpEnds, OutputRead, ProducerEnds, CallNext,
            WaitStarts, WaitTimesOut, WaitAborts, WaitReturns, UserTurn, TurnEnds, OwnerLeaves,
            OwnerGone,
            RemoveJob, Drop, vars, registry
      <3> QED
        BY <2>4, <3>1
    <2> QED
      BY <2>1, <2>5, <2>6, <2>7, <2>8 DEF Next, JobNext
  <1> QED
    BY <1>1, BooksAreKept, PTL DEF Spec, SettlingKeepsUnread

\* The registry implements the protocol its observers rely on: a job is live
\* until its one settlement, and removed behind it.
THEOREM EventsFollowTheProtocol == Spec => FollowsProtocol
  <1>1. Init => Events!PhasesInit
    BY InitInv
  <1>2. BooksInv /\ BooksInv' /\ [Next]_vars => Events!PhasesNext
    BY EventsStep
  <1> QED
    BY <1>1, <1>2, BooksHold, PTL DEF Spec, FollowsProtocol, Events!PhasesSpec

=============================================================================
