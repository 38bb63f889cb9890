------------------------ MODULE AgentLifecycle_proofs ------------------------
(***************************************************************************)
(* Proofs about AgentLifecycle, for every set of attempts.                  *)
(***************************************************************************)
EXTENDS AgentLifecycle, TLAPS

-----------------------------------------------------------------------------
(* Type correctness, and the parts of the inductive invariant. *)

\* What a failed initialization does besides ending the current activity.
LEMMA Undone ==
    ASSUME NEW a, NEW next, Undoes(a, next)
    PROVE  /\ stage' = [stage EXCEPT ![a] = "rolling"]
           /\ teardown' = [teardown EXCEPT ![a] = IF @ = "none" THEN "quiescing" ELSE @]
           /\ aborted' = aborted \union {a}
  BY DEF Undoes, Goes

LEMMA RolledBack ==
    ASSUME NEW a, RollsBack(a)
    PROVE  /\ stage' = [stage EXCEPT ![a] = "rolling"]
           /\ teardown' = [teardown EXCEPT ![a] = IF @ = "none" THEN "quiescing" ELSE @]
           /\ aborted' = aborted \union {a}
  BY Undone DEF RollsBack

\* Whatever ends an activity leaves one that is known.
LEMMA ConvergencesType == \A a : Convergences(a) \subseteq Drivers
  BY DEF Convergences, Drivers

LEMMA ActivityTypes ==
    ASSUME TypeOK, [Next]_vars
    PROVE  driver' \in [Attempts -> Drivers] /\ latched' \subseteq Attempts
  <1> USE DEF TypeOK
  <1>1. ASSUME NEW a \in Attempts, NEW next \in Drivers, Converges(a, next)
        PROVE  driver' \in [Attempts -> Drivers] /\ latched' \subseteq Attempts
    BY <1>1 DEF Converges
  <1>2. ASSUME NEW a \in Attempts, NEW next \in Drivers, Undoes(a, next)
        PROVE  driver' \in [Attempts -> Drivers] /\ latched' \subseteq Attempts
    BY <1>1, <1>2 DEF Undoes, Drivers
  <1>3. ASSUME NEW a \in Attempts, RollsBack(a)
        PROVE  driver' \in [Attempts -> Drivers] /\ latched' \subseteq Attempts
    BY <1>2, <1>3, ConvergencesType DEF RollsBack, Drivers
  <1>4. ASSUME NEW S, CancelsDrivers(S)
        PROVE  driver' \in [Attempts -> Drivers] /\ latched' \subseteq Attempts
    BY <1>4 DEF CancelsDrivers, Drivers
  <1>5. CASE \E a \in Attempts : CreateOpens(a) \/ LoadEnds(a)
    BY <1>5 DEF CreateOpens, LoadEnds, Initializes, Drivers
  <1>6. CASE \E a \in Attempts : SetupEnds(a) \/ SuffixFails(a) \/ Publishes(a)
    BY <1>3, <1>6 DEF SetupEnds, SuffixFails, Publishes, activity
  <1>7. CASE \E a \in Attempts : AnnouncementEnds(a)
    BY <1>1, <1>2, <1>3, <1>7, ConvergencesType DEF AnnouncementEnds
  <1>8. CASE \E a \in Attempts : HandleDisposes(a) \/ OwnerUnloads(a)
    BY <1>4, <1>8 DEF HandleDisposes, OwnerUnloads, Disposes
  <1>9. CASE FactoryUnloads
    BY <1>4, <1>9 DEF FactoryUnloads, Disposes
  <1>10. CASE \E a \in Attempts : PublicationSettles(a)
    BY <1>1, <1>4, <1>10 DEF PublicationSettles, Drivers
  <1>11. CASE \E a \in Attempts : WakeOpensTurn(a) \/ WakeIsLatched(a) \/ UserCancels(a)
    BY <1>11 DEF WakeOpensTurn, WakeIsLatched, UserCancels, Drivers
  <1>12. CASE \E a \in Attempts : TurnEnds(a)
    BY <1>1, <1>12, ConvergencesType DEF TurnEnds, Drivers
  <1>13. CASE UNCHANGED activity
    BY <1>13 DEF activity
  <1> QED
    BY <1>5, <1>6, <1>7, <1>8, <1>9, <1>10, <1>11, <1>12, <1>13
       DEF Next, Progress, Orphan, Teardown, vars, activity, Called, ResumeOpens, OpenFails,
           Discards, RollbackEnds, OrphanOpens, OrphanCloses, Quiesces, ScopeUnwinds,
           HandleCloses, Detaches, CallerCancels, AdmissionCloses, FactoryUnloaded

LEMMA UndoneTypes ==
    ASSUME TypeOK, NEW a \in Attempts,
           RollsBack(a) \/ \E next \in Drivers : Undoes(a, next)
    PROVE  /\ stage' \in [Attempts -> Stages] /\ teardown' \in [Attempts -> Teardowns]
           /\ aborted' \subseteq Attempts
  <1>1. /\ stage' = [stage EXCEPT ![a] = "rolling"]
        /\ teardown' = [teardown EXCEPT ![a] = IF @ = "none" THEN "quiescing" ELSE @]
        /\ aborted' = aborted \union {a}
    BY Undone, RolledBack
  <1> QED
    BY <1>1 DEF TypeOK, Stages, Calling, Teardowns

\* Every step keeps the registries, signals and stages well typed.
LEMMA TypeStep ==
    ASSUME TypeOK, [Next]_vars
    PROVE  TypeOK'
  <1> USE DEF TypeOK, Stages, Teardowns, News, calls, registries, activity, service, Calling,
            Preparing, Prepared, Published
  <1>0. driver' \in [Attempts -> Drivers] /\ latched' \subseteq Attempts
    BY ActivityTypes
  <1>1. CASE \E a \in Attempts : Called(a)
    BY <1>0, <1>1 DEF Called, Goes
  <1>2. CASE \E a \in Attempts : CreateOpens(a)
    BY <1>0, <1>2 DEF CreateOpens, Initializes, Goes, MayPrepare, MayClaim
  <1>3. CASE \E a \in Attempts : ResumeOpens(a)
    BY <1>0, <1>3 DEF ResumeOpens, Goes, MayClaim
  <1>4. CASE \E a \in Attempts : OpenFails(a)
    BY <1>0, <1>4 DEF OpenFails, Goes
  <1>5. CASE \E a \in Attempts : LoadEnds(a)
    BY <1>0, <1>5 DEF LoadEnds, Initializes, Goes, MayPrepare
  <1>6. CASE \E a \in Attempts : Discards(a)
    BY <1>0, <1>6 DEF Discards, Goes
  <1>7. CASE \E a \in Attempts : SetupEnds(a)
    BY <1>0, <1>7, UndoneTypes DEF SetupEnds, Goes
  <1>8. CASE \E a \in Attempts : SuffixFails(a)
    BY <1>0, <1>8, UndoneTypes DEF SuffixFails
  <1>9. CASE \E a \in Attempts : Publishes(a)
    <2>1. PICK a \in Attempts : Publishes(a)
      BY <1>9
    <2>2. RollsBack(a) \/ (Goes(a, "announcing") /\ UNCHANGED <<teardown, aborted>>)
      BY <2>1 DEF Publishes
    <2>3. /\ stage' \in [Attempts -> Stages] /\ teardown' \in [Attempts -> Teardowns]
          /\ aborted' \subseteq Attempts
      BY <2>2, UndoneTypes DEF Goes
    <2>4. told' \in [Attempts -> [session : News, agent : News]]
      BY <2>1 DEF Publishes
    <2>5. session' \in {a, session} /\ agent' \in {a, agent} /\ stored' \in {stored, TRUE}
      BY <2>1 DEF Publishes
    <2>6. UNCHANGED <<calls, claim, rejected, service>>
      BY <2>1 DEF Publishes
    <2>7. {claim', session', agent'} \subseteq Attempts \union {Nobody} /\ stored' \in BOOLEAN
      BY <2>5, <2>6
    <2>8. kind' = kind /\ owner' = owner /\ orphans' = orphans /\ rejected' = rejected
      BY <2>6
    <2>9. admission' = admission /\ factory' = factory /\ awaited' = awaited
      BY <2>6
    <2> QED
      BY <1>0, <2>3, <2>4, <2>7, <2>8, <2>9
  <1>10. CASE \E a \in Attempts : AnnouncementEnds(a)
    <2>1. PICK a \in Attempts : AnnouncementEnds(a)
      BY <1>10
    <2>2. CASE Goes(a, "live") /\ UNCHANGED <<teardown, aborted>>
      BY <1>0, <2>1, <2>2 DEF AnnouncementEnds, Goes
    <2>3. CASE Undoes(a, "stuck") \/ RollsBack(a)
      <3>1. /\ stage' \in [Attempts -> Stages] /\ teardown' \in [Attempts -> Teardowns]
            /\ aborted' \subseteq Attempts
        BY <2>3, UndoneTypes DEF Drivers
      <3> QED
        BY <1>0, <2>1, <3>1 DEF AnnouncementEnds
    <2> QED
      BY <2>1, <2>2, <2>3 DEF AnnouncementEnds
  <1>11. CASE \E a \in Attempts : RollbackEnds(a)
    BY <1>0, <1>11 DEF RollbackEnds, Goes
  <1>12. CASE \E a \in Attempts : OrphanOpens(a)
    BY <1>0, <1>12 DEF OrphanOpens, MayClaim
  <1>13. CASE \E a \in Attempts : OrphanCloses(a)
    BY <1>0, <1>13 DEF OrphanCloses
  <1>14. CASE \E a \in Attempts : HandleDisposes(a)
    BY <1>0, <1>14 DEF HandleDisposes, Disposes, TeardownOf
  <1>15. CASE \E a \in Attempts : PublicationSettles(a)
    BY <1>0, <1>15 DEF PublicationSettles
  <1>16. CASE \E a \in Attempts : Quiesces(a)
    BY <1>0, <1>16 DEF Quiesces, DriverIsIdle
  <1>17. CASE \E a \in Attempts : ScopeUnwinds(a)
    BY <1>0, <1>17 DEF ScopeUnwinds
  <1>18. CASE \E a \in Attempts : HandleCloses(a)
    BY <1>0, <1>18 DEF HandleCloses
  <1>19. CASE \E a \in Attempts : Detaches(a)
    BY <1>0, <1>19 DEF Detaches, Goes, Heard
  <1>20. CASE \E a \in Attempts : WakeOpensTurn(a)
    BY <1>0, <1>20 DEF WakeOpensTurn
  <1>21. CASE \E a \in Attempts : WakeIsLatched(a)
    BY <1>0, <1>21 DEF WakeIsLatched
  <1>22. CASE \E a \in Attempts : UserCancels(a)
    BY <1>0, <1>22 DEF UserCancels
  <1>23. CASE \E a \in Attempts : TurnEnds(a)
    BY <1>0, <1>23 DEF TurnEnds, Converges
  <1>24. CASE \E a \in Attempts : CallerCancels(a)
    BY <1>0, <1>24 DEF CallerCancels, GivesUp
  <1>25. CASE \E a \in Attempts : OwnerUnloads(a)
    BY <1>0, <1>25 DEF OwnerUnloads, Disposes, GivesUp, Watching, Tracked, TeardownOf
  <1>26. CASE FactoryUnloads
    BY <1>0, <1>26 DEF FactoryUnloads, Disposes, GivesUp, Watching, Tracked, TeardownOf
  <1>27. CASE AdmissionCloses
    BY <1>0, <1>27 DEF AdmissionCloses
  <1>28. CASE FactoryUnloaded
    BY <1>0, <1>28 DEF FactoryUnloaded
  <1>29. CASE UNCHANGED vars
    BY <1>0, <1>29 DEF vars
  <1> QED
    BY <1>1, <1>2, <1>3, <1>4, <1>5, <1>6, <1>7, <1>8, <1>9, <1>10, <1>11, <1>12, <1>13,
       <1>14, <1>15, <1>16, <1>17, <1>18, <1>19, <1>20, <1>21, <1>22, <1>23, <1>24,
       <1>25, <1>26, <1>27, <1>28, <1>29 DEF Next, Progress, Orphan, Teardown

\* A teardown never overtakes its attempt.
LEMMA StageStep ==
    ASSUME TypeOK, StageInv, [Next]_vars
    PROVE  StageInv'
  <1> USE DEF TypeOK, StageInv, calls, registries, activity, service, Calling, Preparing,
            Prepared, Published
  <1>1. CASE \E a \in Attempts : Called(a)
    BY <1>1 DEF Called, Goes
  <1>2. CASE \E a \in Attempts : CreateOpens(a)
    BY <1>2 DEF CreateOpens, Initializes, Goes, MayPrepare, MayClaim
  <1>3. CASE \E a \in Attempts : ResumeOpens(a)
    BY <1>3 DEF ResumeOpens, Goes, MayClaim
  <1>4. CASE \E a \in Attempts : OpenFails(a)
    BY <1>4 DEF OpenFails, Goes
  <1>5. CASE \E a \in Attempts : LoadEnds(a)
    BY <1>5 DEF LoadEnds, Initializes, Goes, MayPrepare
  <1>6. CASE \E a \in Attempts : Discards(a)
    BY <1>6 DEF Discards, Goes
  <1>7. CASE \E a \in Attempts : SetupEnds(a)
    BY <1>7, Undone, RolledBack DEF SetupEnds, Goes
  <1>8. CASE \E a \in Attempts : SuffixFails(a)
    BY <1>8, Undone, RolledBack DEF SuffixFails, Goes
  <1>9. CASE \E a \in Attempts : Publishes(a)
    BY <1>9, Undone, RolledBack DEF Publishes, Goes
  <1>10. CASE \E a \in Attempts : AnnouncementEnds(a)
    BY <1>10, Undone, RolledBack DEF AnnouncementEnds, Goes
  <1>11. CASE \E a \in Attempts : RollbackEnds(a)
    BY <1>11 DEF RollbackEnds, Goes
  <1>12. CASE \E a \in Attempts : OrphanOpens(a)
    BY <1>12 DEF OrphanOpens, MayClaim
  <1>13. CASE \E a \in Attempts : OrphanCloses(a)
    BY <1>13 DEF OrphanCloses
  <1>14. CASE \E a \in Attempts : HandleDisposes(a)
    BY <1>14 DEF HandleDisposes, Disposes, TeardownOf
  <1>15. CASE \E a \in Attempts : PublicationSettles(a)
    BY <1>15 DEF PublicationSettles
  <1>16. CASE \E a \in Attempts : Quiesces(a)
    BY <1>16 DEF Quiesces, DriverIsIdle
  <1>17. CASE \E a \in Attempts : ScopeUnwinds(a)
    BY <1>17 DEF ScopeUnwinds
  <1>18. CASE \E a \in Attempts : HandleCloses(a)
    BY <1>18 DEF HandleCloses
  <1>19. CASE \E a \in Attempts : Detaches(a)
    BY <1>19 DEF Detaches, Goes, Heard
  <1>20. CASE \E a \in Attempts : WakeOpensTurn(a)
    BY <1>20 DEF WakeOpensTurn
  <1>21. CASE \E a \in Attempts : WakeIsLatched(a)
    BY <1>21 DEF WakeIsLatched
  <1>22. CASE \E a \in Attempts : UserCancels(a)
    BY <1>22 DEF UserCancels
  <1>23. CASE \E a \in Attempts : TurnEnds(a)
    BY <1>23 DEF TurnEnds, Converges
  <1>24. CASE \E a \in Attempts : CallerCancels(a)
    BY <1>24 DEF CallerCancels, GivesUp
  <1>25. CASE \E a \in Attempts : OwnerUnloads(a)
    BY <1>25 DEF OwnerUnloads, Disposes, GivesUp, Watching, Tracked, TeardownOf
  <1>26. CASE FactoryUnloads
    BY <1>26 DEF FactoryUnloads, Disposes, GivesUp, Watching, Tracked, TeardownOf
  <1>27. CASE AdmissionCloses
    BY <1>27 DEF AdmissionCloses
  <1>28. CASE FactoryUnloaded
    BY <1>28 DEF FactoryUnloaded
  <1>29. CASE UNCHANGED vars
    BY <1>29 DEF vars
  <1> QED
    BY <1>1, <1>2, <1>3, <1>4, <1>5, <1>6, <1>7, <1>8, <1>9, <1>10, <1>11, <1>12, <1>13,
       <1>14, <1>15, <1>16, <1>17, <1>18, <1>19, <1>20, <1>21, <1>22, <1>23, <1>24,
       <1>25, <1>26, <1>27, <1>28, <1>29 DEF Next, Progress, Orphan, Teardown

\* The claim passes on only when it was given up.
LEMMA ClaimStep ==
    ASSUME TypeOK, StageInv, ClaimInv, [Next]_vars
    PROVE  ClaimInv'
  <1> USE DEF TypeOK, StageInv, ClaimInv, calls, registries, activity, service, Calling,
            Preparing, Prepared, Published
  <1>1. CASE \E a \in Attempts : Called(a)
    BY <1>1, LifecycleAssumption DEF Called, Goes
  <1>2. CASE \E a \in Attempts : CreateOpens(a)
    BY <1>2, LifecycleAssumption DEF CreateOpens, Initializes, Goes, MayPrepare, MayClaim
  <1>3. CASE \E a \in Attempts : ResumeOpens(a)
    BY <1>3, LifecycleAssumption DEF ResumeOpens, Goes, MayClaim
  <1>4. CASE \E a \in Attempts : OpenFails(a)
    BY <1>4, LifecycleAssumption DEF OpenFails, Goes
  <1>5. CASE \E a \in Attempts : LoadEnds(a)
    BY <1>5, LifecycleAssumption DEF LoadEnds, Initializes, Goes, MayPrepare
  <1>6. CASE \E a \in Attempts : Discards(a)
    BY <1>6, LifecycleAssumption DEF Discards, Goes
  <1>7. CASE \E a \in Attempts : SetupEnds(a)
    BY <1>7, LifecycleAssumption, Undone, RolledBack DEF SetupEnds, Goes
  <1>8. CASE \E a \in Attempts : SuffixFails(a)
    BY <1>8, LifecycleAssumption, Undone, RolledBack DEF SuffixFails, Goes
  <1>9. CASE \E a \in Attempts : Publishes(a)
    BY <1>9, LifecycleAssumption, Undone, RolledBack DEF Publishes, Goes
  <1>10. CASE \E a \in Attempts : AnnouncementEnds(a)
    BY <1>10, LifecycleAssumption, Undone, RolledBack DEF AnnouncementEnds, Goes
  <1>11. CASE \E a \in Attempts : RollbackEnds(a)
    BY <1>11, LifecycleAssumption DEF RollbackEnds, Goes
  <1>12. CASE \E a \in Attempts : OrphanOpens(a)
    BY <1>12, LifecycleAssumption DEF OrphanOpens, MayClaim
  <1>13. CASE \E a \in Attempts : OrphanCloses(a)
    BY <1>13, LifecycleAssumption DEF OrphanCloses
  <1>14. CASE \E a \in Attempts : HandleDisposes(a)
    BY <1>14, LifecycleAssumption DEF HandleDisposes, Disposes, TeardownOf
  <1>15. CASE \E a \in Attempts : PublicationSettles(a)
    BY <1>15, LifecycleAssumption DEF PublicationSettles
  <1>16. CASE \E a \in Attempts : Quiesces(a)
    BY <1>16, LifecycleAssumption DEF Quiesces, DriverIsIdle
  <1>17. CASE \E a \in Attempts : ScopeUnwinds(a)
    BY <1>17, LifecycleAssumption DEF ScopeUnwinds
  <1>18. CASE \E a \in Attempts : HandleCloses(a)
    <2>1. PICK a \in Attempts : HandleCloses(a)
      BY <1>18
    <2>2. stage[a] \in {"live", "rolling"}
      BY <2>1 DEF HandleCloses, Stages
    <2>3. teardown[a] = "closing" /\ a \in Attempts
      BY <2>1 DEF HandleCloses
    <2>4. claim = a
      BY <2>2, <2>3
    <2>5. \A b \in Attempts \ {a} : claim # b
      BY <2>4
    <2>6. claim' = Nobody /\ stage' = stage /\ teardown' = [teardown EXCEPT ![a] = "detaching"]
      BY <2>1 DEF HandleCloses
    <2> QED
      BY <2>1, <2>2, <2>5, <2>6, LifecycleAssumption DEF HandleCloses
  <1>19. CASE \E a \in Attempts : Detaches(a)
    BY <1>19, LifecycleAssumption DEF Detaches, Goes, Heard
  <1>20. CASE \E a \in Attempts : WakeOpensTurn(a)
    BY <1>20, LifecycleAssumption DEF WakeOpensTurn
  <1>21. CASE \E a \in Attempts : WakeIsLatched(a)
    BY <1>21, LifecycleAssumption DEF WakeIsLatched
  <1>22. CASE \E a \in Attempts : UserCancels(a)
    BY <1>22, LifecycleAssumption DEF UserCancels
  <1>23. CASE \E a \in Attempts : TurnEnds(a)
    BY <1>23, LifecycleAssumption DEF TurnEnds, Converges
  <1>24. CASE \E a \in Attempts : CallerCancels(a)
    BY <1>24, LifecycleAssumption DEF CallerCancels, GivesUp
  <1>25. CASE \E a \in Attempts : OwnerUnloads(a)
    BY <1>25, LifecycleAssumption DEF OwnerUnloads, Disposes, GivesUp, Watching, Tracked,
           TeardownOf
  <1>26. CASE FactoryUnloads
    BY <1>26 DEF FactoryUnloads, Disposes, GivesUp, Watching, Tracked, TeardownOf
  <1>27. CASE AdmissionCloses
    BY <1>27 DEF AdmissionCloses
  <1>28. CASE FactoryUnloaded
    BY <1>28 DEF FactoryUnloaded
  <1>29. CASE UNCHANGED vars
    BY <1>29 DEF vars
  <1> QED
    BY <1>1, <1>2, <1>3, <1>4, <1>5, <1>6, <1>7, <1>8, <1>9, <1>10, <1>11, <1>12, <1>13,
       <1>14, <1>15, <1>16, <1>17, <1>18, <1>19, <1>20, <1>21, <1>22, <1>23, <1>24,
       <1>25, <1>26, <1>27, <1>28, <1>29 DEF Next, Progress, Orphan, Teardown

\* No attempt touches another's entries.
LEMMA EntryStep ==
    ASSUME TypeOK, StageInv, EntryInv, [Next]_vars
    PROVE  EntryInv'
  <1> USE DEF TypeOK, StageInv, EntryInv, calls, registries, activity, service, Calling,
            Preparing, Prepared, Published
  <1>1. CASE \E a \in Attempts : Called(a)
    BY <1>1, LifecycleAssumption DEF Called, Goes
  <1>2. CASE \E a \in Attempts : CreateOpens(a)
    BY <1>2, LifecycleAssumption DEF CreateOpens, Initializes, Goes, MayPrepare, MayClaim
  <1>3. CASE \E a \in Attempts : ResumeOpens(a)
    BY <1>3, LifecycleAssumption DEF ResumeOpens, Goes, MayClaim
  <1>4. CASE \E a \in Attempts : OpenFails(a)
    BY <1>4, LifecycleAssumption DEF OpenFails, Goes
  <1>5. CASE \E a \in Attempts : LoadEnds(a)
    BY <1>5, LifecycleAssumption DEF LoadEnds, Initializes, Goes, MayPrepare
  <1>6. CASE \E a \in Attempts : Discards(a)
    BY <1>6, LifecycleAssumption DEF Discards, Goes
  <1>7. CASE \E a \in Attempts : SetupEnds(a)
    BY <1>7, LifecycleAssumption, Undone, RolledBack DEF SetupEnds, Goes
  <1>8. CASE \E a \in Attempts : SuffixFails(a)
    BY <1>8, LifecycleAssumption, Undone, RolledBack DEF SuffixFails, Goes
  <1>9. CASE \E a \in Attempts : Publishes(a)
    BY <1>9, LifecycleAssumption, Undone, RolledBack DEF Publishes, Goes
  <1>10. CASE \E a \in Attempts : AnnouncementEnds(a)
    BY <1>10, LifecycleAssumption, Undone, RolledBack DEF AnnouncementEnds, Goes
  <1>11. CASE \E a \in Attempts : RollbackEnds(a)
    BY <1>11, LifecycleAssumption DEF RollbackEnds, Goes
  <1>12. CASE \E a \in Attempts : OrphanOpens(a)
    BY <1>12, LifecycleAssumption DEF OrphanOpens, MayClaim
  <1>13. CASE \E a \in Attempts : OrphanCloses(a)
    BY <1>13, LifecycleAssumption DEF OrphanCloses
  <1>14. CASE \E a \in Attempts : HandleDisposes(a)
    BY <1>14, LifecycleAssumption DEF HandleDisposes, Disposes, TeardownOf
  <1>15. CASE \E a \in Attempts : PublicationSettles(a)
    BY <1>15, LifecycleAssumption DEF PublicationSettles
  <1>16. CASE \E a \in Attempts : Quiesces(a)
    BY <1>16, LifecycleAssumption DEF Quiesces, DriverIsIdle
  <1>17. CASE \E a \in Attempts : ScopeUnwinds(a)
    BY <1>17, LifecycleAssumption DEF ScopeUnwinds
  <1>18. CASE \E a \in Attempts : HandleCloses(a)
    BY <1>18, LifecycleAssumption DEF HandleCloses
  <1>19. CASE \E a \in Attempts : Detaches(a)
    BY <1>19, LifecycleAssumption DEF Detaches, Goes, Heard
  <1>20. CASE \E a \in Attempts : WakeOpensTurn(a)
    BY <1>20, LifecycleAssumption DEF WakeOpensTurn
  <1>21. CASE \E a \in Attempts : WakeIsLatched(a)
    BY <1>21, LifecycleAssumption DEF WakeIsLatched
  <1>22. CASE \E a \in Attempts : UserCancels(a)
    BY <1>22, LifecycleAssumption DEF UserCancels
  <1>23. CASE \E a \in Attempts : TurnEnds(a)
    BY <1>23, LifecycleAssumption DEF TurnEnds, Converges
  <1>24. CASE \E a \in Attempts : CallerCancels(a)
    BY <1>24, LifecycleAssumption DEF CallerCancels, GivesUp
  <1>25. CASE \E a \in Attempts : OwnerUnloads(a)
    BY <1>25, LifecycleAssumption DEF OwnerUnloads, Disposes, GivesUp, Watching, Tracked,
           TeardownOf
  <1>26. CASE FactoryUnloads
    BY <1>26 DEF FactoryUnloads, Disposes, GivesUp, Watching, Tracked, TeardownOf
  <1>27. CASE AdmissionCloses
    BY <1>27 DEF AdmissionCloses
  <1>28. CASE FactoryUnloaded
    BY <1>28 DEF FactoryUnloaded
  <1>29. CASE UNCHANGED vars
    BY <1>29 DEF vars
  <1> QED
    BY <1>1, <1>2, <1>3, <1>4, <1>5, <1>6, <1>7, <1>8, <1>9, <1>10, <1>11, <1>12, <1>13,
       <1>14, <1>15, <1>16, <1>17, <1>18, <1>19, <1>20, <1>21, <1>22, <1>23, <1>24,
       <1>25, <1>26, <1>27, <1>28, <1>29 DEF Next, Progress, Orphan, Teardown

\* Listeners are told of a creation at most once, and of its end with the detachment.
LEMMA NewsStep ==
    ASSUME TypeOK, StageInv, NewsInv, [Next]_vars
    PROVE  NewsInv'
  <1> USE DEF TypeOK, StageInv, NewsInv, calls, registries, activity, service, Calling, Preparing,
            Prepared, Published
  <1>1. CASE \E a \in Attempts : Called(a)
    BY <1>1 DEF Called, Goes
  <1>2. CASE \E a \in Attempts : CreateOpens(a)
    BY <1>2 DEF CreateOpens, Initializes, Goes, MayPrepare, MayClaim
  <1>3. CASE \E a \in Attempts : ResumeOpens(a)
    BY <1>3 DEF ResumeOpens, Goes, MayClaim
  <1>4. CASE \E a \in Attempts : OpenFails(a)
    BY <1>4 DEF OpenFails, Goes
  <1>5. CASE \E a \in Attempts : LoadEnds(a)
    BY <1>5 DEF LoadEnds, Initializes, Goes, MayPrepare
  <1>6. CASE \E a \in Attempts : Discards(a)
    BY <1>6 DEF Discards, Goes
  <1>7. CASE \E a \in Attempts : SetupEnds(a)
    BY <1>7, Undone, RolledBack DEF SetupEnds, Goes
  <1>8. CASE \E a \in Attempts : SuffixFails(a)
    BY <1>8, Undone, RolledBack DEF SuffixFails, Goes
  <1>9. CASE \E a \in Attempts : Publishes(a)
    BY <1>9, Undone, RolledBack DEF Publishes, Goes
  <1>10. CASE \E a \in Attempts : AnnouncementEnds(a)
    BY <1>10, Undone, RolledBack DEF AnnouncementEnds, Goes
  <1>11. CASE \E a \in Attempts : RollbackEnds(a)
    BY <1>11 DEF RollbackEnds, Goes
  <1>12. CASE \E a \in Attempts : OrphanOpens(a)
    BY <1>12 DEF OrphanOpens, MayClaim
  <1>13. CASE \E a \in Attempts : OrphanCloses(a)
    BY <1>13 DEF OrphanCloses
  <1>14. CASE \E a \in Attempts : HandleDisposes(a)
    BY <1>14 DEF HandleDisposes, Disposes, TeardownOf
  <1>15. CASE \E a \in Attempts : PublicationSettles(a)
    BY <1>15 DEF PublicationSettles
  <1>16. CASE \E a \in Attempts : Quiesces(a)
    BY <1>16 DEF Quiesces, DriverIsIdle
  <1>17. CASE \E a \in Attempts : ScopeUnwinds(a)
    BY <1>17 DEF ScopeUnwinds
  <1>18. CASE \E a \in Attempts : HandleCloses(a)
    BY <1>18 DEF HandleCloses
  <1>19. CASE \E a \in Attempts : Detaches(a)
    BY <1>19 DEF Detaches, Goes, Heard
  <1>20. CASE \E a \in Attempts : WakeOpensTurn(a)
    BY <1>20 DEF WakeOpensTurn
  <1>21. CASE \E a \in Attempts : WakeIsLatched(a)
    BY <1>21 DEF WakeIsLatched
  <1>22. CASE \E a \in Attempts : UserCancels(a)
    BY <1>22 DEF UserCancels
  <1>23. CASE \E a \in Attempts : TurnEnds(a)
    BY <1>23 DEF TurnEnds, Converges
  <1>24. CASE \E a \in Attempts : CallerCancels(a)
    BY <1>24 DEF CallerCancels, GivesUp
  <1>25. CASE \E a \in Attempts : OwnerUnloads(a)
    BY <1>25 DEF OwnerUnloads, Disposes, GivesUp, Watching, Tracked, TeardownOf
  <1>26. CASE FactoryUnloads
    BY <1>26 DEF FactoryUnloads, Disposes, GivesUp, Watching, Tracked, TeardownOf
  <1>27. CASE AdmissionCloses
    BY <1>27 DEF AdmissionCloses
  <1>28. CASE FactoryUnloaded
    BY <1>28 DEF FactoryUnloaded
  <1>29. CASE UNCHANGED vars
    BY <1>29 DEF vars
  <1> QED
    BY <1>1, <1>2, <1>3, <1>4, <1>5, <1>6, <1>7, <1>8, <1>9, <1>10, <1>11, <1>12, <1>13,
       <1>14, <1>15, <1>16, <1>17, <1>18, <1>19, <1>20, <1>21, <1>22, <1>23, <1>24,
       <1>25, <1>26, <1>27, <1>28, <1>29 DEF Next, Progress, Orphan, Teardown

\* Once the service is being disposed, nothing begins that its disposal does not await.
Underway == factory # "active" => \A a \in Attempts :
    /\ stage[a] \in Calling => a \in awaited.calls
    /\ stage[a] = "live" => a \in awaited.teardowns
    /\ stage[a] \in Prepared => teardown[a] # "none"

LEMMA UnderwayStep ==
    ASSUME TypeOK, StageInv, Underway, [Next]_vars
    PROVE  Underway'
  <1> USE DEF TypeOK, StageInv, Underway, calls, registries, activity, service, Calling,
            Preparing, Prepared, Published
  <1>1. CASE \E a \in Attempts : Called(a)
    BY <1>1 DEF Called, Goes
  <1>2. CASE \E a \in Attempts : CreateOpens(a)
    BY <1>2 DEF CreateOpens, Initializes, Goes, MayPrepare, MayClaim
  <1>3. CASE \E a \in Attempts : ResumeOpens(a)
    BY <1>3 DEF ResumeOpens, Goes, MayClaim
  <1>4. CASE \E a \in Attempts : OpenFails(a)
    BY <1>4 DEF OpenFails, Goes
  <1>5. CASE \E a \in Attempts : LoadEnds(a)
    BY <1>5 DEF LoadEnds, Initializes, Goes, MayPrepare
  <1>6. CASE \E a \in Attempts : Discards(a)
    BY <1>6 DEF Discards, Goes
  <1>7. CASE \E a \in Attempts : SetupEnds(a)
    BY <1>7, Undone, RolledBack DEF SetupEnds, Goes
  <1>8. CASE \E a \in Attempts : SuffixFails(a)
    BY <1>8, Undone, RolledBack DEF SuffixFails, Goes
  <1>9. CASE \E a \in Attempts : Publishes(a)
    BY <1>9, Undone, RolledBack DEF Publishes, Goes
  <1>10. CASE \E a \in Attempts : AnnouncementEnds(a)
    BY <1>10, Undone, RolledBack DEF AnnouncementEnds, Goes
  <1>11. CASE \E a \in Attempts : RollbackEnds(a)
    BY <1>11 DEF RollbackEnds, Goes
  <1>12. CASE \E a \in Attempts : OrphanOpens(a)
    BY <1>12 DEF OrphanOpens, MayClaim
  <1>13. CASE \E a \in Attempts : OrphanCloses(a)
    BY <1>13 DEF OrphanCloses
  <1>14. CASE \E a \in Attempts : HandleDisposes(a)
    BY <1>14 DEF HandleDisposes, Disposes, TeardownOf
  <1>15. CASE \E a \in Attempts : PublicationSettles(a)
    BY <1>15 DEF PublicationSettles
  <1>16. CASE \E a \in Attempts : Quiesces(a)
    BY <1>16 DEF Quiesces, DriverIsIdle
  <1>17. CASE \E a \in Attempts : ScopeUnwinds(a)
    BY <1>17 DEF ScopeUnwinds
  <1>18. CASE \E a \in Attempts : HandleCloses(a)
    BY <1>18 DEF HandleCloses
  <1>19. CASE \E a \in Attempts : Detaches(a)
    BY <1>19 DEF Detaches, Goes, Heard
  <1>20. CASE \E a \in Attempts : WakeOpensTurn(a)
    BY <1>20 DEF WakeOpensTurn
  <1>21. CASE \E a \in Attempts : WakeIsLatched(a)
    BY <1>21 DEF WakeIsLatched
  <1>22. CASE \E a \in Attempts : UserCancels(a)
    BY <1>22 DEF UserCancels
  <1>23. CASE \E a \in Attempts : TurnEnds(a)
    BY <1>23 DEF TurnEnds, Converges
  <1>24. CASE \E a \in Attempts : CallerCancels(a)
    BY <1>24 DEF CallerCancels, GivesUp
  <1>25. CASE \E a \in Attempts : OwnerUnloads(a)
    BY <1>25 DEF OwnerUnloads, Disposes, GivesUp, Watching, Tracked, TeardownOf
  <1>26. CASE FactoryUnloads
    BY <1>26 DEF FactoryUnloads, Disposes, GivesUp, Watching, Tracked, TeardownOf
  <1>27. CASE AdmissionCloses
    BY <1>27 DEF AdmissionCloses
  <1>28. CASE FactoryUnloaded
    BY <1>28 DEF FactoryUnloaded
  <1>29. CASE UNCHANGED vars
    BY <1>29 DEF vars
  <1> QED
    BY <1>1, <1>2, <1>3, <1>4, <1>5, <1>6, <1>7, <1>8, <1>9, <1>10, <1>11, <1>12, <1>13,
       <1>14, <1>15, <1>16, <1>17, <1>18, <1>19, <1>20, <1>21, <1>22, <1>23, <1>24,
       <1>25, <1>26, <1>27, <1>28, <1>29 DEF Next, Progress, Orphan, Teardown

\* What has settled stays settled, and a rejection is not taken back.
LEMMA SettledStays ==
    ASSUME TypeOK, StageInv, factory # "active", [Next]_vars
    PROVE  /\ awaited' = awaited /\ rejected \subseteq rejected'
           /\ \A a \in Attempts : teardown[a] = "done" => teardown'[a] = "done"
           /\ \A a \in Attempts : stage[a] \notin Calling => stage'[a] \notin Calling
  <1> USE DEF TypeOK, StageInv, calls, registries, activity, service, Calling, Preparing
  <1>1. CASE \E a \in Attempts : Called(a)
    BY <1>1 DEF Called, Goes
  <1>2. CASE \E a \in Attempts : CreateOpens(a)
    BY <1>2 DEF CreateOpens, Initializes, Goes, MayPrepare, MayClaim
  <1>3. CASE \E a \in Attempts : ResumeOpens(a)
    BY <1>3 DEF ResumeOpens, Goes, MayClaim
  <1>4. CASE \E a \in Attempts : OpenFails(a)
    BY <1>4 DEF OpenFails, Goes
  <1>5. CASE \E a \in Attempts : LoadEnds(a)
    BY <1>5 DEF LoadEnds, Initializes, Goes, MayPrepare
  <1>6. CASE \E a \in Attempts : Discards(a)
    BY <1>6 DEF Discards, Goes
  <1>7. CASE \E a \in Attempts : SetupEnds(a)
    BY <1>7, Undone, RolledBack DEF SetupEnds, Goes
  <1>8. CASE \E a \in Attempts : SuffixFails(a)
    BY <1>8, Undone, RolledBack DEF SuffixFails, Goes
  <1>9. CASE \E a \in Attempts : Publishes(a)
    BY <1>9, Undone, RolledBack DEF Publishes, Goes
  <1>10. CASE \E a \in Attempts : AnnouncementEnds(a)
    BY <1>10, Undone, RolledBack DEF AnnouncementEnds, Goes
  <1>11. CASE \E a \in Attempts : RollbackEnds(a)
    BY <1>11 DEF RollbackEnds, Goes
  <1>12. CASE \E a \in Attempts : OrphanOpens(a)
    BY <1>12 DEF OrphanOpens, MayClaim
  <1>13. CASE \E a \in Attempts : OrphanCloses(a)
    BY <1>13 DEF OrphanCloses
  <1>14. CASE \E a \in Attempts : HandleDisposes(a)
    BY <1>14 DEF HandleDisposes, Disposes, TeardownOf
  <1>15. CASE \E a \in Attempts : PublicationSettles(a)
    BY <1>15 DEF PublicationSettles
  <1>16. CASE \E a \in Attempts : Quiesces(a)
    BY <1>16 DEF Quiesces, DriverIsIdle
  <1>17. CASE \E a \in Attempts : ScopeUnwinds(a)
    BY <1>17 DEF ScopeUnwinds
  <1>18. CASE \E a \in Attempts : HandleCloses(a)
    BY <1>18 DEF HandleCloses
  <1>19. CASE \E a \in Attempts : Detaches(a)
    BY <1>19 DEF Detaches, Goes, Heard
  <1>20. CASE \E a \in Attempts : WakeOpensTurn(a)
    BY <1>20 DEF WakeOpensTurn
  <1>21. CASE \E a \in Attempts : WakeIsLatched(a)
    BY <1>21 DEF WakeIsLatched
  <1>22. CASE \E a \in Attempts : UserCancels(a)
    BY <1>22 DEF UserCancels
  <1>23. CASE \E a \in Attempts : TurnEnds(a)
    BY <1>23 DEF TurnEnds, Converges
  <1>24. CASE \E a \in Attempts : CallerCancels(a)
    BY <1>24 DEF CallerCancels, GivesUp
  <1>25. CASE \E a \in Attempts : OwnerUnloads(a)
    BY <1>25 DEF OwnerUnloads, Disposes, GivesUp, Watching, Tracked, TeardownOf
  <1>26. CASE FactoryUnloads
    BY <1>26 DEF FactoryUnloads, Disposes, GivesUp, Watching, Tracked, TeardownOf
  <1>27. CASE AdmissionCloses
    BY <1>27 DEF AdmissionCloses
  <1>28. CASE FactoryUnloaded
    BY <1>28 DEF FactoryUnloaded
  <1>29. CASE UNCHANGED vars
    BY <1>29 DEF vars
  <1> QED
    BY <1>1, <1>2, <1>3, <1>4, <1>5, <1>6, <1>7, <1>8, <1>9, <1>10, <1>11, <1>12, <1>13,
       <1>14, <1>15, <1>16, <1>17, <1>18, <1>19, <1>20, <1>21, <1>22, <1>23, <1>24,
       <1>25, <1>26, <1>27, <1>28, <1>29 DEF Next, Progress, Orphan, Teardown

\* Its disposal returns when all has settled, or when a teardown has rejected.
LEMMA ReturnStep ==
    ASSUME TypeOK, StageInv, factory = "gone" => AllSettled \/ Failures # {}, [Next]_vars
    PROVE  factory' = "gone" => AllSettled' \/ Failures' # {}
  <1> SUFFICES ASSUME factory' = "gone"
               PROVE  AllSettled' \/ Failures' # {}
    OBVIOUS
  <1>1. CASE FactoryUnloaded
    BY <1>1 DEF FactoryUnloaded, AllSettled, Failures
  <1>2. CASE factory = "gone"
    <2>1. /\ awaited' = awaited /\ rejected \subseteq rejected'
          /\ \A a \in Attempts : teardown[a] = "done" => teardown'[a] = "done"
          /\ \A a \in Attempts : stage[a] \notin Calling => stage'[a] \notin Calling
      BY <1>2, SettledStays
    <2>2. AllSettled => AllSettled'
      BY <2>1 DEF TypeOK, AllSettled
    <2>3. Failures \subseteq Failures'
      BY <2>1 DEF TypeOK, Failures
    <2> QED
      BY <1>2, <2>2, <2>3
  <1>3. FactoryUnloaded \/ factory = "gone"
    BY DEF Next, vars, service, Progress, Orphan, Teardown, Called, CreateOpens, ResumeOpens,
           OpenFails, LoadEnds, Discards, SetupEnds, SuffixFails, Publishes, AnnouncementEnds,
           RollbackEnds, OrphanOpens, OrphanCloses, HandleDisposes, PublicationSettles,
           Quiesces, ScopeUnwinds, HandleCloses, Detaches, WakeOpensTurn, WakeIsLatched,
           UserCancels, TurnEnds, CallerCancels, OwnerUnloads, AdmissionCloses, FactoryUnloads
  <1> QED
    BY <1>1, <1>2, <1>3

LEMMA UnloadStep ==
    ASSUME TypeOK, StageInv, UnloadInv, [Next]_vars
    PROVE  UnloadInv'
  <1>1. Underway /\ (factory = "gone" => AllSettled \/ Failures # {})
    BY DEF UnloadInv, Underway
  <1>2. Underway' /\ (factory' = "gone" => AllSettled' \/ Failures' # {})
    BY <1>1, UnderwayStep, ReturnStep
  <1> QED
    BY <1>2 DEF UnloadInv, Underway

-----------------------------------------------------------------------------
(* The theorems. *)

LEMMA InitInv == Init => LifecycleInv
  <1>1. Init => TypeOK
    BY DEF Init, TypeOK, Stages, Teardowns, News, Drivers, Calling, Preparing
  <1>2. Init => EntriesOwnTheLog
    BY DEF Init, EntriesOwnTheLog
  <1>3. Init => StageInv
    BY DEF Init, StageInv, Preparing
  <1>4. Init => ClaimInv /\ EntryInv
    BY LifecycleAssumption DEF Init, ClaimInv, EntryInv, Prepared, Preparing
  <1>5. Init => NewsInv
    BY DEF Init, NewsInv
  <1>6. Init => UnloadInv
    BY DEF Init, UnloadInv
  <1> QED
    BY <1>1, <1>2, <1>3, <1>4, <1>5, <1>6 DEF LifecycleInv

LEMMA LifecycleStep ==
    ASSUME LifecycleInv, [Next]_vars
    PROVE  LifecycleInv'
  <1>1. TypeOK' /\ StageInv' /\ ClaimInv'
    BY TypeStep, StageStep, ClaimStep DEF LifecycleInv
  <1>2. EntryInv' /\ NewsInv' /\ UnloadInv'
    BY EntryStep, NewsStep, UnloadStep DEF LifecycleInv
  <1>3. EntriesOwnTheLog'
    <2>1. (session # Nobody => claim = session \/ teardown[session] = "detaching")'
      BY <1>1, <1>2 DEF TypeOK, ClaimInv, EntryInv, Published, Prepared, Preparing
    <2>2. (agent # Nobody => session = agent)'
      BY <1>1, <1>2 DEF TypeOK, EntryInv
    <2>3. (\A a \in Attempts : stage[a] = "live" => session = a /\ agent = a)'
      BY <1>2 DEF EntryInv
    <2> QED
      BY <2>1, <2>2, <2>3 DEF EntriesOwnTheLog
  <1> QED
    BY <1>1, <1>2, <1>3 DEF LifecycleInv

\* A registered session owns its log and its agent (setupAndPublish and the teardown
\* of prepare() in packages/core/agent-loop/src/index.ts), for any number of
\* attempts at one id.
THEOREM EntriesAreOwned == Spec => []LifecycleInv
  <1>1. LifecycleInv /\ [Next]_vars => LifecycleInv'
    BY LifecycleStep
  <1> QED
    BY InitInv, <1>1, PTL DEF Spec

\* Creation and disposal are announced in pairs (enter, announce and detach of the
\* two registries), on every path out of an attempt.
THEOREM NewsComesInPairs == Spec => []CreationsArePaired
  <1>1. LifecycleInv => CreationsArePaired
    BY DEF LifecycleInv, TypeOK, News, EntryInv, NewsInv, CreationsArePaired, Published
  <1> QED
    BY EntriesAreOwned, <1>1, PTL

\* When the disposal of the agent loop service has returned, all that is left of it
\* is being torn down, and nothing is left unless a teardown it joined has rejected
\* (FactoryOwnership.dispose in packages/core/agent-loop/src/index.ts).
THEOREM UnloadIsComplete == Spec => []UnloadLeavesNothing
  <1>1. LifecycleInv => UnloadLeavesNothing
    <2> SUFFICES ASSUME LifecycleInv, factory = "gone"
                 PROVE  UnloadLeavesNothing
      BY DEF UnloadLeavesNothing
    <2>1. \A a \in Attempts : stage[a] \in Prepared => teardown[a] # "none"
      BY DEF LifecycleInv, UnloadInv
    <2>2. \A a \in Attempts : a \in {session, agent} => teardown[a] # "none"
      BY <2>1 DEF LifecycleInv, EntryInv, Published, Prepared, Preparing
    <2>3. ASSUME Failures = {}
          PROVE  /\ session = Nobody /\ agent = Nobody
                 /\ claim \in orphans \union {Nobody}
                 /\ \A a \in Attempts : stage[a] \in {"unborn", "over"}
      <3>1. AllSettled
        BY <2>3 DEF LifecycleInv, UnloadInv
      <3>2. \A a \in Attempts : stage[a] \notin Calling
        BY <3>1 DEF LifecycleInv, UnloadInv, AllSettled
      <3>3. \A a \in Attempts : stage[a] # "live"
        BY <3>1 DEF LifecycleInv, UnloadInv, StageInv, AllSettled
      <3>4. \A a \in Attempts : stage[a] \in {"unborn", "over"}
        BY <3>2, <3>3 DEF LifecycleInv, TypeOK, Stages
      <3>5. session = Nobody /\ agent = Nobody
        BY <3>4 DEF LifecycleInv, TypeOK, EntryInv, Published
      <3>6. claim \in orphans \union {Nobody}
        BY <3>4 DEF LifecycleInv, TypeOK, ClaimInv, Prepared, Preparing
      <3> QED
        BY <3>4, <3>5, <3>6
    <2> QED
      BY <2>1, <2>2, <2>3 DEF UnloadLeavesNothing
  <1> QED
    BY EntriesAreOwned, <1>1, PTL
=============================================================================
