---------------------- MODULE QuestDBProvisioningProofs ----------------------
(***************************************************************************)
(* Proofs about module QuestDBProvisioning, for any profiles, columns,     *)
(* faults and number of retries.                                           *)
(***************************************************************************)
EXTENDS QuestDBProvisioning, TLAPS

\* The places of the flow that only one kind of configuration reaches; only a
\* profile schedules a retry.
LegacyPlaces == {"state_table", "legacy_ttl", "legacy_alter"}
RollupPlaces == {"create_view", "view_status", "view_ttl", "view_alter",
                 "raw_ttl", "raw_alter", "raw_verify"}

Routed ==
    /\ pc \in Places
    /\ pc \in LegacyPlaces => config.profile = Disabled
    /\ pc \in RollupPlaces => config.profile # Disabled
    /\ retry = "sleeping" => config.profile # Disabled

\* While the flow is past the check of the view, the view stays current: the
\* daemon writes nothing meanwhile and QuestDB only refreshes.
ViewCurrent ==
    /\ view \in [Views -> {"absent", "behind", "current"}]
    /\ /\ pc \in {"view_ttl", "view_alter", "owner", "raw_ttl", "raw_alter",
                  "raw_verify", "state", "insert"}
       /\ config.profile # Disabled
       => view[MyView] = "current"

\* Whatever says that the TTL is managed - the status row, the flow's copy of
\* it, what the flow is about to publish - says so of a daemon that has set one;
\* at an ALTER TABLE the TTL read was not an administrator's, or was the daemon's.
Ownership ==
    /\ owner = "admin" => raw_ttl # 0
    /\ state.managed \/ previously_managed \/ raw.managed => claimed
    /\ pc \in {"legacy_alter", "raw_alter"} =>
          owner # "admin" \/ claimed \/ altered
    /\ pc = "raw_verify" => claimed

\* Every step keeps to the places of its configuration.
LEMMA RoutedStep == Routed /\ [Next]_vars => Routed'
<1> SUFFICES ASSUME Routed, [Next]_vars  PROVE Routed'
  OBVIOUS
<1> USE DEF Routed, Places, LegacyPlaces, RollupPlaces, outcome, FlowEnds
<1>1. CASE CreateTable
  BY <1>1 DEF CreateTable, AfterSchema, Goto, Pass, Conclude, FlowEnds, Raise
<1>2. CASE AddColumn
  BY <1>2 DEF AddColumn, AfterSchema, Goto, Pass, Conclude, FlowEnds, Raise
<1>3. CASE StateTable
  BY <1>3 DEF StateTable, Goto, Pass, Conclude, FlowEnds, Raise
<1>4. CASE LegacyTTL
  BY <1>4 DEF LegacyTTL, Goto, Pass, Conclude, FlowEnds, Raise
<1>5. CASE LegacyAlter
  BY <1>5 DEF LegacyAlter, Goto, Pass, Conclude, FlowEnds, Raise
<1>6. CASE CreateView
  BY <1>6 DEF CreateView, Goto, Pass, Conclude, FlowEnds, Raise
<1>7. CASE ViewStatus
  BY <1>7 DEF ViewStatus, Goto, Pass, Conclude, FlowEnds, Raise
<1>8. CASE ViewTTL
  BY <1>8 DEF ViewTTL, Goto, Pass, Conclude, FlowEnds, Raise
<1>9. CASE ViewAlter
  BY <1>9 DEF ViewAlter, Goto, Pass, Conclude, FlowEnds, Raise
<1>10. CASE Owner
  BY <1>10 DEF Owner, Goto, Pass, Conclude, FlowEnds, Raise
<1>11. CASE RawTTL
  BY <1>11 DEF RawTTL, Goto, Pass, Conclude, FlowEnds, Raise
<1>12. CASE RawAlter
  BY <1>12 DEF RawAlter, Goto, Pass, Conclude, FlowEnds, Raise
<1>13. CASE RawVerify
  BY <1>13 DEF RawVerify, Goto, Pass, Conclude, FlowEnds, Raise
<1>14. CASE ReadState
  BY <1>14 DEF ReadState, Goto, Pass, Conclude, FlowEnds, Raise
<1>15. CASE InsertState
  BY <1>15 DEF InsertState, Goto, Pass, Conclude, FlowEnds, Raise
<1>16. CASE Dial
  BY <1>16 DEF Dial, Goto, Pass, Conclude, FlowEnds, Raise
<1>17. CASE LoseClient
  BY <1>17 DEF LoseClient, Goto, Pass, Conclude, FlowEnds, Raise
<1>18. CASE RetryWakes
  BY <1>18 DEF RetryWakes, Goto, Pass, Conclude, FlowEnds, Raise
<1>19. CASE Restart
  BY <1>19 DEF Restart, Start, Goto, Pass, Conclude, FlowEnds, Raise
<1>20. CASE Refresh
  BY <1>20 DEF Refresh, Goto, Pass, Conclude, FlowEnds, Raise
<1>21. CASE WriteRows
  BY <1>21 DEF WriteRows, Goto, Pass, Conclude, FlowEnds, Raise
<1>22. CASE AdminSetsTTL
  BY <1>22 DEF AdminSetsTTL, Goto, Pass, Conclude, FlowEnds, Raise
<1>23. CASE UNCHANGED vars
  BY <1>23 DEF vars, server, locals, outcome
<1> QED  BY <1>1, <1>2, <1>3, <1>4, <1>5, <1>6, <1>7, <1>8, <1>9, <1>10,
         <1>11, <1>12, <1>13, <1>14, <1>15, <1>16, <1>17, <1>18, <1>19,
         <1>20, <1>21, <1>22, <1>23 DEF Next, Daemon, Flow

\* Every step keeps the checked view current until the raw TTL is changed.
LEMMA ViewCurrentStep ==
    Routed /\ ViewCurrent /\ [Next]_vars => ViewCurrent'
<1> SUFFICES ASSUME Routed, ViewCurrent, [Next]_vars  PROVE ViewCurrent'
  OBVIOUS
<1> USE DEF Routed, ViewCurrent, MyView, LegacyPlaces, server, FlowEnds
<1>1. CASE CreateTable
  BY <1>1 DEF CreateTable, AfterSchema, Goto, Pass, Conclude, FlowEnds, Raise
<1>2. CASE AddColumn
  BY <1>2 DEF AddColumn, AfterSchema, Goto, Pass, Conclude, FlowEnds, Raise
<1>3. CASE StateTable
  BY <1>3 DEF StateTable, Goto, Pass, Conclude, FlowEnds, Raise
<1>4. CASE LegacyTTL
  BY <1>4 DEF LegacyTTL, Goto, Pass, Conclude, FlowEnds, Raise
<1>5. CASE LegacyAlter
  BY <1>5 DEF LegacyAlter, Goto, Pass, Conclude, FlowEnds, Raise
<1>6. CASE CreateView
  BY <1>6 DEF CreateView, Create, Goto, Pass, Conclude, FlowEnds, Raise
<1>7. CASE ViewStatus
  BY <1>7 DEF ViewStatus, RefreshComplete, Goto, Pass, Conclude, FlowEnds, Raise
<1>8. CASE ViewTTL
  BY <1>8 DEF ViewTTL, Goto, Pass, Conclude, FlowEnds, Raise
<1>9. CASE ViewAlter
  BY <1>9 DEF ViewAlter, Goto, Pass, Conclude, FlowEnds, Raise
<1>10. CASE Owner
  BY <1>10 DEF Owner, Goto, Pass, Conclude, FlowEnds, Raise
<1>11. CASE RawTTL
  BY <1>11 DEF RawTTL, Goto, Pass, Conclude, FlowEnds, Raise
<1>12. CASE RawAlter
  BY <1>12 DEF RawAlter, Goto, Pass, Conclude, FlowEnds, Raise
<1>13. CASE RawVerify
  BY <1>13 DEF RawVerify, Goto, Pass, Conclude, FlowEnds, Raise
<1>14. CASE ReadState
  BY <1>14 DEF ReadState, Goto, Pass, Conclude, FlowEnds, Raise
<1>15. CASE InsertState
  BY <1>15 DEF InsertState, Goto, Pass, Conclude, FlowEnds, Raise
<1>16. CASE Dial
  BY <1>16 DEF Dial, Goto, Pass, Conclude, FlowEnds, Raise
<1>17. CASE LoseClient
  BY <1>17 DEF LoseClient, Goto, Pass, Conclude, FlowEnds, Raise
<1>18. CASE RetryWakes
  BY <1>18 DEF RetryWakes, Goto, Pass, Conclude, FlowEnds, Raise
<1>19. CASE Restart
  BY <1>19 DEF Restart, Start, Goto, Pass, Conclude, FlowEnds, Raise
<1>20. CASE Refresh
  BY <1>20 DEF Refresh, Goto, Pass, Conclude, FlowEnds, Raise
<1>21. CASE WriteRows
  BY <1>21 DEF WriteRows, Goto, Pass, Conclude, FlowEnds, Raise
<1>22. CASE AdminSetsTTL
  BY <1>22 DEF AdminSetsTTL, Goto, Pass, Conclude, FlowEnds, Raise
<1>23. CASE UNCHANGED vars
  BY <1>23 DEF vars, server, locals, outcome
<1> QED  BY <1>1, <1>2, <1>3, <1>4, <1>5, <1>6, <1>7, <1>8, <1>9, <1>10,
         <1>11, <1>12, <1>13, <1>14, <1>15, <1>16, <1>17, <1>18, <1>19,
         <1>20, <1>21, <1>22, <1>23 DEF Next, Daemon, Flow

\* Every step keeps the account of who owns the TTL.
LEMMA OwnershipStep ==
    ASSUME ProvisioningAssumption
    PROVE  Ownership /\ [Next]_vars => Ownership'
<1> SUFFICES ASSUME Ownership, [Next]_vars  PROVE Ownership'
  OBVIOUS
<1> USE DEF Ownership, server, ttlVars, locals, Publish, SetRawTTL, ReadsTTL,
           Nothing
<1>1. CASE CreateTable
  BY <1>1 DEF CreateTable, AfterSchema, Goto, Pass, Conclude, FlowEnds, Raise
<1>2. CASE AddColumn
  BY <1>2 DEF AddColumn, AfterSchema, Goto, Pass, Conclude, FlowEnds, Raise
<1>3. CASE StateTable
  BY <1>3 DEF StateTable, Goto, Pass, Conclude, FlowEnds, Raise
<1>4. CASE LegacyTTL
  BY <1>4 DEF LegacyTTL, Goto, Pass, Conclude, FlowEnds, Raise
<1>5. CASE LegacyAlter
  BY <1>5 DEF LegacyAlter, Goto, Pass, Conclude, FlowEnds, Raise
<1>6. CASE CreateView
  BY <1>6 DEF CreateView, Goto, Pass, Conclude, FlowEnds, Raise
<1>7. CASE ViewStatus
  BY <1>7 DEF ViewStatus, Goto, Pass, Conclude, FlowEnds, Raise
<1>8. CASE ViewTTL
  BY <1>8 DEF ViewTTL, Goto, Pass, Conclude, FlowEnds, Raise
<1>9. CASE ViewAlter
  BY <1>9 DEF ViewAlter, Goto, Pass, Conclude, FlowEnds, Raise
<1>10. CASE Owner
  <2>1. PICK managed \in BOOLEAN :
          /\ \/ managed = state.managed /\ state_exists' = TRUE
             \/ /\ Refused \/ Lost
                /\ ~managed /\ state_exists' \in {state_exists, TRUE}
          /\ IF config.profile = Disabled
             THEN Publish(0, managed) /\ Goto("state")
             ELSE /\ previously_managed' = managed /\ UNCHANGED <<column, raw>>
                  /\ Goto("raw_ttl")
    BY <1>10 DEF Owner
  <2>2. managed => claimed
    BY <2>1, Zenon
  <2>3. UNCHANGED <<columns, ttlVars, view, view_ttl, state>>
    BY <1>10 DEF Owner
  <2>4. CASE config.profile = Disabled
    BY <2>1, <2>2, <2>3, <2>4 DEF Goto
  <2>5. CASE config.profile # Disabled
    <3>1. (previously_managed' <=> managed) /\ raw' = raw
      BY <2>1, <2>5, Zenon
    <3> QED  BY <2>1, <2>2, <2>3, <2>5, <3>1 DEF Goto
  <2> QED  BY <2>4, <2>5
<1>11. CASE RawTTL
  BY <1>11 DEF RawTTL, TTLIsAdmins, StillOwned, Goto, Pass, Conclude, FlowEnds, Raise
<1>12. CASE RawAlter
  BY <1>12 DEF RawAlter, Goto, Pass, Conclude, FlowEnds, Raise
<1>13. CASE RawVerify
  BY <1>13 DEF RawVerify, Goto, Pass, Conclude, FlowEnds, Raise
<1>14. CASE ReadState
  <2>1. UNCHANGED <<ttlVars, state>>
    BY <1>14 DEF ReadState
  <2>2. \/ previously_managed' = FALSE /\ raw' = Nothing /\ pc' = "idle"
        \/ UNCHANGED locals /\ pc' = "insert"
    BY <1>14 DEF ReadState, Goto, Pass, Conclude, FlowEnds
  <2> QED  BY <2>1, <2>2
<1>15. CASE InsertState
  <2>1. claimed' <=> claimed /\ (state' = state \/ state'.managed)
    BY <1>15, Zenon DEF InsertState
  <2>2. /\ state' \in {state, Row} /\ UNCHANGED <<raw_ttl, owner>>
        /\ previously_managed' = FALSE /\ raw' = Nothing /\ pc' = "idle"
    BY <1>15 DEF InsertState, Conclude, FlowEnds
  <2>3. Row.managed => raw.managed
    BY DEF Row
  <2>4. state'.managed => claimed'
    BY <2>1, <2>2, <2>3
  <2> QED  BY <2>2, <2>4
<1>16. CASE Dial
  BY <1>16 DEF Dial, Goto, Pass, Conclude, FlowEnds, Raise
<1>17. CASE LoseClient
  BY <1>17 DEF LoseClient, Goto, Pass, Conclude, FlowEnds, Raise
<1>18. CASE RetryWakes
  BY <1>18 DEF RetryWakes, Goto, Pass, Conclude, FlowEnds, Raise
<1>19. CASE Restart
  BY <1>19 DEF Restart, Start, Goto, Pass, Conclude, FlowEnds, Raise
<1>20. CASE Refresh
  BY <1>20 DEF Refresh, Goto, Pass, Conclude, FlowEnds, Raise
<1>21. CASE WriteRows
  BY <1>21 DEF WriteRows, Goto, Pass, Conclude, FlowEnds, Raise
<1>22. CASE AdminSetsTTL
  BY <1>22 DEF AdminSetsTTL, Goto, Pass, Conclude, FlowEnds, Raise
<1>23. CASE UNCHANGED vars
  BY <1>23 DEF vars, server, locals, outcome
<1> QED  BY <1>1, <1>2, <1>3, <1>4, <1>5, <1>6, <1>7, <1>8, <1>9, <1>10,
         <1>11, <1>12, <1>13, <1>14, <1>15, <1>16, <1>17, <1>18, <1>19,
         <1>20, <1>21, <1>22, <1>23 DEF Next, Daemon, Flow

\* The configuration is one of the configurations there are.
Configured ==
    config \in [profile: Profiles \cup {Disabled}, retention: Retentions]

\* What the flow is about to publish is what the server enforces, or did when
\* the flow read it.
Effective ==
    pc \in {"state", "insert"} /\ config.profile # Disabled
        => altered \/ raw.days = PublishedDays(raw_ttl)

\* The retention a profile asks for is a positive number of days, so it is
\* published as it is (questdb_raw_retention_days).
LEMMA Requested ==
    ASSUME ProvisioningAssumption, Configured, config.profile # Disabled
    PROVE  RequestedDays \in Nat \ {0}
<1>1. config.profile \in Profiles /\ config.retention \in Nat
  BY DEF ProvisioningAssumption, Configured
<1>2. RawDays[config.profile] \in Nat \ {0}
  BY <1>1 DEF ProvisioningAssumption
<1> QED  BY <1>1, <1>2 DEF RequestedDays

\* Only a restart changes the configuration, to another one in use.
LEMMA ConfiguredStep ==
    ASSUME ProvisioningAssumption
    PROVE  Configured /\ [Next]_vars => Configured'
<1> SUFFICES ASSUME Configured, [Next]_vars  PROVE Configured'
  OBVIOUS
<1> USE DEF Configured
<1>1. CASE CreateTable
  BY <1>1 DEF CreateTable, AfterSchema, Goto, Pass, Conclude, FlowEnds, Raise
<1>2. CASE AddColumn
  BY <1>2 DEF AddColumn, AfterSchema, Goto, Pass, Conclude, FlowEnds, Raise
<1>3. CASE StateTable
  BY <1>3 DEF StateTable, Goto, Pass, Conclude, FlowEnds, Raise
<1>4. CASE LegacyTTL
  BY <1>4 DEF LegacyTTL, Goto, Pass, Conclude, FlowEnds, Raise
<1>5. CASE LegacyAlter
  BY <1>5 DEF LegacyAlter, Goto, Pass, Conclude, FlowEnds, Raise
<1>6. CASE CreateView
  BY <1>6 DEF CreateView, Goto, Pass, Conclude, FlowEnds, Raise
<1>7. CASE ViewStatus
  BY <1>7 DEF ViewStatus, Goto, Pass, Conclude, FlowEnds, Raise
<1>8. CASE ViewTTL
  BY <1>8 DEF ViewTTL, Goto, Pass, Conclude, FlowEnds, Raise
<1>9. CASE ViewAlter
  BY <1>9 DEF ViewAlter, Goto, Pass, Conclude, FlowEnds, Raise
<1>10. CASE Owner
  BY <1>10 DEF Owner, Goto, Pass, Conclude, FlowEnds, Raise
<1>11. CASE RawTTL
  BY <1>11 DEF RawTTL, Goto, Pass, Conclude, FlowEnds, Raise
<1>12. CASE RawAlter
  BY <1>12 DEF RawAlter, Goto, Pass, Conclude, FlowEnds, Raise
<1>13. CASE RawVerify
  BY <1>13 DEF RawVerify, Goto, Pass, Conclude, FlowEnds, Raise
<1>14. CASE ReadState
  BY <1>14 DEF ReadState, Goto, Pass, Conclude, FlowEnds, Raise
<1>15. CASE InsertState
  BY <1>15 DEF InsertState, Goto, Pass, Conclude, FlowEnds, Raise
<1>16. CASE Dial
  BY <1>16 DEF Dial
<1>17. CASE LoseClient
  BY <1>17 DEF LoseClient
<1>18. CASE RetryWakes
  BY <1>18 DEF RetryWakes
<1>19. CASE Restart
  BY <1>19 DEF Restart, Start, Configurations, ProvisioningAssumption
<1>20. CASE Refresh
  BY <1>20 DEF Refresh
<1>21. CASE WriteRows
  BY <1>21 DEF WriteRows
<1>22. CASE AdminSetsTTL
  BY <1>22 DEF AdminSetsTTL
<1>23. CASE UNCHANGED vars
  BY <1>23 DEF vars
<1> QED  BY <1>1, <1>2, <1>3, <1>4, <1>5, <1>6, <1>7, <1>8, <1>9, <1>10,
         <1>11, <1>12, <1>13, <1>14, <1>15, <1>16, <1>17, <1>18, <1>19,
         <1>20, <1>21, <1>22, <1>23 DEF Next, Daemon, Flow

\* What is about to be published stays in force until an administrator changes
\* the TTL.
LEMMA EffectiveStep ==
    ASSUME ProvisioningAssumption
    PROVE  Configured /\ Routed /\ Effective /\ [Next]_vars => Effective'
<1> SUFFICES ASSUME Configured, Routed, Effective, [Next]_vars  PROVE Effective'
  OBVIOUS
<1> USE DEF Effective, Routed, LegacyPlaces, server, ttlVars, locals, Publish,
           PublishedDays, ReadsTTL, Odd
<1>1. CASE CreateTable
  BY <1>1 DEF CreateTable, AfterSchema, Goto, Pass, Conclude, FlowEnds, Raise
<1>2. CASE AddColumn
  BY <1>2 DEF AddColumn, AfterSchema, Goto, Pass, Conclude, FlowEnds, Raise
<1>3. CASE StateTable
  BY <1>3 DEF StateTable, Goto, Pass, Conclude, FlowEnds, Raise
<1>4. CASE LegacyTTL
  BY <1>4 DEF LegacyTTL, Goto, Pass, Conclude, FlowEnds, Raise
<1>5. CASE LegacyAlter
  BY <1>5 DEF LegacyAlter, Goto, Pass, Conclude, FlowEnds, Raise
<1>6. CASE CreateView
  BY <1>6 DEF CreateView, Goto, Pass, Conclude, FlowEnds, Raise
<1>7. CASE ViewStatus
  BY <1>7 DEF ViewStatus, Goto, Pass, Conclude, FlowEnds, Raise
<1>8. CASE ViewTTL
  BY <1>8 DEF ViewTTL, Goto, Pass, Conclude, FlowEnds, Raise
<1>9. CASE ViewAlter
  BY <1>9 DEF ViewAlter, Goto, Pass, Conclude, FlowEnds, Raise
<1>10. CASE Owner
  BY <1>10 DEF Owner, Goto, Pass, Conclude, FlowEnds, Raise
<1>11. CASE RawTTL
  BY <1>11, Requested DEF RawTTL, Goto, Pass, Conclude, FlowEnds, Raise, EffectiveDays
<1>12. CASE RawAlter
  BY <1>12 DEF RawAlter, Goto, Pass, Conclude, FlowEnds, Raise
<1>13. CASE RawVerify
  BY <1>13, Requested DEF RawVerify, Goto, Pass, Conclude, FlowEnds, Raise
<1>14. CASE ReadState
  BY <1>14 DEF ReadState, Goto, Pass, Conclude, FlowEnds, Raise
<1>15. CASE InsertState
  BY <1>15 DEF InsertState, Goto, Pass, Conclude, FlowEnds, Raise
<1>16. CASE Dial
  BY <1>16 DEF Dial
<1>17. CASE LoseClient
  BY <1>17 DEF LoseClient
<1>18. CASE RetryWakes
  BY <1>18 DEF RetryWakes
<1>19. CASE Restart
  BY <1>19 DEF Restart, Start, FlowEnds
<1>20. CASE Refresh
  BY <1>20 DEF Refresh
<1>21. CASE WriteRows
  BY <1>21 DEF WriteRows
<1>22. CASE AdminSetsTTL
  BY <1>22 DEF AdminSetsTTL
<1>23. CASE UNCHANGED vars
  BY <1>23 DEF vars
<1> QED  BY <1>1, <1>2, <1>3, <1>4, <1>5, <1>6, <1>7, <1>8, <1>9, <1>10,
         <1>11, <1>12, <1>13, <1>14, <1>15, <1>16, <1>17, <1>18, <1>19,
         <1>20, <1>21, <1>22, <1>23 DEF Next, Daemon, Flow

\* The row written names the configured profile and says whether there is one.
LEMMA RowIsOfProfile ==
    /\ Row.profile = config.profile
    /\ Row.enabled = (config.profile # Disabled)
<1>1. CASE config.profile = Disabled
  BY <1>1 DEF Row
<1>2. CASE config.profile # Disabled
  BY <1>2 DEF Row
<1> QED  BY <1>1, <1>2

\* Only a row of the present configuration makes the schema count as ensured,
\* and no other row is written afterwards.
LEMMA EnsuredStep == EnsuredIsPublished /\ [Next]_vars => EnsuredIsPublished'
<1> SUFFICES ASSUME EnsuredIsPublished, [Next]_vars  PROVE EnsuredIsPublished'
  OBVIOUS
<1> USE DEF EnsuredIsPublished, server, outcome
<1>1. CASE CreateTable
  BY <1>1 DEF CreateTable, AfterSchema, Goto, Pass, Conclude, FlowEnds, Raise
<1>2. CASE AddColumn
  BY <1>2 DEF AddColumn, AfterSchema, Goto, Pass, Conclude, FlowEnds, Raise
<1>3. CASE StateTable
  BY <1>3 DEF StateTable, Goto, Pass, Conclude, FlowEnds, Raise
<1>4. CASE LegacyTTL
  BY <1>4 DEF LegacyTTL, Goto, Pass, Conclude, FlowEnds, Raise
<1>5. CASE LegacyAlter
  BY <1>5 DEF LegacyAlter, Goto, Pass, Conclude, FlowEnds, Raise
<1>6. CASE CreateView
  BY <1>6 DEF CreateView, Goto, Pass, Conclude, FlowEnds, Raise
<1>7. CASE ViewStatus
  BY <1>7 DEF ViewStatus, Goto, Pass, Conclude, FlowEnds, Raise
<1>8. CASE ViewTTL
  BY <1>8 DEF ViewTTL, Goto, Pass, Conclude, FlowEnds, Raise
<1>9. CASE ViewAlter
  BY <1>9 DEF ViewAlter, Goto, Pass, Conclude, FlowEnds, Raise
<1>10. CASE Owner
  BY <1>10 DEF Owner, Goto, Pass, Conclude, FlowEnds, Raise
<1>11. CASE RawTTL
  BY <1>11 DEF RawTTL, Goto, Pass, Conclude, FlowEnds, Raise
<1>12. CASE RawAlter
  BY <1>12 DEF RawAlter, Goto, Pass, Conclude, FlowEnds, Raise
<1>13. CASE RawVerify
  BY <1>13 DEF RawVerify, Goto, Pass, Conclude, FlowEnds, Raise
<1>14. CASE ReadState
  <2>1. state' = state /\ config' = config
    BY <1>14 DEF ReadState, Goto, Pass, Conclude, FlowEnds
  <2>2. questdb_schema_ensured' => questdb_schema_ensured \/ state = Row
    BY <1>14 DEF ReadState, Goto, Pass, Conclude, FlowEnds, RowPublished
  <2> QED  BY <2>1, <2>2, RowIsOfProfile
<1>15. CASE InsertState
  <2>1. state' \in {state, Row} /\ config' = config
    BY <1>15 DEF InsertState, Conclude, FlowEnds
  <2>2. questdb_schema_ensured' => questdb_schema_ensured \/ state' = Row
    BY <1>15 DEF InsertState, Conclude, FlowEnds
  <2> QED  BY <2>1, <2>2, RowIsOfProfile
<1>16. CASE Dial
  BY <1>16 DEF Dial
<1>17. CASE LoseClient
  BY <1>17 DEF LoseClient
<1>18. CASE RetryWakes
  BY <1>18 DEF RetryWakes
<1>19. CASE Restart
  BY <1>19 DEF Restart, Start, FlowEnds
<1>20. CASE Refresh
  BY <1>20 DEF Refresh
<1>21. CASE WriteRows
  BY <1>21 DEF WriteRows
<1>22. CASE AdminSetsTTL
  BY <1>22 DEF AdminSetsTTL
<1>23. CASE UNCHANGED vars
  BY <1>23 DEF vars
<1> QED  BY <1>1, <1>2, <1>3, <1>4, <1>5, <1>6, <1>7, <1>8, <1>9, <1>10,
         <1>11, <1>12, <1>13, <1>14, <1>15, <1>16, <1>17, <1>18, <1>19,
         <1>20, <1>21, <1>22, <1>23 DEF Next, Daemon, Flow
-----------------------------------------------------------------------------
\* A profile shortens the raw history only once its rollup has caught up, with
\* every fault and whatever an administrator does.
THEOREM RollupBeforeTTLCorrect == Spec => RollupBeforeTTL
<1>1. Init => Routed /\ ViewCurrent
  BY DEF Init, Routed, ViewCurrent, Places, LegacyPlaces, RollupPlaces
<1>2. Routed /\ ViewCurrent /\ [Next]_vars => (Routed /\ ViewCurrent)'
  BY RoutedStep, ViewCurrentStep
<1>3. Routed /\ ViewCurrent /\ [Next]_vars =>
        [/\ owner' = "daemon" /\ raw_ttl' # raw_ttl
         /\ config.profile # Disabled
         => view[MyView] = "current"]_vars
  <2> SUFFICES ASSUME Routed, ViewCurrent, Next,
                      owner' = "daemon", raw_ttl' # raw_ttl,
                      config.profile # Disabled
               PROVE  view[MyView] = "current"
    BY DEF vars, server, ttlVars
  <2>1. LegacyAlter \/ RawAlter
    BY DEF Next, Daemon, Flow, CreateTable, AddColumn, StateTable, LegacyTTL,
           CreateView, ViewStatus, ViewTTL, ViewAlter, Owner, RawTTL, RawVerify,
           ReadState, InsertState, Dial, LoseClient, RetryWakes, Restart,
           Refresh, WriteRows, AdminSetsTTL, server, ttlVars, ReadsTTL
  <2>2. pc = "raw_alter"
    BY <2>1 DEF LegacyAlter, RawAlter, Routed, LegacyPlaces
  <2> QED  BY <2>2 DEF ViewCurrent
<1> QED  BY <1>1, <1>2, <1>3, PTL DEF Spec, RollupBeforeTTL

\* A setup that reports success has published the configured profile.
THEOREM EnsuredIsPublishedCorrect == Spec => []EnsuredIsPublished
<1>1. Init => EnsuredIsPublished
  BY DEF Init, EnsuredIsPublished
<1> QED  BY <1>1, EnsuredStep, PTL DEF Spec

\* A TTL found at the first start is the administrator's.
LEMMA OwnershipInit == ProvisioningAssumption /\ Init => Ownership
BY DEF Init, Ownership, NoRow, Nothing

\* Whatever is refused, lost or interrupted, an administrator's TTL is overwritten
\* only by a daemon that has set one before and not disowned it in a status row,
\* or where it was set between the reading and the ALTER TABLE of a setup.
THEOREM AdminTTLKeptCorrect == Spec => AdminTTLKept
<1>1. Ownership /\ [Next]_vars =>
        [owner = "admin" /\ owner' = "daemon" => claimed \/ altered]_vars
  <2> SUFFICES ASSUME Ownership, Next, owner = "admin", owner' = "daemon"
               PROVE  claimed \/ altered
    BY DEF vars
  <2>1. LegacyAlter \/ RawAlter
    BY DEF Next, Daemon, Flow, CreateTable, AddColumn, StateTable, LegacyTTL,
           CreateView, ViewStatus, ViewTTL, ViewAlter, Owner, RawTTL, RawVerify,
           ReadState, InsertState, Dial, LoseClient, RetryWakes, Restart,
           Refresh, WriteRows, AdminSetsTTL, server, ttlVars, ReadsTTL
  <2> QED  BY <2>1 DEF Ownership, LegacyAlter, RawAlter
<1> QED  BY <1>1, OwnershipInit, OwnershipStep, ProvisioningAssumption, PTL
         DEF Spec, AdminTTLKept

\* The status table claims the TTL for fritzfluxdb only if fritzfluxdb has set one
\* (the ownership rule of _apply_questdb_raw_ttl).
THEOREM ManagedIsOursCorrect == Spec => []ManagedIsOurs
<1>1. Ownership => ManagedIsOurs
  BY DEF Ownership, ManagedIsOurs
<1> QED  BY <1>1, OwnershipInit, OwnershipStep, ProvisioningAssumption, PTL
         DEF Spec

\* A profile is published only with its rollup current
\* and with the retention the server enforces.
THEOREM PublishedWhenReadyCorrect == Spec => PublishedWhenReady
<1> DEFINE Inv == Configured /\ Routed /\ ViewCurrent /\ Effective
<1>1. Init => Inv
  <2>1. Init => Configured
    <3>1. Configurations \subseteq [profile: Profiles \cup {Disabled},
                                    retention: Retentions]
      <4>1. ConfiguredProfiles \subseteq Profiles \cup {Disabled}
        BY ProvisioningAssumption DEF ProvisioningAssumption
      <4> QED  BY <4>1 DEF Configurations
    <3> QED  BY <3>1 DEF Init, Configured
  <2>2. Init => Routed /\ ViewCurrent /\ Effective
    BY DEF Init, Routed, ViewCurrent, Effective, Places, LegacyPlaces,
           RollupPlaces
  <2> QED  BY <2>1, <2>2
<1>2. Inv /\ [Next]_vars => Inv'
  BY ProvisioningAssumption, ConfiguredStep, RoutedStep, ViewCurrentStep,
     EffectiveStep
<1>3. Inv /\ [Next]_vars =>
        [state' # state /\ state'.enabled =>
            /\ view[Interval[state'.profile]] = "current"
            /\ altered \/ state'.raw_days = PublishedDays(raw_ttl)]_vars
  <2> SUFFICES ASSUME Inv, Next, state' # state, state'.enabled
               PROVE  /\ view[Interval[state'.profile]] = "current"
                      /\ altered \/ state'.raw_days = PublishedDays(raw_ttl)
    BY DEF vars, server, ttlVars
  <2>1. InsertState
    BY DEF Next, Daemon, Flow, CreateTable, AddColumn, StateTable, LegacyTTL,
           LegacyAlter, CreateView, ViewStatus, ViewTTL, ViewAlter, Owner,
           RawTTL, RawAlter, RawVerify, ReadState, Dial, LoseClient, RetryWakes,
           Restart, Refresh, WriteRows, AdminSetsTTL, server
  <2>2. pc = "insert" /\ state' = Row
    BY <2>1 DEF InsertState
  <2>3. config.profile # Disabled
    BY <2>2 DEF Row
  <2>4. Row.raw_days = raw.days /\ Row.profile = config.profile
    BY <2>3 DEF Row
  <2> QED  BY <2>2, <2>3, <2>4 DEF ViewCurrent, Effective, MyView
<1> QED  BY <1>1, <1>2, <1>3, PTL DEF Spec, PublishedWhenReady
=============================================================================
