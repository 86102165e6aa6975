-------------------------- MODULE LuaSessionProofs --------------------------
(***************************************************************************)
(* Proofs about module LuaSession, for any number of worker threads.       *)
(***************************************************************************)
EXTENDS LuaSession, FiniteSetTheorems, TLAPS

\* A thread that has not been crossed has not raised, and no other thread is
\* between closing the client and building the next one.
Uncrossed ==
    \A t \in Threads :
        ~At(t, "idle") /\ t \notin crossed =>
            ~At(t, "raised") /\ \A u \in Threads \ {t} : ~At(u, "build")

IInv == TypeOK /\ SessionOpenAtRest /\ Uncrossed

-----------------------------------------------------------------------------
\* _build_session always finds a client that no thread refers to.
LEMMA FreshClient ==
    ASSUME TypeOK
    PROVE  NewClient \in Clients \ Referenced
<1> DEFINE Held == {client[t] : t \in Threads}
<1>1. client \in Surjection(Threads, Held)
  BY DEF TypeOK, Surjection
<1>2. IsFiniteSet(Held) /\ Cardinality(Held) <= Cardinality(Threads)
  <2> HIDE DEF Held
  <2> QED  BY <1>1, FS_Surjection, SessionAssumption DEF SessionAssumption
<1>3. Cardinality(Held) \in Nat /\ Cardinality(Threads) \in Nat
  BY <1>2, FS_CardinalityType, SessionAssumption DEF SessionAssumption
<1>4. /\ IsFiniteSet(Referenced)
      /\ Cardinality(Referenced) <= Cardinality(Held) + 1
  <2>1. Referenced = Held \cup {session}
    BY DEF Referenced
  <2>2. /\ IsFiniteSet(Held \cup {session})
        /\ Cardinality(Held \cup {session}) =
             IF session \in Held THEN Cardinality(Held)
             ELSE Cardinality(Held) + 1
    <3> HIDE DEF Held
    <3> QED  BY <1>2, FS_AddElement
  <2> HIDE DEF Held
  <2> QED  BY <2>1, <2>2, <1>3
<1>5. ~(Clients \subseteq Referenced)
  <2>1. SUFFICES ASSUME Clients \subseteq Referenced  PROVE FALSE
    OBVIOUS
  <2>2. Cardinality(Clients) <= Cardinality(Referenced)
    BY <1>4, <2>1, FS_Subset
  <2>3. Cardinality(Clients) \in Nat /\ Cardinality(Referenced) \in Nat
    BY <1>4, FS_CardinalityType, SessionAssumption DEF SessionAssumption
  <2> HIDE DEF Held
  <2> QED  BY <1>2, <1>3, <1>4, <2>2, <2>3, SessionAssumption
           DEF SessionAssumption
<1> QED  BY <1>5 DEF NewClient

\* At the start the client is open and no query runs.
LEMMA Initially == Init => IInv
<1> SUFFICES ASSUME Init  PROVE IInv
  OBVIOUS
<1>1. waiting \in 0 .. TurnQueries
  BY SessionAssumption DEF Init, SessionAssumption
<1>2. TypeOK
  BY <1>1 DEF Init, TypeOK, SIDs, Places
<1>3. SessionOpenAtRest
  BY DEF Init, SessionOpenAtRest
<1>4. Uncrossed
  BY DEF Init, Uncrossed, At
<1> QED  BY <1>2, <1>3, <1>4 DEF IInv

\* What sends a request: it raises only if some thread is at "build".
LEMMA SendingSteps ==
    ASSUME IInv, NEW t \in Threads, Send(t) \/ Login(t) \/ Respond(t)
    PROVE  IInv'
<1>1. PICK place \in {"flight", "challenge", "response"} : Sends(t, place)
  BY DEF Send, Login, Respond
<1>2. TypeOK'
  BY <1>1 DEF IInv, TypeOK, Send, Login, Respond, Sends, Goto, At, Places,
              shared
<1>3. /\ UNCHANGED <<session, closed, crossed>>
      /\ pc[t] \in {"send", "login", "respond"}
      /\ pc' \in {[pc EXCEPT ![t] = place], [pc EXCEPT ![t] = "raised"]}
      /\ pc'[t] = "raised" => session \in closed
  BY <1>1 DEF IInv, TypeOK, Send, Login, Respond, Sends, Goto, At, shared
<1>4. SessionOpenAtRest'
  BY <1>1, <1>3 DEF IInv, TypeOK, SessionOpenAtRest, At
<1>5. Uncrossed'
  BY <1>1, <1>3 DEF IInv, TypeOK, SessionOpenAtRest, Uncrossed, At
<1> QED  BY <1>2, <1>4, <1>5 DEF IInv

\* Steps that neither touch the client nor enter or leave "build".
LEMMA OtherSteps ==
    ASSUME IInv, NEW t \in Threads,
           \/ CheckSid(t) \/ Connected(t) \/ Params(t)
           \/ Answer(t) \/ Denial(t) \/ Denied(t) \/ Connect(t)
           \/ Challenge(t) \/ FallBack(t) \/ LoginFails(t)
           \/ Response(t) \/ Store(t)
    PROVE  IInv'
<1> USE DEF IInv, TypeOK, SIDs, Places, Goto, At, LetGo, Return, shared,
            locals
<1>1. /\ UNCHANGED <<session, closed, crossed>>
      /\ pc[t] \notin {"idle", "build", "raised"}
      /\ \E place \in Places \ {"build", "raised"} :
            pc' = [pc EXCEPT ![t] = place]
  <2>1. CASE CheckSid(t) \/ Connected(t) \/ Params(t)
    BY <2>1 DEF CheckSid, Connected, Params
  <2>2. CASE Answer(t) \/ Denial(t) \/ Denied(t) \/ Connect(t)
    BY <2>2 DEF Answer, Denial, Denied, Connect
  <2>3. CASE Challenge(t) \/ FallBack(t) \/ LoginFails(t)
    BY <2>3 DEF Challenge, FallBack, LoginFails
  <2>4. CASE Response(t) \/ Store(t)
    BY <2>4 DEF Response, Store
  <2> QED  BY <2>1, <2>2, <2>3, <2>4
<1>2. TypeOK'
  <2>1. CASE CheckSid(t) \/ Connected(t) \/ Params(t)
    BY <2>1 DEF CheckSid, Connected, Params
  <2>2. CASE Answer(t) \/ Denial(t) \/ Connect(t)
    BY <2>2 DEF Answer, Denial, Connect
  <2>3. CASE Denied(t)
    BY <2>3 DEF Denied, SidForgotten, RetriesOnce
  <2>4. CASE Challenge(t) \/ FallBack(t) \/ LoginFails(t)
    BY <2>4 DEF Challenge, FallBack, LoginFails
  <2>5. CASE Response(t) \/ Store(t)
    BY <2>5 DEF Response, Store
  <2> QED  BY <2>1, <2>2, <2>3, <2>4, <2>5
<1>3. SessionOpenAtRest'
  BY <1>1 DEF SessionOpenAtRest
<1>4. Uncrossed'
  BY <1>1 DEF Uncrossed
<1> QED  BY <1>2, <1>3, <1>4

\* The steps the invariant is about.
LEMMA ClientSteps ==
    ASSUME IInv, NEW t \in Threads, Begin(t) \/ CloseOld(t) \/ Build(t)
    PROVE  IInv'
<1> USE DEF IInv, TypeOK, SIDs, Places, Goto, At, shared, locals
<1>1. CASE Begin(t)
  <2>1. TypeOK'
    BY <1>1, SessionAssumption DEF Begin, SessionAssumption
  <2>2. SessionOpenAtRest'
    BY <1>1 DEF Begin, SessionOpenAtRest
  <2>3. Uncrossed'
    BY <1>1 DEF Begin, Uncrossed
  <2> QED  BY <2>1, <2>2, <2>3
<1>2. CASE CloseOld(t)
  <2>1. TypeOK'
    BY <1>2 DEF CloseOld, Others
  <2>2. SessionOpenAtRest'
    BY <1>2 DEF CloseOld, SessionOpenAtRest
  <2>3. Uncrossed'
    BY <1>2 DEF CloseOld, Others, Uncrossed
  <2> QED  BY <2>1, <2>2, <2>3
<1>3. CASE Build(t)
  <2>1. session' \in Clients /\ session' \notin closed'
    BY <1>3, FreshClient DEF Build
  <2>2. TypeOK'
    BY <1>3, <2>1 DEF Build
  <2>3. SessionOpenAtRest'
    BY <2>1 DEF SessionOpenAtRest
  <2>4. Uncrossed'
    BY <1>3 DEF Build, Uncrossed
  <2> QED  BY <2>2, <2>3, <2>4
<1> QED  BY <1>1, <1>2, <1>3

\* No step of a thread or of the box breaks the invariant.
LEMMA Inductive == IInv /\ [Next]_vars => IInv'
<1> SUFFICES ASSUME IInv, [Next]_vars  PROVE IInv'
  OBVIOUS
<1> USE DEF IInv, TypeOK, SessionOpenAtRest, Uncrossed, At, shared, locals
<1>1. CASE NextTurn
  BY <1>1, SessionAssumption DEF NextTurn, SessionAssumption
<1>2. CASE Expire
  <2>1. TypeOK'
    BY <1>2 DEF Expire, Expired, SIDs
  <2>2. SessionOpenAtRest' /\ Uncrossed'
    BY <1>2 DEF Expire
  <2> QED  BY <2>1, <2>2
<1>3. CASE Recover
  BY <1>3 DEF Recover
<1>4. ASSUME NEW t \in Threads, Thread(t)  PROVE IInv'
  <2> HIDE DEF IInv
  <2> QED  BY <1>4, SendingSteps, OtherSteps, ClientSteps DEF Thread
<1>5. CASE UNCHANGED vars
  BY <1>5 DEF vars
<1> QED  BY <1>1, <1>2, <1>3, <1>4, <1>5 DEF Next

\* So it holds always.
LEMMA Invariance == Spec => []IInv
BY Initially, Inductive, PTL DEF Spec

\* However the threads' logins interleave, the client they leave in
\* self.session is an open one (connect, _build_session).
THEOREM SessionOpenAtRestCorrect == Spec => []SessionOpenAtRest
<1>1. IInv => SessionOpenAtRest
  BY DEF IInv
<1> QED  BY <1>1, Invariance, PTL

\* A query raises only if another thread replaced the client while it ran.
THEOREM RaisesOnlyCrossedCorrect == Spec => []RaisesOnlyCrossed
<1>1. IInv => RaisesOnlyCrossed
  BY DEF IInv, Uncrossed, RaisesOnlyCrossed, Raised, At
<1> QED  BY <1>1, Invariance, PTL
=============================================================================
