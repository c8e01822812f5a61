-------------------------- MODULE PipeServerProofs --------------------------
(***************************************************************************)
(* Proofs about PipeServer, for any finite set of clients and any set of   *)
(* helpers.                                                                *)
(***************************************************************************)
EXTENDS PipeServer, FiniteSetTheorems, TLAPS

(* 1 for TRUE, 0 for FALSE: how much an element counts for. *)
One(b) == IF b THEN 1 ELSE 0

-----------------------------------------------------------------------------
(* Two sets that differ in x at most differ by at most one in size: what   *)
(* the atomic counters of server.go are compared with, step by step.       *)
LEMMA CardinalityChange ==
  ASSUME NEW S, NEW T, NEW x, IsFiniteSet(S),
         \A y : y # x => (y \in T <=> y \in S)
  PROVE  /\ Cardinality(S) \in Nat
         /\ Cardinality(T) \in Nat
         /\ Cardinality(T) + One(x \in S) = Cardinality(S) + One(x \in T)
         /\ x \in S => Cardinality(S) > 0
<1>1. Cardinality(S) \in Nat
  BY FS_CardinalityType
<1>2. x \in S => Cardinality(S) > 0
  BY <1>1, FS_EmptySet
<1>3. CASE x \in T
  <2>1. T = S \cup {x}
    BY <1>3
  <2>2. QED
    BY <1>1, <1>2, <1>3, <2>1, FS_AddElement DEF One
<1>4. CASE x \notin T
  <2>1. T = S \ {x}
    BY <1>4
  <2>2. Cardinality(T) = IF x \in S THEN Cardinality(S) - 1 ELSE Cardinality(S)
    BY <2>1, FS_RemoveElement
  <2>3. QED
    BY <1>1, <1>2, <1>4, <2>2 DEF One
<1>5. QED
  BY <1>3, <1>4

(* The sets counted are finite, like Clients. *)
LEMMA CountedSetsFinite ==
  /\ IsFiniteSet(Counted)
  /\ IsFiniteSet(Operating)
  /\ IsFiniteSet(Handling)
BY ClientsFinite, FS_Subset DEF Counted, Operating, Handling

(* A step that moves one session only changes the three sizes by what that *)
(* session counted for before and counts for after.                        *)
LEMMA SessionMove ==
  ASSUME NEW c \in Clients,
         \A d \in Clients : d # c => /\ sess'[d] = sess[d]
                                     /\ uncounted'[d] = uncounted[d]
  PROVE  /\ Cardinality(Counted') + One(c \in Counted)
              = Cardinality(Counted) + One(c \in Counted')
         /\ Cardinality(Operating') + One(c \in Operating)
              = Cardinality(Operating) + One(c \in Operating')
         /\ Cardinality(Handling') + One(c \in Handling)
              = Cardinality(Handling) + One(c \in Handling')
         /\ c \in Counted => Cardinality(Counted) > 0
         /\ c \in Handling => Cardinality(Handling) > 0
         /\ Cardinality(Counted) \in Nat /\ Cardinality(Counted') \in Nat
         /\ Cardinality(Operating) \in Nat /\ Cardinality(Operating') \in Nat
         /\ Cardinality(Handling) \in Nat /\ Cardinality(Handling') \in Nat
<1>1. \A d : d # c => (d \in Counted' <=> d \in Counted)
  BY DEF Counted
<1>2. \A d : d # c => (d \in Operating' <=> d \in Operating)
  BY DEF Operating
<1>3. \A d : d # c => (d \in Handling' <=> d \in Handling)
  BY DEF Handling
<1>4. QED
  BY <1>1, <1>2, <1>3, CountedSetsFinite, CardinalityChange

(* A step that leaves the sessions alone leaves the sets alone. *)
LEMMA SessionsUnchanged ==
  ASSUME sess' = sess, uncounted' = uncounted
  PROVE  Counted' = Counted /\ Operating' = Operating /\ Handling' = Handling
BY DEF Counted, Operating, Handling

-----------------------------------------------------------------------------
(* Start leaves the server in the invariant: one count for acceptLoop. *)
LEMMA InitIInv == Init => IInv
<1> SUFFICES ASSUME Init PROVE IInv
  OBVIOUS
<1> USE DEF Init
<1>1. TypeOK
  BY DEF TypeOK, SessStates, HelperStates
<1>2. CloseInv /\ AdmitInv /\ SessInv /\ MainInv
  BY DEF CloseInv, AdmitInv, SessInv, MainInv, CloseStates, AdmitStates
<1>3. Counted = {} /\ Operating = {} /\ Handling = {}
  BY DEF Counted, Operating, Handling, OpStates, HandlerStates
<1>4. CountersAgree /\ WgAgrees
  BY <1>3, FS_EmptySet DEF CountersAgree, WgAgrees
<1>5. QED
  BY <1>1, <1>2, <1>4 DEF IInv

-----------------------------------------------------------------------------
(* What a session's step does to the counters, from what its session       *)
(* counted for before the step and counts for after it.                    *)
LEMMA CountersMove ==
  ASSUME NEW c \in Clients, CountersAgree, WgAgrees,
         \A d \in Clients : d # c => /\ sess'[d] = sess[d]
                                     /\ uncounted'[d] = uncounted[d],
         activeClients' + One(c \in Counted) = activeClients + One(c \in Counted'),
         activeOps' + One(c \in Operating) = activeOps + One(c \in Operating'),
         wg' + One(c \in Handling) = wg + One(c \in Handling'),
         activeClients' \in Int, activeOps' \in Int, wg' \in Int,
         acceptor' = acceptor
  PROVE  CountersAgree' /\ WgAgrees'
<1>1. CountersAgree'
  BY SessionMove DEF CountersAgree, One
<1>2. WgAgrees'
  BY SessionMove DEF WgAgrees, One
<1>3. QED
  BY <1>1, <1>2

(* A counted client makes activeClients positive, a running handler wg,    *)
(* an operation activeOps: none of the decrements goes below zero.         *)
LEMMA CountersPositive ==
  ASSUME NEW c \in Clients, CountersAgree, WgAgrees
  PROVE  /\ c \in Counted => activeClients > 0
         /\ c \in Operating => activeOps > 0
         /\ c \in Handling => wg > 0
<1>1. /\ c \in Counted => Cardinality(Counted) > 0
      /\ c \in Operating => Cardinality(Operating) > 0
      /\ c \in Handling => Cardinality(Handling) > 0
      /\ Cardinality(Handling) \in Nat
  BY CountedSetsFinite, CardinalityChange
<1>2. QED
  BY <1>1 DEF CountersAgree, WgAgrees

(* The steps that move one session: acceptLoop's and handleClient's.       *)
LEMMA SessionStepIInv ==
  ASSUME IInv, Running, NEW c \in Clients,
         \/ Accept(c)  \/ Admit(c)  \/ AddOp(c)  \/ HangUp(c)
         \/ HandlerStep(c)
         \/ \E h \in Helpers : ShutdownRequest(c, h)
  PROVE  IInv'
<1> USE DEF IInv, TypeOK, SessStates, AdmitStates, HandlerStates, Goto, shared,
            Running
<1>0. (c \in Handling => wg > 0) /\ wg \in Nat
  BY CountersPositive
<1>1. CASE Accept(c)
  <2> USE <1>1 DEF Accept
  <2>1. /\ c \in Counted <=> c \in Counted'
        /\ c \in Operating <=> c \in Operating'
        /\ c \in Handling <=> c \in Handling'
    BY DEF Counted, Operating, Handling, OpStates, SessInv
  <2>2. CountersAgree' /\ WgAgrees'
    BY <2>1, CountersMove, CountersPositive DEF One
  <2>3. TypeOK'
    BY <2>1, CountersPositive
  <2>4. CloseInv' /\ SessInv'
    BY DEF CloseInv, SessInv, CloseStates
  <2>5. AdmitInv' /\ MainInv'
    BY <1>0 DEF AdmitInv, MainInv, Admitting
  <2>6. QED
    BY <2>2, <2>3, <2>4, <2>5
<1>2. CASE CountClient(c)
  <2> USE <1>2 DEF CountClient
  <2>1. /\ c \notin Counted /\ c \in Counted'
        /\ c \in Operating <=> c \in Operating'
        /\ c \in Handling <=> c \in Handling'
    BY DEF Counted, Operating, Handling, OpStates, SessInv
  <2>2. CountersAgree' /\ WgAgrees'
    BY <2>1, CountersMove, CountersPositive DEF One
  <2>3. TypeOK'
    BY <2>1, CountersPositive
  <2>4. CloseInv' /\ SessInv'
    BY DEF CloseInv, SessInv, CloseStates
  <2>5. AdmitInv' /\ MainInv'
    BY <1>0 DEF AdmitInv, MainInv, Admitting
  <2>6. QED
    BY <2>2, <2>3, <2>4, <2>5
<1>3. CASE StopTimerForClient(c)
  <2> USE <1>3 DEF StopTimerForClient
  <2>1. /\ c \in Counted <=> c \in Counted'
        /\ c \in Operating <=> c \in Operating'
        /\ c \in Handling <=> c \in Handling'
    BY DEF Counted, Operating, Handling, OpStates, SessInv
  <2>2. CountersAgree' /\ WgAgrees'
    BY <2>1, CountersMove, CountersPositive DEF One
  <2>3. TypeOK'
    BY <2>1, CountersPositive
  <2>4. CloseInv' /\ SessInv'
    BY DEF CloseInv, SessInv, CloseStates
  <2>5. AdmitInv' /\ MainInv'
    BY <1>0 DEF AdmitInv, MainInv, Admitting
  <2>6. QED
    BY <2>2, <2>3, <2>4, <2>5
<1>4. CASE SpawnHandler(c)
  <2> USE <1>4 DEF SpawnHandler
  <2>1. /\ c \in Counted <=> c \in Counted'
        /\ c \in Operating <=> c \in Operating'
        /\ c \notin Handling /\ c \in Handling'
    BY DEF Counted, Operating, Handling, OpStates, SessInv
  <2>2. CountersAgree' /\ WgAgrees'
    BY <2>1, CountersMove, CountersPositive DEF One
  <2>3. TypeOK'
    BY <2>1, CountersPositive
  <2>4. CloseInv' /\ SessInv'
    BY DEF CloseInv, SessInv, CloseStates
  <2>5. AdmitInv' /\ MainInv'
    BY <1>0 DEF AdmitInv, MainInv, Admitting
  <2>6. QED
    BY <2>2, <2>3, <2>4, <2>5
<1>5. CASE AddOp(c)
  <2> USE <1>5 DEF AddOp
  <2>1. /\ c \in Counted <=> c \in Counted'
        /\ c \notin Operating /\ c \in Operating'
        /\ c \in Handling <=> c \in Handling'
    BY DEF Counted, Operating, Handling, OpStates, SessInv
  <2>2. CountersAgree' /\ WgAgrees'
    BY <2>1, CountersMove, CountersPositive DEF One
  <2>3. TypeOK'
    BY <2>1, CountersPositive
  <2>4. CloseInv' /\ SessInv'
    BY DEF CloseInv, SessInv, CloseStates
  <2>5. AdmitInv' /\ MainInv'
    BY <1>0 DEF AdmitInv, MainInv, Admitting
  <2>6. QED
    BY <2>2, <2>3, <2>4, <2>5
<1>6. CASE StopTimerForOp(c)
  <2> USE <1>6 DEF StopTimerForOp
  <2>1. /\ c \in Counted <=> c \in Counted'
        /\ c \in Operating <=> c \in Operating'
        /\ c \in Handling <=> c \in Handling'
    BY DEF Counted, Operating, Handling, OpStates, SessInv
  <2>2. CountersAgree' /\ WgAgrees'
    BY <2>1, CountersMove, CountersPositive DEF One
  <2>3. TypeOK'
    BY <2>1, CountersPositive
  <2>4. CloseInv' /\ SessInv'
    BY DEF CloseInv, SessInv, CloseStates
  <2>5. AdmitInv' /\ MainInv'
    BY <1>0 DEF AdmitInv, MainInv, Admitting
  <2>6. QED
    BY <2>2, <2>3, <2>4, <2>5
<1>7. CASE DoneOp(c)
  <2> USE <1>7 DEF DoneOp
  <2>1. /\ c \in Counted <=> c \in Counted'
        /\ c \in Operating /\ c \notin Operating'
        /\ c \in Handling <=> c \in Handling'
    BY DEF Counted, Operating, Handling, OpStates, SessInv
  <2>2. CountersAgree' /\ WgAgrees'
    BY <2>1, CountersMove, CountersPositive DEF One
  <2>3. TypeOK'
    BY <2>1, CountersPositive
  <2>4. CloseInv' /\ SessInv'
    BY DEF CloseInv, SessInv, CloseStates
  <2>5. AdmitInv' /\ MainInv'
    BY <1>0 DEF AdmitInv, MainInv, Admitting
  <2>6. QED
    BY <2>2, <2>3, <2>4, <2>5
<1>8. CASE HangUp(c)
  <2> USE <1>8 DEF HangUp
  <2>1. /\ c \in Counted <=> c \in Counted'
        /\ c \in Operating <=> c \in Operating'
        /\ c \in Handling <=> c \in Handling'
    BY DEF Counted, Operating, Handling, OpStates, SessInv
  <2>2. CountersAgree' /\ WgAgrees'
    BY <2>1, CountersMove, CountersPositive DEF One
  <2>3. TypeOK'
    BY <2>1, CountersPositive
  <2>4. CloseInv' /\ SessInv'
    BY DEF CloseInv, SessInv, CloseStates
  <2>5. AdmitInv' /\ MainInv'
    BY <1>0 DEF AdmitInv, MainInv, Admitting
  <2>6. QED
    BY <2>2, <2>3, <2>4, <2>5
<1>9. CASE Uncount(c)
  <2> USE <1>9 DEF Uncount
  <2>1. /\ c \in Counted /\ c \notin Counted'
        /\ c \in Operating <=> c \in Operating'
        /\ c \in Handling <=> c \in Handling'
    BY DEF Counted, Operating, Handling, OpStates, SessInv
  <2>1a. /\ \A d \in Clients : d # c => /\ sess'[d] = sess[d]
                                     /\ uncounted'[d] = uncounted[d]
      /\ activeClients' + One(c \in Counted) = activeClients + One(c \in Counted')
      /\ activeOps' + One(c \in Operating) = activeOps + One(c \in Operating')
      /\ wg' + One(c \in Handling) = wg + One(c \in Handling')
    BY <2>1 DEF One
  <2>1b. activeClients' \in Int /\ activeOps' \in Int /\ wg' \in Int
    BY <2>1, CountersPositive
  <2>2. CountersAgree' /\ WgAgrees'
    BY <2>1a, <2>1b, CountersMove
  <2>3. TypeOK'
    BY <2>1, CountersPositive
  <2>4. CloseInv' /\ SessInv'
    BY DEF CloseInv, SessInv, CloseStates
  <2>5. AdmitInv' /\ MainInv'
    BY <1>0 DEF AdmitInv, MainInv, Admitting
  <2>6. QED
    BY <2>2, <2>3, <2>4, <2>5
<1>10. CASE WgDone(c)
  <2> USE <1>10 DEF WgDone
  <2>1. /\ c \in Counted <=> c \in Counted'
        /\ c \in Operating <=> c \in Operating'
        /\ c \in Handling /\ c \notin Handling'
    BY DEF Counted, Operating, Handling, OpStates, SessInv
  <2>1a. /\ \A d \in Clients : d # c => /\ sess'[d] = sess[d]
                                     /\ uncounted'[d] = uncounted[d]
      /\ activeClients' + One(c \in Counted) = activeClients + One(c \in Counted')
      /\ activeOps' + One(c \in Operating) = activeOps + One(c \in Operating')
      /\ wg' + One(c \in Handling) = wg + One(c \in Handling')
    BY <2>1 DEF One
  <2>1b. activeClients' \in Int /\ activeOps' \in Int /\ wg' \in Int
    BY <2>1, CountersPositive
  <2>2. CountersAgree' /\ WgAgrees'
    BY <2>1a, <2>1b, CountersMove
  <2>3. TypeOK'
    BY <2>1, CountersPositive
  <2>4. CloseInv' /\ SessInv'
    BY DEF CloseInv, SessInv, CloseStates
  <2>5. AdmitInv' /\ MainInv'
    BY <1>0 DEF AdmitInv, MainInv, Admitting
  <2>6. QED
    BY <2>2, <2>3, <2>4, <2>5
<1>11. CASE CheckIdleLoadClients(c)
  <2> USE <1>11 DEF CheckIdleLoadClients
  <2>1. /\ c \in Counted <=> c \in Counted'
        /\ c \in Operating <=> c \in Operating'
        /\ c \in Handling <=> c \in Handling'
    BY DEF Counted, Operating, Handling, OpStates, SessInv
  <2>2. CountersAgree' /\ WgAgrees'
    BY <2>1, CountersMove, CountersPositive DEF One
  <2>3. TypeOK'
    BY <2>1, CountersPositive
  <2>4. CloseInv' /\ SessInv'
    BY DEF CloseInv, SessInv, CloseStates
  <2>5. AdmitInv' /\ MainInv'
    BY <1>0 DEF AdmitInv, MainInv, Admitting
  <2>6. QED
    BY <2>2, <2>3, <2>4, <2>5
<1>12. CASE CheckIdleLoadOps(c)
  <2> USE <1>12 DEF CheckIdleLoadOps
  <2>1. /\ c \in Counted <=> c \in Counted'
        /\ c \in Operating <=> c \in Operating'
        /\ c \in Handling <=> c \in Handling'
    BY DEF Counted, Operating, Handling, OpStates, SessInv
  <2>2. CountersAgree' /\ WgAgrees'
    BY <2>1, CountersMove, CountersPositive DEF One
  <2>3. TypeOK'
    BY <2>1, CountersPositive
  <2>4. CloseInv' /\ SessInv'
    BY DEF CloseInv, SessInv, CloseStates
  <2>5. AdmitInv' /\ MainInv'
    BY <1>0 DEF AdmitInv, MainInv, Admitting
  <2>6. QED
    BY <2>2, <2>3, <2>4, <2>5
<1>13. CASE CheckIdleDecide(c)
  <2> USE <1>13 DEF CheckIdleDecide
  <2>1. /\ c \in Counted <=> c \in Counted'
        /\ c \in Operating <=> c \in Operating'
        /\ c \in Handling <=> c \in Handling'
    BY DEF Counted, Operating, Handling, OpStates, SessInv
  <2>2. CountersAgree' /\ WgAgrees'
    BY <2>1, CountersMove, CountersPositive DEF One
  <2>3. TypeOK'
    BY <2>1, CountersPositive
  <2>4. CloseInv' /\ SessInv'
    BY DEF CloseInv, SessInv, CloseStates
  <2>5. AdmitInv' /\ MainInv'
    BY <1>0 DEF AdmitInv, MainInv, Admitting
  <2>6. QED
    BY <2>2, <2>3, <2>4, <2>5
<1>14. CASE \E h \in Helpers : ShutdownRequest(c, h)
  <2>0. PICK h \in Helpers : ShutdownRequest(c, h)
    BY <1>14
  <2> USE <2>0 DEF ShutdownRequest, HelperGoto, HelperStates
  <2>1. /\ c \in Counted <=> c \in Counted'
        /\ c \in Operating <=> c \in Operating'
        /\ c \in Handling <=> c \in Handling'
    BY DEF Counted, Operating, Handling, OpStates, SessInv
  <2>2. CountersAgree' /\ WgAgrees'
    BY <2>1, CountersMove, CountersPositive DEF One
  <2>3. TypeOK'
    BY <2>1, CountersPositive
  <2>4. CloseInv' /\ SessInv'
    BY DEF CloseInv, SessInv, CloseStates
  <2>5. AdmitInv' /\ MainInv'
    BY <1>0 DEF AdmitInv, MainInv, Admitting
  <2>6. QED
    BY <2>2, <2>3, <2>4, <2>5
<1>15. QED
  BY <1>1, <1>2, <1>3, <1>4, <1>5, <1>6, <1>7, <1>8, <1>9, <1>10, <1>11, <1>12, <1>13, <1>14 DEF Admit, HandlerStep

(* The steps of the callbacks, the closers, acceptLoop's return and main   *)
(* leave every session where it is.                                        *)
LEMMA OtherStepIInv ==
  ASSUME IInv,
         \/ \E h \in Helpers : Running /\ Fire(h)
         \/ \E h \in Helpers : HelperStep(h)
         \/ Running /\ AcceptFails
         \/ Main
         \/ UNCHANGED vars
  PROVE  IInv'
<1> USE DEF IInv, TypeOK, shared, Running, HelperGoto
<1>1. CASE \E h \in Helpers : Running /\ Fire(h)
  <2>1. PICK h \in Helpers : Running /\ Fire(h)
    BY <1>1
  <2> USE <2>1 DEF Fire
  <2>2. CountersAgree' /\ WgAgrees'
    BY SessionsUnchanged DEF CountersAgree, WgAgrees
  <2>3. QED
    BY <2>2 DEF HelperStates, CloseInv, CloseStates, AdmitInv, SessInv, MainInv
<1>2. CASE \E h \in Helpers : HelperStep(h)
  <2>1. PICK h \in Helpers : HelperStep(h)
    BY <1>2
  <2>2. /\ activeClients' = activeClients
        /\ activeOps' = activeOps
        /\ wg' = wg
        /\ acceptor' = acceptor
        /\ sess' = sess
        /\ uncounted' = uncounted
        /\ idleSeen' = idleSeen
        /\ main' = main
    BY <2>1 DEF HelperStep, CallbackLoadClients, CallbackLoadOps, EnterClose,
                CancelContext, StopTimerInClose, CloseListener, SignalShutdown
  <2>3. CountersAgree' /\ WgAgrees' /\ SessInv' /\ MainInv'
    BY <2>2, SessionsUnchanged DEF CountersAgree, WgAgrees, SessInv, MainInv
  <2>4. ASSUME CallbackLoadClients(h) \/ CallbackLoadOps(h) PROVE IInv'
    BY <2>3, <2>4 DEF CallbackLoadClients, CallbackLoadOps, HelperStates,
                      CloseInv, CloseStates, AdmitInv
  <2>5. ASSUME EnterClose(h) PROVE IInv'
    <3> USE <2>5 DEF EnterClose
    <3>1. TypeOK'
      BY <2>2 DEF HelperStates, CloseStates
    <3>2. CloseInv'
      BY <2>2 DEF CloseInv, CloseStates, HelperStates
    <3>3. AdmitInv'
      BY <2>2 DEF AdmitInv
    <3>4. QED
      BY <2>3, <3>1, <3>2, <3>3
  <2>6. ASSUME CancelContext(h) PROVE IInv'
    <3> USE <2>6 DEF CancelContext
    <3>1. TypeOK'
      BY <2>2 DEF HelperStates, CloseStates
    <3>2. CloseInv'
      BY <2>2 DEF CloseInv, CloseStates, HelperStates
    <3>3. AdmitInv'
      BY <2>2 DEF AdmitInv
    <3>4. QED
      BY <2>3, <3>1, <3>2, <3>3
  <2>7. ASSUME StopTimerInClose(h) PROVE IInv'
    <3> USE <2>7 DEF StopTimerInClose
    <3>1. TypeOK'
      BY <2>2 DEF HelperStates, CloseStates
    <3>2. CloseInv'
      BY <2>2 DEF CloseInv, CloseStates, HelperStates
    <3>3. AdmitInv'
      BY <2>2 DEF AdmitInv
    <3>4. QED
      BY <2>3, <3>1, <3>2, <3>3
  <2>8. ASSUME CloseListener(h) PROVE IInv'
    <3> USE <2>8 DEF CloseListener
    <3>1. TypeOK'
      BY <2>2 DEF HelperStates, CloseStates
    <3>2. CloseInv'
      BY <2>2 DEF CloseInv, CloseStates, HelperStates
    <3>3. AdmitInv'
      BY <2>2 DEF AdmitInv
    <3>4. QED
      BY <2>3, <3>1, <3>2, <3>3
  <2>9. ASSUME SignalShutdown(h) PROVE IInv'
    <3> USE <2>9 DEF SignalShutdown
    <3>1. TypeOK'
      BY <2>2 DEF HelperStates, CloseStates
    <3>2. CloseInv'
      BY <2>2 DEF CloseInv, CloseStates, HelperStates
    <3>3. AdmitInv'
      BY <2>2 DEF AdmitInv
    <3>4. QED
      BY <2>3, <3>1, <3>2, <3>3
  <2>10. QED
    BY <2>1, <2>4, <2>5, <2>6, <2>7, <2>8, <2>9 DEF HelperStep
<1>3. CASE Running /\ AcceptFails
  <2> USE <1>3 DEF AcceptFails
  <2>1. CountersAgree'
    BY SessionsUnchanged DEF CountersAgree
  <2>2. wg' = Cardinality(Handling') /\ wg' \in Nat
    BY SessionsUnchanged, CountedSetsFinite, FS_CardinalityType DEF WgAgrees
  <2>3. WgAgrees' /\ TypeOK'
    BY <2>2 DEF WgAgrees
  <2>4. CloseInv' /\ AdmitInv' /\ SessInv' /\ MainInv'
    BY DEF CloseInv, AdmitInv, SessInv, MainInv, Admitting
  <2>5. QED
    BY <2>1, <2>3, <2>4
<1>4. CASE Main
  <2> USE <1>4 DEF Main, LeaveSelect, ExitProcess
  <2>1. CountersAgree' /\ WgAgrees'
    BY SessionsUnchanged DEF CountersAgree, WgAgrees
  <2>2. QED
    BY <2>1 DEF CloseInv, AdmitInv, SessInv, MainInv
<1>5. CASE UNCHANGED vars
  <2> USE <1>5 DEF vars
  <2>1. CountersAgree' /\ WgAgrees'
    BY SessionsUnchanged DEF CountersAgree, WgAgrees
  <2>2. QED
    BY <2>1 DEF CloseInv, AdmitInv, SessInv, MainInv
<1>6. QED
  BY <1>1, <1>2, <1>3, <1>4, <1>5

(* Every step of every goroutine preserves the invariant. *)
LEMMA NextIInv == IInv /\ [Next]_vars => IInv'
<1> SUFFICES ASSUME IInv, [Next]_vars PROVE IInv'
  OBVIOUS
<1>1. CASE \E c \in Clients :
              \/ Running /\ Accept(c)
              \/ Admit(c)
              \/ Running /\ AddOp(c)
              \/ Running /\ HangUp(c)
              \/ HandlerStep(c)
              \/ \E h \in Helpers : Running /\ ShutdownRequest(c, h)
  BY <1>1, SessionStepIInv DEF Admit, HandlerStep
<1>2. CASE \/ \E h \in Helpers : Running /\ Fire(h)
           \/ \E h \in Helpers : HelperStep(h)
           \/ Running /\ AcceptFails
           \/ Main
           \/ UNCHANGED vars
  BY <1>2, OtherStepIInv
<1>3. QED
  BY <1>1, <1>2 DEF Next, Terminated

(* The inductive invariant holds in every reachable state. *)
THEOREM Invariance == Spec => []IInv
<1>1. QED
  BY InitIInv, NextIInv, PTL DEF Spec

(* server.go's state stays in its types: no counter below zero. *)
THEOREM TypeCorrect == Spec => []TypeOK
<1>1. IInv => TypeOK
  BY DEF IInv
<1>2. QED
  BY <1>1, Invariance, PTL

(* activeClients and activeOps count what they claim to count, however the *)
(* goroutines that adjust them interleave and however many there are.      *)
THEOREM CountersCorrect == Spec => []CountersAgree
<1>1. IInv => CountersAgree
  BY DEF IInv
<1>2. QED
  BY <1>1, Invariance, PTL

(* The wait group stands for acceptLoop and the running handlers. *)
THEOREM WgCorrect == Spec => []WgAgrees
<1>1. IInv => WgAgrees
  BY DEF IInv
<1>2. QED
  BY <1>1, Invariance, PTL

(* shutdownChan is closed at most once, whoever calls Close and when. *)
THEOREM NeverPanics == Spec => []SignalledOnce
<1>1. IInv => SignalledOnce
  BY DEF IInv, CloseInv, SignalledOnce
<1>2. QED
  BY <1>1, Invariance, PTL

(* A wait group at zero means that acceptLoop has returned and no session  *)
(* is left.                                                                *)
LEMMA WgZeroDrained ==
  ASSUME IInv, wg = 0
  PROVE  /\ listener = "closed"
         /\ acceptor = "returned"
         /\ \A c \in Clients : sess[c] = "none"
<1>1. Cardinality(Handling) = 0 /\ acceptor # "accepting"
  BY CountedSetsFinite, FS_CardinalityType DEF IInv, WgAgrees
<1>2. Handling = {}
  BY <1>1, CountedSetsFinite, FS_EmptySet
<1>3. acceptor = "returned"
  BY <1>1 DEF IInv, TypeOK
<1>4. QED
  BY <1>2, <1>3 DEF IInv, TypeOK, AdmitInv, SessStates, Handling

(* The process ends only with the pipe closed, acceptLoop returned and all *)
(* sessions over.                                                          *)
THEOREM ExitIsDrained == Spec => []ExitDrained
<1>1. IInv => ExitDrained
  BY WgZeroDrained DEF IInv, MainInv, ExitDrained
<1>2. QED
  BY <1>1, Invariance, PTL

-----------------------------------------------------------------------------
(* Refinement: initial states and steps map to ServerLifecycle's.          *)

(* The values the server gives to the variables of ServerLifecycle. *)
Phase == IF main = "exited" THEN "exited"
         ELSE IF listener = "open" THEN "listening" ELSE "closed"
Live == {c \in Clients : sess[c] # "none"}

(* A server that has just started is listening, with nobody live. *)
LEMMA InitRefines == Init => Lifecycle!Init
BY DEF Init, Lifecycle!Init

(* A session's step joins, leaves, or shows nothing. *)
LEMMA SessionStepRefines ==
  ASSUME IInv, Running, NEW c \in Clients,
         \/ Accept(c)  \/ Admit(c)  \/ AddOp(c)  \/ HangUp(c)
         \/ HandlerStep(c)
         \/ \E h \in Helpers : ShutdownRequest(c, h)
  PROVE  [Lifecycle!Next]_(Lifecycle!vars)
<1> USE DEF IInv, TypeOK, Running, Goto, shared
<1>1. CASE Accept(c)
  <2>1. Live' = Live \cup {c} /\ c \notin Live /\ Phase' = Phase /\ Phase = "listening"
    BY <1>1 DEF Accept, Live, Phase
  <2>2. Lifecycle!Join(c)
    BY <2>1 DEF Lifecycle!Join, Live, Phase
  <2>3. QED
    BY <2>2 DEF Lifecycle!Next
<1>2. CASE WgDone(c)
  <2>1. Live' = Live \ {c} /\ c \in Live /\ Phase' = Phase /\ Phase # "exited"
    BY <1>2 DEF WgDone, Live, Phase
  <2>2. Lifecycle!Leave(c)
    BY <2>1 DEF Lifecycle!Leave, Live, Phase
  <2>3. QED
    BY <2>2 DEF Lifecycle!Next
<1>3. CASE \/ CountClient(c) \/ StopTimerForClient(c) \/ SpawnHandler(c)
           \/ AddOp(c) \/ HangUp(c) \/ StopTimerForOp(c) \/ DoneOp(c)
           \/ Uncount(c) \/ CheckIdleLoadClients(c) \/ CheckIdleLoadOps(c)
           \/ CheckIdleDecide(c) \/ \E h \in Helpers : ShutdownRequest(c, h)
  <2>1. /\ sess[c] # "none" /\ main' = main /\ listener' = listener
        /\ \E s \in SessStates : s # "none" /\ sess' = [sess EXCEPT ![c] = s]
    BY <1>3 DEF CountClient, StopTimerForClient, SpawnHandler, AddOp, HangUp,
         StopTimerForOp, DoneOp, Uncount, CheckIdleLoadClients, CheckIdleLoadOps,
         CheckIdleDecide, ShutdownRequest, SessStates, AdmitStates, HandlerStates
  <2>2. Live' = Live /\ Phase' = Phase
    BY <2>1 DEF Live, Phase
  <2>3. QED
    BY <2>2 DEF Lifecycle!vars, Live, Phase
<1>4. QED
  BY <1>1, <1>2, <1>3 DEF Admit, HandlerStep

(* Of the other steps, closing the listener and leaving WaitShutdown show. *)
LEMMA OtherStepRefines ==
  ASSUME IInv,
         \/ \E h \in Helpers : Running /\ Fire(h)
         \/ \E h \in Helpers : HelperStep(h)
         \/ Running /\ AcceptFails
         \/ Main
         \/ UNCHANGED vars
  PROVE  [Lifecycle!Next]_(Lifecycle!vars)
<1> USE DEF IInv, TypeOK, Running, shared
<1>1. ASSUME Live' = Live, Phase' = Phase
      PROVE  UNCHANGED Lifecycle!vars
  BY <1>1 DEF Lifecycle!vars, Live, Phase
<1>2. ASSUME NEW h \in Helpers, CloseListener(h), Running
      PROVE  [Lifecycle!Next]_(Lifecycle!vars)
  <2>1. Live' = Live
    BY <1>2 DEF CloseListener, Live
  <2>2. CASE listener = "open"
    <3>1. Phase = "listening" /\ Phase' = "closed"
      BY <1>2, <2>2 DEF CloseListener, Phase
    <3>2. Lifecycle!StopListening
      BY <2>1, <3>1 DEF Lifecycle!StopListening, Live, Phase
    <3>3. QED
      BY <3>2 DEF Lifecycle!Next
  <2>3. CASE listener = "closed"
    <3>1. Phase' = Phase
      BY <1>2, <2>3 DEF CloseListener, Phase
    <3>2. QED
      BY <1>1, <2>1, <3>1
  <2>4. QED
    BY <2>2, <2>3
<1>3. CASE ExitProcess
  <2>1. Live = {} /\ Live' = Live /\ Phase = "closed" /\ Phase' = "exited"
    BY <1>3, WgZeroDrained DEF ExitProcess, Live, Phase
  <2>2. Lifecycle!Exit
    BY <2>1 DEF Lifecycle!Exit, Live, Phase
  <2>3. QED
    BY <2>2 DEF Lifecycle!Next
<1>4. CASE LeaveSelect
  <2>1. Live' = Live /\ Phase' = Phase
    BY <1>4 DEF LeaveSelect, Live, Phase
  <2>2. QED
    BY <1>1, <2>1
<1>5. CASE Running /\ AcceptFails
  <2>1. Live' = Live /\ Phase' = Phase
    BY <1>5 DEF AcceptFails, Live, Phase
  <2>2. QED
    BY <1>1, <2>1
<1>6. CASE UNCHANGED vars
  <2>1. Live' = Live /\ Phase' = Phase
    BY <1>6 DEF vars, Live, Phase
  <2>2. QED
    BY <1>1, <2>1
<1>7. ASSUME NEW h \in Helpers,
             \/ Fire(h)  \/ CallbackLoadClients(h)  \/ CallbackLoadOps(h)
             \/ EnterClose(h)  \/ CancelContext(h)  \/ StopTimerInClose(h)
             \/ SignalShutdown(h)
      PROVE  [Lifecycle!Next]_(Lifecycle!vars)
  <2>1. sess' = sess /\ main' = main /\ listener' = listener
    BY <1>7 DEF Fire, CallbackLoadClients, CallbackLoadOps, EnterClose,
                CancelContext, StopTimerInClose, SignalShutdown
  <2>2. Live' = Live /\ Phase' = Phase
    BY <2>1 DEF Live, Phase
  <2>3. QED
    BY <1>1, <2>2
<1>8. QED
  BY <1>2, <1>3, <1>4, <1>5, <1>6, <1>7 DEF Main, HelperStep

(* The server implements ServerLifecycle: joining only while it listens,   *)
(* sessions that end by themselves, an exit that cuts nobody off.          *)
THEOREM Refinement == Spec => Lifecycle!Spec
<1>1. IInv /\ [Next]_vars => [Lifecycle!Next]_(Lifecycle!vars)
  <2> SUFFICES ASSUME IInv, [Next]_vars PROVE [Lifecycle!Next]_(Lifecycle!vars)
    OBVIOUS
  <2>1. CASE \E c \in Clients :
                \/ Running /\ Accept(c)
                \/ Admit(c)
                \/ Running /\ AddOp(c)
                \/ Running /\ HangUp(c)
                \/ HandlerStep(c)
                \/ \E h \in Helpers : Running /\ ShutdownRequest(c, h)
    BY <2>1, SessionStepRefines DEF Admit, HandlerStep
  <2>2. CASE \/ \E h \in Helpers : Running /\ Fire(h)
             \/ \E h \in Helpers : HelperStep(h)
             \/ Running /\ AcceptFails
             \/ Main
             \/ UNCHANGED vars
    BY <2>2, OtherStepRefines
  <2>3. QED
    BY <2>1, <2>2 DEF Next, Terminated
<1>2. QED
  BY InitRefines, Invariance, <1>1, PTL DEF Spec, Lifecycle!Spec
=============================================================================
