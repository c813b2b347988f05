-------------------------- MODULE ProviderBusProofs --------------------------
(***************************************************************************)
(* The safety of the build-install event for any number of plugins and of  *)
(* providers.                                                              *)
(*                                                                         *)
(* The argument for the WaitGroup: until the call starts to collect, the   *)
(* counter is Providers, less what has been sent, plus the handlers that   *)
(* have sent and not yet counted down; and what has been sent fits in the  *)
(* channel, whose capacity is Providers.                                   *)
(***************************************************************************)
EXTENDS ProviderBus, FiniteSetTheorems, TLAPS

\* The handlers between their send and their wg.Done().
Sent == {p \in Plugins : handler[p] = "sent"}

Sending == main \in {"publish", "publishing", "wait"}

QuietInv == main # "publishing" => Quiet

CountInv == /\ main = "start" => wg = 0 /\ errChan = <<>> /\ ~failed /\ published = 0
            /\ main \notin {"collect", "returned"} => received = 0
            /\ main \notin {"start", "returned"} => Plugins # {}
            /\ Sending => /\ wg = Providers - Len(errChan) + Cardinality(Sent)
                          /\ Len(errChan) <= Providers

CollectInv == /\ main \in {"wait", "collect"} => published = Providers
              /\ main = "collect" => wg = 0 /\ Len(errChan) + received = Providers

\* An error that a plugin answered with is with its handler, in the channel or
\* in combinedErr.
ErrorInv == failed => \/ combined
                      \/ \E i \in 1..Len(errChan) : errChan[i] = "error"
                      \/ \E p \in Plugins : handler[p] = "sendError"

\* An error found there is one that a plugin answered with, as long as the
\* call has not returned.
CauseInv == /\ main # "returned" /\ combined => failed
            /\ \A i \in 1..Len(errChan) : errChan[i] = "error" => failed
            /\ \A p \in Plugins : handler[p] = "sendError" => failed

ReturnInv == main = "returned" =>
                /\ wg >= 0
                /\ combined <=> failed \/ (Plugins # {} /\ published < Providers)
                /\ \/ combined /\ published < Providers
                   \/ Providers = 0 \/ Plugins = {}
                   \/ published = Providers /\ received = Providers
                /\ published = Providers => wg = 0 /\ errChan = <<>>

IInv == TypeOK /\ QuietInv /\ CountInv /\ CollectInv /\ ErrorInv /\ CauseInv /\ ReturnInv
-----------------------------------------------------------------------------
\* What the three steps of a handler do to the set Sent.
LEMMA SentFinite == TypeOK => /\ IsFiniteSet(Sent)
                              /\ Cardinality(Sent) \in Nat
                              /\ Quiet => Cardinality(Sent) = 0
<1>1. Sent \subseteq Plugins
  BY DEF Sent
<1>2. IsFiniteSet(Sent)
  BY <1>1, PluginsAssumption, FS_Subset
<1>3. Cardinality(Sent) \in Nat
  BY <1>2, FS_CardinalityType
<1>4. Quiet => Sent = {}
  BY DEF Quiet, Sent
<1> QED
  BY <1>2, <1>3, <1>4, FS_EmptySet

\* The initial state satisfies the invariant.
LEMMA InitInv == Init => IInv
<1> SUFFICES ASSUME Init PROVE IInv
  OBVIOUS
<1>1. handler \in [Plugins -> Handlers]
  BY DEF Init, Handlers
<1>2. errChan \in Seq(Outcomes)
  BY DEF Init
<1>3. combined \in BOOLEAN /\ failed \in BOOLEAN
  BY DEF Init
<1>4. main \in Mains /\ published \in 0..Providers /\ wg \in Int /\ received \in 0..Providers
  BY ProvidersAssumption DEF Init, Mains
<1>5. TypeOK
  BY <1>1, <1>2, <1>3, <1>4 DEF TypeOK
<1>6. QuietInv /\ CountInv /\ CollectInv /\ ErrorInv /\ ReturnInv
  BY DEF Init, QuietInv, Quiet, CountInv, Sending, CollectInv, ErrorInv, ReturnInv
<1>7. CauseInv
  BY DEF Init, CauseInv
<1> QED
  BY <1>5, <1>6, <1>7 DEF IInv

\* Every step keeps the types.
LEMMA TypeStep == TypeOK /\ [Next]_vars => TypeOK'
<1> SUFFICES ASSUME TypeOK, [Next]_vars PROVE TypeOK'
  OBVIOUS
<1> USE ProvidersAssumption DEF TypeOK, Mains, Handlers, Outcomes
<1>1. CASE Start
  BY <1>1 DEF Start
<1>2. CASE Publish
  BY <1>2 DEF Publish
<1>3. CASE PublishFails
  BY <1>3 DEF PublishFails
<1>4. CASE PublishReturns
  BY <1>4 DEF PublishReturns
<1>5. CASE AllPublished
  BY <1>5 DEF AllPublished
<1>6. CASE Wait
  BY <1>6 DEF Wait
<1>7. CASE Collect
  BY <1>7 DEF Collect
<1>8. CASE Return
  BY <1>8 DEF Return
<1>9. ASSUME NEW p \in Plugins, Handle(p) PROVE TypeOK'
  <2>1. CASE Answer(p)
    BY <2>1 DEF Answer
  <2>2. CASE Send(p)
    BY <2>2 DEF Send
  <2>3. CASE Done(p)
    BY <2>3 DEF Done
  <2> QED
    BY <1>9, <2>1, <2>2, <2>3 DEF Handle
<1>10. CASE UNCHANGED vars
  BY <1>10 DEF vars
<1> QED
  BY <1>1, <1>2, <1>3, <1>4, <1>5, <1>6, <1>7, <1>8, <1>9, <1>10 DEF Next, Main

\* No step of the main goroutine makes an error of its own but PublishFails,
\* which returns it.
LEMMA MainCause == IInv /\ Main => CauseInv'
<1> SUFFICES ASSUME IInv, Main PROVE CauseInv'
  OBVIOUS
<1> USE DEF IInv, CauseInv
<1>1. CASE Start
  BY <1>1 DEF Start
<1>2. CASE Publish
  BY <1>2 DEF Publish
<1>3. CASE PublishFails
  BY <1>3 DEF PublishFails
<1>4. CASE PublishReturns
  BY <1>4 DEF PublishReturns
<1>5. CASE AllPublished
  BY <1>5 DEF AllPublished
<1>6. CASE Wait
  BY <1>6 DEF Wait
<1>7. CASE Collect
  <2>1. /\ main # "returned" /\ main' = main /\ handler' = handler /\ failed' = failed
        /\ combined' = (combined \/ Head(errChan) = "error")
        /\ errChan' = Tail(errChan) /\ errChan # <<>> /\ errChan \in Seq(Outcomes)
    BY <1>7 DEF Collect, TypeOK
  <2>2. Head(errChan) = errChan[1] /\ 1 \in 1..Len(errChan)
    BY <2>1
  <2>3. combined' => failed
    BY <2>1, <2>2
  <2>4. \A i \in 1..Len(errChan') : i + 1 \in 1..Len(errChan) /\ errChan'[i] = errChan[i + 1]
    BY <2>1
  <2> QED
    BY <2>1, <2>3, <2>4
<1>8. CASE Return
  BY <1>8 DEF Return
<1> QED
  BY <1>1, <1>2, <1>3, <1>4, <1>5, <1>6, <1>7, <1>8 DEF Main

\* A handler sends an error only when its plugin has answered with one.
LEMMA HandlerCause == ASSUME IInv, NEW p \in Plugins, Handle(p) PROVE CauseInv'
<1> USE DEF IInv, CauseInv
<1>1. CASE Answer(p)
  BY <1>1 DEF Answer, TypeOK
<1>2. CASE Send(p)
  <2>1. /\ errChan' = Append(errChan, IF handler[p] = "sendError" THEN "error" ELSE "nil")
        /\ failed' = failed /\ main' = main /\ combined' = combined
        /\ handler' = [handler EXCEPT ![p] = "sent"]
        /\ handler \in [Plugins -> Handlers] /\ errChan \in Seq(Outcomes)
    BY <1>2 DEF Send, TypeOK
  <2>2. /\ Len(errChan') = Len(errChan) + 1 /\ Len(errChan) \in Nat
        /\ \A i \in 1..Len(errChan) : errChan'[i] = errChan[i]
        /\ errChan'[Len(errChan) + 1] = IF handler[p] = "sendError" THEN "error" ELSE "nil"
    BY <2>1
  <2>3. \A i \in 1..Len(errChan') : i \in 1..Len(errChan) \/ i = Len(errChan) + 1
    BY <2>2
  <2>4. \A i \in 1..Len(errChan') : errChan'[i] = "error" => failed
    BY <2>2, <2>3
  <2>5. \A q \in Plugins : handler'[q] = "sendError" => handler[q] = "sendError"
    BY <2>1
  <2> QED
    BY <2>1, <2>4, <2>5
<1>3. CASE Done(p)
  BY <1>3 DEF Done, TypeOK
<1> QED
  BY <1>1, <1>2, <1>3 DEF Handle

\* Every step of the main goroutine keeps the rest of the invariant.
LEMMA MainStep == IInv /\ Main => QuietInv' /\ CountInv' /\ CollectInv' /\ ErrorInv' /\ ReturnInv'
<1> SUFFICES ASSUME IInv, Main
             PROVE  QuietInv' /\ CountInv' /\ CollectInv' /\ ErrorInv' /\ ReturnInv'
  OBVIOUS
<1> USE ProvidersAssumption DEF IInv, TypeOK
<1> USE DEF QuietInv, CountInv, Sending, CollectInv, ErrorInv, ReturnInv
<1>0. Cardinality(Sent) \in Nat /\ (Quiet => Cardinality(Sent) = 0)
  BY SentFinite
<1>1. CASE Start
  <2>1. Sent' = Sent /\ Quiet' = Quiet
    BY <1>1 DEF Start, Sent, Quiet
  <2>2. ~combined /\ ~failed
    BY <1>1 DEF Start, CauseInv
  <2> QED
    BY <1>0, <1>1, <2>1, <2>2 DEF Start
<1>2. CASE Publish
  <2>1. Sent' = {} /\ Sent = {}
    BY <1>2 DEF Publish, Sent, Quiet
  <2>2. Cardinality(Sent') = 0
    BY <2>1, FS_EmptySet
  <2>3. failed' => combined' \/ \E i \in 1..Len(errChan') : errChan'[i] = "error"
    BY <1>2 DEF Publish, Quiet
  <2> QED
    BY <1>0, <1>2, <2>1, <2>2, <2>3 DEF Publish
<1>3. CASE PublishFails
  <2>1. Sent' = Sent /\ Quiet' = Quiet
    BY <1>3 DEF PublishFails, Sent, Quiet
  <2>2. Plugins # {}
    BY <1>3 DEF PublishFails
  <2> QED
    BY <1>0, <1>3, <2>1, <2>2 DEF PublishFails
<1>4. CASE PublishReturns
  <2>1. Sent' = Sent /\ Quiet' = Quiet
    BY <1>4 DEF PublishReturns, Sent, Quiet
  <2> QED
    BY <1>0, <1>4, <2>1 DEF PublishReturns
<1>5. CASE AllPublished
  <2>1. Sent' = Sent /\ Quiet' = Quiet
    BY <1>5 DEF AllPublished, Sent, Quiet
  <2> QED
    BY <1>0, <1>5, <2>1 DEF AllPublished
<1>6. CASE Wait
  <2>1. Sent' = Sent /\ Quiet' = Quiet
    BY <1>6 DEF Wait, Sent, Quiet
  <2> QED
    BY <1>0, <1>6, <2>1 DEF Wait
<1>7. CASE Collect
  <2>1. Sent' = Sent /\ Quiet' = Quiet
    BY <1>7 DEF Collect, Sent, Quiet
  <2>2. ASSUME NEW i \in 1..Len(errChan), errChan[i] = "error"
        PROVE  combined' \/ \E j \in 1..Len(errChan') : errChan'[j] = "error"
    <3>1. CASE i = 1
      <4>1. Head(errChan) = errChan[1]
        BY <1>7 DEF Collect
      <4>2. combined' = (combined \/ Head(errChan) = "error")
        BY <1>7 DEF Collect
      <4> QED
        BY <2>2, <3>1, <4>1, <4>2, Zenon
    <3>2. CASE i # 1
      <4>1. errChan' = Tail(errChan) /\ errChan \in Seq(Outcomes) /\ errChan # <<>>
        BY <1>7 DEF Collect
      <4>2. /\ Len(errChan') = Len(errChan) - 1
            /\ \A j \in 1..Len(errChan) - 1 : errChan'[j] = errChan[j + 1]
        BY <4>1
      <4>3. i - 1 \in 1..Len(errChan) - 1 /\ (i - 1) + 1 = i
        BY <3>2, <4>1
      <4>4. errChan'[i - 1] = "error"
        BY <2>2, <4>2, <4>3
      <4> QED
        BY <4>2, <4>3, <4>4
    <3> QED
      BY <3>1, <3>2
  <2>3. ErrorInv'
    <3>1. handler' = handler /\ failed' = failed /\ (combined => combined')
      BY <1>7 DEF Collect
    <3> QED
      BY <2>2, <3>1 DEF ErrorInv
  <2>4. Len(errChan') = Len(errChan) - 1
    BY <1>7 DEF Collect
  <2>5. QuietInv' /\ CountInv' /\ CollectInv' /\ ReturnInv'
    BY <1>7, <2>1, <2>4 DEF Collect
  <2> QED
    BY <2>3, <2>5
<1>8. CASE Return
  <2>1. Sent' = Sent /\ Quiet' = Quiet
    BY <1>8 DEF Return, Sent, Quiet
  <2>2. errChan = <<>>
    BY <1>8 DEF Return
  <2>3. combined <=> failed
    BY <1>8, <2>2 DEF Return, Quiet, CauseInv
  <2> QED
    BY <1>8, <2>1, <2>2, <2>3 DEF Return
<1> QED
  BY <1>1, <1>2, <1>3, <1>4, <1>5, <1>6, <1>7, <1>8 DEF Main

\* Every step of a plugin and its handler keeps the rest of the invariant.
LEMMA HandlerStep ==
    ASSUME IInv, NEW p \in Plugins, Handle(p)
    PROVE  QuietInv' /\ CountInv' /\ CollectInv' /\ ErrorInv' /\ ReturnInv'
<1> USE ProvidersAssumption DEF IInv, TypeOK
<1>1. main = "publishing" /\ main' = "publishing"
  BY DEF Handle, Answer, Send, Done, QuietInv, Quiet
<1>2. QuietInv' /\ CollectInv' /\ ReturnInv'
  BY <1>1 DEF QuietInv, CollectInv, ReturnInv
<1>3. /\ IsFiniteSet(Sent)
      /\ Cardinality(Sent) \in Nat
  BY SentFinite
<1>4. CASE Answer(p)
  <2>1. Sent' = Sent
    BY <1>4 DEF Answer, Sent
  <2>2. CountInv'
    BY <1>1, <1>4, <2>1 DEF Answer, CountInv, Sending
  <2>3. ErrorInv'
    BY <1>4 DEF Answer, ErrorInv
  <2> QED
    BY <1>2, <2>2, <2>3
<1>5. CASE Send(p)
  <2>1. Sent' = Sent \union {p} /\ p \notin Sent
    BY <1>5 DEF Send, Sent
  <2>2. Cardinality(Sent') = Cardinality(Sent) + 1
    BY <1>3, <2>1, FS_AddElement
  <2>3. Len(errChan') = Len(errChan) + 1 /\ Len(errChan) \in Nat
    BY <1>5 DEF Send
  <2>4. CountInv'
    <3>1. wg' = wg /\ received' = received /\ Len(errChan) < Providers
      BY <1>5 DEF Send, Capacity
    <3>2. wg = Providers - Len(errChan) + Cardinality(Sent) /\ received = 0
      BY <1>1 DEF CountInv, Sending
    <3>3. wg' = Providers - Len(errChan') + Cardinality(Sent') /\ Len(errChan') <= Providers
      BY <1>3, <2>2, <2>3, <3>1, <3>2
    <3> QED
      BY <1>1, <3>1, <3>2, <3>3 DEF CountInv, Sending
  <2>5. ErrorInv'
    <3>1. CASE handler[p] = "sendError"
      <4>1. Len(errChan') \in 1..Len(errChan') /\ errChan'[Len(errChan')] = "error"
        BY <1>5, <2>3, <3>1 DEF Send
      <4> QED
        BY <4>1 DEF ErrorInv
    <3>2. CASE handler[p] # "sendError"
      <4>1. \A i \in 1..Len(errChan) : i \in 1..Len(errChan') /\ errChan'[i] = errChan[i]
        BY <1>5, <2>3 DEF Send
      <4>2. \A q \in Plugins : handler[q] = "sendError" => handler'[q] = "sendError"
        BY <1>5, <3>2 DEF Send
      <4>3. failed' = failed /\ combined' = combined
        BY <1>5 DEF Send
      <4> QED
        BY <4>1, <4>2, <4>3 DEF ErrorInv
    <3> QED
      BY <3>1, <3>2
  <2> QED
    BY <1>2, <2>4, <2>5
<1>6. CASE Done(p)
  <2>1. Sent' = Sent \ {p} /\ p \in Sent
    BY <1>6 DEF Done, Sent
  <2>2. Cardinality(Sent') = Cardinality(Sent) - 1
    BY <1>3, <2>1, FS_RemoveElement
  <2>3. CountInv'
    BY <1>1, <1>3, <1>6, <2>2 DEF Done, CountInv, Sending
  <2>4. ErrorInv'
    BY <1>6 DEF Done, ErrorInv
  <2> QED
    BY <1>2, <2>3, <2>4
<1> QED
  BY <1>4, <1>5, <1>6 DEF Handle

\* The invariant is inductive.
LEMMA StepInv == IInv /\ [Next]_vars => IInv'
<1> SUFFICES ASSUME IInv, [Next]_vars PROVE IInv'
  OBVIOUS
<1>1. TypeOK'
  BY TypeStep DEF IInv
<1>2. CASE Main
  BY <1>1, <1>2, MainStep, MainCause DEF IInv
<1>3. CASE \E p \in Plugins : Handle(p)
  BY <1>1, <1>3, HandlerStep, HandlerCause DEF IInv
<1>4. CASE UNCHANGED vars
  BY <1>1, <1>4 DEF vars, IInv, QuietInv, Quiet, CountInv, Sending, Sent, CollectInv,
                    ErrorInv, CauseInv, ReturnInv
<1> QED
  BY <1>2, <1>3, <1>4 DEF Next

\* The invariant holds in every reachable state of the event, for any plugins and providers.
THEOREM Invariance == Spec => []IInv
<1> QED
  BY InitInv, StepInv, PTL DEF Spec

-----------------------------------------------------------------------------
\* Every variable stays in its type.
THEOREM TypeCorrect == Spec => []TypeOK
<1>1. IInv => TypeOK
  BY DEF IInv
<1> QED
  BY <1>1, Invariance, PTL

\* However many plugins answer however many events, no handler counts the
\* WaitGroup below zero, which would panic.
THEOREM WaitGroupSafe == Spec => []NoNegativeWaitGroup
<1>1. IInv => NoNegativeWaitGroup
  <2> SUFFICES ASSUME IInv PROVE NoNegativeWaitGroup
    OBVIOUS
  <2>1. Cardinality(Sent) \in Nat
    BY SentFinite DEF IInv
  <2>2. Len(errChan) \in Nat /\ wg \in Int
    BY DEF IInv, TypeOK
  <2>3. CASE Sending
    BY <2>1, <2>2, <2>3, ProvidersAssumption DEF IInv, CountInv, NoNegativeWaitGroup
  <2>4. CASE ~Sending
    BY <2>4 DEF Sending, IInv, TypeOK, Mains, CountInv, CollectInv, ReturnInv, NoNegativeWaitGroup
  <2> QED
    BY <2>3, <2>4
<1> QED
  BY <1>1, Invariance, PTL

\* The call returns an error exactly when a plugin answered with one or an event
\* could not be published; no handler, outcome or count is left behind.
THEOREM OutcomeComplete == Spec => []OutcomeIsComplete
<1>1. IInv => OutcomeIsComplete
  BY DEF IInv, QuietInv, ReturnInv, OutcomeIsComplete, Returned
<1> QED
  BY <1>1, Invariance, PTL

\* The call reports success only when every event was published and every
\* outcome was looked at.
THEOREM SuccessComplete == Spec => []SuccessMeansAllAsked
<1>1. IInv => SuccessMeansAllAsked
  BY ProvidersAssumption DEF IInv, TypeOK, ReturnInv, SuccessMeansAllAsked, Returned
<1> QED
  BY <1>1, Invariance, PTL
=============================================================================
