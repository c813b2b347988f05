---------------------------- MODULE ProviderBus ----------------------------
(***************************************************************************)
(* The build-install event of the providers (ProviderBuildInstallEvent in  *)
(* pkg/stages/steps_install.go).  One goroutine publishes the event once   *)
(* for every --provider; each plugin found on disk runs, and its response  *)
(* is handled in a goroutine of its own, which puts the outcome in errChan *)
(* and counts down a WaitGroup.  Publish returns when all the handlers it  *)
(* started have returned.  Only after the last one, and after the          *)
(* WaitGroup, is anything taken out of the channel.                        *)
(***************************************************************************)
EXTENDS Naturals, Integers, Sequences, FiniteSets

CONSTANTS Plugins,    \* the provider plugins the bus has found
          Providers   \* how many times --provider was given

ASSUME PluginsAssumption   == IsFiniteSet(Plugins)
ASSUME ProvidersAssumption == Providers \in Nat

VARIABLES main,      \* where ProviderBuildInstallEvent is
          published, \* how many events it has published
          handler,   \* what each plugin and its response handler are doing
          errChan,   \* the outcomes in the channel
          wg,        \* the counter of the WaitGroup
          combined,  \* combinedErr is not nil
          received,  \* how many outcomes have been taken out of the channel
          failed     \* history: some plugin has answered with an error

vars == <<main, published, handler, errChan, wg, combined, received, failed>>

Mains    == {"start", "publish", "publishing", "wait", "collect", "returned"}
Handlers == {"idle", "running", "sendError", "sendNil", "sent"}
Outcomes == {"error", "nil"}

TypeOK == /\ main \in Mains
          /\ published \in 0..Providers
          /\ handler \in [Plugins -> Handlers]
          /\ errChan \in Seq(Outcomes)
          /\ wg \in Int
          /\ combined \in BOOLEAN
          /\ received \in 0..Providers
          /\ failed \in BOOLEAN

Init == /\ main = "start"
        /\ published = 0
        /\ handler = [p \in Plugins |-> "idle"]
        /\ errChan = <<>>
        /\ wg = 0
        /\ combined = FALSE
        /\ received = 0
        /\ failed = FALSE

\* Mutant: one outcome too few fits.
CapacityShort == Providers - 1

Capacity == Providers                       \* make(chan error, providerCount)
Quiet    == \A p \in Plugins : handler[p] = "idle"

\* Mutant: the WaitGroup does not count the last provider.
StartOneShort == /\ main = "start"
                 /\ IF Providers = 0 \/ Plugins = {}
                      THEN main' = "returned" /\ UNCHANGED wg
                      ELSE main' = "publish" /\ wg' = Providers - 1
                 /\ UNCHANGED <<published, handler, errChan, combined, received, failed>>

\* No provider asked for, or no plugin found: there is nothing to do.
Start == /\ main = "start"
         /\ IF Providers = 0 \/ Plugins = {}
              THEN main' = "returned" /\ UNCHANGED wg
              ELSE main' = "publish" /\ wg' = Providers
         /\ UNCHANGED <<published, handler, errChan, combined, received, failed>>

\* Mutant: the loop goes once too often.
PublishOnceMore == /\ main = "publish" /\ published <= Providers
                   /\ published' = published + 1
                   /\ handler' = [p \in Plugins |-> "running"]
                   /\ main' = "publishing"
                   /\ UNCHANGED <<errChan, wg, combined, received, failed>>

\* manager.Publish starts every plugin with the event of one provider.
Publish == /\ main = "publish" /\ published < Providers
           /\ published' = published + 1
           /\ handler' = [p \in Plugins |-> "running"]
           /\ main' = "publishing"
           /\ UNCHANGED <<errChan, wg, combined, received, failed>>

\* Mutant: the failure is logged and the call returns nil.
PublishFailsQuietly == /\ main = "publish" /\ published < Providers
                       /\ main' = "returned"
                       /\ UNCHANGED <<published, handler, errChan, wg, combined, received, failed>>

\* The event cannot be made: the error is returned at once.
PublishFails == /\ main = "publish" /\ published < Providers
                /\ main' = "returned" /\ combined' = TRUE
                /\ UNCHANGED <<published, handler, errChan, wg, received, failed>>

PublishReturns == /\ main = "publishing" /\ Quiet
                  /\ main' = "publish"
                  /\ UNCHANGED <<published, handler, errChan, wg, combined, received, failed>>

\* A plugin answers: an error, success, not applicable, or something else.
Answer(p) == /\ handler[p] = "running"
             /\ \/ /\ handler' = [handler EXCEPT ![p] = "sendError"]
                   /\ failed' = TRUE
                \/ /\ handler' = [handler EXCEPT ![p] = "sendNil"]
                   /\ UNCHANGED failed
             /\ UNCHANGED <<main, published, errChan, wg, combined, received>>

\* errChan <- ..., which blocks while the channel is full.
Send(p) == /\ handler[p] \in {"sendError", "sendNil"}
           /\ Len(errChan) < Capacity
           /\ errChan' = Append(errChan, IF handler[p] = "sendError" THEN "error" ELSE "nil")
           /\ handler' = [handler EXCEPT ![p] = "sent"]
           /\ UNCHANGED <<main, published, wg, combined, received, failed>>

Done(p) == /\ handler[p] = "sent"
           /\ handler' = [handler EXCEPT ![p] = "idle"]
           /\ wg' = wg - 1
           /\ UNCHANGED <<main, published, errChan, combined, received, failed>>

AllPublished == /\ main = "publish" /\ published = Providers
                /\ main' = "wait"
                /\ UNCHANGED <<published, handler, errChan, wg, combined, received, failed>>

Wait == /\ main = "wait" /\ wg = 0
        /\ main' = "collect"
        /\ UNCHANGED <<published, handler, errChan, wg, combined, received, failed>>

\* Mutant: the last outcome decides.
CollectLast == /\ main = "collect" /\ received < Providers
               /\ errChan # <<>>
               /\ combined' = (Head(errChan) = "error")
               /\ errChan' = Tail(errChan)
               /\ received' = received + 1
               /\ UNCHANGED <<main, published, handler, wg, failed>>

Collect == /\ main = "collect" /\ received < Providers
           /\ errChan # <<>>
           /\ combined' = (combined \/ Head(errChan) = "error")
           /\ errChan' = Tail(errChan)
           /\ received' = received + 1
           /\ UNCHANGED <<main, published, handler, wg, failed>>

Return == /\ main = "collect" /\ received = Providers
          /\ main' = "returned"
          /\ UNCHANGED <<published, handler, errChan, wg, combined, received, failed>>

Main == \/ Start \/ Publish \/ PublishFails \/ PublishReturns
        \/ AllPublished \/ Wait \/ Collect \/ Return

Handle(p) == Answer(p) \/ Send(p) \/ Done(p)

Next == Main \/ \E p \in Plugins : Handle(p)

\* Goroutines that can run are scheduled, and a plugin answers in the end: the
\* bus waits for its process.
Fairness == WF_vars(Main) /\ \A p \in Plugins : WF_vars(Handle(p))

Spec == Init /\ [][Next]_vars /\ Fairness

-----------------------------------------------------------------------------
Returned == main = "returned"

\* The WaitGroup never goes below zero, which would panic, however many
\* plugins answer one event: a handler counts down only after its send, and
\* the channel takes no more sends than the WaitGroup was set to.
NoNegativeWaitGroup == wg >= 0

\* When the call returns, it returns an error exactly when a plugin answered
\* with one or an event could not be published, and nobody is left behind
\* with the channel or the counter.
OutcomeIsComplete ==
    Returned => /\ combined <=> failed \/ (Plugins # {} /\ published < Providers)
                /\ Quiet
                /\ published = Providers /\ Plugins # {} /\ received = Providers
                     => wg = 0 /\ errChan = <<>>

\* With the install result reported as good, every event has been published
\* and every plugin has answered it.
SuccessMeansAllAsked ==
    Returned /\ ~combined /\ Plugins # {} => published = Providers /\ received = Providers

\* The call returns.
Returns == <>Returned

\* The handler: "If none of the above, still mark as done".  Every response a
\* plugin gives is marked as done in the end, however many plugins there are.
EveryAnswerDone ==
    \A p \in Plugins : handler[p] \in {"sendError", "sendNil"} ~> handler[p] = "idle"
=============================================================================
