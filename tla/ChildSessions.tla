----------------------------- MODULE ChildSessions -----------------------------
(***************************************************************************)
(* Child sessions run by delegation tools (harness/subagent/run.go and     *)
(* events.go) and the parent's budget they draw on (harness/session/       *)
(* capture.go). Calls of one batch run concurrently; the parent may cancel *)
(* the batch and, after its grace, go on without the calls.                *)
(*                                                                         *)
(*   parent  its state, the usage it has charged, the request it owes for  *)
(*           (made, and charged when its turn ends), and the budget's token *)
(*   call    per delegation call: where it is, its lease's limit, what its *)
(*           child has used, what the call read of that, its events        *)
(***************************************************************************)
EXTENDS Naturals, Sequences, FiniteSets

CONSTANTS
  Children,       \* delegation calls
  Budget,         \* requests the parent may make with its children
  MaxConcurrent,  \* slots of the capability
  MaxEvents       \* bound on the events of a child

VARIABLES parent, call
childVars == <<parent, call>>

NoCall == [pc |-> "new", limit |-> 0, used |-> 0, read |-> 0, charged |-> FALSE,
           child |-> "none", token |-> FALSE, gaveUp |-> FALSE, blind |-> FALSE,
           unclosed |-> FALSE, waited |-> TRUE,
           routed |-> FALSE, active |-> FALSE, emitted |-> 0, held |-> <<>>, shown |-> <<>>]

ChildrenInit ==
  /\ parent = [state |-> "idle", usage |-> 0, owed |-> 0, token |-> TRUE, cancelled |-> FALSE]
  /\ call = [c \in Children |-> NoCall]

At(c, pc) == call[c].pc = pc
Live(c) == call[c].pc \notin {"new", "done"}
Slots == Cardinality({c \in Children : Live(c)})
\* calls the parent's turn is still waiting for
Awaited == {c \in Children : Live(c) /\ call[c].waited}

(***************************************************************************)
(* One delegation call.                                                    *)
(***************************************************************************)
\* a call of the batch that the answer to the owed request has asked for
TakeSlot(c) ==
  /\ At(c, "new") /\ parent.state = "running" /\ ~parent.cancelled /\ parent.owed = 1
  /\ Slots < MaxConcurrent
  /\ call' = [call EXCEPT ![c].pc = "slot"] /\ UNCHANGED parent

\* deferred: the lease and the slot go back on every return
Return(c, record) == [record EXCEPT !.pc = "done", !.token = FALSE, !.routed = FALSE]
ReturnsAs(c, record) ==
  /\ call' = [call EXCEPT ![c] = record]
  /\ parent' = [parent EXCEPT !.token = @ \/ call[c].token]
Returns(c) == ReturnsAs(c, Return(c, call[c]))

\* fault: children do not wait for each other's lease
GrantsToAll(c) == TRUE

Serialises(c) == parent.token

\* AcquireBudget waits for the token, then looks at the session again; what it
\* leases is what is not charged yet, the request of this very turn included
AcquireBudget(c) ==
  /\ At(c, "slot")
  /\ \/ /\ Serialises(c) /\ parent.state = "running" /\ parent.usage < Budget
        /\ parent' = [parent EXCEPT !.token = FALSE]
        /\ call' = [call EXCEPT ![c].pc = "leased", ![c].token = TRUE,
                                ![c].limit = Budget - parent.usage]
     \/ /\ Serialises(c) /\ (parent.state # "running" \/ parent.usage >= Budget)
        /\ Returns(c)
     \/ parent.cancelled /\ Returns(c)

Build(c) ==
  /\ At(c, "leased")
  /\ \/ call' = [call EXCEPT ![c].pc = "built", ![c].child = "idle"] /\ UNCHANGED parent
     \/ Returns(c)   \* history, environment, harness or session could not be made

Route(c) ==
  /\ At(c, "built") /\ call' = [call EXCEPT ![c].pc = "routed", ![c].routed = TRUE]
  /\ UNCHANGED parent

\* activate flushes what the child published before it was routed, where its
\* parent still takes it
Activate(c) ==
  /\ At(c, "routed")
  /\ \/ /\ parent.state # "faulted" \/ call[c].held = <<>>
        /\ call' = [call EXCEPT ![c].pc = "prompting", ![c].child = "running", ![c].active = TRUE,
                                ![c].shown = @ \o call[c].held, ![c].held = <<>>]
        /\ UNCHANGED parent
     \/ /\ parent.state = "faulted" /\ call[c].held # <<>>
        /\ ReturnsAs(c, [Return(c, call[c]) EXCEPT !.child = "closed"])

PromptReturns(c) ==
  /\ At(c, "prompting") /\ call[c].child \in {"settled", "faulted"}
  /\ call' = [call EXCEPT ![c].pc = "settled"] /\ UNCHANGED parent
\* the child was interrupted and did not settle within the grace
PromptGivesUp(c) ==
  /\ At(c, "prompting") /\ parent.cancelled /\ call[c].child = "running"
  /\ call' = [call EXCEPT ![c].pc = "settled", ![c].gaveUp = TRUE] /\ UNCHANGED parent

\* Snapshot, before Close
ReadUsage(c) ==
  /\ At(c, "settled") /\ call' = [call EXCEPT ![c].pc = "read", ![c].read = call[c].used]
  /\ UNCHANGED parent
\* a child whose append of an input failed has no snapshot, and the error is dropped
ReadNothing(c) ==
  /\ At(c, "settled") /\ call[c].child = "faulted"
  /\ call' = [call EXCEPT ![c].pc = "read", ![c].blind = TRUE] /\ UNCHANGED parent

CloseChild(c) ==
  /\ At(c, "read") /\ call[c].child # "running"
  /\ call' = [call EXCEPT ![c].pc = "closed", ![c].child = "closed"] /\ UNCHANGED parent
\* Close refuses a busy child and may fail for any other; the call returns the error
\* and charges nothing
CloseFails(c) ==
  /\ At(c, "read")
  /\ ReturnsAs(c, [Return(c, call[c]) EXCEPT !.unclosed = TRUE])

\* fault: an interrupted parent charges nothing
ChargesRunning == parent.state = "running"

Chargeable == parent.state \in {"running", "interrupting"}

\* childBudgetLease.Commit; a parent that settled without the call, or faulted (the
\* projection failed then, too), refuses the charge
CommitUsage(c) ==
  /\ At(c, "closed")
  /\ \/ /\ Chargeable
        /\ call' = [call EXCEPT ![c] = [Return(c, @) EXCEPT !.charged = TRUE]]
        /\ parent' = [parent EXCEPT !.token = @ \/ call[c].token, !.usage = @ + call[c].read]
     \/ ~Chargeable /\ Returns(c)

\* the append of the charge fails and faults the parent
CommitFails(c) ==
  /\ At(c, "closed") /\ Chargeable
  /\ call' = [call EXCEPT ![c] = Return(c, @)]
  /\ parent' = [parent EXCEPT !.token = @ \/ call[c].token, !.state = "faulted", !.cancelled = TRUE]

(***************************************************************************)
(* The child session.                                                      *)
(***************************************************************************)
ChildSpends(c) ==
  /\ call[c].child = "running" /\ call[c].used < call[c].limit
  /\ call' = [call EXCEPT ![c].used = @ + 1] /\ UNCHANGED parent

ChildSettles(c) ==
  /\ call[c].child = "running"
  /\ \E state \in {"settled", "faulted"} : call' = [call EXCEPT ![c].child = state]
  /\ UNCHANGED parent

\* fault: events do not wait for Activate
HoldsNothing(c) == FALSE

\* the projecting hub: the event reaches the parent's bus, or waits for Activate
HoldsEvents(c) == ~call[c].active

\* (with a faulted parent the projection fails, and is over)
ChildEmits(c) ==
  /\ parent.state # "faulted"
  /\ call[c].child \in {"idle", "running"} /\ call[c].emitted < MaxEvents
  /\ LET n == call[c].emitted + 1
     IN call' = IF HoldsEvents(c)
                THEN [call EXCEPT ![c].emitted = n, ![c].held = Append(@, n)]
                ELSE [call EXCEPT ![c].emitted = n, ![c].shown = Append(@, n)]
  /\ UNCHANGED parent

(***************************************************************************)
(* The parent.                                                             *)
(***************************************************************************)
\* prepareStart looks at the budget, and the first request follows
ParentStarts ==
  /\ parent.state = "idle" /\ parent.usage < Budget
  /\ parent' = [parent EXCEPT !.state = "running", !.cancelled = FALSE, !.owed = 1]
  /\ UNCHANGED call

\* fault: a turn is charged again when its run settles
OwesStill == 1

AfterTurn == 0

\* TurnEnded charges the turn's request, when the children of its batch are through
ParentTurnEnds ==
  /\ parent.state = "running" /\ parent.owed = 1 /\ Awaited = {}
  /\ parent' = [parent EXCEPT !.usage = @ + parent.owed, !.owed = AfterTurn]
  /\ UNCHANGED call

\* turnHook looks at the budget a child has drawn on, and the next request follows
ParentAsks ==
  /\ parent.state = "running" /\ parent.owed = 0 /\ Awaited = {}
  /\ parent.usage < Budget /\ parent' = [parent EXCEPT !.owed = 1]
  /\ UNCHANGED call

ParentSettles ==
  /\ parent.state = "running" /\ parent.owed = 0 /\ Awaited = {}
  /\ parent' = [parent EXCEPT !.state = "idle"]
  /\ UNCHANGED call

ParentCancels ==
  /\ parent.state = "running"
  /\ parent' = [parent EXCEPT !.cancelled = TRUE, !.state = "interrupting"]
  /\ UNCHANGED call

\* after the grace the scheduler answers for the calls that did not, and the
\* interrupted run is charged what it owes
ParentGoesOn ==
  /\ parent.state = "interrupting"
  /\ parent' = [parent EXCEPT !.state = "idle", !.usage = @ + parent.owed, !.owed = 0]
  /\ call' = [c \in Children |-> [call[c] EXCEPT !.waited = @ /\ ~Live(c)]]

ParentFaults ==
  /\ parent.state \in {"running", "interrupting"}
  /\ parent' = [parent EXCEPT !.state = "faulted", !.cancelled = TRUE]
  /\ UNCHANGED call

ChildrenNext ==
  \/ \E c \in Children :
       \/ TakeSlot(c) \/ AcquireBudget(c) \/ Build(c) \/ Route(c) \/ Activate(c)
       \/ PromptReturns(c) \/ PromptGivesUp(c) \/ ReadUsage(c) \/ ReadNothing(c)
       \/ CloseChild(c) \/ CloseFails(c) \/ CommitUsage(c) \/ CommitFails(c)
       \/ ChildSpends(c) \/ ChildSettles(c) \/ ChildEmits(c)
  \/ ParentStarts \/ ParentAsks \/ ParentTurnEnds \/ ParentSettles
  \/ ParentCancels \/ ParentGoesOn \/ ParentFaults

ChildrenSpec == ChildrenInit /\ [][ChildrenNext]_childVars

(***************************************************************************)
(* Properties.                                                             *)
(***************************************************************************)
\* calls whose child has used what its parent has not been charged
Spending == {c \in Children : Live(c) /\ call[c].used > 0}

\* Siblings never spend the same remainder twice ("to prevent concurrent children
\* from oversubscribing the remaining limit", harness/README.md): one call at a time
\* has used what is not charged yet, within the budget together with what is; the
\* lease that sees to it is held by one call or free, on every path of a call that
\* fails or is cancelled. What a lease does not know of is the request that is owed:
\* it is charged after the children of its turn, so that the session overdraws its
\* budget by that request, and by no more, until the parent has gone on without a
\* call, whose charge comes late.
BudgetIsShared ==
  /\ \A c, d \in Spending : c = d
  /\ (\A c \in Children : call[c].waited) =>
       /\ parent.usage + parent.owed <= Budget + 1
       /\ \A c \in Spending : parent.usage + call[c].used <= Budget
  /\ \A c, d \in Children : call[c].token /\ call[d].token => c = d
  /\ parent.token <=> \A c \in Children : ~call[c].token

\* A child that could be closed was charged, and in full unless its call gave up
\* waiting for its end or the child had faulted: where the parent waited for the
\* call and has not faulted. What a child used that could not be closed (one that
\* did not settle in its grace is busy) is not charged to anybody, against "exactly
\* once" of harness/README.md, nor is what is spent after the parent went on.
ChildUsageIsCharged ==
  \A c \in Children :
    At(c, "done") /\ call[c].waited /\ ~call[c].unclosed /\ parent.state # "faulted"
      => \/ call[c].used = 0
         \/ call[c].charged /\ (call[c].gaveUp \/ call[c].blind \/ call[c].read = call[c].used)

\* "observing the first child event never races ahead of addressed child control
\* registration" (events.go), and until it faults the parent's bus has the child's
\* events in the order it published them, none left out (projectingFactory).
EventsFollowRoute ==
  \A c \in Children :
    /\ call[c].shown # <<>> => call[c].pc \notin {"new", "slot", "leased", "built"}
    /\ call[c].shown \o call[c].held = [n \in 1..call[c].emitted |-> n]

\* The parent's budget and bus, with any number of children at a time.
ChildrenAreAccounted ==
  /\ BudgetIsShared
  /\ ChildUsageIsCharged
  /\ EventsFollowRoute
=============================================================================
