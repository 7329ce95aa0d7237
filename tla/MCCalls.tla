------------------------------- MODULE MCCalls -------------------------------
\* What the DSS asks of the network for a turn. A behaviour is one of three:
\* discovery (MCDiscovery), the plan of a turn (MCPlanner), or one provider call
\* at the configured three attempts, against a provider that names no time to
\* come back at, one soon or one later.
EXTENDS MCDiscovery, MCPlanner, Invocation

DiscoveryIdle ==
  /\ asks = <<>> /\ network = <<>> /\ registry = <<>> /\ pc = "cancelled"
  /\ inflight = {} /\ replies = <<>> /\ result = <<>> /\ events = {} /\ priorities = <<>>
PlannerIdle ==
  /\ offers = [a \in Asks |-> <<>>] /\ ranked = {} /\ placed = {}
  /\ running = "broken" /\ calls = <<>>
  /\ answers = {} /\ failures = {} /\ waiting = offers
InvocationIdle ==
  /\ action = "select" /\ phase = "cancelled" /\ minted = 0
  /\ posts = <<>> /\ outcomes = <<>> /\ pending = {} /\ acted = {} /\ waited = 0

CallsInit == \/ DiscoveryInit /\ PlannerIdle /\ InvocationIdle
             \/ DiscoveryIdle /\ Init /\ InvocationIdle
             \/ DiscoveryIdle /\ PlannerIdle /\ InvocationInit
CallsNext == \/ DiscoveryNext /\ UNCHANGED <<vars, ivars>>
             \/ Next /\ UNCHANGED <<qvars, ivars>>
             \/ InvocationNext /\ UNCHANGED <<qvars, vars>>
cvars == <<qvars, vars, ivars>>

\* The fairness of the planner and of the call (FairSpec, FairInvocation).
FairCalls ==
  /\ CallsInit /\ [][CallsNext]_cvars
  /\ WF_cvars(Progress /\ UNCHANGED <<qvars, ivars>>)
  /\ WF_cvars(Adapter /\ UNCHANGED <<qvars, vars>>)

\* A plan is over and so is every call made for one, whatever the providers do:
\* the timeouts and the attempts end a call, and a tool waits for nothing else.
EveryCallReturns == CallEnds /\ PlanReturns
=============================================================================
