------------------------------ MODULE VrParams ------------------------------
(***************************************************************************)
(* Teleop's own parameters beside its control loop (tools/vr-teleop,       *)
(* teleop_params.py, limits.py, node_limits.py and the parts of teleop.py  *)
(* that apply them): sets arrive on a Zenoh thread, the node's budgets on  *)
(* another, and the loop alone writes the knobs it drives with.            *)
(*                                                                         *)
(* Two knobs: clamp, which the node bounds by its lead less what the arm   *)
(* travels in one state tick at the budget, and scale, which it does not.  *)
(* A store of a Python attribute is one step; a call may let another       *)
(* thread in.                                                              *)
(***************************************************************************)
EXTENDS Integers

CONSTANTS
    MaxLead,    \* the node's max_lead
    Budgets,    \* what its budget may be, as the travel of a state tick
    Scales,     \* values of the other knob
    MaxSets,    \* bound: accepted sets
    MaxTunes,   \* bound: changes of the node's budget
    NoSet, NoBody

ASSUME VrParamsAssumption ==
    /\ MaxLead \in Nat /\ \A b \in Budgets : b \in Nat /\ b < MaxLead
    /\ MaxSets \in Nat /\ MaxTunes \in Nat /\ NoSet \notin [clamp : 1..MaxLead, scale : Scales]

VARIABLES
    args,       \* Teleop.a, as far as the knobs go
    nodeLimits,       \* Teleop.node and TeleopParams.node: the budget
    body,       \* ZenohSink.params_body: the one slot; "unreadable" is a body of another shape
    accepted, version, pending,     \* TeleopParams
    publishedVersion, published,    \* published_version, and the body of the last publish
    setting,    \* where on_set is, and its scratch
    ticking,    \* where tick is, and the version its body has read
    nodeBudget, \* external: what the node has
    limit,      \* bounds
    past        \* history: accepted[v], what was accepted as version v

vrParamsVars == <<args, nodeLimits, body, accepted, version, pending, publishedVersion, published,
                  setting, ticking, nodeBudget, limit, past>>

Knobs == [clamp : 1..MaxLead, scale : Scales]
\* lead_bounds.
LeadBound(budget) == MaxLead - budget

VrParamsTypeOK ==
    /\ args \in Knobs /\ accepted \in Knobs /\ nodeLimits \in Budgets /\ nodeBudget \in Budgets
    /\ body \in Budgets \cup {NoBody, -1} /\ version \in 0..MaxSets
    /\ (pending = NoSet \/ pending \in Knobs) /\ publishedVersion \in -1..MaxSets
    /\ setting \in [at : {"idle", "version", "pending"}, scratch : Knobs]
    /\ ticking \in [at : {"apply", "due", "body", "params"}, version : 0..MaxSets]
    /\ published \in [version : 0..MaxSets, params : Knobs] /\ past \in [0..MaxSets -> Knobs]
    /\ limit \in [sets : 0..MaxSets, tunes : 0..MaxTunes]

\* validate, at the start; schema and get were read, or there is no run.
VrParamsInit ==
    /\ nodeLimits \in Budgets /\ nodeBudget = nodeLimits
    /\ args \in {k \in Knobs : k.clamp <= LeadBound(nodeLimits)}
    /\ body = NoBody /\ accepted = args /\ version = 0 /\ pending = NoSet
    /\ publishedVersion = -1 /\ published = [version |-> 0, params |-> args]
    /\ setting = [at |-> "idle", scratch |-> args] /\ ticking = [at |-> "apply", version |-> 0]
    /\ limit = [sets |-> MaxSets, tunes |-> MaxTunes]
    /\ past = [v \in 0..MaxSets |-> args]

-----------------------------------------------------------------------------
(* The Zenoh threads.                                                                              *)
\* _checked: a value out of its bounds is moved to the nearest.
Within(value, low, high) == IF value < low THEN low ELSE IF value > high THEN high ELSE value

Scratch(request) ==
    [clamp |-> IF "clamp" \in DOMAIN request THEN Within(request.clamp, 1, LeadBound(nodeLimits))
               ELSE accepted.clamp,
     scale |-> IF "scale" \in DOMAIN request THEN request.scale ELSE accepted.scale]

Requests == [clamp : 1..MaxLead] \cup [scale : Scales]

\* on_set; a request with a base_version that is not the version, or of another shape, is refused
\* and changes nothing. What is accepted is there before its version, the loop's slot is last.
OnSet ==
    /\ setting.at = "idle" /\ limit.sets > 0 /\ limit' = [limit EXCEPT !.sets = @ - 1]
    /\ \E request \in Requests :
         /\ setting' = [at |-> "version", scratch |-> Scratch(request)]
         /\ accepted' = Scratch(request)
         /\ past' = [past EXCEPT ![version + 1] = Scratch(request)]
    /\ UNCHANGED <<args, nodeLimits, body, version, pending, publishedVersion, published, ticking,
                   nodeBudget>>

OnSetVersion ==
    /\ setting.at = "version" /\ setting' = [setting EXCEPT !.at = "pending"]
    /\ version' = version + 1
    /\ UNCHANGED <<args, nodeLimits, body, accepted, pending, publishedVersion, published, ticking,
                   nodeBudget, limit, past>>

OnSetPending ==
    /\ setting.at = "pending" /\ setting' = [setting EXCEPT !.at = "idle"]
    /\ pending' = setting.scratch
    /\ UNCHANGED <<args, nodeLimits, body, accepted, version, publishedVersion, published, ticking,
                   nodeBudget, limit, past>>

\* _on_params: latest wins.
OnParams ==
    /\ body' \in {nodeBudget, -1} /\ body' # body
    /\ UNCHANGED <<args, nodeLimits, accepted, version, pending, publishedVersion, published, setting,
                   ticking, nodeBudget, limit, past>>

-----------------------------------------------------------------------------
(* The loop: refresh_limits, then apply_params, which ends in tick.                                *)

\* adopt_budgets: a body that cannot be read, or says nothing new, is ignored.
Adopted == IF body \in Budgets THEN body ELSE nodeLimits
Lowered == [args EXCEPT !.clamp = Within(@, 1, LeadBound(Adopted))]

\* apply_pending, on what refresh_limits left.
Applied_Never == Lowered
Applied == IF pending # NoSet THEN pending ELSE Lowered

AdvanceParams ==
    /\ ticking.at = "apply" /\ ticking' = [ticking EXCEPT !.at = "due"]
    /\ body' = NoBody /\ nodeLimits' = Adopted /\ args' = Applied /\ pending' = NoSet
    /\ publishedVersion' = IF Adopted # nodeLimits THEN -1 ELSE publishedVersion
    /\ UNCHANGED <<accepted, version, published, setting, nodeBudget, limit, past>>

\* tick: at every accepted set, at a retune, or once a second. It notes the version first.
ParamsTick ==
    /\ ticking.at = "due"
    /\ \/ ticking' = [ticking EXCEPT !.at = "body"] /\ publishedVersion' = version
       \/ /\ publishedVersion = version
          /\ ticking' = [ticking EXCEPT !.at = "apply"] /\ UNCHANGED publishedVersion
    /\ UNCHANGED <<args, nodeLimits, body, accepted, version, pending, published, setting, nodeBudget,
                   limit, past>>

\* body: its version, then its parameters.
TickBody ==
    /\ ticking.at = "body" /\ ticking' = [at |-> "params", version |-> version]
    /\ UNCHANGED <<args, nodeLimits, body, accepted, version, pending, publishedVersion, published,
                   setting, nodeBudget, limit, past>>

Marked_AtTheEnd == publishedVersion' = version
Marked == UNCHANGED publishedVersion

TickParams ==
    /\ ticking.at = "params" /\ ticking' = [ticking EXCEPT !.at = "apply"]
    /\ published' = [version |-> ticking.version, params |-> accepted] /\ Marked
    /\ UNCHANGED <<args, nodeLimits, body, accepted, version, pending, setting, nodeBudget, limit, past>>

\* External: someone tunes the node.
NodeTuned ==
    /\ limit.tunes > 0 /\ limit' = [limit EXCEPT !.tunes = @ - 1] /\ nodeBudget' \in Budgets
    /\ UNCHANGED <<args, nodeLimits, body, accepted, version, pending, publishedVersion, published,
                   setting, ticking, past>>

VrParamsNext ==
    \/ OnSet \/ OnSetVersion \/ OnSetPending \/ OnParams \/ AdvanceParams
    \/ ParamsTick \/ TickBody \/ TickParams \/ NodeTuned

VrParamsSpec == VrParamsInit /\ [][VrParamsNext]_vrParamsVars

-----------------------------------------------------------------------------
(* What a panel has read last is never older than its version says, and    *)
(* once tick has noted a version, what it published is that version's,     *)
(* though a set may come between any two of its steps: a set is never left *)
(* unpublished until the next (tick, body, on_set).                        *)
PublishedIsCurrent ==
    /\ published.params \in {past[v] : v \in published.version..MaxSets}
    /\ (publishedVersion = version /\ ticking.at \in {"apply", "due"}) =>
           published.version = version

(* A set that was accepted is what the loop drives with, once it has taken *)
(* it; the node can only have lowered the clamp since (on_set, advance).   *)
AcceptedIsApplied ==
    (pending = NoSet /\ setting.at = "idle") =>
        args.scale = accepted.scale /\ args.clamp <= accepted.clamp

(* The schema's second relation: every bound knob stays under the node's   *)
(* derived value, and the node tightening one lowers it here.              *)
KnobUnderBound == args.clamp <= LeadBound(nodeLimits)
=============================================================================
