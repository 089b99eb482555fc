------------------------------ MODULE PySession ------------------------------
(***************************************************************************)
(* An arm of the Python client: its lease token, its verbs, and one target *)
(* session after another (_arm.py, and _Targets of _targets.py), with the  *)
(* node's arm as the client sees it, another client of that arm, queries   *)
(* whose answer never comes, and states that are dropped or late: what the *)
(* client knows may be of before its last verb.                            *)
(*                                                                         *)
(* One user thread makes the calls; the streamers and Zenoh's callbacks    *)
(* run beside it, so a call reads what they wrote between its steps.       *)
(* The sessions are of one kind: a state of the other kind is as good as   *)
(* one of no session of this client (s.joints == joints).                  *)
(***************************************************************************)
EXTENDS Integers, FiniteSets, Sequences

CONSTANTS
    Objects,    \* the target sessions a user makes, in order: 1..n
    MaxEvents,  \* bound: what the node, the network and the other client do by themselves
    NoObject

ASSUME ObjectsAssumption ==
    IsFiniteSet(Objects) /\ Objects = 1..Cardinality(Objects) /\ NoObject \notin Objects

VARIABLES
    token,      \* arm._token is not None
    session,    \* arm._session
    made,       \* how many session objects there are
    ended,      \* _ended of each: "no", "node", and "lost" with _lost, "never" began
    halted,     \* _halted
    stopped,    \* _stopped
    states,     \* external: the arm's states since the newest that came: arm._latest, oldest, first
    seen,       \* external: the node has seen the token
    call,       \* the call that runs: what it does next, and of which session
    failed,     \* the sessions whose stop raised
    misled,     \* the sessions taken for ended by a state of before they began
    sessionBudget      \* bound: MaxEvents

sessionVars == <<token, session, made, ended, halted, stopped, states, seen, call, failed, misled,
                 sessionBudget>>

\* The arm as the client knows it, and as it is: its phase, its holder, whose session runs.
lastState == Head(states)
node == states[Len(states)]

Calls == {"none", "acquire", "enable", "confirm", "judge", "verb", "release", "undeclare",
          "left", "raised"}
NodeStates ==
    [phase : {"idle", "acquired", "active", "faulted"}, holder : {"none", "me", "other"},
     of : Objects \cup {NoObject}]

SessionTypeOK ==
    /\ token \in BOOLEAN /\ seen \in BOOLEAN /\ failed \cup misled \subseteq Objects
    /\ session \in Objects \cup {NoObject} /\ made \in 0..Cardinality(Objects)
    /\ ended \in [Objects -> {"no", "node", "lost", "never"}]
    /\ halted \in [Objects -> BOOLEAN] /\ stopped \in [Objects -> BOOLEAN]
    /\ states \in Seq(NodeStates) /\ states # <<>>
    /\ call.next \in Calls /\ call.leaves \in BOOLEAN

Idle == [phase |-> "idle", holder |-> "none", of |-> NoObject]
SessionInit ==
    /\ token = FALSE /\ session = NoObject /\ made = 0
    /\ ended = [o \in Objects |-> "no"]
    /\ halted = [o \in Objects |-> FALSE] /\ stopped = [o \in Objects |-> FALSE]
    /\ states = <<Idle>> /\ seen = FALSE
    /\ call = [next |-> "none", of |-> NoObject, leaves |-> FALSE]
    /\ failed = {} /\ misled = {} /\ sessionBudget = MaxEvents

-----------------------------------------------------------------------------
Done(o) == halted[o] \/ ended[o] # "no"
Mine(state) == state.phase = "active" /\ state.holder = "me"

\* The calls go on to another step, for the same session or none.
Goes(next, o, leaves) == call' = [next |-> next, of |-> o, leaves |-> leaves]
Returns == Goes("none", NoObject, FALSE)

\* What the node makes of a verb of this client.
Stopped == [node EXCEPT !.phase = "acquired", !.of = NoObject]
\* The node's arm is in a state, which it publishes: one that repeats the last tells nothing new.
Shows(state) == states' = IF state = node THEN states ELSE Append(states, state)
Acquirable == node.phase \in {"idle", "acquired"} /\ node.holder \in {"none", "me"} /\ seen

-----------------------------------------------------------------------------
(* acquire, in a `with` block of its own: the token, and retries until the node has seen it.       *)
Acquire ==
    /\ call.next = "none" /\ ~token /\ token' = TRUE /\ Goes("acquire", NoObject, FALSE)
    /\ UNCHANGED <<session, made, ended, halted, stopped, states, seen, failed, misled, sessionBudget>>

Acquired ==
    /\ call.next = "acquire" /\ Acquirable /\ Returns
    /\ Shows([phase |-> "acquired", holder |-> "me", of |-> NoObject])
    /\ UNCHANGED <<token, session, made, ended, halted, stopped, seen, failed, misled, sessionBudget>>

\* Refused for another reason than "no lease", or no answer: a token declared here goes.
AcquireRaises ==
    /\ call.next = "acquire" /\ ~Acquirable
    /\ token' = FALSE /\ Returns
    /\ UNCHANGED <<session, made, ended, halted, stopped, states, seen, failed, misled, sessionBudget>>

(* cartesian_targets, joint_targets: one session object at a time.                                 *)
Claimable_Always == TRUE
Claimable == session # NoObject => Done(session)

Claim ==
    /\ call.next = "none" /\ made < Cardinality(Objects) /\ Claimable
    /\ made' = made + 1 /\ session' = made + 1 /\ Goes("enable", made + 1, FALSE)
    /\ UNCHANGED <<token, ended, halted, stopped, states, seen, failed, misled, sessionBudget>>

Enable ==
    /\ call.next = "enable" /\ node.phase = "acquired" /\ node.holder = "me"
    /\ Shows([node EXCEPT !.phase = "active", !.of = call.of])
    /\ Goes("confirm", call.of, FALSE)
    /\ UNCHANGED <<token, session, made, ended, halted, stopped, seen, failed, misled, sessionBudget>>

\* A refusal, or no answer, whether the node has done it or not: _unclaim, and nothing streams.
EnableRaises ==
    /\ call.next = "enable" /\ Returns
    /\ session' = IF session = call.of THEN NoObject ELSE session
    /\ ended' = [ended EXCEPT ![call.of] = "never"]
    /\ \/ ~(node.phase = "acquired" /\ node.holder = "me") /\ UNCHANGED <<states, sessionBudget>>
       \/ /\ node.phase = "acquired" /\ node.holder = "me" /\ sessionBudget > 0 /\ sessionBudget' = sessionBudget - 1
          /\ Shows(node) \/ Shows([node EXCEPT !.phase = "active", !.of = call.of])
    /\ UNCHANGED <<token, made, halted, stopped, seen, failed, misled>>

\* _start's wait for an active state, be it one of the session before, which starts the streamer ...
Confirmed ==
    /\ call.next = "confirm" /\ Mine(lastState) /\ Returns
    /\ UNCHANGED <<token, session, made, ended, halted, stopped, states, seen, failed, misled, sessionBudget>>

\* ... or 3 s without one: a stop, answered or not, and the session object is none.
NotConfirmed ==
    /\ call.next = "confirm" /\ ~Mine(lastState) /\ Returns
    /\ \/ Shows(IF node.phase = "active" THEN Stopped ELSE node) /\ UNCHANGED sessionBudget
       \/ sessionBudget > 0 /\ sessionBudget' = sessionBudget - 1 /\ UNCHANGED states
    /\ session' = IF session = call.of THEN NoObject ELSE session
    /\ ended' = [ended EXCEPT ![call.of] = "never"]
    /\ UNCHANGED <<token, made, halted, stopped, seen, failed, misled>>

(* The streamer: an end by the node, or one of its own (a silent node, an exception).              *)
Streams(o) == o <= made /\ ~Done(o) /\ ~(call.of = o /\ call.next \in {"enable", "confirm"})

\* Taken for ended by the latest state, when one that shows the session has yet to come.
Judged(o) ==
    misled' = IF ~Mine(lastState) /\ \E k \in DOMAIN states : states[k].of = o THEN misled \cup {o} ELSE misled

Observe(o) ==
    /\ Streams(o) /\ ~Mine(lastState) /\ Judged(o)
    /\ ended' = [ended EXCEPT ![o] = "node"]
    /\ UNCHANGED <<token, session, made, halted, stopped, states, seen, call, failed, sessionBudget>>

LoseTheNode(o) ==
    /\ Streams(o) /\ sessionBudget > 0 /\ sessionBudget' = sessionBudget - 1
    /\ ended' = [ended EXCEPT ![o] = "lost"]
    /\ UNCHANGED <<token, session, made, halted, stopped, states, seen, call, failed, misled>>

(* stop of a session, by itself or first in the arm's exit.                                        *)
StopHalts(o, leaves) ==
    /\ call.next = "none" /\ o <= made /\ ended[o] # "never" /\ ~stopped[o]
    /\ halted' = [halted EXCEPT ![o] = TRUE] /\ Goes("judge", o, leaves)
    /\ UNCHANGED <<token, session, made, ended, stopped, states, seen, failed, misled, sessionBudget>>

StopCall == \E o \in Objects : StopHalts(o, FALSE)
AfterStop == IF call.leaves THEN "release" ELSE "none"

\* A session the node ended needs no stop; one that lost the node does.
Own_NotLost == ended[call.of] = "no" /\ session = call.of
Own_Anyones == ended[call.of] \in {"no", "lost"}
Own == ended[call.of] \in {"no", "lost"} /\ session = call.of

StopJudges ==
    /\ call.next = "judge" /\ Judged(call.of)
    /\ stopped' = [stopped EXCEPT ![call.of] = TRUE]
    /\ session' = IF session = call.of THEN NoObject ELSE session
    /\ Goes(IF Own /\ Mine(lastState) THEN "verb" ELSE AfterStop, call.of, call.leaves)
    /\ UNCHANGED <<token, made, ended, halted, states, seen, failed, sessionBudget>>

\* The stop verb: it stops whoever's session there is, and one that finds none is a success.
StopVerb ==
    /\ call.next = "verb"
    /\ Shows(IF node.phase = "active" THEN Stopped ELSE node)
    /\ Goes(AfterStop, call.of, call.leaves)
    /\ UNCHANGED <<token, session, made, ended, halted, stopped, seen, failed, misled, sessionBudget>>

AfterFailure_Raises == "none"
AfterFailure == AfterStop

\* Its answer does not come, though the node may have had it.
StopVerbRaises ==
    /\ call.next = "verb" /\ sessionBudget > 0 /\ sessionBudget' = sessionBudget - 1
    /\ failed' = failed \cup {call.of}
    /\ Shows(node) \/ (node.phase = "active" /\ Shows(Stopped))
    /\ Goes(AfterFailure, call.of, call.leaves)
    /\ UNCHANGED <<token, session, made, ended, halted, stopped, seen, misled>>

(* _exit: the session's stop, the release if held, the token: all three are tried.                 *)
Exit ==
    \/ session # NoObject /\ StopHalts(session, TRUE)
    \/ /\ call.next = "none" /\ session = NoObject /\ Goes("release", NoObject, TRUE)
       /\ UNCHANGED <<token, session, made, ended, halted, stopped, states, seen, failed, misled, sessionBudget>>

Released ==
    IF node.holder = "me" /\ node.phase # "active"
    THEN [node EXCEPT !.phase = IF @ = "faulted" THEN @ ELSE "idle", !.holder = "none"] ELSE node

\* Only with a token, and only if the latest state shows the lease here.
Release ==
    /\ call.next = "release" /\ Goes("undeclare", call.of, TRUE)
    /\ \/ token /\ lastState.holder = "me" /\ Shows(Released) /\ UNCHANGED sessionBudget
       \/ /\ token /\ lastState.holder = "me" /\ sessionBudget > 0 /\ sessionBudget' = sessionBudget - 1
          /\ UNCHANGED states
       \/ ~(token /\ lastState.holder = "me") /\ UNCHANGED <<states, sessionBudget>>
    /\ UNCHANGED <<token, session, made, ended, halted, stopped, seen, failed, misled>>

Undeclare ==
    /\ call.next = "undeclare" /\ token' = FALSE /\ Goes("left", NoObject, TRUE)
    /\ UNCHANGED <<session, made, ended, halted, stopped, states, seen, failed, misled, sessionBudget>>

\* Arm.stop: halts this client's session and stops anyone's.
ArmStop ==
    /\ call.next = "none"
    /\ halted' = IF session = NoObject THEN halted ELSE [halted EXCEPT ![session] = TRUE]
    /\ Shows(IF node.phase = "active" THEN Stopped ELSE node)
    /\ UNCHANGED <<token, session, made, ended, stopped, seen, call, failed, misled, sessionBudget>>

\* _abandon, at the interpreter's exit: the streamer halts, the token goes with Zenoh's session.
Abandon ==
    /\ call.next = "none" /\ token /\ token' = FALSE /\ Goes("left", NoObject, TRUE)
    /\ halted' = IF session = NoObject THEN halted ELSE [halted EXCEPT ![session] = TRUE]
    /\ UNCHANGED <<session, made, ended, stopped, states, seen, failed, misled, sessionBudget>>

UserNext ==
    \/ Acquire \/ Acquired \/ AcquireRaises \/ Claim \/ Enable \/ EnableRaises
    \/ Confirmed \/ NotConfirmed
    \/ \E o \in Objects : Observe(o) \/ LoseTheNode(o)
    \/ StopCall \/ StopJudges \/ StopVerb \/ StopVerbRaises
    \/ Exit \/ Release \/ Undeclare \/ ArmStop \/ Abandon

-----------------------------------------------------------------------------
(* External. *)

\* The next state comes, or one after it when those between were dropped; none twice or out of order.
SessionStateArrives ==
    /\ \E n \in 2..Len(states) : states' = SubSeq(states, n, Len(states))
    /\ UNCHANGED <<token, session, made, ended, halted, stopped, seen, call, failed, misled, sessionBudget>>

TokenSeen ==
    /\ token # seen /\ seen' = token
    /\ Shows(IF token \/ node.holder # "me" THEN node
             ELSE [phase |-> IF node.phase = "faulted" THEN "faulted" ELSE "idle",
                   holder |-> "none", of |-> NoObject])
    /\ UNCHANGED <<token, session, made, ended, halted, stopped, call, failed, misled, sessionBudget>>

\* The watchdog or anyone's stop ends the session; a loop that fails; another client comes, goes.
NodeActs ==
    /\ sessionBudget > 0 /\ sessionBudget' = sessionBudget - 1
    /\ \/ node.phase = "active" /\ Shows(Stopped)
       \/ node.phase = "active" /\ Shows([node EXCEPT !.phase = "faulted", !.of = NoObject])
       \/ node.phase = "faulted" /\ Shows([node EXCEPT !.phase = "idle"])
       \/ node.holder = "none" /\ node.phase = "idle"
            /\ Shows([node EXCEPT !.phase = "active", !.holder = "other"])
       \/ node.holder = "other" /\ Shows(Idle)
    /\ UNCHANGED <<token, session, made, ended, halted, stopped, seen, call, failed, misled>>

SessionNext == UserNext \/ SessionStateArrives \/ TokenSeen \/ NodeActs

\* The calls' own steps, and Zenoh's.
SessionFairness ==
    /\ WF_sessionVars(StopJudges) /\ WF_sessionVars(StopVerb) /\ WF_sessionVars(Release)
    /\ WF_sessionVars(Undeclare) /\ WF_sessionVars(TokenSeen)

SessionSpec == SessionInit /\ [][SessionNext]_sessionVars /\ SessionFairness

-----------------------------------------------------------------------------
(* stop ends its own session if it is the client's newest, whatever the    *)
(* streamer lost or a call did in between: once it has returned and its    *)
(* verb was answered, the node does not run that session                   *)
(* (_Targets.stop).  But for one that a late state of before its enable    *)
(* told to be over: _start takes a state of the session before for its     *)
(* own, the next one ends it here, and its stop sends no verb.             *)
StopEndsTheNewest ==
    made > 0 /\ stopped[made] /\ call.of # made /\ made \notin failed \cup misled => node.of # made

(* What the doc of stop says: it stops the session if it is still this     *)
(* object's, "not ended by the node, not replaced by a newer session of    *)
(* this client".  A newer one that was refused is not one.                 *)
StopEndsOwn ==
    \A o \in Objects :
      stopped[o] /\ call.of # o /\ o \notin failed /\ (\A p \in Objects : p > o => ended[p] = "never" \/ p > made)
        => node.of # o

(* An old session object that is stopped late does not stop the client's   *)
(* next session (`arm._session is self`).                                  *)
StopSparesTheNext ==
    [][StopVerb => node.of \in {call.of, NoObject}]_sessionVars

(* Two streamers never drive one arm: a session is claimed only when the   *)
(* one before is done (_claim).                                            *)
OneStreamer == Cardinality({o \in Objects : Streams(o)}) <= 1

(* Leaving gives the arm back whatever fails on the way: an exit whose     *)
(* stop had no answer still drops the token, and the node ends the session *)
(* with it (_exit, _abandon).                                              *)
LeavingGivesBack == call.leaves ~> node.holder # "me"
=============================================================================
