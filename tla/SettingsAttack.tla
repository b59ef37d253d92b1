----------------------------- MODULE SettingsAttack -----------------------------
(***************************************************************************)
(* Executions of the attacks of Settings on one resource.  Prepare reads   *)
(* the settings into the action state, Start overwrites them, Stop writes  *)
(* back what Prepare has read; each request makes one call to AWS that     *)
(* matters, so a request is one action, and a crash of the extension is a  *)
(* request that fails before or after its call took effect.                *)
(*                                                                         *)
(* Between the requests other executions attack the same resource, and its *)
(* owner goes on changing it.                                              *)
(***************************************************************************)
EXTENDS Settings

CONSTANTS
    Executions,
    Owner,          \* the owner of the resource
    Numbers,        \* the numbers an owner chooses from
    Attacked,       \* the numbers an attack chooses from
    MaxFaults,      \* bound: failing calls and lost replies
    MaxChanges,     \* bound: changes by the owner
    MaxStops        \* bound: Stop requests per execution

ASSUME SettingsAssumption ==
    /\ Owner \notin Executions
    /\ Numbers \subseteq Nat \ {0} /\ Attacked \subseteq Nat
    /\ MaxFaults \in Nat /\ MaxChanges \in Nat /\ MaxStops \in Nat

VARIABLES
    kind,       \* the kind of the resource
    clears,     \* AWS: a field that is left out clears the setting of an HTTP stage
    current,    \* AWS: its settings
    seen,       \* the settings as the discovery saw them last
    owned,      \* history: the settings as the owner chose them last
    last,       \* history: who has written a setting last, by which call
    phase,      \* platform: how far an execution is
    read,       \* state: what Prepare has read
    taken,      \* history: what the settings were when it did
    target,     \* state: the value Start writes
    requested,  \* state: the processes selected
    faults, changes, stops

nature == <<kind, clears>>
resource == <<current, last>>
snapshot == <<read, taken, target, requested>>
vars == <<nature, resource, seen, owned, phase, snapshot, faults, changes, stops>>

Fault == faults < MaxFaults /\ faults' = faults + 1

-----------------------------------------------------------------------------
\* What an attack sets; a table needs some capacity.
Targets(k) == IF k = "table" THEN Attacked \ {0} ELSE Attacked

\* The values an owner chooses.  A limit of 0 is left out: it "locks the stage to
\* no traffic" and the code takes it for a limit that is not set.
Choices(k, s) ==
    CASE k = "group" \/ s = "methodSetting" -> {0, 1}
      [] k = "rule" -> {0, 1, 2}    \* disabled, enabled, enabled with management events
      [] k = "table" -> Numbers \cup Targets(k) \cup {t \in {Missing} : s # "table"}
      [] k = "service" -> Numbers \cup {0, Missing}
      [] OTHER -> Numbers \cup {Missing}

Init ==
    /\ kind \in Kinds /\ clears \in BOOLEAN /\ (clears => kind = "httpStage")
    /\ current \in {u \in [SettingsOf(kind) -> Numbers \cup Attacked \cup {Missing, 0, 1, 2}] :
                      Coherent(kind, u) /\ \A s \in SettingsOf(kind) : u[s] \in Choices(kind, s)}
    /\ seen = current /\ owned = current
    /\ last = [s \in SettingsOf(kind) |-> [by |-> Owner, call |-> "choose"]]
    /\ phase = [e \in Executions |-> "new"]
    /\ read = [e \in Executions |-> current] /\ taken = read
    /\ target = [e \in Executions |-> 0]
    /\ requested = [e \in Executions |-> {}]
    /\ faults = 0 /\ changes = 0 /\ stops = [e \in Executions |-> 0]

\* Prepare of a group uses what the discovery has seen, the others what AWS
\* answers.  Other reasons to refuse a target keep no state: a managed or a
\* WebSocket stage, a table without provisioned capacity, a negative value, a
\* call that fails.
Prepare(e) ==
    LET u == IF kind = "group" THEN seen ELSE current IN
    /\ phase[e] = "new"
    /\ \/ \E r \in Reported(kind, u), n \in Targets(kind), P \in SUBSET Processes :
            /\ kind = "service" => ~ServiceRefused(r)
            /\ kind = "table" => ~TableRefused(r, n)
            /\ (kind = "group") = (P # {})
            /\ phase' = [phase EXCEPT ![e] = "prepared"]
            /\ read' = [read EXCEPT ![e] = r]
            /\ taken' = [taken EXCEPT ![e] = u]
            /\ target' = [target EXCEPT ![e] = n]
            /\ requested' = [requested EXCEPT ![e] = P]
       \/ phase' = [phase EXCEPT ![e] = "refused"] /\ UNCHANGED snapshot
    /\ UNCHANGED <<nature, resource, seen, owned, faults, changes, stops>>

\* What the call of Start writes, and that of Stop.
StartCall(e) == Effect(kind, clears, StartWrites(kind, read[e], target[e], requested[e]))
StopCall(e) == Effect(kind, clears, StopWrites(kind, read[e], requested[e]))

\* A call of e that writes w takes effect.
Overwrite(e, call, w) ==
    /\ current' = Written(current, w)
    /\ last' = [s \in DOMAIN last |->
                   IF s \in DOMAIN w THEN [by |-> e, call |-> call] ELSE last[s]]

\* AWS refuses to update what is not there and a table that would not change; it
\* may refuse to remove a method setting that does not exist.
Rejected(w) ==
    \/ kind \in {"service", "table"} /\ \E s \in DOMAIN w : current[s] = Missing
    \/ kind = "table" /\ \A s \in DOMAIN w : current[s] = w[s]
MayReject(w) == kind = "restStage" /\ w["methodSetting"] = 0 /\ current["methodSetting"] = 0

\* Start; PutParameter does not overwrite a parameter.
Start(e) ==
    LET w == StartCall(e)
        rejected == Rejected(w) \/ (kind = "function" /\ current["parameter"] # Missing)
    IN
    /\ phase[e] = "prepared"
    /\ \/ /\ ~rejected /\ Overwrite(e, "start", w)
          /\ \/ phase' = [phase EXCEPT ![e] = "active"] /\ UNCHANGED faults
             \/ phase' = [phase EXCEPT ![e] = "startFailed"] /\ Fault
       \/ /\ UNCHANGED resource /\ phase' = [phase EXCEPT ![e] = "startFailed"]
          /\ \/ rejected /\ UNCHANGED faults
             \/ Fault
    /\ UNCHANGED <<nature, seen, owned, snapshot, changes, stops>>

\* The platform may stop what it prepared, and may stop again.
MayStop == {"prepared", "active", "startFailed", "stopFailed", "stopped"}

\* Stop; that there is no parameter to delete is no error.
Stop(e) ==
    LET w == StopCall(e) IN
    /\ phase[e] \in MayStop /\ stops[e] < MaxStops
    /\ stops' = [stops EXCEPT ![e] = @ + 1]
    /\ \/ /\ ~Rejected(w) /\ Overwrite(e, "stop", w)
          /\ \/ phase' = [phase EXCEPT ![e] = "stopped"] /\ UNCHANGED faults
             \/ phase' = [phase EXCEPT ![e] = "stopFailed"] /\ Fault
       \/ /\ UNCHANGED resource /\ phase' = [phase EXCEPT ![e] = "stopFailed"]
          /\ \/ (Rejected(w) \/ MayReject(w)) /\ UNCHANGED faults
             \/ Fault
    /\ UNCHANGED <<nature, seen, owned, snapshot, changes>>

\* The discovery looks again.
Discover ==
    /\ kind = "group" /\ seen' = current
    /\ UNCHANGED <<nature, resource, owned, phase, snapshot, faults, changes, stops>>

\* The owner changes a setting; the method setting of a REST stage stays.
OwnerChanges(s) ==
    /\ changes < MaxChanges /\ changes' = changes + 1
    /\ s # "methodSetting" /\ (kind = "restStage" => owned["methodSetting"] = 1)
    /\ \E x \in Choices(kind, s) \ {current[s]} :
         /\ current' = [current EXCEPT ![s] = x]
         /\ owned' = [owned EXCEPT ![s] = x]
    /\ last' = [last EXCEPT ![s] = [by |-> Owner, call |-> "choose"]]
    /\ UNCHANGED <<nature, seen, phase, snapshot, faults, stops>>

Next ==
    \/ \E e \in Executions : Prepare(e) \/ Start(e) \/ Stop(e)
    \/ \E s \in SettingsOf(kind) : OwnerChanges(s)
    \/ Discover

Spec == Init /\ [][Next]_vars

\* The platform stops what it has started, and stops again what has failed.
Fairness == \A e \in Executions :
    WF_vars(phase[e] \in {"active", "startFailed", "stopFailed"} /\ Stop(e))

FairSpec == Spec /\ Fairness

-----------------------------------------------------------------------------
(* Properties                                                              *)

Phases == {"new", "refused"} \cup MayStop

\* Every variable has its type: the resource, the histories, the action states.
TypeOK ==
    /\ kind \in Kinds /\ clears \in BOOLEAN
    /\ current \in Resources(kind) /\ seen \in Resources(kind) /\ owned \in Resources(kind)
    /\ last \in [SettingsOf(kind) ->
                   [by : Executions \cup {Owner}, call : {"choose", "start", "stop"}]]
    /\ phase \in [Executions -> Phases]
    /\ read \in [Executions -> Resources(kind)] /\ taken \in [Executions -> Resources(kind)]
    /\ target \in [Executions -> Nat]
    /\ requested \in [Executions -> SUBSET Processes]
    /\ faults \in Nat /\ changes \in Nat /\ stops \in [Executions -> Nat]

Settled == \A e \in Executions : phase[e] \in {"new", "refused", "prepared", "stopped"}

\* A stage with only one of its two limits set.
Partial(u) == \E s, t \in Limits : u[s] = Missing /\ u[t] # Missing
LimitsWhole == kind \in {"restStage", "httpStage"} =>
    \A e \in Executions : phase[e] \notin {"new", "refused"} => ~Partial(taken[e])

\* The attacks on rules and functions read nothing: they bring back a rule that
\* was enabled and a function without the parameter.
KeepsSnapshot == kind \notin {"rule", "function"}
Promised ==
    /\ kind = "rule" => owned["state"] = 1
    /\ kind = "function" => owned["parameter"] = Missing

\* The settings that e has read are those of somebody else's attack, or the
\* owner has changed them since.
Dirty(e, s) == KeepsSnapshot /\ ~Alike(kind, s, taken[e][s], owned[s])

\* When every execution that started has been stopped, whatever overlapped,
\* failed, got lost or was repeated, a setting is as its owner chose it last,
\* unless the last to write it was the Stop of an execution that had prepared
\* itself under another attack or before the owner's change.
UnwoundIsRestored ==
    Settled /\ LimitsWhole /\ Promised =>
        \A s \in SettingsOf(kind) :
            \/ Alike(kind, s, current[s], owned[s])
            \/ last[s].call = "stop" /\ Dirty(last[s].by, s)

Undisturbed(e) ==
    /\ changes = 0
    /\ \A f \in Executions \ {e} : phase[f] \in {"new", "refused"}

\* "Original limits are restored on stop": after a Stop without an error, when
\* nobody else has touched the stage, its limits are those from before.
LimitsRestored ==
    \A e \in Executions :
        kind \in {"restStage", "httpStage"} /\ phase[e] = "stopped" /\ Undisturbed(e) =>
            \A s \in Limits : Alike(kind, s, current[s], owned[s])

\* "restore non-throttle fields verbatim": an attack on an HTTP stage changes
\* its other settings only when the owner has changed them since some Prepare.
OtherSettingsKept ==
    [][kind = "httpStage" /\ changes' = changes /\ current'["logging"] # current["logging"] =>
          \E e \in Executions : taken[e]["logging"] # owned["logging"]]_vars

\* The settings of a resource that is attacked by one execution at a time and
\* left alone by its owner are as before in the end, though calls fail and
\* replies get lost; a Stop may go on failing because there is nothing to undo.
EventuallyRestored ==
    \A e \in Executions :
        <>[](\/ phase[e] \in {"new", "refused", "prepared"} \/ ~Undisturbed(e)
             \/ ~LimitsWhole \/ ~Promised
             \/ \A s \in SettingsOf(kind) : Alike(kind, s, current[s], owned[s]))
=============================================================================
