-------------------------- MODULE SettingsAttackProofs --------------------------
(***************************************************************************)
(* For any number of executions, indexes, processes and values, and        *)
(* without any bound: the types, that unwinding every execution restores   *)
(* the resource, and that an HTTP stage keeps its other settings.          *)
(***************************************************************************)
EXTENDS SettingsAttack, TLAPS

Values == Nat \cup {Missing}

\* A stage of which only one limit was set when the attack read it.
Lame(k, u) == k \in {"restStage", "httpStage"} /\ Partial(u)

-----------------------------------------------------------------------------
(* What the calls write                                                    *)

\* They are hidden behind StartWrites and StopWrites, which the proofs expand
\* where they need them.
USE DEF SetVisibilityTimeout, UpdateService, TableTarget, OriginalCapacity, SuspendProcesses,
        ResumeProcesses, DisableRule, EnableRule, PutParameter, DeleteParameter,
        StartRest, StopRest, StartHttp, StopHttp

LEMMA SettingsByKind ==
    /\ SettingsOf("queue") = {"visibilityTimeout"}
    /\ SettingsOf("service") = {"desiredCount"}
    /\ SettingsOf("table") = {"table"} \cup Indexes
    /\ SettingsOf("restStage") = {"methodSetting", "rateLimit", "burstLimit"}
    /\ SettingsOf("httpStage") = {"rateLimit", "burstLimit", "logging"}
    /\ SettingsOf("group") = Processes
    /\ SettingsOf("rule") = {"state"}
    /\ SettingsOf("function") = {"parameter"}
BY DEF SettingsOf

\* What a REST stage reports: nothing but limits that are not set are changed.
LEMMA ReportedRest ==
    ASSUME NEW u \in Resources("restStage"), NEW r \in Reported("restStage", u)
    PROVE  /\ r["methodSetting"] = u["methodSetting"]
           /\ \A s \in Limits : u[s] = Missing => r[s] \in {0, Missing}
           /\ \A s \in Limits : u[s] # Missing => r[s] = u[s] /\ u[s] \in Nat
<1>1. PICK unset \in [Limits -> {0, Missing}] :
         r = [s \in SettingsOf("restStage") |->
                 IF s \in Limits /\ u[s] = Missing THEN unset[s] ELSE u[s]]
    BY DEF Reported
<1>2. \A s \in Limits : u[s] \in Nat \cup {Missing}
    BY SettingsByKind DEF Resources, Limits
<1> QED BY <1>1, <1>2, SettingsByKind DEF Limits

LEMMA ReportedTyped ==
    ASSUME NEW k \in Kinds, NEW u \in Resources(k), NEW r \in Reported(k, u)
    PROVE  r \in Resources(k)
<1>1. CASE k = "restStage"
    <2>1. PICK unset \in [Limits -> {0, Missing}] :
             r = [s \in SettingsOf(k) |->
                     IF s \in Limits /\ u[s] = Missing THEN unset[s] ELSE u[s]]
        BY <1>1 DEF Reported
    <2> QED BY <2>1 DEF Resources
<1>2. CASE k # "restStage"
    BY <1>2 DEF Reported
<1> QED BY <1>1, <1>2

\* A call writes values, and only settings that the resource has.
LEMMA StartTyped ==
    ASSUME NEW k \in Kinds, NEW c \in BOOLEAN, NEW r \in Resources(k), NEW n \in Nat,
           NEW P \in SUBSET Processes
    PROVE  LET w == Effect(k, c, StartWrites(k, r, n, P)) IN
           DOMAIN w \subseteq SettingsOf(k) /\ \A s \in DOMAIN w : w[s] \in Values
<1> USE SettingsByKind DEF Values, Resources, Missing
<1>1. CASE k \in {"queue", "service", "function", "rule"}
    BY <1>1 DEF Effect, StartWrites
<1>2. CASE k = "table"
    BY <1>2 DEF Effect, StartWrites, Provisioned
<1>3. CASE k = "restStage"
    BY <1>3 DEF Effect, StartWrites
<1>4. CASE k = "httpStage"
    BY <1>4 DEF Effect, StartWrites, HttpThrottled, Limits
<1>5. CASE k = "group"
    BY <1>5 DEF Effect, StartWrites, ToSuspend
<1> QED BY <1>1, <1>2, <1>3, <1>4, <1>5 DEF Kinds

LEMMA StopTyped ==
    ASSUME NEW k \in Kinds, NEW c \in BOOLEAN, NEW r \in Resources(k), NEW P \in SUBSET Processes
    PROVE  LET w == Effect(k, c, StopWrites(k, r, P)) IN
           DOMAIN w \subseteq SettingsOf(k) /\ \A s \in DOMAIN w : w[s] \in Values
<1> USE SettingsByKind DEF Values, Resources, Missing
<1>1. CASE k \in {"queue", "service", "function", "rule"}
    BY <1>1 DEF Effect, StopWrites, OrDefault, Default
<1>2. CASE k = "table"
    BY <1>2 DEF Effect, StopWrites, Provisioned
<1>3. CASE k = "restStage"
    BY <1>3 DEF Effect, StopWrites
<1>4. CASE k = "httpStage"
    BY <1>4 DEF Effect, StopWrites, HttpRestored, OrDefault, Default
<1>5. CASE k = "group"
    BY <1>5 DEF Effect, StopWrites, ToSuspend
<1> QED BY <1>1, <1>2, <1>3, <1>4, <1>5 DEF Kinds

\* Stop writes every setting that Start writes, unless one limit was missing.
LEMMA StopCoversStart ==
    ASSUME NEW k \in Kinds, NEW c \in BOOLEAN, NEW u \in Resources(k), NEW r \in Reported(k, u),
           NEW n \in Nat, NEW P \in SUBSET Processes, ~Lame(k, u)
    PROVE  DOMAIN Effect(k, c, StartWrites(k, r, n, P)) \subseteq
           DOMAIN Effect(k, c, StopWrites(k, r, P))
<1> USE SettingsByKind
<1>1. CASE k \in {"queue", "service", "function", "rule"}
    BY <1>1 DEF Effect, StartWrites, StopWrites
<1>2. CASE k = "table"
    BY <1>2 DEF Effect, StartWrites, StopWrites
<1>3. CASE k = "restStage"
    BY <1>3 DEF Effect, StartWrites, StopWrites
<1>4. CASE k = "httpStage"
    <2>1. r = u
        BY <1>4 DEF Reported
    <2>2. HttpThrottled(r) \subseteq HttpRestored(r)
        BY <1>4, <2>1 DEF HttpThrottled, HttpRestored, Lame, Partial, HadHttpLimits, Limits
    <2>3. /\ DOMAIN StartWrites(k, r, n, P) = HttpThrottled(r)
          /\ DOMAIN StopWrites(k, r, P) = HttpRestored(r)
        BY <1>4 DEF StartWrites, StopWrites
    <2> QED BY <1>4, <2>2, <2>3 DEF Effect
<1>5. CASE k = "group"
    BY <1>5 DEF Effect, StartWrites, StopWrites
<1> QED BY <1>1, <1>2, <1>3, <1>4, <1>5 DEF Kinds

\* What Stop writes makes no difference to what Prepare has found, unless one
\* limit was missing or a limit of 0 was taken for one that is not set.
LEMMA StopBringsBack ==
    ASSUME NEW k \in Kinds \ {"rule", "function"}, NEW c \in BOOLEAN, NEW u \in Resources(k),
           NEW r \in Reported(k, u), NEW P \in SUBSET Processes, ~Lame(k, u), Coherent(k, u),
           NEW s \in DOMAIN Effect(k, c, StopWrites(k, r, P))
    PROVE  \/ Alike(k, s, Effect(k, c, StopWrites(k, r, P))[s], u[s])
           \/ k = "restStage" /\ s \in Limits /\ u[s] = 0
<1> USE SettingsByKind DEF Alike, OrDefault, Default, Missing
<1>0. k # "restStage" => r = u
    BY DEF Reported
<1>1. CASE k \in {"queue", "service"}
    BY <1>0, <1>1 DEF Effect, StopWrites
<1>2. CASE k = "table"
    BY <1>0, <1>2 DEF Effect, StopWrites, Provisioned
<1>3. CASE k = "restStage"
    <2>1. s \in {"methodSetting", "rateLimit", "burstLimit"}
        BY <1>3 DEF Effect, StopWrites
    <2>2. Effect(k, c, StopWrites(k, r, P))[s] =
             IF HadRestLimits(r) THEN IF s \in Limits THEN r[s] ELSE 1
             ELSE IF s \in Limits THEN Missing ELSE r[s]
        BY <1>3, <2>1 DEF Effect, StopWrites
    <2>3. /\ r["methodSetting"] = u["methodSetting"]
          /\ \A t \in Limits : u[t] = Missing => r[t] \in {0, Missing}
          /\ \A t \in Limits : u[t] # Missing => r[t] = u[t] /\ u[t] \in Nat
        <3>1. u \in Resources("restStage") /\ r \in Reported("restStage", u)
            BY <1>3
        <3> QED BY <3>1, ReportedRest
    <2>4. HadRestLimits(r) <=> \E t \in Limits : u[t] # Missing /\ u[t] > 0
        BY <1>3, <2>3 DEF HadRestLimits
    <2>5. CASE s \in Limits
        <3>1. \A t \in Limits : u[t] = Missing <=> u[s] = Missing
            <4>1. ~Partial(u)
                BY <1>3 DEF Lame
            <4> QED BY <2>5, <4>1 DEF Partial
        <3>2. CASE HadRestLimits(r)
            <4>1. u[s] # Missing
                BY <2>4, <3>1, <3>2
            <4> QED BY <2>2, <2>3, <2>5, <3>2, <4>1
        <3>3. CASE ~HadRestLimits(r)
            <4>1. u[s] \in {0, Missing}
                BY <2>3, <2>4, <2>5, <3>3
            <4> QED BY <1>3, <2>2, <2>5, <3>3, <4>1
        <3> QED BY <3>2, <3>3
    <2>6. CASE s = "methodSetting"
        <3>1. HadRestLimits(r) => u[s] = 1
            BY <1>3, <2>4, <2>6 DEF Coherent
        <3> QED BY <1>3, <2>2, <2>3, <2>6, <3>1 DEF Limits
    <2> QED BY <2>1, <2>5, <2>6 DEF Limits
<1>4. CASE k = "httpStage"
    BY <1>0, <1>4 DEF Effect, StopWrites, HttpRestored
<1>5. CASE k = "group"
    BY <1>0, <1>5 DEF Effect, StopWrites, ToSuspend
<1> QED BY <1>1, <1>2, <1>3, <1>4, <1>5 DEF Kinds

-----------------------------------------------------------------------------
(* Types                                                                   *)

LEMMA ChoicesTyped ==
    ASSUME NEW k \in Kinds, NEW s, NEW x \in Choices(k, s)
    PROVE  x \in Values
BY SettingsAssumption DEF Choices, Targets, Values

\* What a call of e writes has its type.
LEMMA CallsTyped ==
    ASSUME TypeOK, NEW e \in Executions
    PROVE  /\ DOMAIN StartCall(e) \subseteq SettingsOf(kind)
           /\ \A s \in DOMAIN StartCall(e) : StartCall(e)[s] \in Values
           /\ DOMAIN StopCall(e) \subseteq SettingsOf(kind)
           /\ \A s \in DOMAIN StopCall(e) : StopCall(e)[s] \in Values
<1>1. /\ kind \in Kinds /\ clears \in BOOLEAN /\ read[e] \in Resources(kind)
      /\ target[e] \in Nat /\ requested[e] \in SUBSET Processes
    BY DEF TypeOK
<1> QED BY <1>1, StartTyped, StopTyped DEF StartCall, StopCall

\* A call that takes effect changes the settings that it sends and no others.
LEMMA OverwriteWrites ==
    ASSUME TypeOK, NEW e \in Executions, NEW call \in {"start", "stop"}, NEW w,
           DOMAIN w \subseteq SettingsOf(kind), \A s \in DOMAIN w : w[s] \in Values,
           Overwrite(e, call, w)
    PROVE  /\ current' \in Resources(kind)
           /\ last' \in [SettingsOf(kind) ->
                           [by : Executions \cup {Owner}, call : {"choose", "start", "stop"}]]
           /\ \A s \in SettingsOf(kind) :
                /\ s \in DOMAIN w =>
                      current'[s] = w[s] /\ last'[s] = [by |-> e, call |-> call]
                /\ s \notin DOMAIN w => current'[s] = current[s] /\ last'[s] = last[s]
<1>1. /\ DOMAIN current = SettingsOf(kind) /\ DOMAIN last = SettingsOf(kind)
      /\ \A s \in SettingsOf(kind) : current[s] \in Values
      /\ \A s \in SettingsOf(kind) :
            last[s] \in [by : Executions \cup {Owner}, call : {"choose", "start", "stop"}]
    BY DEF TypeOK, Resources, Values
<1>2. /\ current' = [s \in SettingsOf(kind) |-> IF s \in DOMAIN w THEN w[s] ELSE current[s]]
      /\ last' = [s \in SettingsOf(kind) |->
                     IF s \in DOMAIN w THEN [by |-> e, call |-> call] ELSE last[s]]
    BY <1>1 DEF Overwrite, Written
<1> QED BY <1>1, <1>2 DEF Resources, Values

LEMMA InitTyped == Init => TypeOK
<1> SUFFICES ASSUME Init PROVE TypeOK
    OBVIOUS
<1>1. current \in Resources(kind)
    <2>1. \A s \in SettingsOf(kind) : current[s] \in Values
        BY ChoicesTyped DEF Init
    <2> QED BY <2>1 DEF Init, Resources, Values
<1>2. last \in [SettingsOf(kind) ->
                  [by : Executions \cup {Owner}, call : {"choose", "start", "stop"}]]
    BY DEF Init
<1> QED BY <1>1, <1>2, SettingsAssumption DEF Init, TypeOK, Phases

LEMMA StepTyped == TypeOK /\ [Next]_vars => TypeOK'
<1> SUFFICES ASSUME TypeOK, [Next]_vars PROVE TypeOK'
    OBVIOUS
<1> USE DEF nature, resource, snapshot
<1>1. ASSUME NEW e \in Executions, Prepare(e) PROVE TypeOK'
    <2>1. CASE UNCHANGED snapshot /\ phase' = [phase EXCEPT ![e] = "refused"]
        BY <1>1, <2>1 DEF Prepare, TypeOK, Phases
    <2>2. CASE phase' = [phase EXCEPT ![e] = "prepared"]
        <3> DEFINE u == IF kind = "group" THEN seen ELSE current
        <3>0. u \in Resources(kind) /\ kind \in Kinds
            BY DEF TypeOK
        <3>1. PICK r \in Reported(kind, u), n \in Targets(kind), P \in SUBSET Processes :
                /\ read' = [read EXCEPT ![e] = r]
                /\ taken' = [taken EXCEPT ![e] = u]
                /\ target' = [target EXCEPT ![e] = n]
                /\ requested' = [requested EXCEPT ![e] = P]
            BY <1>1, <2>2 DEF Prepare, TypeOK
        <3>2. r \in Resources(kind) /\ n \in Nat
            BY <3>0, ReportedTyped, SettingsAssumption DEF Targets
        <3> QED BY <1>1, <2>2, <3>0, <3>1, <3>2 DEF Prepare, TypeOK, Phases, MayStop
    <2> QED BY <1>1, <2>1, <2>2 DEF Prepare
<1>2. ASSUME NEW e \in Executions, Start(e) PROVE TypeOK'
    <2>1. /\ current' \in Resources(kind)
          /\ last' \in [SettingsOf(kind) ->
                          [by : Executions \cup {Owner}, call : {"choose", "start", "stop"}]]
        <3>1. CASE Overwrite(e, "start", StartCall(e))
            BY <3>1, CallsTyped, OverwriteWrites
        <3>2. CASE UNCHANGED resource
            BY <3>2 DEF TypeOK
        <3> QED BY <1>2, <3>1, <3>2 DEF Start
    <2> QED BY <1>2, <2>1 DEF Start, TypeOK, Phases, MayStop, Fault
<1>3. ASSUME NEW e \in Executions, Stop(e) PROVE TypeOK'
    <2>1. /\ current' \in Resources(kind)
          /\ last' \in [SettingsOf(kind) ->
                          [by : Executions \cup {Owner}, call : {"choose", "start", "stop"}]]
        <3>1. CASE Overwrite(e, "stop", StopCall(e))
            BY <3>1, CallsTyped, OverwriteWrites
        <3>2. CASE UNCHANGED resource
            BY <3>2 DEF TypeOK
        <3> QED BY <1>3, <3>1, <3>2 DEF Stop
    <2> QED BY <1>3, <2>1 DEF Stop, TypeOK, Phases, MayStop, Fault
<1>4. CASE Discover
    BY <1>4 DEF Discover, TypeOK
<1>5. ASSUME NEW s \in SettingsOf(kind), OwnerChanges(s) PROVE TypeOK'
    <2>1. PICK x \in Choices(kind, s) : /\ current' = [current EXCEPT ![s] = x]
                                        /\ owned' = [owned EXCEPT ![s] = x]
        BY <1>5 DEF OwnerChanges
    <2>2. x \in Nat \cup {Missing}
        BY ChoicesTyped DEF TypeOK, Values
    <2>3. current' \in Resources(kind) /\ owned' \in Resources(kind)
        BY <2>1, <2>2 DEF TypeOK, Resources
    <2> QED BY <1>5, <2>3 DEF OwnerChanges, TypeOK
<1>6. CASE UNCHANGED vars
    BY <1>6 DEF vars, TypeOK
<1> QED BY <1>1, <1>2, <1>3, <1>4, <1>5, <1>6 DEF Next

\* The types of the resource and the action states.
THEOREM TypeCorrect == Spec => []TypeOK
BY InitTyped, StepTyped, PTL DEF Spec

-----------------------------------------------------------------------------
(* The invariant.  A setting is what its owner has chosen, or what a Stop   *)
(* has written, or an execution that has started still has to be stopped.  *)

Snapshots == \A e \in Executions :
    phase[e] \notin {"new", "refused"} => read[e] \in Reported(kind, taken[e])

\* The state of a REST stage of which the owner has chosen the settings.
RestStage ==
    kind = "restStage" =>
        /\ Coherent(kind, current) /\ \A e \in Executions : Coherent(kind, taken[e])
        /\ \A s \in Limits : owned[s] # 0
        /\ owned["methodSetting"] = 1 =>
              /\ current["methodSetting"] = 1
              /\ \A e \in Executions : taken[e]["methodSetting"] = 1

ByStart(e, s) ==
    /\ e \in Executions /\ s \in DOMAIN StartCall(e)
    /\ phase[e] \in {"active", "startFailed", "stopFailed", "stopped"}
    /\ phase[e] = "stopped" => Lame(kind, taken[e])
ByStop(e, s) ==
    /\ e \in Executions /\ s \in DOMAIN StopCall(e) /\ current[s] = StopCall(e)[s]
    /\ phase[e] \in {"stopFailed", "stopped"}
Origin == \A s \in SettingsOf(kind) :
    /\ last[s].call = "choose" => current[s] = owned[s]
    /\ last[s].call = "start" => ByStart(last[s].by, s)
    /\ last[s].call = "stop" => ByStop(last[s].by, s)

HttpStage ==
    kind = "httpStage" =>
        \/ current["logging"] = owned["logging"]
        \/ \E e \in Executions : taken[e]["logging"] # owned["logging"]

Invariant == TypeOK /\ Snapshots /\ RestStage /\ Origin /\ HttpStage

LEMMA InitHolds == Init => Invariant
<1> SUFFICES ASSUME Init PROVE Invariant
    OBVIOUS
<1>1. Snapshots /\ HttpStage
    BY DEF Init, Snapshots, HttpStage
<1>2. RestStage
    <2>1. ASSUME kind = "restStage", NEW s \in Limits PROVE owned[s] # 0
        BY <2>1, SettingsAssumption, SettingsByKind DEF Init, Choices, Limits, Missing
    <2> QED BY <2>1 DEF Init, RestStage
<1>3. Origin
    BY DEF Init, Origin
<1> QED BY <1>1, <1>2, <1>3, InitTyped DEF Invariant

\* What the calls write to a stage.
LEMMA StageCalls ==
    ASSUME Invariant, NEW e \in Executions, phase[e] \notin {"new", "refused"},
           NEW w \in {StartCall(e), StopCall(e)}
    PROVE  /\ kind = "restStage" =>
                /\ DOMAIN w = {"methodSetting", "rateLimit", "burstLimit"}
                /\ Coherent(kind, w)
                /\ taken[e]["methodSetting"] = 1 => w["methodSetting"] = 1
           /\ kind = "httpStage" /\ "logging" \in DOMAIN w => w["logging"] = taken[e]["logging"]
<1> USE SettingsByKind
<1>1. taken[e] \in Resources(kind) /\ read[e] \in Reported(kind, taken[e])
    BY DEF Invariant, TypeOK, Snapshots
<1>2. ASSUME kind = "restStage"
      PROVE  /\ DOMAIN w = {"methodSetting", "rateLimit", "burstLimit"}
             /\ Coherent(kind, w)
             /\ taken[e]["methodSetting"] = 1 => w["methodSetting"] = 1
    <2>1. read[e]["methodSetting"] = taken[e]["methodSetting"]
        BY <1>1, <1>2, ReportedRest
    <2>2. CASE w = StartCall(e)
        BY <1>2, <2>2 DEF StartCall, StartWrites, Effect, Coherent, Limits
    <2>3. CASE w = StopCall(e)
        BY <1>2, <2>1, <2>3 DEF StopCall, StopWrites, Effect, Coherent, Limits
    <2> QED BY <2>2, <2>3
<1>3. ASSUME kind = "httpStage", "logging" \in DOMAIN w PROVE w["logging"] = taken[e]["logging"]
    <2>1. read[e] = taken[e]
        BY <1>1, <1>3 DEF Reported
    <2>2. CASE w = StartCall(e)
        BY <1>3, <2>1, <2>2 DEF StartCall, StartWrites, HttpThrottled, Effect, Limits
    <2>3. CASE w = StopCall(e)
        BY <1>3, <2>1, <2>3 DEF StopCall, StopWrites, HttpRestored, Effect, Limits, OrDefault
    <2> QED BY <2>2, <2>3
<1> QED BY <1>2, <1>3

\* The calls of Start and Stop keep what is said of the stages.
LEMMA StagesKept ==
    ASSUME Invariant, NEW e \in Executions, phase[e] \notin {"new", "refused"},
           NEW call \in {"start", "stop"}, NEW w \in {StartCall(e), StopCall(e)},
           Overwrite(e, call, w) \/ UNCHANGED resource, UNCHANGED <<nature, owned, snapshot>>
    PROVE  RestStage' /\ HttpStage'
<1> USE DEF resource, nature, snapshot
<1>1. CASE UNCHANGED resource
    BY <1>1 DEF Invariant, RestStage, HttpStage, Coherent
<1>2. CASE Overwrite(e, call, w)
    <2>1. \A s \in SettingsOf(kind) :
            /\ s \in DOMAIN w => current'[s] = w[s]
            /\ s \notin DOMAIN w => current'[s] = current[s]
        BY <1>2 DEF Overwrite, Written, Invariant, TypeOK, Resources
    <2>2. RestStage'
        <3> SUFFICES ASSUME kind = "restStage" PROVE RestStage'
            BY DEF RestStage
        <3>1. \A s \in {"methodSetting", "rateLimit", "burstLimit"} : current'[s] = w[s]
            BY <2>1, StageCalls, SettingsByKind
        <3>2. Coherent(kind, current)'
            BY <3>1, StageCalls DEF Coherent, Limits
        <3>3. owned["methodSetting"] = 1 => current'["methodSetting"] = 1
            BY <3>1, StageCalls DEF Invariant, RestStage
        <3> QED BY <3>2, <3>3 DEF Invariant, RestStage, Coherent
    <2>3. HttpStage'
        <3> SUFFICES ASSUME kind = "httpStage" PROVE HttpStage'
            BY DEF HttpStage
        <3>1. current'["logging"] \in {current["logging"], taken[e]["logging"]}
            BY <2>1, StageCalls, SettingsByKind
        <3> QED BY <3>1 DEF Invariant, HttpStage
    <2> QED BY <2>2, <2>3
<1> QED BY <1>1, <1>2

\* What is known of the calls of an execution stays, while it keeps its snapshot.
LEMMA CallsKept ==
    ASSUME UNCHANGED nature, NEW f \in Executions, UNCHANGED <<read[f], target[f], requested[f]>>
    PROVE  StartCall(f)' = StartCall(f) /\ StopCall(f)' = StopCall(f)
BY DEF nature, StartCall, StopCall

LEMMA PrepareKeeps ==
    ASSUME Invariant, NEW e \in Executions, Prepare(e), TypeOK'
    PROVE  Invariant'
<1> USE DEF nature, resource, snapshot
<1> DEFINE u == IF kind = "group" THEN seen ELSE current
<1>1. /\ phase[e] = "new" /\ phase'[e] \in {"prepared", "refused"}
      /\ \A f \in Executions \ {e} :
            /\ phase'[f] = phase[f] /\ read'[f] = read[f] /\ taken'[f] = taken[f]
            /\ target'[f] = target[f] /\ requested'[f] = requested[f]
      /\ taken'[e] \in {taken[e], u}
      /\ UNCHANGED <<nature, resource, owned>>
    BY DEF Prepare, Invariant, TypeOK
<1>2. phase'[e] = "prepared" => read'[e] \in Reported(kind, taken'[e])
    BY DEF Prepare, Invariant, TypeOK
<1>3. Snapshots'
    BY <1>1, <1>2 DEF Invariant, Snapshots
<1>4. RestStage'
    BY <1>1 DEF Invariant, RestStage, Coherent
<1>5. HttpStage'
    <2> SUFFICES ASSUME kind = "httpStage" PROVE HttpStage'
        BY <1>1 DEF HttpStage
    <2>1. CASE current["logging"] = owned["logging"]
        BY <1>1, <2>1 DEF HttpStage
    <2>2. CASE current["logging"] # owned["logging"]
        <3>1. PICK f \in Executions : taken[f]["logging"] # owned["logging"]
            BY <2>2 DEF Invariant, HttpStage
        <3>2. taken'[f]["logging"] # owned["logging"]
            BY <1>1, <2>2, <3>1
        <3> QED BY <1>1, <3>2 DEF HttpStage
    <2> QED BY <2>1, <2>2
<1>6. Origin'
    <2> SUFFICES ASSUME NEW s \in SettingsOf(kind)
                 PROVE  /\ last[s].call = "choose" => current[s] = owned[s]
                        /\ last[s].call = "start" => ByStart(last[s].by, s)'
                        /\ last[s].call = "stop" => ByStop(last[s].by, s)'
        BY <1>1 DEF Origin, ByStart, ByStop
    <2>1. \A f \in Executions \ {e} : StartCall(f)' = StartCall(f) /\ StopCall(f)' = StopCall(f)
        BY <1>1, CallsKept
    <2>2. /\ last[s].call = "choose" => current[s] = owned[s]
          /\ last[s].call = "start" => ByStart(last[s].by, s)
          /\ last[s].call = "stop" => ByStop(last[s].by, s)
        BY DEF Invariant, Origin
    <2> QED BY <1>1, <2>1, <2>2 DEF ByStart, ByStop
<1> QED BY <1>3, <1>4, <1>5, <1>6 DEF Invariant

LEMMA StartKeeps ==
    ASSUME Invariant, NEW e \in Executions, Start(e), TypeOK'
    PROVE  Invariant'
<1> USE DEF nature, resource, snapshot
<1>1. /\ phase[e] = "prepared" /\ phase'[e] \in {"active", "startFailed"}
      /\ \A f \in Executions \ {e} : phase'[f] = phase[f]
      /\ UNCHANGED <<nature, owned, snapshot>>
      /\ \/ Overwrite(e, "start", StartCall(e))
         \/ UNCHANGED resource
    BY DEF Start, Invariant, TypeOK
<1>2. Snapshots'
    BY <1>1 DEF Invariant, Snapshots
<1>3. RestStage' /\ HttpStage'
    BY <1>1, StagesKept
<1>4. Origin'
    <2> SUFFICES ASSUME NEW s \in SettingsOf(kind)
                 PROVE  (/\ last[s].call = "choose" => current[s] = owned[s]
                         /\ last[s].call = "start" => ByStart(last[s].by, s)
                         /\ last[s].call = "stop" => ByStop(last[s].by, s))'
        BY <1>1 DEF Origin, ByStart, ByStop
    <2>1. \A f \in Executions : StartCall(f)' = StartCall(f) /\ StopCall(f)' = StopCall(f)
        BY <1>1, CallsKept
    <2>2. /\ last[s].call = "choose" => current[s] = owned[s]
          /\ last[s].call = "start" => ByStart(last[s].by, s)
          /\ last[s].call = "stop" => ByStop(last[s].by, s)
        BY DEF Invariant, Origin
    <2>3. CASE current'[s] = current[s] /\ last'[s] = last[s]
        BY <1>1, <2>1, <2>2, <2>3 DEF ByStart, ByStop
    <2>4. CASE s \in DOMAIN StartCall(e) /\ last'[s] = [by |-> e, call |-> "start"]
        BY <1>1, <2>1, <2>4 DEF ByStart
    <2>5. TypeOK /\ DOMAIN StartCall(e) \subseteq SettingsOf(kind)
          /\ \A t \in DOMAIN StartCall(e) : StartCall(e)[t] \in Values
        BY CallsTyped DEF Invariant
    <2>6. Overwrite(e, "start", StartCall(e)) =>
             \/ current'[s] = current[s] /\ last'[s] = last[s]
             \/ s \in DOMAIN StartCall(e) /\ last'[s] = [by |-> e, call |-> "start"]
        BY <2>5, OverwriteWrites
    <2> QED BY <1>1, <2>3, <2>4, <2>6
<1> QED BY <1>2, <1>3, <1>4 DEF Invariant

LEMMA StopKeeps ==
    ASSUME Invariant, NEW e \in Executions, Stop(e), TypeOK'
    PROVE  Invariant'
<1> USE DEF nature, resource, snapshot
<1>1. /\ phase[e] \in MayStop
      /\ \A f \in Executions \ {e} : phase'[f] = phase[f]
      /\ UNCHANGED <<nature, owned, snapshot>>
      /\ \/ Overwrite(e, "stop", StopCall(e)) /\ phase'[e] \in {"stopped", "stopFailed"}
         \/ UNCHANGED resource /\ phase'[e] = "stopFailed"
    BY DEF Stop, Invariant, TypeOK
<1>2. Snapshots'
    BY <1>1 DEF Invariant, Snapshots, MayStop
<1>3. RestStage' /\ HttpStage'
    BY <1>1, StagesKept DEF MayStop
<1>4. Origin'
    <2> SUFFICES ASSUME NEW s \in SettingsOf(kind)
                 PROVE  (/\ last[s].call = "choose" => current[s] = owned[s]
                         /\ last[s].call = "start" => ByStart(last[s].by, s)
                         /\ last[s].call = "stop" => ByStop(last[s].by, s))'
        BY <1>1 DEF Origin, ByStart, ByStop
    <2>1. \A f \in Executions : StartCall(f)' = StartCall(f) /\ StopCall(f)' = StopCall(f)
        BY <1>1, CallsKept
    <2>2. /\ last[s].call = "choose" => current[s] = owned[s]
          /\ last[s].call = "start" => ByStart(last[s].by, s)
          /\ last[s].call = "stop" => ByStop(last[s].by, s)
        BY DEF Invariant, Origin
    <2>3. CASE UNCHANGED resource /\ phase'[e] = "stopFailed"
        BY <1>1, <2>1, <2>2, <2>3 DEF ByStart, ByStop
    <2>4. CASE Overwrite(e, "stop", StopCall(e)) /\ phase'[e] \in {"stopped", "stopFailed"}
        <3>1. TypeOK /\ DOMAIN StopCall(e) \subseteq SettingsOf(kind)
              /\ \A t \in DOMAIN StopCall(e) : StopCall(e)[t] \in Values
            BY CallsTyped DEF Invariant
        <3>2. /\ s \in DOMAIN StopCall(e) =>
                    current'[s] = StopCall(e)[s] /\ last'[s] = [by |-> e, call |-> "stop"]
              /\ s \notin DOMAIN StopCall(e) => current'[s] = current[s] /\ last'[s] = last[s]
            BY <2>4, <3>1, OverwriteWrites
        <3>3. CASE s \in DOMAIN StopCall(e)
            BY <2>1, <2>4, <3>2, <3>3 DEF ByStop
        <3>4. CASE s \notin DOMAIN StopCall(e)
            <4>1. s \in DOMAIN StartCall(e) => Lame(kind, taken[e])
                <5>1. /\ kind \in Kinds /\ clears \in BOOLEAN /\ taken[e] \in Resources(kind)
                      /\ read[e] \in Reported(kind, taken[e])
                      /\ target[e] \in Nat /\ requested[e] \in SUBSET Processes
                    BY <1>1 DEF Invariant, TypeOK, Snapshots, MayStop
                <5> QED BY <3>4, <5>1, StopCoversStart DEF StartCall, StopCall
            <4> QED BY <1>1, <2>1, <2>2, <2>4, <3>2, <3>4, <4>1 DEF ByStart, ByStop
        <3> QED BY <3>3, <3>4
    <2> QED BY <1>1, <2>3, <2>4
<1> QED BY <1>2, <1>3, <1>4 DEF Invariant

LEMMA OwnerKeeps ==
    ASSUME Invariant, NEW s \in SettingsOf(kind), OwnerChanges(s), TypeOK'
    PROVE  Invariant'
<1> USE DEF nature, resource, snapshot
<1>1. PICK x \in Choices(kind, s) :
        /\ current' = [current EXCEPT ![s] = x]
        /\ owned' = [owned EXCEPT ![s] = x]
        /\ last' = [last EXCEPT ![s] = [by |-> Owner, call |-> "choose"]]
        /\ s # "methodSetting" /\ (kind = "restStage" => owned["methodSetting"] = 1)
        /\ UNCHANGED <<nature, phase, snapshot>>
    BY DEF OwnerChanges
<1>2. /\ current'[s] = x /\ owned'[s] = x
      /\ last'[s] = [by |-> Owner, call |-> "choose"]
      /\ \A t \in SettingsOf(kind) \ {s} :
            current'[t] = current[t] /\ owned'[t] = owned[t] /\ last'[t] = last[t]
    BY <1>1 DEF Invariant, TypeOK, Resources
<1>3. Snapshots'
    BY <1>1 DEF Invariant, Snapshots
<1>4. RestStage'
    <2> SUFFICES ASSUME kind = "restStage" PROVE RestStage'
        BY <1>1 DEF RestStage
    <2>1. SettingsOf(kind) = {"methodSetting", "rateLimit", "burstLimit"}
        BY SettingsByKind
    <2>2. x # 0
        BY <1>1, <2>1, SettingsAssumption DEF Choices, Missing
    <2>3. current'["methodSetting"] = 1
        BY <1>1, <1>2, <2>1 DEF Invariant, RestStage
    <2>4. \A t \in Limits : owned'[t] # 0
        BY <1>2, <2>1, <2>2 DEF Invariant, RestStage, Limits
    <2> QED BY <1>1, <2>3, <2>4 DEF Invariant, RestStage, Coherent
<1>5. HttpStage'
    BY <1>1, <1>2, SettingsByKind DEF Invariant, HttpStage
<1>6. Origin'
    <2> SUFFICES ASSUME NEW t \in SettingsOf(kind)
                 PROVE  (/\ last[t].call = "choose" => current[t] = owned[t]
                         /\ last[t].call = "start" => ByStart(last[t].by, t)
                         /\ last[t].call = "stop" => ByStop(last[t].by, t))'
        BY <1>1 DEF Origin
    <2>1. \A f \in Executions : StartCall(f)' = StartCall(f) /\ StopCall(f)' = StopCall(f)
        BY <1>1, CallsKept
    <2>2. /\ last[t].call = "choose" => current[t] = owned[t]
          /\ last[t].call = "start" => ByStart(last[t].by, t)
          /\ last[t].call = "stop" => ByStop(last[t].by, t)
        BY DEF Invariant, Origin
    <2>3. CASE t = s
        BY <1>2, <2>3
    <2>4. CASE t # s
        BY <1>1, <1>2, <2>1, <2>2, <2>4 DEF ByStart, ByStop
    <2> QED BY <2>3, <2>4
<1> QED BY <1>3, <1>4, <1>5, <1>6 DEF Invariant

\* A step that leaves alone what the invariant speaks of.
LEMMA OthersKeep ==
    ASSUME Invariant, Discover \/ UNCHANGED vars, TypeOK'
    PROVE  Invariant'
<1>1. UNCHANGED <<kind, clears, current, last, owned, phase, read, taken, target, requested>>
    BY DEF Discover, vars, nature, resource, snapshot
<1>2. \A f \in Executions : StartCall(f)' = StartCall(f) /\ StopCall(f)' = StopCall(f)
    BY <1>1 DEF StartCall, StopCall
<1>3. Origin'
    BY <1>1, <1>2 DEF Invariant, Origin, ByStart, ByStop
<1>4. Snapshots' /\ RestStage' /\ HttpStage'
    BY <1>1 DEF Invariant, Snapshots, RestStage, HttpStage, Coherent
<1> QED BY <1>3, <1>4 DEF Invariant

LEMMA StepHolds == Invariant /\ [Next]_vars => Invariant'
<1> SUFFICES ASSUME Invariant, [Next]_vars PROVE Invariant'
    OBVIOUS
<1>1. TypeOK'
    BY StepTyped DEF Invariant
<1> QED BY <1>1, PrepareKeeps, StartKeeps, StopKeeps, OwnerKeeps, OthersKeep DEF Next

LEMMA InvariantHolds == Spec => []Invariant
BY InitHolds, StepHolds, PTL DEF Spec

-----------------------------------------------------------------------------
(* The properties                                                          *)

LEMMA InvariantRestores == Invariant => UnwoundIsRestored
<1> SUFFICES ASSUME Invariant, Settled, LimitsWhole, Promised, NEW s \in SettingsOf(kind),
                    ~Alike(kind, s, current[s], owned[s])
             PROVE  last[s].call = "stop" /\ Dirty(last[s].by, s)
    BY DEF UnwoundIsRestored
<1> DEFINE e == last[s].by
<1>1. /\ last[s].call \in {"choose", "start", "stop"}
      /\ last[s].call = "choose" => current[s] = owned[s]
      /\ last[s].call = "start" => ByStart(e, s)
      /\ last[s].call = "stop" => ByStop(e, s)
    BY DEF Invariant, TypeOK, Origin
<1>2. last[s].call # "choose"
    BY <1>1 DEF Alike
<1>3. last[s].call # "start"
    BY <1>1 DEF ByStart, Settled, LimitsWhole, Lame
<1>4. ByStop(e, s) /\ e \in Executions
    BY <1>1, <1>2, <1>3 DEF ByStop
<1>5. KeepsSnapshot
    <2>1. CASE kind = "rule"
        BY <1>4, <2>1, SettingsByKind
        DEF ByStop, StopCall, StopWrites, Effect, Promised, Alike
    <2>2. CASE kind = "function"
        BY <1>4, <2>2, SettingsByKind
        DEF ByStop, StopCall, StopWrites, Effect, Promised, Alike
    <2> QED BY <2>1, <2>2 DEF KeepsSnapshot
<1>6. /\ kind \in Kinds \ {"rule", "function"} /\ clears \in BOOLEAN
      /\ taken[e] \in Resources(kind) /\ read[e] \in Reported(kind, taken[e])
      /\ requested[e] \in SUBSET Processes
    BY <1>4, <1>5 DEF Invariant, TypeOK, Snapshots, KeepsSnapshot, ByStop
<1>7. ~Lame(kind, taken[e]) /\ Coherent(kind, taken[e])
    BY <1>4 DEF ByStop, LimitsWhole, Lame, Invariant, RestStage, Coherent
<1>8. \/ Alike(kind, s, current[s], taken[e][s])
      \/ kind = "restStage" /\ s \in Limits /\ taken[e][s] = 0
    BY <1>4, <1>6, <1>7, StopBringsBack DEF ByStop, StopCall
<1>9. ~Alike(kind, s, taken[e][s], owned[s])
    <2>1. CASE Alike(kind, s, current[s], taken[e][s])
        BY <2>1 DEF Alike
    <2>2. CASE kind = "restStage" /\ s \in Limits /\ taken[e][s] = 0
        BY <2>2 DEF Invariant, RestStage, Alike, OrDefault, Default, Missing
    <2> QED BY <1>8, <2>1, <2>2
<1> QED BY <1>1, <1>2, <1>3, <1>5, <1>9 DEF Dirty

\* When every execution has been stopped, a setting is as its owner chose it
\* last, unless the last to write it had read something else in Prepare.
THEOREM UnwindingRestores == Spec => []UnwoundIsRestored
BY InvariantHolds, InvariantRestores, PTL

\* An attack changes another setting of an HTTP stage only if the owner has
\* changed it since the Prepare of some execution.
THEOREM OtherSettingsAreKept == Spec => OtherSettingsKept
<1> DEFINE A == kind = "httpStage" /\ changes' = changes /\ current'["logging"] # current["logging"] =>
                  \E e \in Executions : taken[e]["logging"] # owned["logging"]
<1>1. Invariant /\ [Next]_vars => [A]_vars
    <2> SUFFICES ASSUME Invariant, Next, kind = "httpStage", changes' = changes,
                        current'["logging"] # current["logging"]
                 PROVE  \E e \in Executions : taken[e]["logging"] # owned["logging"]
        OBVIOUS
    <2>1. ASSUME NEW e \in Executions, NEW call \in {"start", "stop"},
                 NEW w \in {StartCall(e), StopCall(e)},
                 phase[e] \notin {"new", "refused"}, Overwrite(e, call, w)
          PROVE  taken[e]["logging"] = current'["logging"]
        <3>1. "logging" \in SettingsOf(kind)
            BY SettingsByKind
        <3>2. "logging" \in DOMAIN w /\ current'["logging"] = w["logging"]
            BY <2>1, <3>1 DEF Overwrite, Written, Invariant, TypeOK, Resources
        <3> QED BY <2>1, <3>2, StageCalls
    <2>2. \E e \in Executions : taken[e]["logging"] = current'["logging"]
        <3>1. ASSUME NEW e \in Executions, Prepare(e) PROVE FALSE
            BY <3>1 DEF Prepare, resource
        <3>2. ASSUME NEW e \in Executions, Start(e) PROVE taken[e]["logging"] = current'["logging"]
            BY <2>1, <3>2 DEF Start, resource
        <3>3. ASSUME NEW e \in Executions, Stop(e) PROVE taken[e]["logging"] = current'["logging"]
            BY <2>1, <3>3 DEF Stop, MayStop, resource
        <3>4. ASSUME NEW s \in SettingsOf(kind), OwnerChanges(s) PROVE FALSE
            BY <3>4 DEF OwnerChanges, Invariant, TypeOK
        <3>5. ~Discover
            BY DEF Discover, resource
        <3> QED BY <3>1, <3>2, <3>3, <3>4, <3>5 DEF Next
    <2> QED BY <2>2 DEF Invariant, HttpStage
<1> QED BY <1>1, InvariantHolds, PTL DEF Spec, OtherSettingsKept
=============================================================================
