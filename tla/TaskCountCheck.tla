---------------------------- MODULE TaskCountCheck ----------------------------
(***************************************************************************)
(* The "Service Task Count" check of extecs: Prepare registers the service *)
(* with the poller and awaits its first description, Status compares the   *)
(* latest one with the check's mode until the check passes or its timeout  *)
(* has gone, Stop unregisters the service.                                 *)
(*                                                                         *)
(* The state of a check travels with the platform and outlives the         *)
(* process; the poller's map does not.                                     *)
(***************************************************************************)
EXTENDS PollRecords, FiniteSets

CONSTANTS
    Executions,     \* executions of the check
    Failure,        \* the description of a service AWS does not find
    Modes,          \* the values of runningCountCheckMode that occur
    MaxRepeats,     \* bound: repeated Stop requests
    MaxRestarts     \* bound: restarts of the extension

\* A description is the counts of a service or a failure.
Counts == Descriptions \ {Failure}

ASSUME CheckAssumption ==
    /\ Counts \subseteq [running : Nat, desired : Nat]
    /\ IsFiniteSet(Executions) /\ MaxRepeats \in Nat /\ MaxRestarts \in Nat

VARIABLES
    polls, asleep, actual,  \* the poller's map, the sleepers, AWS
    phase,      \* platform: how far an execution is
    service,    \* state.ServiceArn
    mode,       \* state.RunningCountCheckMode
    initial,    \* state.InitialRunningCount
    late,       \* state.Timeout has passed
    verdict,    \* platform: the result of the check
    shown,      \* history: the counts AWS has given for the service since Prepare
    repeats, restarts

checks == <<phase, service, mode, initial, late, verdict, shown>>
vars == <<polls, asleep, actual, phase, service, mode, initial, late, verdict, shown,
          repeats, restarts>>

-----------------------------------------------------------------------------
Init ==
    /\ polls = [s \in Services |-> Nil] /\ asleep = {}
    /\ actual \in [Services -> Descriptions]
    /\ phase = [e \in Executions |-> "new"]
    /\ service \in [Executions -> Services]
    /\ mode \in [Executions -> Modes]
    /\ initial = [e \in Executions |-> 0]
    /\ late = [e \in Executions |-> FALSE]
    /\ verdict = [e \in Executions |-> "none"]
    /\ shown = [e \in Executions |-> {}]
    /\ repeats = 0 /\ restarts = 0

\* Prepare up to AwaitLatest.
Prepare(e) ==
    /\ phase[e] = "new"
    /\ polls' = With(polls, service[e])
    /\ phase' = [phase EXCEPT ![e] = "awaiting"]
    /\ UNCHANGED <<asleep, actual, service, mode, initial, late, verdict, shown, repeats, restarts>>

\* AwaitLatest in initialRunningCount, and the rest of Prepare.  A Prepare that
\* fails keeps its registration: the platform does not stop what it could not
\* prepare.
AwaitLatest(e) ==
    LET latest == LatestOf(polls, service[e]) IN
    /\ phase[e] = "awaiting" /\ e \notin asleep
    /\ \/ /\ ~Answerable(polls, service[e])
          /\ asleep' = asleep \cup {e}
          /\ UNCHANGED <<phase, initial, shown>>
       \/ /\ Answerable(polls, service[e]) /\ latest \notin Counts
          /\ phase' = [phase EXCEPT ![e] = "failed"]
          /\ UNCHANGED <<asleep, initial, shown>>
       \/ /\ Answerable(polls, service[e]) /\ latest \in Counts
          /\ phase' = [phase EXCEPT ![e] = "running"]
          /\ initial' = [initial EXCEPT ![e] = latest.running]
          /\ shown' = [shown EXCEPT ![e] = {latest}]
          /\ UNCHANGED asleep
    /\ UNCHANGED <<polls, actual, service, mode, late, verdict, repeats, restarts>>

\* checkRunningAndDesiredCount finds nothing wrong with the counts c.
Meets(m, first, c) ==
    CASE m = "runningCountMin1" -> c.running >= 1
      [] m = "runningCountEqualsDesiredCount" -> c.running = c.desired
      [] m = "runningCountLessThanDesiredCount" -> c.running < c.desired
      [] m = "runningCountIncreased" -> c.running > first
      [] m = "runningCountDecreased" -> c.running < first
      [] OTHER -> FALSE

\* Mutant: a failure of AWS is taken for a passed check.
CheckErrorIgnoringFailure(e) ==
    LatestOf(polls, service[e]) \in Counts
        /\ ~Meets(mode[e], initial[e], LatestOf(polls, service[e]))

\* checkError # nil: nothing is wrong when there is no description.
CheckError(e) ==
    LET latest == LatestOf(polls, service[e]) IN
    \/ latest = Failure
    \/ latest \in Counts /\ ~Meets(mode[e], initial[e], latest)

\* Mutant: a completed check unregisters, and Stop does it once more.
StatusUnregisters(e) ==
    /\ phase[e] = "running" /\ verdict[e] = "none"
    /\ \/ ~CheckError(e) /\ verdict' = [verdict EXCEPT ![e] = "passed"]
       \/ CheckError(e) /\ late[e] /\ verdict' = [verdict EXCEPT ![e] = "failed"]
    /\ polls' = Without(polls, service[e]) /\ asleep' = {}
    /\ UNCHANGED <<actual, phase, service, mode, initial, late, shown, repeats, restarts>>

\* A Status that completes the check; before the timeout an error is no result.
Status(e) ==
    /\ phase[e] = "running" /\ verdict[e] = "none"
    /\ \/ ~CheckError(e) /\ verdict' = [verdict EXCEPT ![e] = "passed"]
       \/ CheckError(e) /\ late[e] /\ verdict' = [verdict EXCEPT ![e] = "failed"]
    /\ UNCHANGED <<polls, asleep, actual, phase, service, mode, initial, late, shown,
                   repeats, restarts>>

TimeoutPasses(e) ==
    /\ phase[e] = "running" /\ ~late[e]
    /\ late' = [late EXCEPT ![e] = TRUE]
    /\ UNCHANGED <<polls, asleep, actual, phase, service, mode, initial, verdict, shown,
                   repeats, restarts>>

\* Stop, of a completed check or of an experiment that is cancelled; it may be
\* repeated.
Stop(e) ==
    /\ \/ phase[e] = "running" /\ UNCHANGED repeats
       \/ phase[e] = "stopped" /\ repeats < MaxRepeats /\ repeats' = repeats + 1
    /\ phase' = [phase EXCEPT ![e] = "stopped"]
    /\ polls' = Without(polls, service[e])
    /\ asleep' = {}
    /\ UNCHANGED <<actual, service, mode, initial, late, verdict, shown, restarts>>

(* The poller, AWS and the process ----------------------------------------- *)

PollAll(S) ==
    /\ \A s \in S : Registered(polls, s)
    /\ polls' = Polled(polls, S, actual)
    /\ asleep' = {}
    /\ shown' = [e \in Executions |->
                    IF phase[e] = "running" /\ service[e] \in S
                    THEN shown[e] \cup ({actual[service[e]]} \cap Counts) ELSE shown[e]]
    /\ UNCHANGED <<actual, phase, service, mode, initial, late, verdict, repeats, restarts>>

ServiceChanges(s) ==
    /\ \E d \in Descriptions : actual' = [actual EXCEPT ![s] = d]
    /\ UNCHANGED <<polls, asleep, checks, repeats, restarts>>

Restart ==
    /\ restarts < MaxRestarts /\ restarts' = restarts + 1
    /\ polls' = [s \in Services |-> Nil] /\ asleep' = {}
    /\ phase' = [e \in Executions |-> IF phase[e] = "awaiting" THEN "lost" ELSE phase[e]]
    /\ UNCHANGED <<actual, service, mode, initial, late, verdict, shown, repeats>>

Next ==
    \/ \E e \in Executions :
         Prepare(e) \/ AwaitLatest(e) \/ Status(e) \/ TimeoutPasses(e) \/ Stop(e)
    \/ \E S \in SUBSET Services : PollAll(S)
    \/ \E s \in Services : ServiceChanges(s)
    \/ Restart

Spec == Init /\ [][Next]_vars

-----------------------------------------------------------------------------
(* Properties                                                              *)

\* Every variable has its type: EcsServiceTaskCountCheckState and the poller.
TypeOK ==
    /\ polls \in Polls /\ asleep \subseteq Executions
    /\ actual \in [Services -> Descriptions]
    /\ phase \in [Executions -> {"new", "awaiting", "running", "failed", "lost", "stopped"}]
    /\ service \in [Executions -> Services] /\ mode \in [Executions -> Modes]
    /\ initial \in [Executions -> Nat] /\ late \in [Executions -> BOOLEAN]
    /\ verdict \in [Executions -> {"none", "passed", "failed"}]
    /\ shown \in [Executions -> SUBSET Counts]
    /\ repeats \in Nat /\ restarts \in Nat

Justified(e) == \E c \in shown[e] : Meets(mode[e], initial[e], c)

\* "How many running tasks are required to let the check pass": a check passes
\* only after AWS has shown counts of its service that meet its mode.  It fails
\* when the registration is gone, after a restart for example: Status then
\* finds no description and no reason against passing.
PassedMeansMet == \A e \in Executions : verdict[e] = "passed" => Justified(e)

\* The same, while nobody takes the check's registration away: no Stop is
\* repeated and the extension does not restart, whatever other checks of the
\* same service and cluster come and go meanwhile.
PassedMeansMetUndisturbed == repeats = 0 /\ restarts = 0 => PassedMeansMet

\* A running check finds its registration in the poller's map, or somebody has
\* taken it away: the description a Status reads is never missing otherwise.
RunningIsPolled ==
    repeats = 0 /\ restarts = 0 =>
        \A e \in Executions :
            phase[e] = "running" => LatestOf(polls, service[e]) # Nil

\* The checks are clients of the poller: every step of them is a step of
\* ServicePoller or leaves its state alone.
UsingOf(p) ==
    CASE p = "awaiting" -> "awaiting"
      [] p \in {"running", "failed"} -> "registered"
      [] OTHER -> "no"
Using == [e \in Executions |-> UsingOf(phase[e])]
Poller == INSTANCE ServicePoller WITH Clients <- Executions, using <- Using
ImplementsPoller == Poller!Spec
=============================================================================
