----------------------------- MODULE SsmTaskAttack -----------------------------
(***************************************************************************)
(* The attacks on ECS tasks that run an SSM document on the task's managed *)
(* instance: Prepare finds the instance, Start sends the command, Status   *)
(* watches it and Stop cancels it and waits for its end.  The network      *)
(* attacks have a goroutine beside the requests that sends the command     *)
(* again as a heartbeat until Stop or a timeout ends its context.          *)
(*                                                                         *)
(* Executions share nothing but the map of the heartbeats, in which each   *)
(* has a key of its own, so one execution is modelled.                     *)
(***************************************************************************)
EXTENDS Integers

CONSTANTS
    Duration,   \* HeartbeatConfig.Duration, in units of time
    Timeout,    \* HeartbeatConfig.Timeout
    MaxAge,     \* bound: the time a heartbeat goroutine is watched
    MaxFaults,  \* bound: failing calls, lost replies, crashes, requests given up
    MaxRepeats  \* bound: Stop requests that follow a finished one

ASSUME SsmAssumption ==
    /\ Duration \in Nat \ {0} /\ Timeout \in Nat \ {0} /\ MaxAge \in Nat
    /\ MaxFaults \in Nat /\ MaxRepeats \in Nat

VARIABLES
    instances,  \* AWS: the managed instances with the tag of the task
    command,    \* AWS: the status of the command
    visible,    \* AWS: GetCommandInvocation finds the command
    phase,      \* platform: how far the execution is
    state,      \* platform: "empty", or "sent" with a CommandId, or "ended", with CommandEnded
    starting,   \* the handler of Start is in SendCommand
    request,    \* the handler of Status or Stop: the call it makes next
    entry,      \* the execution is in the map heartbeats
    beat,       \* the heartbeat goroutine
    done,       \* its context is done
    age,        \* the time since it was created
    next,       \* the time of the next tick
    ticked,     \* the ticker's channel holds a tick
    beats,      \* history: heartbeats that AWS has accepted
    late,       \* history: those of them after Stop has called them off
    calledOff,  \* history: Stop has called the heartbeats off
    gaveUp,     \* history: the platform has not waited for Start
    faults, repeats

aws == <<instances, command, visible>>
platform == <<phase, state>>
ticker == <<age, next, ticked>>
heartbeat == <<entry, beat, done, ticker, beats, late>>
history == <<calledOff, gaveUp>>
vars == <<aws, platform, starting, request, heartbeat, history, faults, repeats>>

Ended == {"Success", "Failed", "TimedOut", "Cancelled"}
Fault == faults < MaxFaults /\ faults' = faults + 1

-----------------------------------------------------------------------------
Init ==
    /\ instances \in 0 .. 2 /\ command = "none" /\ visible = FALSE
    /\ phase = "new" /\ state = "empty"
    /\ starting = FALSE /\ request = "none"
    /\ entry = FALSE /\ beat = "none" /\ done = FALSE
    /\ age = 0 /\ next = Duration /\ ticked = FALSE /\ beats = 0 /\ late = 0
    /\ calledOff = FALSE /\ gaveUp = FALSE /\ faults = 0 /\ repeats = 0

(* Prepare and Start ------------------------------------------------------ *)

\* Prepare: exactly one managed instance carries the tag of the task.
Prepare ==
    /\ phase = "new"
    /\ \/ instances = 1 /\ phase' = "prepared" /\ UNCHANGED faults
       \/ instances # 1 /\ phase' = "unprepared" /\ UNCHANGED faults
       \/ Fault /\ phase' = "unprepared"
    /\ UNCHANGED <<aws, state, starting, request, heartbeat, history, repeats>>

\* Start; without a client it ends before any call.
Start ==
    /\ phase = "prepared"
    /\ \/ phase' = "starting" /\ starting' = TRUE /\ UNCHANGED faults
       \/ phase' = "failed" /\ Fault /\ UNCHANGED starting
    /\ UNCHANGED <<aws, state, request, heartbeat, history, repeats>>

\* startHeartbeat; a goroutine without a client ends at once.  Attacks without
\* updateHeartbeatParameters have no heartbeat.
StartHeartbeat ==
    \/ UNCHANGED heartbeat
    \/ /\ entry' = TRUE /\ beat' \in {"waiting", "none"} /\ done' = FALSE
       /\ age' = 0 /\ next' = Duration /\ ticked' = FALSE
       /\ UNCHANGED <<beats, late>>

\* SendCommand returns the command's id; the platform learns it unless the reply
\* of Start is lost or comes too late.
CommandIsSent ==
    /\ starting /\ starting' = FALSE
    /\ instances > 0 /\ command' = "InProgress"
    /\ StartHeartbeat
    /\ \/ phase = "starting" /\ phase' = "running" /\ state' = "sent" /\ UNCHANGED faults
       \/ phase = "starting" /\ phase' = "failed" /\ Fault /\ UNCHANGED state
       \/ phase # "starting" /\ UNCHANGED <<phase, state, faults>>
    /\ UNCHANGED <<instances, visible, request, history, repeats>>

\* SendCommand fails, before it took effect or after.
CommandIsNotSent ==
    /\ starting /\ starting' = FALSE
    /\ \/ instances = 0 /\ UNCHANGED <<command, faults>>
       \/ Fault /\ UNCHANGED command
       \/ Fault /\ instances > 0 /\ command' = "InProgress"
    /\ phase' = IF phase = "starting" THEN "failed" ELSE phase
    /\ UNCHANGED <<instances, visible, state, request, heartbeat, history, repeats>>

\* The platform does not wait any longer for Start.
GiveUp ==
    /\ phase = "starting" /\ phase' = "failed"
    /\ gaveUp' = TRUE /\ Fault
    /\ UNCHANGED <<aws, state, starting, request, heartbeat, calledOff, repeats>>

(* Status ------------------------------------------------------------------ *)

\* GetCommandInvocation: a command that AWS does not show yet is waited for,
\* one that has ended completes the execution.
Status ==
    /\ phase = "running" /\ request = "none"
    /\ \/ ~visible /\ UNCHANGED <<phase, state, request, faults>>
       \/ /\ visible /\ command \in Ended
          /\ phase' = "completed" /\ state' = "ended" /\ UNCHANGED <<request, faults>>
       \/ /\ visible /\ command \notin Ended
          /\ request' = "lookup" /\ UNCHANGED <<phase, state, faults>>
       \/ Fault /\ phase' \in {"running", "failed"} /\ UNCHANGED <<state, request>>
    /\ UNCHANGED <<aws, starting, heartbeat, history, repeats>>

\* findManagedInstance: the attack fails when the instance has vanished.
FindManagedInstance ==
    /\ request = "lookup" /\ request' = "none"
    /\ \/ instances = 1 /\ UNCHANGED <<phase, faults>>
       \/ instances # 1 /\ phase' = "failed" /\ UNCHANGED faults
       \/ Fault /\ phase' = "failed"
    /\ UNCHANGED <<aws, state, starting, heartbeat, history, repeats>>

(* Stop -------------------------------------------------------------------- *)

\* The platform stops what it has started and repeats a Stop that failed, or,
\* rarely, one that did not.
MayStop ==
    /\ request = "none"
    /\ \/ phase \in {"running", "completed", "failed", "stopFailed"} /\ UNCHANGED repeats
       \/ phase = "stopped" /\ repeats < MaxRepeats /\ repeats' = repeats + 1

\* Mutant: the heartbeat is forgotten and not cancelled.
StopHeartbeatForgets ==
    /\ entry' = FALSE /\ UNCHANGED done

\* stopHeartbeat.
StopHeartbeat ==
    /\ entry' = FALSE /\ done' = (done \/ entry)

\* Stop up to its first call: nothing is left to do when the command has ended
\* or was never sent, as far as the platform knows.
BeginStop ==
    /\ MayStop
    /\ StopHeartbeat /\ calledOff' = TRUE
    /\ IF state # "sent"
       THEN /\ \/ phase' = "stopped" /\ UNCHANGED faults
               \/ phase' = "stopFailed" /\ Fault
            /\ UNCHANGED request
       ELSE \/ phase' = "stopping" /\ request' = "cancel" /\ UNCHANGED faults
            \/ phase' = "stopFailed" /\ Fault /\ UNCHANGED request
    /\ UNCHANGED <<aws, state, starting, beat, ticker, beats, late, gaveUp>>

CancelCommandInAws == command' = IF command \in Ended THEN command ELSE "Cancelling"

\* Mutant: Stop does not wait for the end of the command.
CancelWithoutWaiting ==
    /\ request = "cancel" /\ request' = "none" /\ phase' = "stopped"
    /\ CancelCommandInAws
    /\ UNCHANGED <<instances, visible, state, starting, heartbeat, history, faults, repeats>>

\* CancelCommand.
Cancel ==
    /\ request = "cancel"
    /\ \/ CancelCommandInAws /\ request' = "await" /\ UNCHANGED <<phase, faults>>
       \/ /\ CancelCommandInAws \/ UNCHANGED command
          /\ request' = "none" /\ phase' = "stopFailed" /\ Fault
    /\ UNCHANGED <<instances, visible, state, starting, heartbeat, history, repeats>>

\* The waiter polls until the command has ended or maxWaitForOutput is over;
\* the result is an error unless the command has ended with Success.
Await ==
    /\ request = "await" /\ request' = "none"
    /\ \/ /\ visible /\ command \in Ended
          /\ phase' = "stopped" /\ UNCHANGED faults
       \/ /\ ~visible \/ command \notin Ended
          /\ phase' = "stopFailed" /\ UNCHANGED faults
       \/ phase' = "stopFailed" /\ Fault
    /\ UNCHANGED <<aws, state, starting, heartbeat, history, repeats>>

(* The heartbeat goroutine -------------------------------------------------- *)

\* Mutant: the heartbeat is sent with a context that is never done.
BeatOnTickAnyway ==
    /\ beat = "waiting" /\ ticked /\ ticked' = FALSE
    /\ beat' = "sending"
    /\ UNCHANGED <<aws, platform, starting, request, entry, done, age, next, beats, late,
                   history, faults, repeats>>

\* select chooses the tick: the call fails at once when the context is done.
BeatOnTick ==
    /\ beat = "waiting" /\ ticked /\ ticked' = FALSE
    /\ beat' = IF done THEN "waiting" ELSE "sending"
    /\ UNCHANGED <<aws, platform, starting, request, entry, done, age, next, beats, late,
                   history, faults, repeats>>

\* SendCommand of a heartbeat returns; AWS has accepted it or not.
BeatSent ==
    /\ beat = "sending" /\ beat' = "waiting"
    /\ \/ UNCHANGED <<beats, late>>
       \/ beats' = beats + 1 /\ late' = IF calledOff THEN late + 1 ELSE late
    /\ UNCHANGED <<aws, platform, starting, request, entry, done, ticker, history, faults, repeats>>

\* select chooses the context, which ends the goroutine.
BeatEnds ==
    /\ beat = "waiting" /\ done /\ beat' = "none"
    /\ UNCHANGED <<aws, platform, starting, request, entry, done, ticker, beats, late,
                   history, faults, repeats>>

\* Mutant: the context has no timeout.
ExpireNever == FALSE /\ UNCHANGED vars

\* The timeout of the context.
Expire ==
    /\ beat # "none" /\ age = Timeout /\ done' = TRUE
    /\ UNCHANGED <<aws, platform, starting, request, entry, beat, ticker, beats, late,
                   history, faults, repeats>>

\* Time passes, not beyond a timeout that is due; a tick that finds the channel
\* full is dropped.
TimePasses ==
    /\ beat # "none" /\ age < MaxAge /\ (age < Timeout \/ done)
    /\ age' = age + 1
    /\ IF age' = next THEN ticked' = TRUE /\ next' = next + Duration
                      ELSE UNCHANGED <<ticked, next>>
    /\ UNCHANGED <<aws, platform, starting, request, entry, beat, done, beats, late,
                   history, faults, repeats>>

(* AWS and the process ------------------------------------------------------ *)

CommandProgresses ==
    /\ command # "none"
    /\ \/ ~visible /\ visible' = TRUE /\ UNCHANGED command
       \/ /\ visible /\ command \notin Ended /\ UNCHANGED visible
          /\ command' \in IF command = "Cancelling" THEN Ended ELSE Ended \ {"Cancelled"}
    /\ UNCHANGED <<instances, platform, starting, request, heartbeat, history, faults, repeats>>

InstancesChange ==
    /\ instances' \in 0 .. 2
    /\ UNCHANGED <<command, visible, platform, starting, request, heartbeat, history,
                   faults, repeats>>

\* The extension dies: the goroutine and the map are gone, requests fail.
Crash ==
    /\ Fault
    /\ entry' = FALSE /\ beat' = "none" /\ starting' = FALSE /\ request' = "none"
    /\ \/ starting /\ instances > 0 /\ command' = "InProgress"
       \/ UNCHANGED command
    /\ phase' = CASE phase = "starting" -> "failed"
                  [] phase = "stopping" -> "stopFailed"
                  [] OTHER -> phase
    /\ UNCHANGED <<instances, visible, state, done, ticker, beats, late, history, repeats>>

Next ==
    \/ Prepare \/ Start \/ CommandIsSent \/ CommandIsNotSent \/ GiveUp
    \/ Status \/ FindManagedInstance
    \/ BeginStop \/ Cancel \/ Await
    \/ BeatOnTick \/ BeatSent \/ BeatEnds \/ Expire \/ TimePasses
    \/ CommandProgresses \/ InstancesChange \/ Crash

Spec == Init /\ [][Next]_vars

\* Time passes and the goroutine is scheduled.
Fairness ==
    WF_vars(TimePasses) /\ WF_vars(Expire) /\ WF_vars(BeatOnTick \/ BeatSent \/ BeatEnds)

FairSpec == Spec /\ Fairness

-----------------------------------------------------------------------------
(* Properties                                                              *)

\* Every variable has its type: TaskSsmActionState, the heartbeat's context and
\* ticker, and what AWS knows of the command.
TypeOK ==
    /\ instances \in 0 .. 2 /\ visible \in BOOLEAN
    /\ command \in {"none", "InProgress", "Cancelling"} \cup Ended
    /\ phase \in {"new", "unprepared", "prepared", "starting", "running", "completed",
                  "failed", "stopping", "stopFailed", "stopped"}
    /\ state \in {"empty", "sent", "ended"} /\ starting \in BOOLEAN
    /\ request \in {"none", "lookup", "cancel", "await"}
    /\ entry \in BOOLEAN /\ beat \in {"none", "waiting", "sending"} /\ done \in BOOLEAN
    /\ age \in Nat /\ next \in Nat /\ age < next /\ ticked \in BOOLEAN
    /\ beats \in Nat /\ late \in Nat
    /\ calledOff \in BOOLEAN /\ gaveUp \in BOOLEAN /\ faults \in Nat /\ repeats \in Nat

\* After a Stop without an error the command has ended, whoever lost which
\* reply, as long as the platform knows the command.  It is the platform that
\* does not know it when the reply of SendCommand or of Start was lost: nothing
\* then cancels the command.
StoppedMeansEnded ==
    phase = "stopped" /\ (state # "empty" \/ faults = 0) => command \in Ended \cup {"none"}

\* Once Stop has called the heartbeats off, its entry is gone and AWS accepts at
\* most the one heartbeat that was on its way, unless the platform stops an
\* execution whose Start still runs and then starts the heartbeats after all.
CalledOffIsQuiet == calledOff /\ ~gaveUp => ~entry /\ late <= 1

\* No more heartbeats are accepted than the ticker fires before the timeout.
\* With the defaults of the code, a tick every 30 s and a timeout of 15 s,
\* there is none.
BeatsBounded == beats * Duration <= Timeout

\* Every goroutine ends, even when no Stop ever finds its entry.
HeartbeatEnds == beat # "none" ~> beat = "none"
=============================================================================
