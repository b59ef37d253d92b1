-------------------------- MODULE SsmTaskAttackProofs --------------------------
(***************************************************************************)
(* What SsmTaskAttack guarantees for every interval and timeout of the     *)
(* heartbeats and any number of faults and repeated Stops.                 *)
(***************************************************************************)
EXTENDS SsmTaskAttack, TLAPS

-----------------------------------------------------------------------------
(* Types                                                                   *)

\* The Boolean variables, and the others.
Flags ==
    /\ visible \in BOOLEAN /\ starting \in BOOLEAN /\ entry \in BOOLEAN /\ done \in BOOLEAN
    /\ ticked \in BOOLEAN /\ calledOff \in BOOLEAN /\ gaveUp \in BOOLEAN
Values ==
    /\ instances \in 0 .. 2
    /\ command \in {"none", "InProgress", "Cancelling"} \cup Ended
    /\ phase \in {"new", "unprepared", "prepared", "starting", "running", "completed",
                  "failed", "stopping", "stopFailed", "stopped"}
    /\ state \in {"empty", "sent", "ended"}
    /\ request \in {"none", "lookup", "cancel", "await"}
    /\ beat \in {"none", "waiting", "sending"}
    /\ age \in Nat /\ next \in Nat /\ age < next
    /\ beats \in Nat /\ late \in Nat
    /\ faults \in Nat /\ repeats \in Nat

\* Every step keeps the Boolean variables Boolean.
LEMMA FlagsStep == Flags /\ [Next]_vars => Flags'
<1> SUFFICES ASSUME Flags, [Next]_vars PROVE Flags'
  OBVIOUS
<1> USE DEF Flags
<1>1. CASE Prepare
  BY <1>1 DEF Prepare, aws, platform, heartbeat, ticker, history
<1>2. CASE Start
  BY <1>2 DEF Start, aws, platform, heartbeat, ticker, history
<1>3. CASE CommandIsSent
  BY <1>3 DEF CommandIsSent, StartHeartbeat, aws, platform, heartbeat, ticker, history
<1>4. CASE CommandIsNotSent
  BY <1>4 DEF CommandIsNotSent, aws, platform, heartbeat, ticker, history
<1>5. CASE GiveUp
  BY <1>5 DEF GiveUp, aws, platform, heartbeat, ticker, history
<1>6. CASE Status
  BY <1>6 DEF Status, aws, platform, heartbeat, ticker, history
<1>7. CASE FindManagedInstance
  BY <1>7 DEF FindManagedInstance, aws, platform, heartbeat, ticker, history
<1>8. CASE BeginStop
  BY <1>8 DEF BeginStop, MayStop, StopHeartbeat, aws, platform, heartbeat, ticker, history
<1>9. CASE Cancel
  BY <1>9 DEF Cancel, CancelCommandInAws, aws, platform, heartbeat, ticker, history
<1>10. CASE Await
  BY <1>10 DEF Await, aws, platform, heartbeat, ticker, history
<1>11. CASE BeatOnTick
  BY <1>11 DEF BeatOnTick, aws, platform, heartbeat, ticker, history
<1>12. CASE BeatSent
  BY <1>12 DEF BeatSent, aws, platform, heartbeat, ticker, history
<1>13. CASE BeatEnds
  BY <1>13 DEF BeatEnds, aws, platform, heartbeat, ticker, history
<1>14. CASE Expire
  BY <1>14 DEF Expire, aws, platform, heartbeat, ticker, history
<1>15. CASE TimePasses
  BY <1>15 DEF TimePasses, aws, platform, heartbeat, ticker, history
<1>16. CASE CommandProgresses
  BY <1>16 DEF CommandProgresses, Ended, aws, platform, heartbeat, ticker, history
<1>17. CASE InstancesChange
  BY <1>17 DEF InstancesChange, aws, platform, heartbeat, ticker, history
<1>18. CASE Crash
  BY <1>18 DEF Crash, aws, platform, heartbeat, ticker, history
<1>19. CASE UNCHANGED vars
  BY <1>19 DEF vars, aws, platform, heartbeat, ticker, history
<1> QED  BY <1>1, <1>2, <1>3, <1>4, <1>5, <1>6, <1>7, <1>8, <1>9, <1>10, <1>11,
            <1>12, <1>13, <1>14, <1>15, <1>16, <1>17, <1>18, <1>19 DEF Next

\* Every step keeps the types of the others.
LEMMA ValuesStep == Values /\ [Next]_vars => Values'
<1> SUFFICES ASSUME Values, [Next]_vars PROVE Values'
  OBVIOUS
<1> USE SsmAssumption DEF Values, Fault
<1>1. CASE Prepare
  BY <1>1 DEF Prepare, aws, platform, heartbeat, ticker, history
<1>2. CASE Start
  BY <1>2 DEF Start, aws, platform, heartbeat, ticker, history
<1>3. CASE CommandIsSent
  BY <1>3 DEF CommandIsSent, StartHeartbeat, aws, platform, heartbeat, ticker, history
<1>4. CASE CommandIsNotSent
  BY <1>4 DEF CommandIsNotSent, aws, platform, heartbeat, ticker, history
<1>5. CASE GiveUp
  BY <1>5 DEF GiveUp, aws, platform, heartbeat, ticker, history
<1>6. CASE Status
  BY <1>6 DEF Status, aws, platform, heartbeat, ticker, history
<1>7. CASE FindManagedInstance
  BY <1>7 DEF FindManagedInstance, aws, platform, heartbeat, ticker, history
<1>8. CASE BeginStop
  BY <1>8 DEF BeginStop, MayStop, StopHeartbeat, aws, platform, heartbeat, ticker, history
<1>9. CASE Cancel
  BY <1>9 DEF Cancel, CancelCommandInAws, aws, platform, heartbeat, ticker, history
<1>10. CASE Await
  BY <1>10 DEF Await, aws, platform, heartbeat, ticker, history
<1>11. CASE BeatOnTick
  BY <1>11 DEF BeatOnTick, aws, platform, heartbeat, ticker, history
<1>12. CASE BeatSent
  BY <1>12 DEF BeatSent, aws, platform, heartbeat, ticker, history
<1>13. CASE BeatEnds
  BY <1>13 DEF BeatEnds, aws, platform, heartbeat, ticker, history
<1>14. CASE Expire
  BY <1>14 DEF Expire, aws, platform, heartbeat, ticker, history
<1>15. CASE TimePasses
  BY <1>15 DEF TimePasses, aws, platform, heartbeat, ticker, history
<1>16. CASE CommandProgresses
  BY <1>16 DEF CommandProgresses, Ended, aws, platform, heartbeat, ticker, history
<1>17. CASE InstancesChange
  BY <1>17 DEF InstancesChange, aws, platform, heartbeat, ticker, history
<1>18. CASE Crash
  BY <1>18 DEF Crash, aws, platform, heartbeat, ticker, history
<1>19. CASE UNCHANGED vars
  BY <1>19 DEF vars, aws, platform, heartbeat, ticker, history
<1> QED  BY <1>1, <1>2, <1>3, <1>4, <1>5, <1>6, <1>7, <1>8, <1>9, <1>10, <1>11,
            <1>12, <1>13, <1>14, <1>15, <1>16, <1>17, <1>18, <1>19 DEF Next

\* Every step keeps the types.
LEMMA TypeStep == TypeOK /\ [Next]_vars => TypeOK'
<1>1. TypeOK <=> Flags /\ Values
  BY DEF TypeOK, Flags, Values
<1>2. TypeOK' <=> Flags' /\ Values'
  BY DEF TypeOK, Flags, Values
<1> QED  BY <1>1, <1>2, FlagsStep, ValuesStep

\* Every reachable state is well typed; in particular the next tick is always to
\* come.
THEOREM TypeCorrect == Spec => []TypeOK
<1>1. Init => TypeOK
  <2>1. Init => Flags
    BY DEF Init, Flags
  <2>2. Init => Values
    BY SsmAssumption DEF Init, Values
  <2> QED  BY <2>1, <2>2 DEF TypeOK, Flags, Values
<1> QED  BY <1>1, TypeStep, PTL DEF Spec

-----------------------------------------------------------------------------
(* The command                                                             *)

Fresh == starting \/ phase \in {"new", "unprepared", "prepared", "starting"}

\* What the platform believes of the command is so, and without a fault it
\* knows everything.
CommandInv ==
    /\ Fresh => command = "none" /\ state = "empty"
    /\ phase \in {"new", "unprepared", "prepared"} => ~starting
    /\ phase \in {"running", "completed", "stopping"} => state # "empty"
    /\ request \in {"cancel", "await"} => phase = "stopping"
    /\ request = "lookup" => phase = "running"
    /\ state = "ended" => command \in Ended
    /\ phase = "stopped" /\ state # "empty" => command \in Ended
    /\ faults = 0 => (starting <=> phase = "starting")
    /\ faults = 0 /\ state = "empty" => command = "none"

\* Every step keeps what the platform knows of the command.
LEMMA CommandStep == TypeOK /\ CommandInv /\ [Next]_vars => CommandInv'
<1> SUFFICES ASSUME TypeOK, CommandInv, [Next]_vars PROVE CommandInv'
  OBVIOUS
<1> USE DEF TypeOK, CommandInv, Fresh, Fault
<1>1. CASE Prepare
  BY <1>1 DEF Prepare, aws
<1>2. CASE Start
  BY <1>2 DEF Start, aws
<1>3. CASE CommandIsSent
  BY <1>3 DEF CommandIsSent, Ended
<1>4. CASE CommandIsNotSent
  BY <1>4 DEF CommandIsNotSent
<1>5. CASE GiveUp
  BY <1>5 DEF GiveUp, aws
<1>6. CASE Status
  BY <1>6 DEF Status, aws
<1>7. CASE FindManagedInstance
  BY <1>7 DEF FindManagedInstance, aws
<1>8. CASE BeginStop
  BY <1>8 DEF BeginStop, MayStop, aws
<1>9. CASE Cancel
  BY <1>9 DEF Cancel, CancelCommandInAws
<1>10. CASE Await
  BY <1>10 DEF Await, aws
<1>11. CASE BeatOnTick \/ BeatSent \/ BeatEnds \/ Expire \/ TimePasses
  BY <1>11 DEF BeatOnTick, BeatSent, BeatEnds, Expire, TimePasses, aws, platform
<1>12. CASE CommandProgresses
  BY <1>12 DEF CommandProgresses, platform
<1>13. CASE InstancesChange
  BY <1>13 DEF InstancesChange, platform
<1>14. CASE Crash
  BY <1>14 DEF Crash
<1>15. CASE UNCHANGED vars
  BY <1>15 DEF vars, aws, platform
<1> QED  BY <1>1, <1>2, <1>3, <1>4, <1>5, <1>6, <1>7, <1>8, <1>9, <1>10, <1>11, <1>12,
            <1>13, <1>14, <1>15 DEF Next

\* At first there is no command.
LEMMA CommandInit == Init => CommandInv
BY DEF Init, CommandInv, Fresh

\* After a Stop without an error the command has ended, unless a fault has kept
\* its id from the platform.
THEOREM StopEndsTheCommand == Spec => []StoppedMeansEnded
<1>1. TypeOK /\ CommandInv => StoppedMeansEnded
  BY DEF CommandInv, StoppedMeansEnded
<1> QED  BY <1>1, CommandInit, CommandStep, TypeCorrect, PTL DEF Spec

-----------------------------------------------------------------------------
(* The heartbeats                                                          *)

\* Who sends heartbeats has an entry or a context that is done; after Stop it
\* is the latter, and at most one heartbeat is still on its way.
QuietInv ==
    /\ Fresh => beat = "none" /\ ~entry /\ late = 0
    /\ phase \in {"new", "unprepared", "prepared", "starting"} => ~calledOff
    /\ starting => phase = "starting" \/ gaveUp
    /\ beat # "none" => entry \/ done
    /\ calledOff /\ ~gaveUp => ~entry /\ late <= 1 /\ (beat = "sending" => late = 0)
    /\ ~calledOff => late = 0

\* Every step keeps the heartbeats under control.
LEMMA QuietStep == TypeOK /\ CommandInv /\ QuietInv /\ [Next]_vars => QuietInv'
<1> SUFFICES ASSUME TypeOK, CommandInv, QuietInv, [Next]_vars PROVE QuietInv'
  OBVIOUS
<1> USE DEF TypeOK, CommandInv, QuietInv, Fresh, Fault
<1>1. CASE Prepare
  BY <1>1 DEF Prepare, heartbeat, history
<1>2. CASE Start
  BY <1>2 DEF Start, heartbeat, history
<1>3. CASE CommandIsSent
  BY <1>3 DEF CommandIsSent, StartHeartbeat, heartbeat, history
<1>4. CASE CommandIsNotSent
  BY <1>4 DEF CommandIsNotSent, heartbeat, history
<1>5. CASE GiveUp
  BY <1>5 DEF GiveUp, heartbeat
<1>6. CASE Status
  BY <1>6 DEF Status, heartbeat, history
<1>7. CASE FindManagedInstance
  BY <1>7 DEF FindManagedInstance, heartbeat, history
<1>8. CASE BeginStop
  BY <1>8 DEF BeginStop, MayStop, StopHeartbeat
<1>9. CASE Cancel
  BY <1>9 DEF Cancel, heartbeat, history
<1>10. CASE Await
  BY <1>10 DEF Await, heartbeat, history
<1>11. CASE BeatOnTick
  BY <1>11 DEF BeatOnTick, platform, history
<1>12. CASE BeatSent \/ BeatEnds
  BY <1>12 DEF BeatSent, BeatEnds, platform, history
<1>13. CASE Expire \/ TimePasses
  BY <1>13 DEF Expire, TimePasses, platform, history
<1>14. CASE CommandProgresses \/ InstancesChange
  BY <1>14 DEF CommandProgresses, InstancesChange, platform, heartbeat, history
<1>15. CASE Crash
  BY <1>15 DEF Crash, history
<1>16. CASE UNCHANGED vars
  BY <1>16 DEF vars, platform, heartbeat, history
<1> QED  BY <1>1, <1>2, <1>3, <1>4, <1>5, <1>6, <1>7, <1>8, <1>9, <1>10, <1>11, <1>12,
            <1>13, <1>14, <1>15, <1>16 DEF Next

\* At first nothing is sent.
LEMMA QuietInit == Init => QuietInv
BY DEF Init, QuietInv, Fresh

\* Once Stop has called the heartbeats off, AWS accepts at most the one that was
\* on its way, unless the platform stops an execution whose Start still runs.
THEOREM HeartbeatsAreCalledOff == Spec => []CalledOffIsQuiet
<1>1. TypeOK /\ QuietInv => CalledOffIsQuiet
  BY DEF QuietInv, CalledOffIsQuiet
<1> QED  BY <1>1, QuietInit, QuietStep, CommandInit, CommandStep, TypeCorrect, PTL DEF Spec
-----------------------------------------------------------------------------
(* How many heartbeats there are                                           *)

\* The ticks that a heartbeat stands for: one per accepted heartbeat, one for
\* the heartbeat on its way and one for the tick in the channel.
Sent == beats + (IF beat = "sending" THEN 1 ELSE 0)
Ticks == Sent + (IF ticked THEN 1 ELSE 0)

\* The last tick is not later than now, and a heartbeat is sent for a tick before
\* the timeout.
BeatsInv ==
    /\ (starting \/ phase \in {"new", "unprepared", "prepared"}) =>
         beat = "none" /\ beats = 0
    /\ phase \in {"new", "unprepared", "prepared"} => ~starting
    /\ Ticks * Duration <= next - Duration
    /\ next <= age + Duration
    /\ Sent * Duration <= Timeout
    /\ beat # "none" /\ ~done => age <= Timeout

\* One more tick.
LEMMA OneMore == \A n, d \in Nat : (n + 1) * d = n * d + d
OBVIOUS

\* The time that ticks take is a number.
LEMMA Product == \A n, d \in Nat : n * d \in Nat
OBVIOUS

\* The counts are numbers.
LEMMA CountsTyped == TypeOK => Sent \in Nat /\ Ticks \in Nat /\ Sent <= Ticks
BY DEF TypeOK, Sent, Ticks

\* A smaller number of ticks takes less time.
LEMMA Monotone == \A m, n, d \in Nat : m <= n => m * d <= n * d
OBVIOUS

\* Every step keeps the counts below the time.
LEMMA BeatsStep == TypeOK /\ BeatsInv /\ [Next]_vars => BeatsInv'
<1> SUFFICES ASSUME TypeOK, BeatsInv, [Next]_vars PROVE BeatsInv'
  OBVIOUS
<1>a. TypeOK' /\ Duration \in Nat \ {0} /\ Timeout \in Nat
  BY TypeStep, SsmAssumption
<1>b. /\ Sent \in Nat /\ Ticks \in Nat /\ Sent <= Ticks
      /\ Sent' \in Nat /\ Ticks' \in Nat
  <2>1. Sent \in Nat /\ Ticks \in Nat /\ Sent <= Ticks
    BY CountsTyped
  <2>2. TypeOK' => (Sent \in Nat /\ Ticks \in Nat)'
    BY CountsTyped, PTL
  <2> QED  BY <1>a, <2>1, <2>2
<1>c. age \in Nat /\ next \in Nat /\ age < next /\ age' \in Nat /\ next' \in Nat
  BY <1>a DEF TypeOK
<1> DEFINE Early == starting \/ phase \in {"new", "unprepared", "prepared"}
<1>d. ASSUME /\ Early' => beat' = "none" /\ beats' = 0
             /\ phase' \in {"new", "unprepared", "prepared"} => ~starting',
             Sent' <= Sent, Ticks' <= Ticks, age' = age, next' = next,
             beat' # "none" /\ ~done' => beat # "none" /\ ~done
      PROVE  BeatsInv'
  <2>1. Sent' * Duration <= Sent * Duration /\ Ticks' * Duration <= Ticks * Duration
    BY <1>a, <1>b, <1>d, Monotone
  <2>2. /\ Sent * Duration \in Nat /\ Sent' * Duration \in Nat
        /\ Ticks * Duration \in Nat /\ Ticks' * Duration \in Nat
    BY <1>a, <1>b, Product
  <2> QED  BY <1>a, <1>c, <1>d, <2>1, <2>2 DEF BeatsInv
<1>e. ASSUME UNCHANGED <<beat, beats, ticked>>
      PROVE  Sent' <= Sent /\ Ticks' <= Ticks
  BY <1>b, <1>e DEF Sent, Ticks
<1> USE DEF TypeOK
<1>1. CASE Prepare \/ Start \/ GiveUp \/ CommandIsNotSent
  BY <1>1, <1>d, <1>e DEF BeatsInv, Prepare, Start, GiveUp, CommandIsNotSent, heartbeat, ticker
<1>2. CASE Status \/ FindManagedInstance
  BY <1>2, <1>d, <1>e DEF BeatsInv, Status, FindManagedInstance, heartbeat, ticker
<1>3. CASE BeginStop
  BY <1>3, <1>d, <1>e DEF BeatsInv, BeginStop, MayStop, StopHeartbeat, ticker
<1>4. CASE Cancel \/ Await
  BY <1>4, <1>d, <1>e DEF BeatsInv, Cancel, Await, heartbeat, ticker
<1>5. CASE CommandProgresses \/ InstancesChange \/ UNCHANGED vars
  BY <1>5, <1>d, <1>e DEF BeatsInv, CommandProgresses, InstancesChange, vars, platform, heartbeat, ticker
<1>6. CASE Crash
  <2>1. Sent' <= Sent /\ Ticks' <= Ticks
    BY <1>6 DEF Crash, ticker, Sent, Ticks
  <2> QED  BY <1>6, <1>d, <2>1 DEF BeatsInv, Crash, ticker
<1>7. CASE Expire
  BY <1>7, <1>d, <1>e DEF BeatsInv, Expire, platform, ticker
<1>8. CASE BeatSent \/ BeatEnds
  <2>1. Sent' <= Sent /\ Ticks' <= Ticks
    BY <1>8 DEF BeatSent, BeatEnds, ticker, Sent, Ticks
  <2> QED  BY <1>8, <1>d, <2>1 DEF BeatsInv, BeatSent, BeatEnds, platform, ticker
<1>9. CASE BeatOnTick
  <2>1. Ticks' <= Ticks
    BY <1>9 DEF BeatOnTick, Sent, Ticks
  <2>2. CASE done
    <3>1. Sent' <= Sent
      BY <1>9, <2>2 DEF BeatOnTick, Sent
    <3> QED  BY <1>9, <1>d, <2>1, <2>2, <3>1 DEF BeatsInv, BeatOnTick, platform
  <2>3. CASE ~done
    <3>1. Sent' = Ticks /\ Ticks' = Ticks
      BY <1>9, <2>3 DEF BeatOnTick, Sent, Ticks
    <3>2. Ticks * Duration \in Nat
      BY <1>a, <1>b
    <3>3. Sent' * Duration <= Timeout
      BY <1>9, <1>a, <1>c, <2>3, <3>1, <3>2 DEF BeatsInv, BeatOnTick
    <3> QED  BY <1>9, <2>3, <3>1, <3>3 DEF BeatsInv, BeatOnTick, platform
  <2> QED  BY <2>2, <2>3
<1>10. CASE TimePasses
  <2>1. Sent' = Sent /\ beat # "none" /\ age' = age + 1 /\ (age' <= Timeout \/ done)
    BY <1>10, <1>a, <1>c DEF TimePasses, Sent
  <2>2. CASE age' # next
    <3>1. Ticks' = Ticks /\ next' = next
      BY <1>10, <2>2 DEF TimePasses, Sent, Ticks
    <3> QED  BY <1>10, <1>a, <1>c, <2>1, <3>1 DEF BeatsInv, TimePasses, platform
  <2>3. CASE age' = next
    <3>1. Ticks' <= Ticks + 1 /\ next' = next + Duration
      BY <1>10, <2>3 DEF TimePasses, Sent, Ticks
    <3>2. Ticks' * Duration <= Ticks * Duration + Duration
      <4>1. Ticks + 1 \in Nat /\ Ticks' \in Nat /\ Duration \in Nat
        BY <1>a, <1>b
      <4>2. Ticks' * Duration <= (Ticks + 1) * Duration
        BY <3>1, <4>1, Monotone
      <4>3. (Ticks + 1) * Duration = Ticks * Duration + Duration
        BY <1>a, <1>b, OneMore
      <4> QED  BY <4>2, <4>3
    <3>3. Ticks * Duration \in Nat /\ Ticks' * Duration \in Nat
      BY <1>a, <1>b, Product
    <3>4. Ticks' * Duration <= next' - Duration
      BY <1>a, <1>c, <3>1, <3>2, <3>3 DEF BeatsInv
    <3> QED  BY <1>10, <1>a, <1>c, <2>1, <2>3, <3>1, <3>4 DEF BeatsInv, TimePasses, platform
  <2> QED  BY <2>2, <2>3
<1>11. CASE CommandIsSent
  <2>1. starting /\ ~starting' /\ beats = 0 /\ beat = "none"
        /\ phase' \notin {"new", "unprepared", "prepared"}
    BY <1>11 DEF BeatsInv, CommandIsSent
  <2>2. CASE UNCHANGED heartbeat
    BY <1>d, <1>e, <2>1, <2>2 DEF heartbeat, ticker
  <2>3. CASE ~UNCHANGED heartbeat
    <3>1. /\ beats' = 0 /\ ~ticked' /\ beat' # "sending"
          /\ age' = 0 /\ next' = Duration
      BY <1>11, <2>1, <2>3 DEF CommandIsSent, StartHeartbeat
    <3>2. Sent' = 0 /\ Ticks' = 0
      BY <3>1 DEF Sent, Ticks
    <3>3. 0 * Duration = 0
      BY <1>a
    <3> QED  BY <1>a, <2>1, <3>1, <3>2, <3>3 DEF BeatsInv
  <2> QED  BY <2>2, <2>3
<1> QED  BY <1>1, <1>2, <1>3, <1>4, <1>5, <1>6, <1>7, <1>8, <1>9, <1>10, <1>11 DEF Next

\* At first no tick has fired.
LEMMA BeatsInit == Init => BeatsInv
<1> SUFFICES ASSUME Init PROVE BeatsInv
  OBVIOUS
<1>1. Sent = 0 /\ Ticks = 0
  BY DEF Init, Sent, Ticks
<1>2. 0 * Duration = 0 /\ Duration \in Nat /\ Timeout \in Nat
  BY SsmAssumption
<1> QED  BY <1>1, <1>2 DEF Init, BeatsInv

\* AWS accepts no more heartbeats than the ticker fires before the timeout of
\* their context, however late the goroutine is and whatever Stop does.
THEOREM HeartbeatsAreBounded == Spec => []BeatsBounded
<1>1. TypeOK /\ BeatsInv => BeatsBounded
  <2> SUFFICES ASSUME TypeOK, BeatsInv PROVE BeatsBounded
    OBVIOUS
  <2>1. beats \in Nat /\ Sent \in Nat /\ beats <= Sent /\ Duration \in Nat /\ Timeout \in Nat
    BY SsmAssumption DEF TypeOK, Sent
  <2>2. beats * Duration <= Sent * Duration /\ beats * Duration \in Nat /\ Sent * Duration \in Nat
    BY <2>1, Monotone
  <2> QED  BY <2>1, <2>2 DEF BeatsInv, BeatsBounded
<1> QED  BY <1>1, BeatsInit, BeatsStep, TypeCorrect, PTL DEF Spec

\* With an interval that is longer than the timeout, like the 30 s and 15 s that
\* newEcsTaskSsmAction sets, AWS never accepts a heartbeat.
THEOREM NoHeartbeatByDefault == ASSUME Timeout < Duration PROVE Spec => [](beats = 0)
<1>1. TypeOK /\ BeatsBounded => beats = 0
  <2> SUFFICES ASSUME TypeOK, BeatsBounded, beats # 0 PROVE FALSE
    OBVIOUS
  <2>1. beats \in Nat /\ 1 <= beats /\ Duration \in Nat /\ Timeout \in Nat
    BY SsmAssumption DEF TypeOK
  <2>2. 1 * Duration <= beats * Duration
    BY <2>1, Monotone
  <2>3. 1 * Duration = Duration /\ beats * Duration \in Nat
    BY <2>1
  <2> QED  BY <2>1, <2>2, <2>3 DEF BeatsBounded
<1> QED  BY <1>1, HeartbeatsAreBounded, TypeCorrect, PTL
=============================================================================
