------------------------------- MODULE CoopSched -------------------------------
(***************************************************************************)
(* What the scheduler of std/sched.sx promises its fibers, without queues  *)
(* of pointers, timer scans or kernel registrations: fibers run one at a   *)
(* time in the order they became ready; virtual time moves only when       *)
(* nobody is ready, to the head of an agenda kept in wake order (deadline, *)
(* then arming); a fiber parked on an fd comes back when the fd has input; *)
(* and a wake moves a parked fiber exactly once.                           *)
(*                                                                         *)
(* FiberSched implements it (module FiberSchedRefines).                    *)
(***************************************************************************)
EXTENDS Integers, Sequences, FiniteSets

CONSTANTS
  Fiber, Fd, Null,
  Ms          \* how long fibers sleep

VARIABLES
  line,       \* the ready fibers, next to run first
  running,    \* the fiber whose body executes, or Null
  agenda,     \* the sleepers, next to wake first
  reading,    \* the set of [fd, fiber]: who waits for which fd
  parked,     \* fibers waiting for a wake only
  clock,
  input,      \* fds with input pending
  driven,     \* run or poll has the thread, or lent it to a fiber
  closed      \* deinit has begun, or the process is gone

waits    == <<agenda, reading, parked>>
coopVars == <<line, running, waits, clock, input, driven, closed>>

InLine(f)   == \E i \in DOMAIN line : line[i] = f
Asleep(f)   == \E i \in DOMAIN agenda : agenda[i].fiber = f
Waiting(f)  == f \in parked \/ Asleep(f) \/ \E r \in reading : r.fiber = f
Alive(f)    == Waiting(f) \/ InLine(f) \/ f = running

\* f leaves the agenda, if it is there.
Forget(f) ==
  IF Asleep(f)
  THEN \E i \in DOMAIN agenda :
         /\ agenda[i].fiber = f
         /\ agenda' = SubSeq(agenda, 1, i - 1) \o SubSeq(agenda, i + 1, Len(agenda))
  ELSE UNCHANGED agenda

\* f goes on the agenda after everyone due no later than d.
Note(f, d) ==
  \E k \in 0 .. Len(agenda) :
    /\ \A i \in 1 .. k : agenda[i].deadlineMs <= d
    /\ \A i \in k + 1 .. Len(agenda) : agenda[i].deadlineMs > d
    /\ agenda' = SubSeq(agenda, 1, k) \o <<[deadlineMs |-> d, fiber |-> f]>>
                   \o SubSeq(agenda, k + 1, Len(agenda))

\* Fibers act while they run; the driver acts outside its loop.
CallerHasThread == running # Null \/ ~driven

Start ==
  /\ CallerHasThread
  /\ \E f \in Fiber : ~Alive(f) /\ line' = Append(line, f)
  /\ UNCHANGED <<running, waits, clock, input, driven, closed>>

\* A waiting fiber leaves whatever it waited for and joins the line.
Rouse ==
  /\ CallerHasThread
  /\ \E f \in Fiber :
       /\ Waiting(f)
       /\ line' = Append(line, f)
       /\ Forget(f)
       /\ reading' = {r \in reading : r.fiber # f}
       /\ parked' = parked \ {f}
  /\ UNCHANGED <<running, clock, input, driven, closed>>

Run ==
  /\ driven /\ running = Null /\ line # <<>>
  /\ running' = Head(line)
  /\ line' = Tail(line)
  /\ UNCHANGED <<waits, clock, input, driven, closed>>

Yield ==
  /\ line' = Append(line, running)
  /\ UNCHANGED waits

SuspendUntilWake ==
  /\ parked' = parked \cup {running}
  /\ UNCHANGED <<line, agenda, reading>>

SleepFor(ms) ==
  /\ Note(running, clock + ms)
  /\ UNCHANGED <<line, reading, parked>>

\* One reader per fd.
AwaitInput(fd) ==
  /\ \A r \in reading : r.fd # fd
  /\ reading' = reading \cup {[fd |-> fd, fiber |-> running]}
  /\ UNCHANGED <<line, agenda, parked>>

Finish == UNCHANGED <<line, waits>>

\* The running fiber gives the thread back.
LeaveThread ==
  /\ running # Null
  /\ \/ Yield
     \/ SuspendUntilWake
     \/ \E ms \in Ms : SleepFor(ms)
     \/ \E fd \in Fd : AwaitInput(fd)
     \/ Finish
  /\ running' = Null
  /\ UNCHANGED <<clock, input, driven, closed>>

\* The loop may leave (poll) or go on (run) after a sleeper.
WakeSleeper ==
  /\ driven /\ running = Null /\ line = <<>> /\ agenda # <<>>
  /\ clock' = Head(agenda).deadlineMs
  /\ line' = <<Head(agenda).fiber>>
  /\ agenda' = Tail(agenda)
  /\ driven' \in BOOLEAN
  /\ UNCHANGED <<running, reading, parked, input, closed>>

\* Readers are looked at when nobody sleeps; several may join the line at once.
WakeReader ==
  /\ driven /\ running = Null /\ agenda = <<>>
  /\ \E r \in reading :
       /\ r.fd \in input
       /\ line' = Append(line, r.fiber)
       /\ reading' = reading \ {r}
  /\ UNCHANGED <<running, agenda, parked, clock, input, driven, closed>>

Drive ==
  /\ ~driven /\ driven' = TRUE
  /\ UNCHANGED <<line, running, waits, clock, input, closed>>

\* The loop leaves when nobody is ready, sleeps or reads.
Return ==
  /\ driven /\ running = Null /\ line = <<>> /\ agenda = <<>> /\ reading = {}
  /\ driven' = FALSE
  /\ UNCHANGED <<line, running, waits, clock, input, closed>>

Input ==
  /\ input' \in SUBSET Fd
  /\ UNCHANGED <<line, running, waits, clock, driven, closed>>

\* The process aborts.
Crash ==
  /\ closed' = TRUE /\ driven' = FALSE
  /\ UNCHANGED <<line, running, waits, clock, input>>

\* deinit drops the fibers in line, then everything that could wake another.
Discard ==
  /\ ~driven /\ line # <<>>
  /\ line' = Tail(line)
  /\ closed' = TRUE
  /\ UNCHANGED <<running, waits, clock, input, driven>>

Close ==
  /\ ~driven /\ line = <<>>
  /\ closed' = TRUE
  /\ agenda' = <<>> /\ reading' = {}
  /\ parked' = {f \in Fiber : Waiting(f)}
  /\ UNCHANGED <<line, running, clock, input, driven>>

CoopInit ==
  /\ line = <<>> /\ running = Null
  /\ agenda = <<>> /\ reading = {} /\ parked = {}
  /\ clock = 0 /\ input = {} /\ driven = FALSE /\ closed = FALSE

CoopNext ==
  \/ /\ ~closed
     /\ \/ Start \/ Rouse \/ Run \/ LeaveThread
        \/ WakeSleeper \/ WakeReader \/ Drive \/ Return
  \/ Input \/ Crash \/ Discard \/ Close

CoopSpec == CoopInit /\ [][CoopNext]_coopVars
===============================================================================
