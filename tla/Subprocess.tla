------------------------------ MODULE Subprocess ------------------------------
(***************************************************************************)
(* DWhoNotifierSubprocess._execute of dwho.classes.notifiers: a command    *)
(* line and an environment are put together, a child is spawned with two   *)
(* reader threads, a wait polls until a deadline, and the cleanup ends and *)
(* reaps the child.                                                        *)
(*                                                                         *)
(* The child is the environment: it exits when it likes, with any code; it *)
(* may ignore SIGTERM; a descendant may keep its pipes open.  A clock is   *)
(* modelled by whether the deadline of the wait in progress has passed.    *)
(***************************************************************************)
EXTENDS Integers

CONSTANTS Reader, NoCode

Code == {0, 1, -9, -15}     \* return codes: success, failure, and the two signals

ASSUME SubprocessAssumption == Reader # {} /\ NoCode \notin Code

VARIABLES
    sending,    \* send was called, not __call__
    stage,
    child,      \* "none", "alive", "zombie" once it has exited, "reaped"
    exit,       \* its exit code, once it has one
    returncode, \* proc.returncode
    stubborn,   \* the child ignores SIGTERM
    held,       \* a descendant holds the pipes open
    readers,    \* readers[r]: "none", "reading" or "closed"
    overdue,    \* the deadline of _wait_process or of join has passed
    signals,    \* the signals the child was sent
    failure,    \* the exception that the try block raised
    ending      \* how the call ended

childVars == <<sending, stage, child, exit, returncode, stubborn, held, readers, overdue,
               signals, failure, ending>>
environment == <<sending, stubborn, held>>

Stage ==
    {"prepare", "spawn", "readers", "wait", "cleanup", "terminated", "reap", "join", "done"}

ChildTypeOK ==
    /\ sending \in BOOLEAN /\ stubborn \in BOOLEAN /\ held \in BOOLEAN
    /\ stage \in Stage
    /\ child \in {"none", "alive", "zombie", "reaped"}
    /\ exit \in Code \cup {NoCode} /\ returncode \in Code \cup {NoCode}
    /\ readers \in [Reader -> {"none", "reading", "closed"}]
    /\ overdue \in BOOLEAN
    /\ signals \subseteq {"TERM", "KILL"}
    /\ failure \in {"none", "spawn", "thread", "timeout", "code"}
    /\ ending \in {"none", "true", "nothing", "raised"}

ChildInit ==
    /\ sending \in BOOLEAN /\ stubborn \in BOOLEAN /\ held \in BOOLEAN
    /\ stage = "prepare" /\ child = "none" /\ exit = NoCode /\ returncode = NoCode
    /\ readers = [r \in Reader |-> "none"]
    /\ overdue = FALSE /\ signals = {} /\ failure = "none" /\ ending = "none"

-----------------------------------------------------------------------------
(* The caller                                                              *)

Fail(why) == failure' = why /\ stage' = "cleanup"

\* Without a path send raises and __call__ returns; invalid arguments or variables
\* raise from both, before the try block.
Prepare ==
    /\ stage = "prepare"
    /\ \/ stage' = "spawn" /\ UNCHANGED ending
       \/ stage' = "done" /\ ending' = "raised"
       \/ ~sending /\ stage' = "done" /\ ending' = "nothing"
    /\ UNCHANGED <<child, exit, returncode, readers, overdue, signals, failure,
                   environment>>

Spawn ==
    /\ stage = "spawn"
    /\ \/ child' = "alive" /\ stage' = "readers" /\ UNCHANGED failure
       \/ Fail("spawn") /\ UNCHANGED child
    /\ UNCHANGED <<exit, returncode, readers, overdue, signals, ending, environment>>

\* Starting a thread fails when the process has too many.
StartReader ==
    /\ stage = "readers"
    /\ \/ /\ \E r \in Reader : readers[r] = "none"
                               /\ readers' = [readers EXCEPT ![r] = "reading"]
          /\ UNCHANGED <<stage, overdue, failure>>
       \/ /\ \E r \in Reader : readers[r] = "none"
          /\ Fail("thread")
          /\ UNCHANGED <<readers, overdue>>
       \/ /\ \A r \in Reader : readers[r] # "none"
          /\ stage' = "wait" /\ overdue' = FALSE
          /\ UNCHANGED <<readers, failure>>
    /\ UNCHANGED <<child, exit, returncode, signals, ending, environment>>

\* poll and wait: waitpid reaps a child that has exited.
Reap == child = "zombie" /\ child' = "reaped" /\ returncode' = exit

WaitSucceeds ==
    /\ stage = "wait" /\ Reap
    /\ IF exit = 0 THEN stage' = "cleanup" /\ UNCHANGED failure ELSE Fail("code")
    /\ UNCHANGED <<exit, readers, overdue, signals, ending, environment>>

\* The child was alive when it was polled, and the deadline has passed.
WaitTimesOut ==
    /\ stage = "wait" /\ child = "alive" /\ overdue
    /\ Fail("timeout")
    /\ UNCHANGED <<child, exit, returncode, readers, overdue, signals, ending,
                   environment>>

\* finally: a child that has exited, reaped or not, is left alone.
CleanupReaped ==
    /\ stage = "cleanup"
    /\ \/ child \in {"none", "reaped"} /\ UNCHANGED <<child, returncode>>
       \/ Reap
    /\ stage' = "join" /\ overdue' = FALSE
    /\ UNCHANGED <<exit, readers, signals, failure, ending, environment>>

\* It was alive when polled: it is asked to end, even if it exits meanwhile.
Terminate ==
    /\ stage = "cleanup" /\ child = "alive"
    /\ signals' = signals \cup {"TERM"}
    /\ stage' = "terminated" /\ overdue' = FALSE
    /\ UNCHANGED <<child, exit, returncode, readers, failure, ending, environment>>

Terminated ==
    /\ stage = "terminated" /\ Reap
    /\ stage' = "join" /\ overdue' = FALSE
    /\ UNCHANGED <<exit, readers, signals, failure, ending, environment>>

\* Mutants: SIGTERM is sent once more; or nobody reaps.
Kill_Again ==
    /\ stage = "terminated" /\ child = "alive" /\ overdue
    /\ signals' = signals \cup {"TERM"}
    /\ stage' = "reap"
    /\ UNCHANGED <<child, exit, returncode, readers, overdue, failure, ending,
                   environment>>

Kill_Unreaped ==
    /\ stage = "terminated" /\ child = "alive" /\ overdue
    /\ signals' = signals \cup {"KILL"}
    /\ stage' = "join" /\ overdue' = FALSE
    /\ UNCHANGED <<child, exit, returncode, readers, failure, ending, environment>>

\* One second later it was still alive.
Kill ==
    /\ stage = "terminated" /\ child = "alive" /\ overdue
    /\ signals' = signals \cup {"KILL"}
    /\ stage' = "reap"
    /\ UNCHANGED <<child, exit, returncode, readers, overdue, failure, ending,
                   environment>>

\* wait, without a timeout.
ReapKilled ==
    /\ stage = "reap" /\ Reap
    /\ stage' = "join" /\ overdue' = FALSE
    /\ UNCHANGED <<exit, readers, signals, failure, ending, environment>>

\* Mutant: the return code is not looked at.
Result_Ignored ==
    IF failure \notin {"none", "code"} THEN (IF sending THEN "raised" ELSE "nothing")
    ELSE IF sending THEN "true" ELSE "nothing"

\* send raises or returns True; __call__ logs and returns nothing.
Result ==
    IF ~sending THEN "nothing" ELSE IF failure = "none" THEN "true" ELSE "raised"

\* join(1.0) of each reader: when all have ended, or time is up.
JoinReaders ==
    /\ stage = "join"
    /\ overdue \/ \A r \in Reader : readers[r] # "reading"
    /\ ending' = Result
    /\ stage' = "done"
    /\ UNCHANGED <<child, exit, returncode, readers, overdue, signals, failure,
                   environment>>

CallerStep ==
    \/ Prepare \/ Spawn \/ StartReader \/ WaitSucceeds \/ WaitTimesOut
    \/ CleanupReaped \/ Terminate \/ Terminated \/ Kill \/ ReapKilled \/ JoinReaders

-----------------------------------------------------------------------------
(* The environment                                                         *)

Deadline ==
    /\ stage \in {"wait", "terminated", "join"} /\ ~overdue
    /\ overdue' = TRUE
    /\ UNCHANGED <<stage, child, exit, returncode, readers, signals, failure, ending,
                   environment>>

Exit(code) ==
    /\ child = "alive"
    /\ child' = "zombie" /\ exit' = code
    /\ UNCHANGED <<stage, returncode, readers, overdue, signals, failure, ending,
                   environment>>

\* A signal ends the child; SIGTERM may be ignored, SIGKILL may not.
Signalled ==
    \/ "KILL" \in signals /\ Exit(-9)
    \/ "TERM" \in signals /\ ~stubborn /\ Exit(-15)

\* _proc_std: end of file, unless a descendant holds the pipe.
ReadEnd(r) ==
    /\ readers[r] = "reading" /\ child \in {"zombie", "reaped"} /\ ~held
    /\ readers' = [readers EXCEPT ![r] = "closed"]
    /\ UNCHANGED <<stage, child, exit, returncode, overdue, signals, failure, ending,
                   environment>>

Environment ==
    \/ Deadline \/ Exit(0) \/ Exit(1) \/ Signalled \/ \E r \in Reader : ReadEnd(r)

ChildNext == CallerStep \/ Environment

ChildSpec == ChildInit /\ [][ChildNext]_childVars

\* The caller is scheduled, time passes and the kernel delivers signals.  Neither
\* an exit of the child on its own nor the end of its output is assumed.
ChildFairSpec ==
    /\ ChildSpec
    /\ WF_childVars(CallerStep) /\ WF_childVars(Deadline) /\ WF_childVars(Signalled)

-----------------------------------------------------------------------------
\* README.md:85: no call leaves a child behind, running or unreaped, whichever of
\* preparing, spawning, reading, waiting or ending it went wrong.
ChildReaped == stage = "done" => child \in {"none", "reaped"}

\* send returns True only for a child that ended by itself, in time, with code 0.
TrueMeansSuccess == ending = "true" => returncode = 0 /\ signals = {}

\* A call returns, though the child ignores SIGTERM and its pipes stay open.
CallReturns == <>(stage = "done")
=============================================================================
