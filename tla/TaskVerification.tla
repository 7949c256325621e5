-------------------------- MODULE TaskVerification --------------------------
(***************************************************************************)
(* packages/server/src/tasks/verification.ts: one run of a task's check.   *)
(* runVerification captures the worktree (HEAD, the diff of tracked files, *)
(* the untracked files), rebuilds it in a disposable checkout, runs the    *)
(* command there, and captures the worktree again to see whether it has    *)
(* changed.  Git commands and file reads are separate steps: whoever works *)
(* in the worktree, an agent or a user, may edit it between any two.       *)
(*                                                                         *)
(* Contents are numbers, one per version ever written; a path that is not  *)
(* there is Absent.  The diff is identified by the pair of the HEAD and    *)
(* the tracked files it was taken of, the snapshot id by what it hashes.   *)
(* Ignored files and node_modules (a link to the live one) are left out.   *)
(***************************************************************************)
EXTENDS Naturals

CONSTANTS NumFiles,   \* untracked paths, numbered in the order they are read
          MaxEdits,   \* bound: versions written during the run
          Absent,     \* no such untracked file
          Unread      \* what a capture or a copy has not got to yet

ASSUME FilesBound == NumFiles \in Nat
ASSUME EditsBound == MaxEdits \in Nat
ASSUME MarksDiffer == Absent # Unread /\ {Absent, Unread} \cap Nat = {}

Files == 1 .. NumFiles

VARIABLES tree,       \* the worktree
          clock,      \* the last version written
          stage,      \* where runVerification is
          cap,        \* the capture in progress
          snapshot,   \* the first capture, once complete
          checkout,   \* the disposable checkout: what the command sees
          onDisk,     \* the checkout's temporary directory exists
          command,    \* the child process and the timer
          verdict,    \* the status returned
          before,     \* history: the worktree when the command was started
          restored    \* history: content written earlier has come back

vars == <<tree, clock, stage, cap, snapshot, checkout, onDisk, command, verdict, before,
          restored>>
world == <<tree, clock, restored>>
runVars == <<stage, cap, snapshot, checkout, onDisk, command, verdict, before>>

Trees == [head : Nat, tracked : Nat, files : [Files -> Nat \cup {Absent}]]
Captures == [head : Nat \cup {Unread}, diff : (Nat \X Nat) \cup {Unread},
             files : [Files -> Nat \cup {Absent, Unread}], listed : BOOLEAN]
Statuses == {"none", "passed", "failed", "timed_out", "stale", "error"}

NothingRead == [head |-> Unread, diff |-> Unread,
                files |-> [f \in Files |-> Unread], listed |-> FALSE]
NoCommand == [exited |-> "running", left |-> FALSE, timedOut |-> FALSE]

Init == /\ tree \in [head : {0}, tracked : {0}, files : [Files -> {0, Absent}]]
        /\ clock = 0
        /\ stage = "capture"
        /\ cap = NothingRead
        /\ snapshot = NothingRead
        /\ checkout = NothingRead
        /\ onDisk = FALSE
        /\ command = NoCommand
        /\ verdict = "none"
        /\ before = tree
        /\ restored = FALSE

-----------------------------------------------------------------------------
(* The worktree: a commit or a checkout, an edit of tracked files, an        *)
(* untracked file written or removed (or added to git).                      *)

Write(version) == \/ tree' = [tree EXCEPT !.head = version]
                  \/ tree' = [tree EXCEPT !.tracked = version]
                  \/ \E f \in Files : tree' = [tree EXCEPT !.files[f] = version]

Remove == \E f \in Files : /\ tree.files[f] # Absent
                           /\ tree' = [tree EXCEPT !.files[f] = Absent]

\* Whoever works in the worktree may change it at any moment of the run.
Touches == /\ clock < MaxEdits
           /\ stage # "ended"
           /\ clock' = clock + 1
           /\ UNCHANGED runVars

\* An edit that brings content never seen before, or takes a file away.
Edit == /\ Touches
        /\ Write(clock + 1) \/ Remove
        /\ UNCHANGED restored

\* An undo, a stash or a checkout: content of an earlier moment comes back.
Restore == /\ Touches
           /\ \E version \in 0 .. clock : Write(version)
           /\ restored' = TRUE

-----------------------------------------------------------------------------
(* captureWorkspace: three git commands at once, then the untracked files.   *)

Capturing == stage \in {"capture", "recapture"}

ReadHead == /\ Capturing
            /\ cap.head = Unread
            /\ cap' = [cap EXCEPT !.head = tree.head]
            /\ UNCHANGED <<world, stage, snapshot, checkout, onDisk, command, verdict,
                           before>>

ReadDiff == /\ Capturing
            /\ cap.diff = Unread
            /\ cap' = [cap EXCEPT !.diff = <<tree.head, tree.tracked>>]
            /\ UNCHANGED <<world, stage, snapshot, checkout, onDisk, command, verdict,
                           before>>

ListFiles == /\ Capturing
             /\ ~cap.listed
             /\ cap' = [cap EXCEPT !.listed = TRUE,
                           !.files = [f \in Files |-> IF tree.files[f] = Absent
                                                      THEN Absent ELSE Unread]]
             /\ UNCHANGED <<world, stage, snapshot, checkout, onDisk, command, verdict,
                           before>>

\* Promise.all has settled.
GitDone == cap.head # Unread /\ cap.diff # Unread /\ cap.listed

\* The next file a capture or a copy has to read, in sorted order.
NextOf(files, f) == /\ files[f] = Unread
                    /\ \A g \in Files : g < f => files[g] # Unread

ReadFile(f) == /\ Capturing
               /\ GitDone
               /\ NextOf(cap.files, f)
               /\ tree.files[f] # Absent
               /\ cap' = [cap EXCEPT !.files[f] = tree.files[f]]
               /\ UNCHANGED <<world, stage, snapshot, checkout, onDisk, command, verdict,
                           before>>

\* A git command fails or prints too much, or a listed file is gone (ENOENT is
\* one such failure): the run throws.
CaptureThrows == /\ Capturing
                 /\ stage' = "ended"
                 /\ verdict' = "error"
                 /\ UNCHANGED <<world, cap, snapshot, checkout, onDisk, command, before>>

Captured == GitDone /\ \A f \in Files : cap.files[f] # Unread

\* The first capture is the snapshot; the checkout's directory is made.
Snapshot == /\ stage = "capture"
            /\ Captured
            /\ snapshot' = cap
            /\ cap' = NothingRead
            /\ onDisk' = TRUE
            /\ stage' = "clone"
            /\ UNCHANGED <<world, checkout, command, verdict, before>>

-----------------------------------------------------------------------------
(* materializeWorkspace. *)

\* Clone, check the base commit out and apply the captured diff.  (A diff taken of
\* another commit may apply or not.)
CloneAndApply ==
    /\ stage = "clone"
    /\ checkout' = [snapshot EXCEPT !.files = [f \in Files |->
                       IF snapshot.files[f] = Absent THEN Absent ELSE Unread]]
    /\ stage' = "copy"
    /\ UNCHANGED <<world, cap, snapshot, onDisk, command, verdict, before>>

\* The captured untracked files are copied from the worktree as it is now.
CopyFile(f) ==
    /\ stage = "copy"
    /\ NextOf(checkout.files, f)
    /\ tree.files[f] # Absent
    /\ checkout' = [checkout EXCEPT !.files[f] = tree.files[f]]
    /\ UNCHANGED <<world, stage, cap, snapshot, onDisk, command, verdict, before>>

\* Mutant of MaterializeThrows: the temporary directory stays.
MaterializeThrows_NoCleanup ==
    /\ stage \in {"clone", "copy"}
    /\ stage' = "ended"
    /\ verdict' = "error"
    /\ UNCHANGED <<world, cap, snapshot, checkout, onDisk, command, before>>

\* Git or a copy fails: the directory is removed and the run throws.
MaterializeThrows ==
    /\ stage \in {"clone", "copy"}
    /\ onDisk' = FALSE
    /\ stage' = "ended"
    /\ verdict' = "error"
    /\ UNCHANGED <<world, cap, snapshot, checkout, command, before>>

-----------------------------------------------------------------------------
(* executeVerificationCommand and the verdict. *)

StartCommand ==
    /\ stage = "copy"
    /\ \A f \in Files : checkout.files[f] # Unread
    /\ stage' = "run"
    /\ before' = tree
    /\ UNCHANGED <<world, cap, snapshot, checkout, onDisk, command, verdict>>

\* The child cannot even be spawned (the command line is too long): this is outside
\* the try of materializeWorkspace and the directory stays.
SpawnThrows ==
    /\ stage = "run"
    /\ command = NoCommand
    /\ command' = [command EXCEPT !.exited = "threw"]
    /\ stage' = "ended"
    /\ verdict' = "error"
    /\ UNCHANGED <<world, cap, snapshot, checkout, onDisk, before>>

\* The shell exits by itself, with exit code 0 or another.  It may leave processes
\* behind that hold its output open.
CommandExits(result) ==
    /\ stage = "run"
    /\ command.exited = "running"
    /\ \E left \in BOOLEAN :
          command' = [command EXCEPT !.exited = result, !.left = left]
    /\ UNCHANGED <<world, stage, cap, snapshot, checkout, onDisk, verdict, before>>

\* The last of them ends or closes its output.
LeftoversEnd ==
    /\ stage = "run"
    /\ command.left
    /\ command' = [command EXCEPT !.left = FALSE]
    /\ UNCHANGED <<world, stage, cap, snapshot, checkout, onDisk, verdict, before>>

\* The event that is waited for: the shell has exited and its output is closed.
Closed == command.exited # "running" /\ ~command.left

\* The timer marks the run as timed out and asks for the process tree to be killed ...
TimerFires ==
    /\ stage = "run"
    /\ ~Closed
    /\ ~command.timedOut
    /\ command' = [command EXCEPT !.timedOut = TRUE]
    /\ UNCHANGED <<world, stage, cap, snapshot, checkout, onDisk, verdict, before>>

\* ... which does nothing once the shell has exited, and which stops as soon as the
\* shell has exited: a descendant that ignores the first signal is left behind.
KillTree ==
    /\ stage = "run"
    /\ command.timedOut
    /\ command.exited = "running"
    /\ \E left \in BOOLEAN :
          command' = [command EXCEPT !.exited = "killed", !.left = left]
    /\ UNCHANGED <<world, stage, cap, snapshot, checkout, onDisk, verdict, before>>

\* Mutant of CleanUp: it waits for an exit code, which a killed shell has not.
CleanUp_NeedsExitCode ==
    /\ stage = "run"
    /\ Closed
    /\ command.exited \in {"zero", "nonzero"}
    /\ onDisk' = FALSE
    /\ stage' = "recapture"
    /\ UNCHANGED <<world, cap, snapshot, checkout, command, verdict, before>>

\* The directory is removed and the second capture begins.
CleanUp ==
    /\ stage = "run"
    /\ Closed
    /\ onDisk' = FALSE
    /\ stage' = "recapture"
    /\ UNCHANGED <<world, cap, snapshot, checkout, command, verdict, before>>

\* The directory cannot be removed: the run throws.
CleanUpThrows ==
    /\ stage = "run"
    /\ Closed
    /\ command' = [command EXCEPT !.exited = "threw"]
    /\ stage' = "ended"
    /\ verdict' = "error"
    /\ UNCHANGED <<world, cap, snapshot, checkout, onDisk, before>>

\* Mutant of Status: the second capture is not looked at.
Status_Unchanged(exited, timedOut, changed) ==
    CASE timedOut -> "timed_out"
      [] ~timedOut /\ exited = "zero" -> "passed"
      [] OTHER -> "failed"

\* stale beats timed_out beats the exit code (which is null after a timeout).
Status(exited, timedOut, changed) ==
    CASE changed -> "stale"
      [] timedOut /\ ~changed -> "timed_out"
      [] ~timedOut /\ ~changed /\ exited = "zero" -> "passed"
      [] OTHER -> "failed"

Judge == /\ stage = "recapture"
         /\ Captured
         /\ verdict' = Status(command.exited, command.timedOut, cap # snapshot)
         /\ stage' = "ended"
         /\ UNCHANGED <<world, cap, snapshot, checkout, onDisk, command, before>>

\* The run has returned or thrown.
Done == stage = "ended" /\ UNCHANGED vars

-----------------------------------------------------------------------------

RunStep == \/ ReadHead \/ ReadDiff \/ ListFiles
           \/ \E f \in Files : ReadFile(f) \/ CopyFile(f)
           \/ Snapshot \/ CloneAndApply
           \/ StartCommand \/ TimerFires \/ KillTree
           \/ CleanUp \/ Judge

Throws == CaptureThrows \/ MaterializeThrows \/ SpawnThrows \/ CleanUpThrows

\* The file to be read or copied next is gone: the run can only throw.
FileGone == \E f \in Files :
    /\ tree.files[f] = Absent
    /\ \/ Capturing /\ GitDone /\ NextOf(cap.files, f)
       \/ stage = "copy" /\ NextOf(checkout.files, f)

Next == \/ RunStep
        \/ Throws
        \/ \E result \in {"zero", "nonzero"} : CommandExits(result)
        \/ LeftoversEnd
        \/ Edit
        \/ Restore
        \/ Done

Spec == Init /\ [][Next]_vars

\* Git commands, copies, the timer and the kill go on; the command, what it leaves
\* behind and the world need not.  Nothing has to fail but the read of a missing file.
FairSpec == Spec /\ WF_vars(RunStep) /\ WF_vars(FileGone /\ Throws)

-----------------------------------------------------------------------------
(* Properties. *)

\* The variables have their types, and the temporary directory exists exactly while
\* the run uses it, unless the spawn or the removal itself throws.
TypeOK == /\ tree \in Trees
          /\ clock \in 0 .. MaxEdits
          /\ stage \in {"capture", "clone", "copy", "run", "recapture", "ended"}
          /\ {cap, snapshot, checkout} \subseteq Captures
          /\ onDisk = (stage \in {"clone", "copy", "run"} \/ command.exited = "threw")
          /\ command \in [exited : {"running", "zero", "nonzero", "killed", "threw"},
                          left : BOOLEAN, timedOut : BOOLEAN]
          /\ verdict \in Statuses
          /\ before \in Trees
          /\ restored \in BOOLEAN

Judged == stage = "ended" /\ verdict \in {"passed", "failed", "timed_out"}

\* As long as no edit brings earlier content back, a verdict other than stale is
\* about one state of the worktree: the snapshot is not torn (its diff was taken of
\* its base commit), the command ran on exactly the snapshot, and the worktree had
\* that content while the command was started.  The exception is the code's: a file
\* is copied from the worktree after the capture and may have its old content again
\* at the second one, so the command may have run on a version that comes and goes.
VerdictIsOfOneState ==
    ~restored /\ Judged =>
        /\ checkout = snapshot
        /\ snapshot.diff = <<snapshot.head, before.tracked>>
        /\ before.head = snapshot.head
        /\ \A f \in Files : snapshot.files[f] # Absent
              => before.files[f] = snapshot.files[f]

\* Every run ends, even of a command that does not, if the processes it leaves behind
\* do not hold its output for ever (the deadline does not reach those).
RunEnds == []<>(~command.left) => <>(stage = "ended")
=============================================================================
