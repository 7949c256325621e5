----------------------- MODULE TaskVerificationProofs -----------------------
(***************************************************************************)
(* A verdict that is not stale is about one state of the worktree, for any *)
(* number of files and edits, as long as no edit brings earlier content    *)
(* back.  Until then every version written is new, so versions order the   *)
(* reads: what the run read first is not newer than what it read later,    *)
(* and two captures that agree pin everything in between.                  *)
(***************************************************************************)
EXTENDS TaskVerification, TLAPS

FilesNotAfter(x, y) == \A f \in Files : x[f] \in Nat /\ y[f] \in Nat => x[f] <= y[f]
FilesWritten(x) == \A f \in Files : x[f] \in Nat => x[f] <= clock

\* What capture c has read of git is not newer, or not older, than tree t.
GitNotAfter(c, t) == /\ c.head # Unread => c.head <= t.head
                     /\ c.diff # Unread => c.diff[1] <= t.head /\ c.diff[2] <= t.tracked
GitNotBefore(c, t) == /\ c.head # Unread => t.head <= c.head
                      /\ c.diff # Unread => t.head <= c.diff[1] /\ t.tracked <= c.diff[2]

\* A captured file that was missing when the command started comes back newer.
Replaced(files) == \A f \in Files :
    /\ before.files[f] = Absent
    /\ snapshot.files[f] \in Nat
    /\ files[f] \in Nat
    => snapshot.files[f] < files[f]

Written == /\ tree.head <= clock /\ tree.tracked <= clock
           /\ FilesWritten(tree.files)
           /\ FilesWritten(cap.files)
           /\ FilesWritten(snapshot.files)
           /\ FilesWritten(checkout.files)
           /\ FilesWritten(before.files)

\* Nothing recorded is newer than the worktree.
Past == /\ GitNotAfter(cap, tree)
        /\ GitNotAfter(snapshot, tree)
        /\ before.head <= tree.head /\ before.tracked <= tree.tracked
        /\ FilesNotAfter(cap.files, tree.files)
        /\ FilesNotAfter(snapshot.files, tree.files)
        /\ FilesNotAfter(checkout.files, tree.files)
        /\ FilesNotAfter(before.files, tree.files)
        /\ FilesNotAfter(snapshot.files, checkout.files)

\* What each stage can rely on.
Snapshotted == stage \in {"clone", "copy", "run", "recapture"} =>
    /\ snapshot.head # Unread /\ snapshot.diff # Unread
    /\ \A f \in Files : snapshot.files[f] # Unread
    /\ stage # "recapture" => cap = NothingRead
NotStarted == /\ stage \in {"capture", "clone"} => checkout = NothingRead
              /\ stage \in {"capture", "clone", "copy"} => command = NoCommand
              /\ stage # "ended" => command.exited # "threw"
Cloned == stage \in {"copy", "run", "recapture"} =>
    /\ checkout.head = snapshot.head
    /\ checkout.diff = snapshot.diff
    /\ checkout.listed = snapshot.listed
    /\ \A f \in Files : checkout.files[f] = Absent <=> snapshot.files[f] = Absent
Started == stage \in {"run", "recapture"} =>
    /\ \A f \in Files : checkout.files[f] # Unread
    /\ GitNotAfter(snapshot, before)
    /\ FilesNotAfter(checkout.files, before.files)
    /\ Replaced(tree.files)
Recaptured == stage = "recapture" =>
    /\ GitNotBefore(cap, before)
    /\ FilesNotAfter(before.files, cap.files)
    /\ FilesNotAfter(checkout.files, cap.files)
    /\ Replaced(cap.files)

Reads == Written /\ Past /\ Snapshotted /\ NotStarted /\ Cloned /\ Started /\ Recaptured
Inv == TypeOK /\ NotStarted /\ (~restored => Reads) /\ VerdictIsOfOneState

-----------------------------------------------------------------------------

\* The initial state satisfies the invariant: nothing has been read.
LEMMA InitInv == Init => Inv
  <1> SUFFICES ASSUME Init PROVE Inv
    OBVIOUS
  <1> USE FilesBound, EditsBound, MarksDiffer DEF Init, NothingRead, NoCommand
  <1>1. TypeOK
    <2>1. [f \in Files |-> Unread] \in [Files -> Nat \cup {Absent, Unread}]
      OBVIOUS
    <2>2. tree \in Trees /\ before \in Trees
      <3>1. PICK h \in {0}, t \in {0}, fs \in [Files -> {0, Absent}] :
                tree = [head |-> h, tracked |-> t, files |-> fs]
        OBVIOUS
      <3>2. fs \in [Files -> Nat \cup {Absent}]
        OBVIOUS
      <3> QED
        BY <3>1, <3>2 DEF Trees
    <2>3. NothingRead \in Captures
      BY <2>1 DEF Captures
    <2>4. {cap, snapshot, checkout} \subseteq Captures
      BY <2>3
    <2>5. clock \in 0 .. MaxEdits
      OBVIOUS
    <2> QED
      BY <2>2, <2>4, <2>5 DEF TypeOK, Statuses
  <1>2. Written /\ Past
    BY DEF Written, Past, FilesWritten, FilesNotAfter, GitNotAfter
  <1>3. Snapshotted /\ NotStarted /\ Cloned /\ Started /\ Recaptured
    BY DEF Snapshotted, NotStarted, Cloned, Started, Recaptured
  <1>4. VerdictIsOfOneState
    BY DEF VerdictIsOfOneState, Judged
  <1> QED
    BY <1>1, <1>2, <1>3, <1>4 DEF Inv, Reads

\* Every step keeps the types; NotStarted says when the child may not have thrown.
LEMMA TypeStep ==
    ASSUME TypeOK, NotStarted, [Next]_vars
    PROVE  TypeOK'
  <1> USE FilesBound, EditsBound, MarksDiffer
          DEF TypeOK, Trees, Captures, Statuses, world, runVars, NotStarted, NoCommand
  <1>1. CASE ReadHead
    BY <1>1 DEF ReadHead, Capturing
  <1>2. CASE ReadDiff
    BY <1>2 DEF ReadDiff, Capturing
  <1>3. CASE ListFiles
    <2>1. [f \in Files |-> IF tree.files[f] = Absent THEN Absent ELSE Unread]
             \in [Files -> Nat \cup {Absent, Unread}]
      OBVIOUS
    <2>2. cap' \in Captures
      BY <1>3, <2>1 DEF ListFiles
    <2>3. /\ snapshot' = snapshot /\ checkout' = checkout /\ onDisk' = onDisk
          /\ tree' = tree /\ clock' = clock /\ stage' = stage /\ command' = command
          /\ verdict' = verdict /\ before' = before /\ restored' = restored
      BY ONLY <1>3 DEF ListFiles, world
    <2>4. {cap', snapshot', checkout'} \subseteq Captures
      BY ONLY TypeOK, <2>2, <2>3 DEF TypeOK
    <2> QED
      BY ONLY TypeOK, <2>3, <2>4 DEF TypeOK
  <1>4. ASSUME NEW f \in Files, ReadFile(f)
        PROVE  TypeOK'
    BY <1>4 DEF ReadFile, Capturing
  <1>5. ASSUME NEW f \in Files, CopyFile(f)
        PROVE  TypeOK'
    BY <1>5 DEF CopyFile
  <1>6. CASE CaptureThrows
    BY <1>6 DEF CaptureThrows, Capturing
  <1>7. CASE Snapshot
    BY <1>7 DEF Snapshot, NothingRead
  <1>8. CASE CloneAndApply
    BY <1>8 DEF CloneAndApply
  <1>9. CASE MaterializeThrows
    BY <1>9 DEF MaterializeThrows
  <1>10. CASE StartCommand
    BY <1>10 DEF StartCommand
  <1>11. CASE SpawnThrows
    BY <1>11 DEF SpawnThrows
  <1>12. CASE TimerFires
    BY <1>12 DEF TimerFires, Closed
  <1>13. CASE KillTree
    BY <1>13 DEF KillTree
  <1>14. CASE CleanUp
    BY <1>14 DEF CleanUp, Closed
  <1>15. CASE CleanUpThrows
    BY <1>15 DEF CleanUpThrows, Closed
  <1>16. CASE Judge
    BY <1>16 DEF Judge, Status
  <1>17. ASSUME NEW result \in {"zero", "nonzero"}, CommandExits(result)
         PROVE  TypeOK'
    BY <1>17 DEF CommandExits
  <1>18. CASE LeftoversEnd
    BY <1>18 DEF LeftoversEnd
  <1>19. CASE Edit \/ Restore
    <2>1. clock' \in 0 .. MaxEdits
      <3>1. clock' = clock + 1 /\ clock < MaxEdits /\ clock \in 0 .. MaxEdits
        BY ONLY <1>19, TypeOK DEF TypeOK, Edit, Restore, Touches
      <3> QED
        BY ONLY <3>1, EditsBound
    <2>2. restored' \in BOOLEAN
      BY ONLY <1>19, TypeOK, Zenon DEF TypeOK, Edit, Restore
    <2>3. /\ stage' = stage /\ cap' = cap /\ snapshot' = snapshot /\ checkout' = checkout
          /\ onDisk' = onDisk /\ command' = command /\ verdict' = verdict
          /\ before' = before
      BY ONLY <1>19 DEF Edit, Restore, Touches, runVars
    <2>4. ASSUME NEW version \in Nat, Write(version)
          PROVE  tree' \in Trees
      <3>1. tree \in Trees
        BY DEF TypeOK
      <3>2. CASE \/ tree' = [tree EXCEPT !.head = version]
                 \/ tree' = [tree EXCEPT !.tracked = version]
        BY ONLY version \in Nat, <3>1, <3>2 DEF Trees
      <3>3. ASSUME NEW f \in Files, tree' = [tree EXCEPT !.files[f] = version]
            PROVE  tree' \in Trees
        BY ONLY version \in Nat, f \in Files, <3>1, <3>3 DEF Trees
      <3> QED
        BY ONLY Write(version), <3>2, <3>3 DEF Write
    <2>5. tree' \in Trees
      <3>1. Remove => tree' \in Trees
        BY DEF Remove
      <3>2. clock + 1 \in Nat /\ 0 .. clock \subseteq Nat
        OBVIOUS
      <3>3. (\E version \in Nat : Write(version)) \/ Remove
        BY <1>19, <3>2 DEF Edit, Restore
      <3> QED
        BY <2>4, <3>1, <3>3
    <2> QED
      BY ONLY TypeOK, <2>1, <2>2, <2>3, <2>5 DEF TypeOK
  <1>20. CASE Done \/ UNCHANGED vars
    BY <1>20 DEF Done, vars
  <1> QED
    BY <1>1, <1>2, <1>3, <1>4, <1>5, <1>6, <1>7, <1>8, <1>9, <1>10, <1>11, <1>12, <1>13,
       <1>14, <1>15, <1>16, <1>17, <1>18, <1>19, <1>20 DEF Next, RunStep, Throws

-----------------------------------------------------------------------------

Ends == CaptureThrows \/ MaterializeThrows \/ SpawnThrows \/ CleanUpThrows \/ Judge
CommandSteps == \/ TimerFires \/ KillTree \/ LeftoversEnd
                \/ \E result \in {"zero", "nonzero"} : CommandExits(result)

\* The steps that leave every read alone: they end the run or are the child's.
LEMMA QuietStep ==
    ASSUME TypeOK, TypeOK', Reads, Ends \/ CommandSteps \/ Done \/ UNCHANGED vars
    PROVE  Reads'
  <1> USE DEF Reads, Written, Past, FilesWritten, FilesNotAfter, GitNotAfter, GitNotBefore,
              Replaced, world, runVars
  <1>1. CASE Ends
    BY <1>1 DEF Ends, CaptureThrows, MaterializeThrows, SpawnThrows, CleanUpThrows, Judge,
                Snapshotted, NotStarted, Cloned, Started, Recaptured
  <1>2. CASE CommandSteps
    <2>1. command'.exited # "threw" /\ stage = "run" /\ UNCHANGED <<world, stage, cap, snapshot,
                                                    checkout, onDisk, verdict, before>>
      BY <1>2 DEF CommandSteps, TimerFires, KillTree, LeftoversEnd, CommandExits, NotStarted,
                  TypeOK
    <2> QED
      BY <2>1 DEF Snapshotted, NotStarted, Cloned, Started, Recaptured
  <1>3. CASE Done \/ UNCHANGED vars
    BY <1>3 DEF Done, vars, Snapshotted, NotStarted, Cloned, Started, Recaptured
  <1> QED
    BY <1>1, <1>2, <1>3

\* An edit writes a version newer than anything recorded.
LEMMA EditStep ==
    ASSUME TypeOK, TypeOK', Reads, Edit
    PROVE  Reads'
  <1> USE FilesBound, EditsBound, MarksDiffer
          DEF Reads, TypeOK, Trees, Captures, Edit, Touches, Write, Remove, runVars
  <1>1. Written'
    BY DEF Written, FilesWritten
  <1>2. Past'
    <2>1. tree'.head \in Nat /\ tree'.tracked \in Nat
            /\ tree.head <= tree'.head /\ tree.tracked <= tree'.tracked
      BY DEF Written
    <2>2. ASSUME NEW c \in Captures, GitNotAfter(c, tree)
          PROVE  GitNotAfter(c, tree')
      BY <2>1, <2>2 DEF GitNotAfter
    <2>3. GitNotAfter(cap, tree)' /\ GitNotAfter(snapshot, tree)'
      <3>1. cap \in Captures /\ snapshot \in Captures /\ cap' = cap /\ snapshot' = snapshot
        BY DEF TypeOK
      <3> QED
        BY <2>2, <3>1 DEF Past
    <2>4. before'.head <= tree'.head /\ before'.tracked <= tree'.tracked
      BY <2>1 DEF Past
    <2>5. ASSUME NEW g, FilesWritten(g), FilesNotAfter(g, tree.files)
          PROVE  FilesNotAfter(g, tree'.files)
      BY <2>5 DEF FilesWritten, FilesNotAfter
    <2>6. /\ FilesNotAfter(cap.files, tree.files)'
          /\ FilesNotAfter(snapshot.files, tree.files)'
          /\ FilesNotAfter(checkout.files, tree.files)'
          /\ FilesNotAfter(before.files, tree.files)'
      BY <2>5 DEF Written, Past
    <2> QED
      BY <2>3, <2>4, <2>6 DEF Past, FilesNotAfter
  <1>3. Replaced(tree.files) => Replaced(tree.files)'
    BY DEF Written, FilesWritten, Replaced
  <1>4. Snapshotted' /\ NotStarted' /\ Cloned' /\ Recaptured'
    BY DEF Snapshotted, NotStarted, Cloned, Recaptured, Replaced, FilesNotAfter, GitNotBefore
  <1>5. Started'
    BY <1>3 DEF Started, FilesNotAfter, GitNotAfter
  <1> QED
    BY <1>1, <1>2, <1>4, <1>5

\* A capture reads the worktree: what it reads is no older than what was read before.
LEMMA CaptureStep ==
    ASSUME TypeOK, TypeOK', Reads,
           ReadHead \/ ReadDiff \/ ListFiles \/ \E f \in Files : ReadFile(f)
    PROVE  Reads'
  <1> USE FilesBound, EditsBound, MarksDiffer DEF Reads, TypeOK, Trees, Captures
  <1>1. /\ UNCHANGED <<world, stage, snapshot, checkout, onDisk, command, verdict, before>>
        /\ stage \in {"capture", "recapture"}
    BY DEF ReadHead, ReadDiff, ListFiles, ReadFile, Capturing
  <1>2. /\ cap'.head # Unread => cap'.head = cap.head \/ cap'.head = tree.head
        /\ cap'.diff # Unread => cap'.diff = cap.diff \/ cap'.diff = <<tree.head, tree.tracked>>
        /\ \A f \in Files : cap'.files[f] \in Nat
                               => cap'.files[f] = cap.files[f] \/ cap'.files[f] = tree.files[f]
    <2>1. CASE ReadHead
      BY <2>1 DEF ReadHead
    <2>2. CASE ReadDiff
      BY <2>2 DEF ReadDiff
    <2>3. CASE ListFiles
      BY <2>3 DEF ListFiles
    <2>4. ASSUME NEW f \in Files, ReadFile(f)
          PROVE  \A g \in Files : cap'.files[g] = cap.files[g] \/ cap'.files[g] = tree.files[g]
      BY <2>4 DEF ReadFile
    <2>5. ASSUME NEW f \in Files, ReadFile(f)
          PROVE  cap'.head = cap.head /\ cap'.diff = cap.diff
      BY <2>5 DEF ReadFile
    <2> QED
      BY <2>1, <2>2, <2>3, <2>4, <2>5
  <1> USE <1>1, <1>2 DEF world
  <1>3. Written'
    BY DEF Written, FilesWritten
  <1>4. Past'
    <2>1. GitNotAfter(cap, tree)'
      BY DEF Past, GitNotAfter
    <2>2. FilesNotAfter(cap.files, tree.files)'
      BY DEF Past, FilesNotAfter
    <2> QED
      BY <2>1, <2>2 DEF Past, GitNotAfter, FilesNotAfter
  <1>5. Snapshotted' /\ NotStarted' /\ Cloned'
    BY DEF Snapshotted, NotStarted, Cloned
  <1>6. Started'
    BY DEF Started, GitNotAfter, FilesNotAfter, Replaced
  <1>7. Recaptured'
    <2> SUFFICES ASSUME stage = "recapture"
                 PROVE  Recaptured'
      BY DEF Recaptured
    <2>1. GitNotBefore(cap, before)'
      BY DEF Recaptured, Past, GitNotBefore
    <2>2. FilesNotAfter(before.files, cap.files)'
      BY DEF Recaptured, Past, FilesNotAfter
    <2>3. FilesNotAfter(checkout.files, cap.files)'
      BY DEF Recaptured, Past, FilesNotAfter
    <2>4. Replaced(cap.files)'
      BY DEF Recaptured, Started, Replaced
    <2> QED
      BY <2>1, <2>2, <2>3, <2>4 DEF Recaptured
  <1> QED
    BY <1>3, <1>4, <1>5, <1>6, <1>7

\* From the end of the first capture to the start of the command.
LEMMA CheckoutStep ==
    ASSUME TypeOK, TypeOK', Reads,
           Snapshot \/ CloneAndApply \/ (\E f \in Files : CopyFile(f)) \/ StartCommand
    PROVE  Reads'
  <1> USE FilesBound, EditsBound, MarksDiffer DEF Reads, TypeOK, Trees, Captures, world
  <1>1. CASE Snapshot
    <2> USE <1>1 DEF Snapshot, NothingRead
    <2>1. Written' /\ Past'
      BY DEF Written, FilesWritten, Past, GitNotAfter, FilesNotAfter, NotStarted
    <2>2. Snapshotted' /\ NotStarted' /\ Cloned' /\ Started' /\ Recaptured'
      BY DEF Snapshotted, NotStarted, Cloned, Started, Recaptured, Captured, GitDone
    <2> QED
      BY <2>1, <2>2
  <1>2. CASE CloneAndApply
    <2> USE <1>2 DEF CloneAndApply
    <2>1. \A f \in Files : checkout'.files[f] \notin Nat
      OBVIOUS
    <2>2. Written' /\ Past'
      BY <2>1 DEF Written, FilesWritten, Past, GitNotAfter, FilesNotAfter
    <2>3. Snapshotted' /\ NotStarted' /\ Cloned' /\ Started' /\ Recaptured'
      BY DEF Snapshotted, NotStarted, Cloned, Started, Recaptured
    <2> QED
      BY <2>2, <2>3
  <1>3. ASSUME NEW f \in Files, CopyFile(f)
        PROVE  Reads'
    <2> USE <1>3 DEF CopyFile, NextOf
    <2>1. Written' /\ Past'
      BY DEF Written, FilesWritten, Past, GitNotAfter, FilesNotAfter
    <2>2. Snapshotted' /\ NotStarted' /\ Cloned' /\ Started' /\ Recaptured'
      BY DEF Snapshotted, NotStarted, Cloned, Started, Recaptured
    <2> QED
      BY <2>1, <2>2
  <1>4. CASE StartCommand
    <2> USE <1>4 DEF StartCommand
    <2>1. Written' /\ Past'
      BY DEF Written, FilesWritten, Past, GitNotAfter, FilesNotAfter
    <2>2. Snapshotted' /\ NotStarted' /\ Cloned' /\ Recaptured'
      BY DEF Snapshotted, NotStarted, Cloned, Recaptured
    <2>3. Started'
      BY DEF Started, Past, GitNotAfter, FilesNotAfter, Replaced
    <2> QED
      BY <2>1, <2>2, <2>3
  <1> QED
    BY <1>1, <1>2, <1>3, <1>4

\* The second capture begins with nothing read.
LEMMA CleanUpStep ==
    ASSUME TypeOK, TypeOK', Reads, CleanUp
    PROVE  Reads'
  <1> USE FilesBound, EditsBound, MarksDiffer DEF Reads, CleanUp, world
  <1>1. Written' /\ Past'
    BY DEF Written, FilesWritten, Past, GitNotAfter, FilesNotAfter
  <1>2. Snapshotted' /\ NotStarted' /\ Cloned' /\ Started'
    BY DEF Snapshotted, NotStarted, Cloned, Started, GitNotAfter, FilesNotAfter, Replaced
  <1>3. Recaptured'
    <2>1. cap = NothingRead /\ cap' = cap
      BY DEF Snapshotted
    <2> QED
      BY <2>1 DEF Recaptured, NothingRead, GitNotBefore, FilesNotAfter, Replaced
  <1> QED
    BY <1>1, <1>2, <1>3

-----------------------------------------------------------------------------

\* A second capture equal to the first one pins everything read in between.
LEMMA JudgeStep ==
    ASSUME TypeOK, Reads, Judge, Judged'
    PROVE  VerdictIsOfOneState'
  <1> USE FilesBound, EditsBound, MarksDiffer DEF Reads, TypeOK, Trees, Captures
  <1>1. /\ cap = snapshot
        /\ stage = "recapture"
        /\ UNCHANGED <<snapshot, checkout, before>>
    BY DEF Judge, Judged, Status
  <1>2. before.head = snapshot.head /\ snapshot.diff = <<snapshot.head, before.tracked>>
    <2>1. /\ snapshot.head # Unread
          /\ snapshot.diff \in Nat \X Nat /\ snapshot.diff # Unread
      BY <1>1 DEF Snapshotted
    <2>2. /\ snapshot.head <= before.head /\ before.head <= snapshot.head
          /\ snapshot.diff[1] <= before.head /\ before.head <= snapshot.diff[1]
          /\ snapshot.diff[2] <= before.tracked /\ before.tracked <= snapshot.diff[2]
      <3>1. GitNotAfter(snapshot, before) /\ GitNotBefore(snapshot, before)
        BY <1>1 DEF Started, Recaptured
      <3> QED
        BY <2>1, <3>1 DEF GitNotAfter, GitNotBefore
    <2> QED
      BY <2>1, <2>2
  <1>3. \A f \in Files : checkout.files[f] = snapshot.files[f]
    <2> TAKE f \in Files
    <2>1. CASE snapshot.files[f] = Absent
      BY <1>1, <2>1 DEF Cloned
    <2>2. CASE snapshot.files[f] # Absent
      <3>1. snapshot.files[f] \in Nat /\ checkout.files[f] \in Nat
        BY <1>1, <2>2 DEF Snapshotted, Cloned, Started
      <3>2. snapshot.files[f] <= checkout.files[f] /\ checkout.files[f] <= snapshot.files[f]
        BY <1>1, <3>1 DEF Past, Recaptured, FilesNotAfter
      <3> QED
        BY <3>1, <3>2
    <2> QED
      BY <2>1, <2>2
  <1>4. checkout = snapshot
    <2>1. checkout.files = snapshot.files
      BY <1>3
    <2> QED
      BY <1>1, <2>1 DEF Cloned
  <1>5. ASSUME NEW f \in Files, snapshot.files[f] # Absent
        PROVE  before.files[f] = snapshot.files[f]
    <2>1. snapshot.files[f] \in Nat
      BY <1>1, <1>5 DEF Snapshotted
    <2>2. before.files[f] # Absent
      BY <1>1, <2>1 DEF Recaptured, Replaced
    <2>3. snapshot.files[f] <= before.files[f] /\ before.files[f] <= snapshot.files[f]
      BY <1>1, <1>3, <2>1, <2>2 DEF Started, Recaptured, FilesNotAfter
    <2> QED
      BY <2>1, <2>2, <2>3
  <1> QED
    BY <1>1, <1>2, <1>4, <1>5 DEF VerdictIsOfOneState

\* Whatever is written in the worktree, the child starts after the checkout is made.
LEMMA NotStartedStep ==
    ASSUME TypeOK, NotStarted, [Next]_vars
    PROVE  NotStarted'
  <1> USE DEF NotStarted, world, runVars
  <1>1. CASE ReadHead \/ ReadDiff \/ ListFiles \/ CaptureThrows
             \/ \E f \in Files : ReadFile(f) \/ CopyFile(f)
    BY <1>1 DEF ReadHead, ReadDiff, ListFiles, ReadFile, CopyFile, CaptureThrows, Capturing
  <1>2. CASE Snapshot \/ CloneAndApply \/ MaterializeThrows \/ StartCommand
    BY <1>2 DEF Snapshot, CloneAndApply, MaterializeThrows, StartCommand, NoCommand
  <1>3. CASE \/ TimerFires \/ KillTree \/ LeftoversEnd
             \/ \E result \in {"zero", "nonzero"} : CommandExits(result)
    BY <1>3 DEF TimerFires, KillTree, LeftoversEnd, CommandExits, TypeOK
  <1>4. CASE CleanUp \/ CleanUpThrows \/ SpawnThrows \/ Judge
    BY <1>4 DEF CleanUp, CleanUpThrows, SpawnThrows, Judge
  <1>5. CASE Edit \/ Restore \/ Done \/ UNCHANGED vars
    BY <1>5 DEF Edit, Restore, Touches, Done, vars
  <1> QED
    BY <1>1, <1>2, <1>3, <1>4, <1>5 DEF Next, RunStep, Throws

\* The invariant is inductive.
LEMMA InvStep == Inv /\ [Next]_vars => Inv'
  <1> SUFFICES ASSUME Inv, [Next]_vars PROVE Inv'
    OBVIOUS
  <1> USE DEF Inv
  <1>1. TypeOK'
    BY TypeStep
  <1>2. NotStarted'
    BY NotStartedStep
  <1>3. restored => restored'
    BY DEF Next, RunStep, Throws, vars, world, runVars, Edit, Restore, ReadHead, ReadDiff,
           ListFiles, ReadFile, CaptureThrows, Snapshot, CloneAndApply, CopyFile,
           MaterializeThrows, StartCommand, SpawnThrows, TimerFires, KillTree, CleanUp,
           CleanUpThrows, CommandExits, LeftoversEnd, Done, Judge
  <1>4. ~restored' => Reads'
    <2> SUFFICES ASSUME ~restored' PROVE Reads'
      OBVIOUS
    <2>1. Reads /\ ~Restore
      BY <1>3 DEF Restore
    <2> QED
      BY <1>1, <2>1, QuietStep, EditStep, CaptureStep, CheckoutStep, CleanUpStep
         DEF Next, RunStep, Throws, Ends, CommandSteps
  <1>5. VerdictIsOfOneState'
    <2>1. CASE Judge
      BY <1>3, <2>1, JudgeStep DEF VerdictIsOfOneState
    <2>2. CASE ~Judge /\ stage # "ended"
      <3>1. ~Judged'
        BY <2>2 DEF Judged, Next, RunStep, Throws, vars, Edit, Restore, Touches, ReadHead, ReadDiff, ListFiles, ReadFile,
                    CaptureThrows, Snapshot, CloneAndApply, CopyFile, MaterializeThrows,
                    StartCommand, SpawnThrows, TimerFires, KillTree, CleanUp, CleanUpThrows,
                    CommandExits, LeftoversEnd, Done, runVars, Capturing
      <3> QED
        BY <3>1 DEF VerdictIsOfOneState
    <2>3. CASE stage = "ended"
      <3>1. UNCHANGED vars
        BY <2>3 DEF Next, RunStep, Throws, vars, Edit, Restore, Touches, ReadHead, ReadDiff, ListFiles, ReadFile,
                    CaptureThrows, Snapshot, CloneAndApply, CopyFile, MaterializeThrows,
                    StartCommand, SpawnThrows, TimerFires, KillTree, CleanUp, CleanUpThrows,
                    CommandExits, LeftoversEnd, Done, Judge, Capturing
      <3> QED
        BY <3>1 DEF VerdictIsOfOneState, Judged, vars
    <2> QED
      BY <2>1, <2>2, <2>3
  <1> QED
    BY <1>1, <1>2, <1>4, <1>5

\* runVerification: as long as no edit brings earlier content back, a verdict that is
\* not stale is about one state of the worktree; and, whatever is edited, the
\* temporary directory is there exactly while it is used.
THEOREM VerificationCorrect == Spec => [](TypeOK /\ VerdictIsOfOneState)
  <1>1. Inv => TypeOK /\ VerdictIsOfOneState
    BY DEF Inv
  <1> QED
    BY InitInv, InvStep, <1>1, PTL DEF Spec

\* The records of a run keep their types.
THEOREM VerificationTypes == Spec => []TypeOK
  BY VerificationCorrect, PTL
=============================================================================
