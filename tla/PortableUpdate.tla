--------------------------- MODULE PortableUpdate ---------------------------
(***************************************************************************)
(* The portable binary's update of itself, from portable_self_update in    *)
(* src-tauri/src/commands/tauri_commands.rs, the helpers of uipi.rs and    *)
(* the handover in main.rs: download, verify, rename the running image     *)
(* aside, rename the new one into its place, start it and exit.            *)
(*                                                                         *)
(* Any step that the operating system takes part in may fail, and the      *)
(* machine may stop between any two steps.  The update page keeps its      *)
(* button disabled while a call runs, so calls follow one another.         *)
(***************************************************************************)
EXTENDS Naturals, FiniteSets

VARIABLES exe,      \* the file that bears the program's name
          dotNew,   \* <exe>.new
          dotOld,   \* <exe>.old
          aside,    \* the image of the live parent is <exe>.old: it cannot be
                    \* deleted or replaced
          bytes,    \* what the call has in memory
          call,     \* where portable_self_update is; "err" after a failure
          torn,     \* the hooks, the tray and the scheduler are taken down
          marked,   \* mark_clean_exit
          parent,   \* the process that updates is alive
          child,    \* the process it started: "none", "waits" or "boots"
          sweeping, \* the child's thread will delete <exe>.old
          armed     \* Windows deletes <exe>.old at the next start

files == <<exe, dotNew, dotOld, aside>>
vars == <<files, bytes, call, torn, marked, parent, child, sweeping, armed>>

\* Contents: the program of before, a download with a good signature, one
\* without, part of one; "none" is no file.
Contents == {"old", "good", "bad", "part", "none"}

Init == /\ exe = "old" /\ dotNew = "none" /\ dotOld = "none"
        /\ aside = FALSE /\ bytes = "none" /\ call = "idle" /\ torn = FALSE /\ marked = FALSE
        /\ parent = TRUE /\ child = "none" /\ sweeping = FALSE
        /\ armed = FALSE

Go(from, to) == parent /\ call = from /\ call' = to

\* The page asks for an update; after a failure it may ask again.
Begin == /\ parent /\ call \in {"idle", "err"} /\ call' = "download"
         /\ UNCHANGED <<files, bytes, torn, marked, parent, child, sweeping, armed>>

\* winhttp_get: an error, or as many bytes as the server cared to send.
Download == /\ Go("download", "write")
            /\ bytes' \in {"good", "bad"}
            /\ UNCHANGED <<files, torn, marked, parent, child, sweeping, armed>>

DownloadFails == /\ Go("download", "err")
                 /\ UNCHANGED <<files, bytes, torn, marked, parent, child, sweeping, armed>>

WriteNew == /\ Go("write", "verify")
            /\ dotNew' = bytes
            /\ UNCHANGED <<exe, dotOld, aside, bytes, torn, marked, parent, child, sweeping, armed>>

\* A write that fails may have begun, and what it left stays.
WriteFails == /\ Go("write", "err")
              /\ dotNew' \in {dotNew, "part"}
              /\ UNCHANGED <<exe, dotOld, aside, bytes, torn, marked, parent, child, sweeping, armed>>

\* Mutant of Verified: the signature is asked for, not checked.
VerifiedBlind == bytes # "none"

Verified == bytes = "good"

\* verify_portable_signature judges the bytes in memory.
VerifyPasses == /\ Go("verify", "teardown") /\ Verified
                /\ UNCHANGED <<files, bytes, torn, marked, parent, child, sweeping, armed>>

VerifyFails == /\ Go("verify", "err") /\ ~Verified
               /\ dotNew' = "none"
               /\ UNCHANGED <<exe, dotOld, aside, bytes, torn, marked, parent, child, sweeping, armed>>

\* The scheduler is stopped, the snapshot refreshed, and hooks and tray end.
Teardown == /\ Go("teardown", "rename_old")
            /\ torn' = TRUE
            /\ UNCHANGED <<files, bytes, marked, parent, child, sweeping, armed>>

RenameOld == /\ Go("rename_old", "rename_new") /\ exe # "none" /\ ~aside
             /\ dotOld' = exe /\ exe' = "none" /\ aside' = TRUE
             /\ UNCHANGED <<dotNew, bytes, torn, marked, parent, child, sweeping, armed>>

RenameOldFails == /\ Go("rename_old", "err")
                  /\ UNCHANGED <<files, bytes, torn, marked, parent, child, sweeping, armed>>

RenameNew == /\ Go("rename_new", "respawn")
             /\ exe' = dotNew /\ dotNew' = "none"
             /\ UNCHANGED <<dotOld, aside, bytes, torn, marked, parent, child, sweeping, armed>>

\* The old image gets its name back, or it does not: nobody looks.
RollBack == \/ exe' = dotOld /\ dotOld' = "none" /\ aside' = FALSE
            \/ UNCHANGED <<exe, dotOld, aside>>

RenameNewFails == /\ Go("rename_new", "err")
                  /\ RollBack
                  /\ UNCHANGED <<dotNew, bytes, torn, marked, parent, child, sweeping, armed>>

Respawn == /\ Go("respawn", "mark")
           /\ child' = "waits"
           /\ UNCHANGED <<files, bytes, torn, marked, parent, sweeping, armed>>

RespawnFails == /\ Go("respawn", "err")
                /\ UNCHANGED <<files, bytes, torn, marked, parent, child, sweeping, armed>>

MarkCleanExit == /\ Go("mark", "exit")
                 /\ marked' = TRUE
                 /\ UNCHANGED <<files, bytes, torn, parent, child, sweeping, armed>>

Exit == /\ Go("exit", "done")
        /\ parent' = FALSE /\ aside' = FALSE
        /\ UNCHANGED <<exe, dotNew, dotOld, bytes, torn, marked, child, sweeping, armed>>

-----------------------------------------------------------------------------
(* The child: main.rs before and after its handover.                       *)

\* wait_for_parent_exit returns when the parent is gone or after ten seconds;
\* the sweep of <exe>.old is scheduled either way.
Handover == /\ child = "waits" /\ child' = "boots"
            /\ sweeping' = TRUE
            /\ UNCHANGED <<files, bytes, call, torn, marked, parent, armed>>

\* The single-instance lock is the parent's as long as it lives: the child
\* ends, or is the program from now on.
BootRefused == /\ child = "boots" /\ parent
               /\ child' = "none" /\ sweeping' = FALSE
               /\ UNCHANGED <<files, bytes, call, torn, marked, parent, armed>>

Fresh == /\ UNCHANGED files
         /\ parent' = TRUE /\ call' = "idle" /\ bytes' = "none"
         /\ torn' = FALSE /\ marked' = FALSE

Boot == /\ child = "boots" /\ ~parent
        /\ child' = "none"
        /\ Fresh
        /\ UNCHANGED <<sweeping, armed>>

\* cleanup_old_binary_deferred: delete, or leave it to the next start.
Sweep == /\ sweeping /\ sweeping' = FALSE
         /\ \/ ~aside /\ dotOld' = "none" /\ UNCHANGED armed
            \/ UNCHANGED dotOld /\ armed' = TRUE
         /\ UNCHANGED <<exe, dotNew, aside, bytes, call, torn, marked, parent, child>>

-----------------------------------------------------------------------------
(* The machine.                                                            *)

\* Power loss: every process ends, and Windows deletes what was left to it.
Reboot == /\ call' = "idle" /\ bytes' = "none" /\ torn' = FALSE /\ marked' = FALSE
          /\ parent' = FALSE /\ child' = "none" /\ sweeping' = FALSE
          /\ armed' = FALSE /\ aside' = FALSE
          /\ dotOld' = IF armed THEN "none" ELSE dotOld
          /\ UNCHANGED <<exe, dotNew>>

\* The user starts the program by its name; it knows nothing of an update.
Launch == /\ ~parent /\ child = "none" /\ exe # "none"
          /\ Fresh
          /\ UNCHANGED <<child, sweeping, armed>>

Next == \/ Begin \/ Download \/ DownloadFails \/ WriteNew \/ WriteFails
        \/ VerifyPasses \/ VerifyFails \/ Teardown
        \/ RenameOld \/ RenameOldFails \/ RenameNew \/ RenameNewFails
        \/ Respawn \/ RespawnFails \/ MarkCleanExit \/ Exit
        \/ Handover \/ BootRefused \/ Boot \/ Sweep
        \/ Reboot \/ Launch

Spec == Init /\ [][Next]_vars

-----------------------------------------------------------------------------
TypeOK == /\ {exe, dotNew, dotOld, bytes} \subseteq Contents
          /\ call \in {"idle", "err", "download", "write", "verify", "teardown", "rename_old",
                       "rename_new", "respawn", "mark", "exit", "done"}
          /\ {aside, torn, marked, parent, sweeping, armed} \subseteq BOOLEAN
          /\ child \in {"none", "waits", "boots"}

\* Only a whole program ever bears the program's name.
OnlyVerifiedRuns == exe \in {"old", "good", "none"}

AnyProgram == exe # "none" \/ dotOld # "none"

\* Wherever a step fails or the machine stops, the folder holds a program that
\* can be started, under its name or aside; only a deletion left to Windows by
\* an earlier update can take the last one.
LastProgramKept == [][AnyProgram /\ ~AnyProgram' => armed]_vars

\* The guardian hears of a clean exit only when the new program has its name
\* and is starting.
ExitIsHandover == marked => exe = "good"

\* An update replaces the program as a whole or leaves one that works.
UpdateKeepsAProgram == [](OnlyVerifiedRuns /\ ExitIsHandover) /\ LastProgramKept

\* Not kept by the code: a failed update leaves no .new file and an untouched
\* program.  A failed write leaves its part; after a failed rename or start
\* the hooks and the tray are down, and the .new file stays.
FailureIsHarmless == call = "err" => dotNew = "none" /\ exe = "old" /\ ~torn

\* Not kept by the code: the machine stops between the two renames of a second
\* update, and its start deletes what bears the name of the first one's copy.
AlwaysAProgram == AnyProgram
=============================================================================
