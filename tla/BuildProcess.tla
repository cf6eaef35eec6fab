---------------------------- MODULE BuildProcess ----------------------------
(* A native build in development (src/toolchain.rs and                       *)
(* src/toolchain/process.rs): a chain of compiler commands, each of which    *)
(* runs in a process group of its own, is polled for its end and for Ctrl-C, *)
(* and is killed with its descendants before the threads that read its       *)
(* output are joined.  The operating system's processes are external.        *)
EXTENDS Naturals

VARIABLES stage,     \* the command the build is at, "idle" when nothing is built
          command,   \* where process::output is for it
          outcome,   \* how the command ended: "none", "ok", "failed", "error"
          group,     \* live processes of the command's group: tool, helper
          readers,   \* the two reader threads: "none", "reading", "ended"
          built,     \* how the last build ended: "none", "ok", "failed"
          cancelled  \* Ctrl-C was pressed

buildVars == <<stage, command, outcome, group, readers, built>>

BuildInit ==
    /\ stage = "idle" /\ command = "idle" /\ outcome = "none"
    /\ group = {} /\ readers = "none" /\ built = "none"

(* The command after one that succeeded and, for the first two, after one    *)
(* that failed: the direct Clang fallback.                                   *)
AfterSuccess == [assemble |-> "compile", compile |-> "runtime", validate |-> "direct",
                 direct |-> "runtime", runtime |-> "link", link |-> "idle"]
Fallback(s) == IF s \in {"assemble", "compile"} THEN "validate" ELSE "idle"

(* llvm-as is used when it was found; the build fails at once when its       *)
(* directory or the code cannot be written.  The runtime's sources are       *)
(* compiled alike, by one command here.                                      *)
BuildStarts ==
    /\ \/ stage' \in {"assemble", "validate"} /\ command' = "begin" /\ built' = "none"
       \/ built' = "failed" /\ UNCHANGED <<stage, command>>
    /\ UNCHANGED <<outcome, group, readers>>

(* No command is started once the build is cancelled. *)
CommandRefused ==
    /\ command = "begin" /\ cancelled
    /\ command' = "returned" /\ outcome' = "error"
    /\ UNCHANGED <<stage, group, readers, built>>

CommandSpawned ==
    /\ command = "begin" /\ ~cancelled
    /\ \/ command' = "poll" /\ group' = {"tool"} /\ readers' = "reading" /\ UNCHANGED outcome
       \/ command' = "returned" /\ outcome' = "error" /\ UNCHANGED <<group, readers>>
    /\ UNCHANGED <<stage, built>>

PollCancelled ==
    /\ command = "poll" /\ cancelled
    /\ command' = "drop" /\ outcome' = "error"
    /\ UNCHANGED <<stage, group, readers, built>>

PollEnded ==
    /\ command = "poll" /\ "tool" \notin group
    /\ command' = "drop" /\ outcome' \in {"ok", "failed"}
    /\ UNCHANGED <<stage, group, readers, built>>

PollFails ==
    /\ command = "poll"
    /\ command' = "drop" /\ outcome' = "error"
    /\ UNCHANGED <<stage, group, readers, built>>

(* Deviation: the readers are waited for before the group is killed. *)
DropAfterReaders ==
    /\ command = "drop" /\ readers = "ended"
    /\ group' = {} /\ command' = "join"
    /\ UNCHANGED <<stage, outcome, readers, built>>

(* OwnedCommand::drop: the whole group is killed and the child reaped. *)
DropCommand ==
    /\ command = "drop"
    /\ group' = {} /\ command' = "join"
    /\ UNCHANGED <<stage, outcome, readers, built>>

(* A reader ends when the last process that holds its pipe is gone. *)
ReadersEnd ==
    /\ readers = "reading" /\ group = {}
    /\ readers' = "ended"
    /\ UNCHANGED <<stage, command, outcome, group, built>>

JoinReaders ==
    /\ command = "join" /\ readers = "ended"
    /\ command' = "returned" /\ readers' = "none"
    /\ outcome' \in {outcome, "error"}   \* a pipe could not be read
    /\ UNCHANGED <<stage, group, built>>

(* The build goes on with the next command or ends. *)
NextCommand ==
    /\ command = "returned"
    /\ stage' = CASE outcome = "ok" -> AfterSuccess[stage]
                  [] outcome = "failed" -> Fallback(stage)
                  [] OTHER -> "idle"
    /\ built' \in IF stage' # "idle" THEN {"none"}
                  ELSE {"failed"} \cup (IF outcome = "ok" THEN {"ok"} ELSE {})
                                       \* the executable may be gone
    /\ command' = IF stage' = "idle" THEN "idle" ELSE "begin"
    /\ outcome' = "none"
    /\ UNCHANGED <<group, readers>>

BuildStep == \/ CommandRefused \/ CommandSpawned \/ PollCancelled \/ PollEnded
             \/ PollFails \/ DropCommand \/ ReadersEnd \/ JoinReaders \/ NextCommand

(* External: a compiler starts helpers, and each of them ends by itself. *)
ToolForks ==
    /\ "tool" \in group /\ group' = group \cup {"helper"}
    /\ UNCHANGED <<stage, command, outcome, readers, built>>

ToolExits ==
    /\ "tool" \in group /\ group' = group \ {"tool"}
    /\ UNCHANGED <<stage, command, outcome, readers, built>>

HelperExits ==
    /\ "helper" \in group /\ group' = group \ {"helper"}
    /\ UNCHANGED <<stage, command, outcome, readers, built>>

ToolStep == ToolForks \/ ToolExits \/ HelperExits
=============================================================================
