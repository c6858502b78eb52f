------------------------------ MODULE FieldNode ------------------------------
(***************************************************************************)
(* The firmware of a field node (RK2206, polled mode), as far as its tasks *)
(* share state: the process task carries out commands and answers them,    *)
(* the upload task sends telemetry when it was asked to, both through one  *)
(* UART with a mutex, and the link health task reboots a node that is left *)
(* alone.  Gateway and node share one half-duplex radio stream, which is   *)
(* why telemetry is held back after an answer: the quiet window.           *)
(*                                                                         *)
(* What runs between two sleeps of a task is one step, except that the     *)
(* process task, of higher priority, may take up a command while telemetry *)
(* is being built.  A task that neither sleeps nor waits runs on while the *)
(* others sleep: no sleep ends while telemetry is being built or can have  *)
(* the UART.                                                               *)
(***************************************************************************)
EXTENDS Naturals, Sequences

CONSTANTS
    MaxFrames,      \* command frames the receive buffer holds
    MaxNaps,        \* sleeps of the upload task while an answer is written
    MaxCommands     \* bound: commands received

(* Types of commands; "other" stands for those that are only answered.     *)
Types == {"poll_latest_telemetry", "manual_collect", "deactivate_device", "reboot", "other"}
Collects == {"poll_latest_telemetry", "manual_collect"}

VARIABLES
    frames,         \* command frames received and not yet taken
    commands,       \* how many were received
    process,        \* the process task: "idle", "answers" (waits for the UART),
                    \* "writes" the answer, "rests" after it
    cmd,            \* the command it is at
    accepted,       \* the answer is not "failed"
    enabled,        \* g_platform_uplink_enabled
    quiet,          \* g_platform_uplink_quiet_remaining_ms, in sleeps of 200 ms
    manual, poll,   \* g_platform_manual_collect_requested, .._poll_latest_requested
    upload,         \* the upload task: "sleeps", "waits" (sleeps in the quiet
                    \* window), "builds" telemetry, "sends" (waits for the UART),
                    \* "writes"
    naps,           \* its sleeps since the process task last did something
    rebooting       \* the watchdog is armed and no longer fed

processVars == <<frames, commands, process, cmd, accepted>>
vars == <<frames, commands, process, cmd, accepted, enabled, quiet, manual, poll,
          upload, naps, rebooting>>

Init ==
    /\ commands = 0 /\ frames = <<>> /\ process = "idle" /\ cmd = "other" /\ accepted = FALSE
    /\ enabled = TRUE /\ quiet = 0 /\ manual = FALSE /\ poll = FALSE
    /\ upload = "sleeps" /\ naps = 0 /\ rebooting = FALSE

(* PLATFORM_POST_ACK_QUIET_MS, and PLATFORM_MANUAL_COLLECT_DELAY_MS more   *)
(* where telemetry is to follow: 1200 and 2700 ms.                         *)
QuietAfter(type) == IF type \in Collects THEN 14 ELSE 6

UartFree == process # "writes" /\ upload # "writes"
-----------------------------------------------------------------------------
(* A frame that the buffer cannot hold is cut, and dropped by its CRC.     *)
Receive(type) ==
    /\ commands < MaxCommands
    /\ commands' = commands + 1
    /\ frames' = IF Len(frames) < MaxFrames THEN Append(frames, type) ELSE frames
    /\ UNCHANGED <<process, cmd, accepted, enabled, quiet, manual, poll, upload, naps, rebooting>>

(* The command is carried out, as far as it is before the answer.          *)
HandleCommand ==
    /\ process = "idle" /\ frames # <<>>
    /\ frames' = Tail(frames)
    /\ cmd' = Head(frames)
    /\ accepted' = (cmd' \in Collects => enabled)
    /\ enabled' = (enabled /\ cmd' # "deactivate_device")
    /\ process' = "answers"
    /\ UNCHANGED <<commands, quiet, manual, poll, upload, naps, rebooting>>

(* The UART goes to the task that has waited for it.                       *)
WriteAck ==
    /\ process = "answers" /\ UartFree /\ upload # "sends"
    /\ process' = "writes"
    /\ naps' = 0
    /\ UNCHANGED <<frames, commands, cmd, accepted, enabled, quiet, manual, poll,
                   upload, rebooting>>

(* The answer is out, after a sleep between any two chunks of it; the task *)
(* sleeps once more, to let its last bytes leave.                          *)
AckWritten ==
    /\ process = "writes" /\ upload # "builds"
    /\ process' = "rests"
    /\ naps' = 0
    /\ UNCHANGED <<frames, commands, cmd, accepted, enabled, quiet, manual, poll,
                   upload, rebooting>>

(* An answer cut short has no follow-up, except that the number of bytes   *)
(* written, if there are any, lets a reboot go ahead.                      *)
AckFails ==
    /\ process = "writes"
    /\ process' = "idle"
    /\ rebooting' \in {rebooting, rebooting \/ cmd = "reboot"}
    /\ naps' = 0
    /\ UNCHANGED <<frames, commands, cmd, accepted, enabled, quiet, manual, poll, upload>>

(* The quiet window is armed, and the follow-up asked for.                 *)
ArmQuietWindow ==
    /\ process = "rests" /\ upload \notin {"builds", "sends"}
    /\ process' = "idle"
    /\ quiet' = IF QuietAfter(cmd) > quiet THEN QuietAfter(cmd) ELSE quiet
    /\ manual' = (manual \/ (accepted /\ cmd = "manual_collect"))
    /\ poll' = (poll \/ (accepted /\ cmd = "poll_latest_telemetry"))
    /\ rebooting' = (rebooting \/ cmd = "reboot")
    /\ naps' = 0
    /\ UNCHANGED <<frames, commands, cmd, accepted, enabled, upload>>
-----------------------------------------------------------------------------
(* The task sleeps 200 ms at a time, and the process task 10 ms before it  *)
(* takes up a command, 100 ms after its answer, and not in between, but    *)
(* for the time that the answer is written.                                *)
WakesUp ==
    /\ upload \in {"sleeps", "waits"}
    /\ \/ process = "idle" /\ frames = <<>> /\ naps' = 0
       \/ process = "idle" /\ frames # <<>> /\ naps < 1 /\ naps' = 1
       \/ process = "writes" /\ naps < MaxNaps /\ naps' = naps + 1
       \/ process = "rests" /\ naps < 1 /\ naps' = 1

(* After a sleep in the quiet window it lowers the window by what it slept *)
(* and looks at it again.                                                  *)
Remaining == IF upload = "waits" /\ quiet > 0 THEN quiet - 1 ELSE quiet

WaitInQuietWindow ==
    /\ WakesUp /\ Remaining > 0
    /\ quiet' = Remaining
    /\ upload' = "waits"
    /\ UNCHANGED <<processVars, enabled, manual, poll, rebooting>>

(* Both requests are taken at once.  Without one, with the uplink disabled *)
(* or with nothing valid to send the task sleeps.                          *)
TakeRequests ==
    /\ WakesUp /\ Remaining = 0
    /\ quiet' = 0
    /\ manual' = FALSE /\ poll' = FALSE
    /\ upload' \in {"sleeps"} \cup (IF enabled /\ (manual \/ poll) THEN {"builds"} ELSE {})
    /\ UNCHANGED <<processVars, enabled, rebooting>>

(* The envelope is built, and the UART is taken, or waited for.            *)
ReachUart ==
    /\ upload = "builds" /\ ~UartFree
    /\ upload' = "sends"
    /\ UNCHANGED <<processVars, enabled, quiet, manual, poll, naps, rebooting>>

WriteTelemetry ==
    /\ UartFree
    /\ upload = "sends" \/ (upload = "builds" /\ process # "answers")
    /\ upload' = "writes"
    /\ UNCHANGED <<processVars, enabled, quiet, manual, poll, naps, rebooting>>

(* Sent or cut short, it is not sent again.                                *)
TelemetryWritten ==
    /\ upload = "writes"
    /\ upload' = "sleeps"
    /\ UNCHANGED <<processVars, enabled, quiet, manual, poll, naps, rebooting>>
-----------------------------------------------------------------------------
(* No command was accepted for three minutes.                              *)
LinkIsStale ==
    /\ ~rebooting
    /\ rebooting' = TRUE
    /\ UNCHANGED <<processVars, enabled, quiet, manual, poll, upload, naps>>

Reboot ==
    /\ rebooting
    /\ frames' = <<>> /\ process' = "idle" /\ cmd' = "other" /\ accepted' = FALSE
    /\ enabled' = TRUE /\ quiet' = 0 /\ manual' = FALSE /\ poll' = FALSE
    /\ upload' = "sleeps" /\ naps' = 0 /\ rebooting' = FALSE
    /\ UNCHANGED commands

Next ==
    \/ \E type \in Types : Receive(type)
    \/ HandleCommand \/ WriteAck \/ AckWritten \/ AckFails \/ ArmQuietWindow
    \/ WaitInQuietWindow \/ TakeRequests \/ ReachUart \/ WriteTelemetry \/ TelemetryWritten
    \/ LinkIsStale \/ Reboot

Spec == Init /\ [][Next]_vars
-----------------------------------------------------------------------------
(* Telemetry is held back for a while after any answer to a command, to    *)
(* keep the shared stream separable (config/app_config.h:54): no telemetry *)
(* begins between an answer and the end of its quiet window.               *)
HeldBackAfterAck == [][WriteTelemetry => process # "rests" /\ quiet = 0]_vars
=============================================================================
