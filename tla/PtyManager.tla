------------------------------ MODULE PtyManager -----------------------------
(***************************************************************************)
(* The local PTY manager of modules/shell: PTY sessions with the two       *)
(* goroutines that serve each (captureOutput, waitForExit), reads at an    *)
(* offset, closing, attachments that stream a session's output to an       *)
(* external writer and external input to the session, and the verifiers    *)
(* that poll a session.                                                    *)
(*                                                                         *)
(* Abstractions.  The n-th byte a process prints is the number n, so a     *)
(* buffer is its length and a read is the interval it returns.  Commands,  *)
(* environment, window sizes (Resize changes nothing else) and wall-clock  *)
(* times are left out; a verifier's deadline passes at any moment.         *)
(***************************************************************************)
EXTENDS Integers, Sequences

CONSTANTS Pty,               \* ids of PTY sessions, drawn by Start
          Attachment,        \* ids of attachments, drawn by Attach
          Ends,              \* what Attach is given: an Input, an Output or both
          Check,             \* verifier calls in progress
          MaxOutput,         \* bytes a process prints at most
          DefaultReadBytes,  \* PTYManagerOptions.DefaultReadBytes
          Needle             \* the byte at which a verifier's text ends

ASSUME PtyAssumption ==
    /\ "none" \notin Pty
    /\ Ends \subseteq SUBSET {"input", "output"}
    /\ MaxOutput \in Nat
    /\ DefaultReadBytes \in Nat \ {0}
    /\ Needle \in Nat \ {0}

VARIABLES sessions,      \* PTYManager.sessions, with the process behind each
          attachments,   \* PTYManager.attachments and their goroutines
          checks,        \* PTY verifier calls
          doomed         \* ids CloseAll has still to close

ptyVars == <<sessions, attachments, checks, doomed>>

Killed == -1   \* ExitCode of a process ended by a signal

(* ptySession.  state and code are the process and how it ended, printed   *)
(* what it wrote to the terminal, buffer the length of the Go buffer, file *)
(* says that the terminal is open, killed that a Close reached the process.*)
NoSession == [state |-> "absent", code |-> 0, printed |-> 0, buffer |-> 0,
              file |-> FALSE, closed |-> FALSE, exitCode |-> 0,
              reason |-> "active", killed |-> FALSE]

NoChunk == [lo |-> 0, hi |-> 0, closed |-> FALSE]

(* live: the attachment's context is not cancelled; start: PTYAttachOptions *)
(* .Offset; out: the bytes handed to Output; chunk: what Read returned.     *)
NoAttachment == [pty |-> "none", registered |-> FALSE, live |-> FALSE,
                 start |-> 0, offset |-> 0, chunk |-> NoChunk, out |-> <<>>,
                 output |-> "none", input |-> "none"]

NoCheck == [kind |-> "none", pty |-> "none", start |-> 0, offset |-> 0,
            verdict |-> "none"]

PtyInit ==
    /\ sessions = [p \in Pty |-> NoSession]
    /\ attachments = [a \in Attachment |-> NoAttachment]
    /\ checks = [v \in Check |-> NoCheck]
    /\ doomed = {}

-----------------------------------------------------------------------------
(* The operations of the manager on one session.                           *)

Known(p) == p \in Pty /\ sessions[p].state # "absent"

(* Start: the process and both goroutines run when it returns.             *)
Started == [NoSession EXCEPT !.state = "running", !.file = TRUE]

(* Variant: NextOffset is the end of the buffer even when the data was cut. *)
ReadSkippingTheCut(s, offset, maxBytes) ==
    LET from == IF offset < 0 THEN 0
                ELSE IF offset > s.buffer THEN s.buffer ELSE offset
        max  == IF maxBytes <= 0 THEN DefaultReadBytes ELSE maxBytes
    IN  [lo |-> from,
         hi |-> IF from + max < s.buffer THEN from + max ELSE s.buffer,
         next |-> s.buffer, closed |-> s.closed,
         truncated |-> from + max < s.buffer]

(* Read: the bytes lo+1 .. hi and the offset to continue from.             *)
Read(s, offset, maxBytes) ==
    LET from == IF offset < 0 THEN 0
                ELSE IF offset > s.buffer THEN s.buffer ELSE offset
        max  == IF maxBytes <= 0 THEN DefaultReadBytes ELSE maxBytes
        cut  == from + max < s.buffer
        end  == IF cut THEN from + max ELSE s.buffer
    IN  [lo |-> from, hi |-> end, next |-> end, closed |-> s.closed,
         truncated |-> cut]

Inspect(s) == [closed |-> s.closed, exitCode |-> s.exitCode,
               reason |-> s.reason]

(* Write is refused once the session is closed; a terminal whose process   *)
(* has gone may or may not take the bytes.                                 *)
WriteOutcomes(s) ==
    IF s.closed \/ ~s.file THEN {"error"}
    ELSE IF s.state = "running" THEN {"ok"} ELSE {"ok", "error"}

(* detachForHandle and detachAll: the attachments are unregistered, their  *)
(* contexts cancelled and their inputs closed.                             *)
Detached(ps) ==
    [a \in Attachment |->
        IF attachments[a].registered /\ attachments[a].pty \in ps
        THEN [attachments[a] EXCEPT !.registered = FALSE, !.live = FALSE]
        ELSE attachments[a]]

(* Close, once the attachments are gone: reason, Kill and file.Close.      *)
Closed(s) ==
    [s EXCEPT !.reason = "closed_on_request",
              !.file = FALSE,
              !.killed = TRUE,
              !.code = IF s.state = "running" THEN Killed ELSE @,
              !.state = "exited"]

-----------------------------------------------------------------------------
(* The process and the two goroutines of a session.                        *)

ProcessPrints(p) ==
    /\ sessions[p].state = "running"
    /\ sessions[p].printed < MaxOutput
    /\ sessions' = [sessions EXCEPT ![p].printed = @ + 1]
    /\ UNCHANGED <<attachments, checks, doomed>>

ProcessExits(p) ==
    /\ sessions[p].state = "running"
    /\ \E code \in {0, 1} :
          sessions' = [sessions EXCEPT ![p].state = "exited",
                                       ![p].code = code]
    /\ UNCHANGED <<attachments, checks, doomed>>

(* captureOutput: append what the terminal holds, also after the process   *)
(* is gone; a terminal closed under the reader loses what it still held.   *)
captureOutput(p) ==
    /\ sessions[p].file
    /\ sessions[p].buffer < sessions[p].printed
    /\ sessions' = [sessions EXCEPT ![p].buffer = sessions[p].printed]
    /\ UNCHANGED <<attachments, checks, doomed>>

(* Variant: the exit is recorded as success whatever Wait returned.        *)
waitForExitIgnoringCode(p) ==
    /\ sessions[p].state = "exited"
    /\ ~sessions[p].closed
    /\ sessions' = [sessions EXCEPT ![p].closed = TRUE, ![p].exitCode = 0]
    /\ UNCHANGED <<attachments, checks, doomed>>

(* waitForExit: statusReason is never empty, so it keeps Start's text or   *)
(* the reason of Close.                                                    *)
waitForExit(p) ==
    /\ sessions[p].state = "exited"
    /\ ~sessions[p].closed
    /\ sessions' = [sessions EXCEPT ![p].closed = TRUE,
                                    ![p].exitCode = sessions[p].code]
    /\ UNCHANGED <<attachments, checks, doomed>>

(* CloseAll: detach everything, list the sessions, then Close one by one.  *)
CloseAll ==
    /\ doomed = {}
    /\ attachments' = Detached(Pty)
    /\ doomed' = {p \in Pty : Known(p)}
    /\ UNCHANGED <<sessions, checks>>

CloseAllNext(p) ==
    /\ p \in doomed
    /\ doomed' = doomed \ {p}
    /\ attachments' = Detached({p})
    /\ sessions' = [sessions EXCEPT ![p] = Closed(@)]
    /\ UNCHANGED checks

-----------------------------------------------------------------------------
(* Attachments.                                                            *)

Attach(a, p, from, ends) ==
    /\ attachments[a] = NoAttachment
    /\ Known(p)
    /\ ends # {}
    /\ attachments' = [attachments EXCEPT ![a] =
          [NoAttachment EXCEPT
              !.pty = p, !.registered = TRUE, !.live = TRUE,
              !.start = from, !.offset = from,
              !.output = IF "output" \in ends THEN "poll" ELSE "none",
              !.input  = IF "input" \in ends THEN "read" ELSE "none"]]
    /\ UNCHANGED <<sessions, checks, doomed>>

Detach(a) ==
    /\ attachments[a].registered
    /\ attachments' = [attachments EXCEPT ![a].registered = FALSE,
                                          ![a].live = FALSE]
    /\ UNCHANGED <<sessions, checks, doomed>>

(* streamAttachedOutput, up to Read.                                       *)
streamPoll(a) ==
    /\ attachments[a].output = "poll"
    /\ LET at == attachments[a]
           r  == Read(sessions[at.pty], at.offset, DefaultReadBytes)
       IN  attachments' =
             IF ~at.live
             THEN [attachments EXCEPT ![a].output = "done"]
             ELSE [attachments EXCEPT
                      ![a].output = "deliver",
                      ![a].chunk = [lo |-> r.lo, hi |-> r.hi,
                                    next |-> r.next, closed |-> r.closed]]
    /\ UNCHANGED <<sessions, checks, doomed>>

(* The rest of the iteration.  The writer may refuse the bytes, which ends *)
(* the stream; a cancelled context is only noticed at the next poll.       *)
streamDeliver(a) ==
    /\ attachments[a].output = "deliver"
    /\ LET at    == attachments[a]
           c     == at.chunk
           bytes == [i \in 1..(c.hi - c.lo) |-> c.lo + i]
           more  == c.next > at.offset
       IN  \/ attachments' = [attachments EXCEPT
                 ![a].out = IF more THEN @ \o bytes ELSE @,
                 ![a].offset = IF more THEN c.next ELSE @,
                 ![a].chunk = NoChunk,
                 ![a].output = IF c.closed THEN "done" ELSE "poll"]
           \/ /\ more
              /\ attachments' = [attachments EXCEPT ![a].output = "done",
                                                    ![a].chunk = NoChunk]
    /\ UNCHANGED <<sessions, checks, doomed>>

(* streamAttachedInput: forward what was read; end with the context, the   *)
(* input or a refused Write.                                               *)
streamAttachedInput(a) ==
    /\ attachments[a].input = "read"
    /\ \/ /\ attachments[a].live
          /\ "error" \in WriteOutcomes(sessions[attachments[a].pty])
       \/ ~attachments[a].live
    /\ attachments' = [attachments EXCEPT ![a].input = "done"]
    /\ UNCHANGED <<sessions, checks, doomed>>

-----------------------------------------------------------------------------
(* The verifiers pty_handle_active, pty_stream_contains, pty_exit_code.    *)

BeginCheck(v, p, kind, from) ==
    /\ checks[v] = NoCheck
    /\ Known(p)
    /\ checks' = [checks EXCEPT ![v] =
          [NoCheck EXCEPT !.kind = kind, !.pty = p, !.start = from,
                          !.offset = from, !.verdict = "pending"]]
    /\ UNCHANGED <<sessions, attachments, doomed>>

HandleActiveVerify(v) ==
    /\ checks[v].kind = "active" /\ checks[v].verdict = "pending"
    /\ checks' = [checks EXCEPT ![v].verdict =
          IF Inspect(sessions[checks[v].pty]).closed THEN "failed" ELSE "ok"]
    /\ UNCHANGED <<sessions, attachments, doomed>>

(* One round of the poll; the deadline may have passed at the end of it.   *)
StreamContainsVerify(v) ==
    /\ checks[v].kind = "contains" /\ checks[v].verdict = "pending"
    /\ LET k     == checks[v]
           r     == Read(sessions[k.pty], k.offset, DefaultReadBytes)
           upto  == IF r.next > k.offset THEN r.next ELSE k.offset
           found == k.start < Needle /\ Needle <= upto
       IN  \E late \in BOOLEAN :
              checks' = [checks EXCEPT
                 ![v].offset = upto,
                 ![v].verdict = IF found THEN "ok"
                                ELSE IF r.closed \/ late THEN "failed"
                                ELSE "pending"]
    /\ UNCHANGED <<sessions, attachments, doomed>>

ExitCodeVerify(v) ==
    /\ checks[v].kind = "exit" /\ checks[v].verdict = "pending"
    /\ LET i == Inspect(sessions[checks[v].pty])
       IN  \E late \in BOOLEAN :
              checks' = [checks EXCEPT ![v].verdict =
                 IF i.closed THEN IF i.exitCode = 0 THEN "ok" ELSE "failed"
                 ELSE IF late THEN "failed" ELSE "pending"]
    /\ UNCHANGED <<sessions, attachments, doomed>>

-----------------------------------------------------------------------------
(* What runs by itself once it was started, and the calls the embedder     *)
(* makes on the manager.                                                   *)

PtyStep ==
    \/ \E p \in Pty :
          \/ ProcessPrints(p) \/ ProcessExits(p)
          \/ captureOutput(p) \/ waitForExit(p)
          \/ CloseAllNext(p)
    \/ \E a \in Attachment :
          streamPoll(a) \/ streamDeliver(a) \/ streamAttachedInput(a)
    \/ \E v \in Check :
          HandleActiveVerify(v) \/ StreamContainsVerify(v)
          \/ ExitCodeVerify(v)

PtyCall ==
    \/ CloseAll
    \/ \E a \in Attachment :
          \/ Detach(a)
          \/ \E p \in Pty, from \in {0, 2}, ends \in Ends :
                Attach(a, p, from, ends)
    \/ \E v \in Check, p \in Pty, from \in {0, 1} :
          \E kind \in {"active", "contains", "exit"} :
             BeginCheck(v, p, kind, from)

-----------------------------------------------------------------------------
(* streamAttachedOutput hands the writer every byte between the offset it  *)
(* was given and the one it has reached, once and in order, whatever the   *)
(* buffer, the read limit and a cut read do in between.                    *)
AttachedOutputInOrder ==
    \A a \in Attachment :
        LET at == attachments[a]
        IN  at.out = [i \in 1..(at.offset - at.start) |-> at.start + i]

(* A PTY verifier that succeeded judged what the process really did: its   *)
(* text is in the captured stream behind the offset it was told to start   *)
(* at, or the process ended with the code it accepts.                      *)
VerdictsMatchTheProcess ==
    \A v \in Check :
        LET k == checks[v] IN k.verdict = "ok" =>
          /\ k.kind = "contains" =>
                k.start < Needle /\ Needle <= sessions[k.pty].buffer
          /\ k.kind = "exit" =>
                sessions[k.pty].closed /\ sessions[k.pty].code = 0

=============================================================================
