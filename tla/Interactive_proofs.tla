-------------------------- MODULE Interactive_proofs --------------------------
(***************************************************************************)
(* Proofs about Interactive and the PTY manager under it, for any number   *)
(* of PTYs, attachments, verifier calls, clients and handles and any       *)
(* bounds: what an attachment delivers and what a verifier concludes, with *)
(* either store; and, with the Postgres store, that a runtime without an   *)
(* owner is one whose run was refused and that an ended handle never       *)
(* changes.                                                                *)
(***************************************************************************)
EXTENDS Interactive, SequenceTheorems, TLAPS

-----------------------------------------------------------------------------
(* The inductive invariant.                                                *)

Session == [state : {"absent", "running", "exited"}, code : Int, printed : Nat,
            buffer : Nat, file : BOOLEAN, closed : BOOLEAN, exitCode : Int,
            reason : {"active", "closed_on_request"}, killed : BOOLEAN]

ReadChunk == [lo : Nat, hi : Nat, next : Nat, closed : BOOLEAN]

Attached == [pty : Pty \cup {"none"}, registered : BOOLEAN, live : BOOLEAN,
             start : Nat, offset : Nat, chunk : ReadChunk \cup {NoChunk},
             out : Seq(Nat), output : {"none", "poll", "deliver", "done"},
             input : {"none", "read", "done"}]

Checking == [kind : {"none", "active", "contains", "exit"},
             pty : Pty \cup {"none"}, start : Nat, offset : Nat,
             verdict : {"none", "pending", "ok", "failed"}]

HandleRecord == [status : {"none", "active"} \cup Ended, version : Nat,
                 pty : Pty \cup {"none"}, offset : Nat, closed : BOOLEAN,
                 op : {"none", "start", "reopen", "view", "write", "update",
                       "close", "invalidate"}]

CallRecord == [op : {"none", "start", "reopen", "view", "write", "update",
                     "close", "invalidate", "run"},
               pc : {"idle", "start", "create", "reopen", "view", "write",
                     "close", "kill", "persist", "update", "store"},
               h : Handle \cup {"none"}, lease : Nat, seen : HandleRecord,
               pty : Pty \cup {"none"}, obs : [offset : Nat, closed : BOOLEAN]]

(* A session counts as closed only once its process has ended and the code *)
(* it ended with is recorded.                                              *)
SessionOK(s) ==
    /\ s \in Session
    /\ s.state = "absent" => s.buffer = 0 /\ ~s.closed /\ ~s.file
    /\ s.closed => s.state = "exited" /\ s.exitCode = s.code

(* The bytes s+1 .. s+n, as streamAttachedOutput hands them over.          *)
Run(s, n) == [i \in 1..n |-> s + i]

(* An attachment has delivered the bytes between its two offsets, and the  *)
(* chunk it read, if it is worth delivering, continues where it stands.    *)
AttachmentOK(at) ==
    /\ at \in Attached
    /\ at.output \in {"poll", "deliver"} => at.pty \in Pty
    /\ at.start <= at.offset
    /\ at.out = Run(at.start, at.offset - at.start)
    /\ at.output = "deliver" =>
         /\ at.chunk \in ReadChunk
         /\ at.chunk.next = at.chunk.hi
         /\ at.chunk.next > at.offset => at.chunk.lo = at.offset

(* What a verifier has scanned lies in the buffer of its session.          *)
CheckOK(k, ss) ==
    /\ k \in Checking
    /\ k.verdict # "none" =>
         /\ k.pty \in Pty
         /\ k.offset = k.start \/ k.offset <= ss[k.pty].buffer
    /\ k.verdict = "ok" =>
         /\ k.kind = "contains" =>
               k.start < Needle /\ Needle <= ss[k.pty].buffer
         /\ k.kind = "exit" => ss[k.pty].closed /\ ss[k.pty].code = 0

SessionsGood == sessions \in [Pty -> Session] /\ \A p \in Pty : SessionOK(sessions[p])

AttachmentsGood ==
    /\ attachments \in [Attachment -> Attached]
    /\ \A a \in Attachment : AttachmentOK(attachments[a])

ChecksGood ==
    /\ checks \in [Check -> Checking]
    /\ \A v \in Check : CheckOK(checks[v], sessions)

PtyInv == SessionsGood /\ AttachmentsGood /\ ChecksGood /\ doomed \subseteq Pty

HandleOK(r) ==
    /\ r \in HandleRecord
    /\ r.status = "none" => r.version = 0 /\ r.pty = "none"
    /\ r.status # "none" => r.pty \in Pty

(* A call about to write a handle read it when it was active, and unless   *)
(* it has been written since, it is what the call read.                    *)
UpdateOK(k, hs) ==
    /\ k.seen.status = "active"
    /\ HandleOK(k.seen)
    /\ Postgres => /\ k.seen.version <= hs[k.h].version
                   /\ k.seen.version = hs[k.h].version => hs[k.h] = k.seen

CallOK(k, hs) ==
    /\ k \in CallRecord
    /\ k.pc # "idle" => k.h \in Handle
    /\ k.pc \in {"create", "store", "reopen", "view", "write", "close", "kill"}
         => k.pty \in Pty
    /\ k.op = "run" => k.pc = "store"
    /\ k.pc = "update" => UpdateOK(k, hs)

SessionRecordGood == st \in State

HandlesGood ==
    /\ handles \in [Handle -> HandleRecord]
    /\ \A h \in Handle : HandleOK(handles[h])

CallsGood ==
    /\ calls \in [Client -> CallRecord]
    /\ \A c \in Client : CallOK(calls[c], handles)

(* A running PTY belongs to a call or a run that has still to store its    *)
(* handle, is named by a stored handle or was left by a refused run.       *)
Owner(p) ==
    \/ \E c \in Client : calls[c].pc \in {"create", "store"} /\ calls[c].pty = p
    \/ \E h \in Handle : handles[h].status # "none" /\ handles[h].pty = p
    \/ p \in leaked

Owned == \A p \in Pty : sessions[p].state = "running" => Owner(p)

InteractiveInv ==
    PtyInv /\ SessionRecordGood /\ HandlesGood /\ CallsGood /\ (Postgres => Owned)

-----------------------------------------------------------------------------
(* PTY sessions: a buffer never shrinks, and a session once closed stays   *)
(* closed with the code it recorded.                                       *)

Forward(s, t) ==
    /\ s.buffer <= t.buffer
    /\ s.closed => t.closed /\ t.code = s.code

SessionsForward == \A p \in Pty : Forward(sessions[p], sessions'[p])

LEMMA SessionsUnchanged ==
    ASSUME SessionsGood, UNCHANGED sessions
    PROVE  SessionsGood' /\ SessionsForward
BY DEF SessionsGood, SessionsForward, Forward, SessionOK, Session

LEMMA OneSessionChanges ==
    ASSUME SessionsGood, NEW p \in Pty, NEW t,
           sessions' = [sessions EXCEPT ![p] = t],
           SessionOK(t), Forward(sessions[p], t)
    PROVE  SessionsGood' /\ SessionsForward
<1>1. t \in Session
  BY DEF SessionOK
<1>2. sessions' \in [Pty -> Session] /\ sessions'[p] = t
      /\ \A q \in Pty : q # p => sessions'[q] = sessions[q]
  BY <1>1 DEF SessionsGood
<1>3. \A q \in Pty : Forward(sessions[q], sessions[q])
  BY DEF SessionsGood, Forward, Session
<1>4. SessionsForward
  BY <1>2, <1>3 DEF SessionsForward
<1>5. \A q \in Pty : SessionOK(sessions'[q])
  BY <1>2 DEF SessionsGood
<1> QED BY <1>2, <1>4, <1>5 DEF SessionsGood

LEMMA NoSessionOK == SessionOK(NoSession)
BY DEF NoSession, SessionOK, Session

LEMMA StartedOK ==
    /\ SessionOK(Started)
    /\ \A s : SessionOK(s) /\ s.state = "absent" => Forward(s, Started)
<1>1. Started \in Session
  <2>1. PICK s \in Session : s = NoSession
    BY NoSessionOK DEF SessionOK
  <2>2. [s EXCEPT !.state = "running", !.file = TRUE] \in Session
    BY DEF Session
  <2> QED BY <2>1, <2>2 DEF Started
<1>2. Started.state = "running" /\ Started.closed = FALSE /\ Started.buffer = 0
  BY DEF Started, NoSession
<1>3. SessionOK(Started)
  BY <1>1, <1>2 DEF SessionOK
<1>4. ASSUME NEW s, SessionOK(s), s.state = "absent"
      PROVE  Forward(s, Started)
  <2>1. s.buffer = 0 /\ ~s.closed
    BY <1>4 DEF SessionOK
  <2> QED BY <1>2, <2>1 DEF Forward
<1> QED BY <1>3, <1>4

LEMMA ClosedOK ==
    ASSUME NEW s, SessionOK(s)
    PROVE  SessionOK(Closed(s)) /\ Forward(s, Closed(s)) /\ Closed(s).state = "exited"
<1>0. s \in Session
  BY DEF SessionOK
<1> DEFINE t == Closed(s)
<1>1. -1 \in Int
  OBVIOUS
<1>2. t \in Session
  BY <1>0, <1>1 DEF Closed, Killed, Session
<1>3. t.buffer = s.buffer /\ t.closed = s.closed /\ t.exitCode = s.exitCode
      /\ t.state = "exited"
  BY <1>0 DEF Closed, Session
<1>4. s.state # "running" => t.code = s.code
  BY <1>0 DEF Closed, Session
<1> HIDE DEF t
<1>5. s.closed => s.state = "exited" /\ s.exitCode = s.code
  BY DEF SessionOK
<1>6. SessionOK(t)
  BY <1>2, <1>3, <1>4, <1>5 DEF SessionOK
<1>7. s.buffer <= t.buffer
  BY <1>0, <1>3 DEF Session
<1>8. Forward(s, t)
  BY <1>3, <1>4, <1>5, <1>7 DEF Forward
<1> QED BY <1>3, <1>6, <1>8 DEF t

LEMMA PtyStepSessions ==
    ASSUME SessionsGood, NEW p \in Pty,
           ProcessPrints(p) \/ ProcessExits(p) \/ captureOutput(p) \/ waitForExit(p)
    PROVE  SessionsGood' /\ SessionsForward
           /\ \A q \in Pty : sessions'[q].state = "running" => sessions[q].state = "running"
<1> DEFINE s == sessions[p]
<1>0. s \in Session /\ SessionOK(s) /\ sessions \in [Pty -> Session]
  BY DEF SessionsGood
<1>1. CASE ProcessPrints(p)
  <2> DEFINE t == [s EXCEPT !.printed = @ + 1]
  <2>1. sessions' = [sessions EXCEPT ![p] = t]
    BY <1>1 DEF ProcessPrints
  <2>2. SessionOK(t) /\ Forward(s, t)
    BY <1>0 DEF SessionOK, Session, Forward
  <2>3. t.state = s.state
    BY <1>0 DEF Session
  <2> HIDE DEF t
  <2> QED BY <1>0, <2>1, <2>2, <2>3, OneSessionChanges
<1>2. CASE ProcessExits(p)
  <2>1. PICK code \in {0, 1} : sessions' = [sessions EXCEPT ![p].state = "exited",
                                                          ![p].code = code]
    BY <1>2 DEF ProcessExits
  <2> DEFINE t == [s EXCEPT !.state = "exited", !.code = code]
  <2>2. sessions' = [sessions EXCEPT ![p] = t]
    BY <2>1, <1>0
  <2>3. s.state = "running"
    BY <1>2 DEF ProcessExits
  <2>5. t \in Session /\ t.closed = s.closed /\ t.buffer = s.buffer
        /\ t.state = "exited"
    <3>1. code \in Int
      BY <2>1
    <3> QED BY <1>0, <3>1 DEF Session
  <2> HIDE DEF t
  <2>6. ~s.closed
    BY <1>0, <2>3 DEF SessionOK
  <2>7. s.buffer <= t.buffer
    BY <1>0, <2>5 DEF Session
  <2>4. SessionOK(t) /\ Forward(s, t) /\ t.state = "exited"
    BY <2>5, <2>6, <2>7 DEF SessionOK, Forward
  <2> HIDE DEF t
  <2> QED BY <1>0, <2>2, <2>4, OneSessionChanges
<1>3. CASE captureOutput(p)
  <2> DEFINE t == [s EXCEPT !.buffer = s.printed]
  <2>1. sessions' = [sessions EXCEPT ![p] = t] /\ s.buffer < s.printed /\ s.file
    BY <1>3 DEF captureOutput
  <2>2. s.state # "absent" \/ s.buffer = 0
    BY <1>0 DEF SessionOK
  <2>3. s.state # "absent"
    BY <1>0, <2>1 DEF SessionOK
  <2>4. SessionOK(t) /\ Forward(s, t) /\ t.state = s.state
    BY <1>0, <2>1, <2>3 DEF SessionOK, Session, Forward
  <2> HIDE DEF t
  <2> QED BY <1>0, <2>1, <2>4, OneSessionChanges
<1>4. CASE waitForExit(p)
  <2> DEFINE t == [s EXCEPT !.closed = TRUE, !.exitCode = s.code]
  <2>1. sessions' = [sessions EXCEPT ![p] = t] /\ s.state = "exited" /\ ~s.closed
    BY <1>4, <1>0 DEF waitForExit
  <2>3. t \in Session /\ t.buffer = s.buffer /\ t.code = s.code
        /\ t.exitCode = s.code /\ t.closed = TRUE /\ t.state = s.state
    BY <1>0 DEF Session
  <2> HIDE DEF t
  <2>4. s.buffer <= t.buffer
    BY <1>0, <2>3 DEF Session
  <2>2. SessionOK(t) /\ Forward(s, t) /\ t.state = "exited"
    BY <2>1, <2>3, <2>4 DEF SessionOK, Forward
  <2> HIDE DEF t
  <2> QED BY <1>0, <2>1, <2>2, OneSessionChanges
<1> QED BY <1>1, <1>2, <1>3, <1>4

-----------------------------------------------------------------------------
(* Attachments.                                                            *)

LEMMA RunIsSeq ==
    ASSUME NEW s \in Nat, NEW n \in Nat
    PROVE  Run(s, n) \in Seq(Nat) /\ Len(Run(s, n)) = n
<1>1. \A i \in 1..n : s + i \in Nat
  OBVIOUS
<1>2. Run(s, n) \in Seq(Nat)
  BY <1>1 DEF Run
<1>3. DOMAIN Run(s, n) = 1..n
  BY DEF Run
<1> QED BY <1>2, <1>3, LenProperties

LEMMA RunsJoin ==
    ASSUME NEW s \in Nat, NEW m \in Nat, NEW n \in Nat
    PROVE  Run(s, m) \o Run(s + m, n) = Run(s, m + n)
<1> DEFINE a == Run(s, m)
           b == Run(s + m, n)
<1>1. s + m \in Nat /\ m + n \in Nat
  OBVIOUS
<1>2. a \in Seq(Nat) /\ Len(a) = m /\ b \in Seq(Nat) /\ Len(b) = n
  BY <1>1, RunIsSeq
<1>3. \A i \in 1..m : a[i] = s + i
  BY DEF Run
<1>4. \A i \in 1..n : b[i] = s + m + i
  BY DEF Run
<1> HIDE DEF a, b
<1> DEFINE c == Run(s, m + n)
<1>5. c \in Seq(Nat) /\ Len(c) = m + n /\ \A i \in 1..(m + n) : c[i] = s + i
  BY <1>1, RunIsSeq DEF Run
<1> HIDE DEF c
<1>6. a \o b \in Seq(Nat) /\ Len(a \o b) = m + n
      /\ \A i \in 1..(m + n) : (a \o b)[i] = IF i <= m THEN a[i] ELSE b[i - m]
  BY <1>2, ConcatProperties
<1>7. \A i \in 1..(m + n) : (a \o b)[i] = c[i]
  <2> TAKE i \in 1..(m + n)
  <2>1. CASE i <= m
    <3>1. (a \o b)[i] = a[i] /\ i \in 1..m
      BY <1>6, <2>1
    <3> QED BY <1>3, <1>5, <3>1
  <2>2. CASE ~(i <= m)
    <3>1. i - m \in 1..n /\ s + m + (i - m) = s + i
      BY <2>2
    <3>2. (a \o b)[i] = b[i - m]
      BY <1>6, <2>2
    <3>3. b[i - m] = s + m + (i - m)
      BY <1>4, <3>1
    <3> QED BY <1>5, <3>1, <3>2, <3>3
  <2> QED BY <2>1, <2>2
<1>8. a \o b = c
  BY <1>5, <1>6, <1>7, SeqEqual
<1> QED BY <1>8 DEF a, b, c

LEMMA ReadFacts ==
    ASSUME NEW s \in Session, NEW o \in Nat, NEW m \in Nat
    PROVE  LET r == Read(s, o, m) IN
           /\ r.lo \in Nat /\ r.hi \in Nat /\ r.lo <= r.hi
           /\ r.next = r.hi /\ r.next <= s.buffer
           /\ r.closed = s.closed /\ r.closed \in BOOLEAN
           /\ r.next > o => r.lo = o
<1> DEFINE from == IF o > s.buffer THEN s.buffer ELSE o
           max  == IF m <= 0 THEN DefaultReadBytes ELSE m
           end  == IF from + max < s.buffer THEN from + max ELSE s.buffer
           r    == [lo |-> from, hi |-> end, next |-> end, closed |-> s.closed,
                    truncated |-> from + max < s.buffer]
<1>1. s.buffer \in Nat /\ s.closed \in BOOLEAN
  BY DEF Session
<1>2. from \in Nat /\ from <= s.buffer /\ (from < o => from = s.buffer) /\ from <= o
  BY <1>1
<1>3. max \in Nat
  BY PtyAssumption
<1>4. Read(s, o, m) = r
  BY DEF Read
<1> HIDE DEF from, max
<1>5. end \in Nat /\ from <= end /\ end <= s.buffer
  BY <1>1, <1>2, <1>3
<1>6. end > o => from = o
  BY <1>1, <1>2, <1>5
<1> HIDE DEF end
<1> QED BY <1>1, <1>2, <1>4, <1>5, <1>6

LEMMA AttachmentsUnchanged ==
    ASSUME AttachmentsGood, UNCHANGED attachments
    PROVE  AttachmentsGood'
BY DEF AttachmentsGood

LEMMA OneAttachmentChanges ==
    ASSUME AttachmentsGood, NEW a \in Attachment, NEW t,
           attachments' = [attachments EXCEPT ![a] = t], AttachmentOK(t)
    PROVE  AttachmentsGood'
<1>1. t \in Attached
  BY DEF AttachmentOK
<1>2. attachments' \in [Attachment -> Attached] /\ attachments'[a] = t
      /\ \A b \in Attachment : b # a => attachments'[b] = attachments[b]
  BY <1>1 DEF AttachmentsGood
<1> QED BY <1>2 DEF AttachmentsGood

LEMMA NoAttachmentOK == AttachmentOK(NoAttachment)
<1>1. NoAttachment \in Attached
  BY DEF NoAttachment, Attached
<1>2. NoAttachment.start = 0 /\ NoAttachment.offset = 0 /\ NoAttachment.out = <<>>
      /\ NoAttachment.output = "none"
  BY DEF NoAttachment
<1>3. 0 - 0 = 0 /\ Run(0, 0) = <<>>
  BY DEF Run
<1> QED BY <1>1, <1>2, <1>3 DEF AttachmentOK

(* Only what an attachment is bound to or has delivered matters.           *)
LEMMA SameDelivery ==
    ASSUME NEW at, AttachmentOK(at), NEW t \in Attached,
           t.pty = at.pty, t.start = at.start, t.offset = at.offset, t.out = at.out,
           t.output \in {"none", "done"} \/ (t.output = at.output /\ t.chunk = at.chunk)
    PROVE  AttachmentOK(t)
BY DEF AttachmentOK

LEMMA DetachedOK ==
    ASSUME AttachmentsGood, NEW ps, attachments' = Detached(ps)
    PROVE  AttachmentsGood'
<1>1. ASSUME NEW a \in Attachment
      PROVE  AttachmentOK(attachments'[a])
  <2> DEFINE at == attachments[a]
             t == [at EXCEPT !.registered = FALSE, !.live = FALSE]
  <2>1. at \in Attached /\ AttachmentOK(at)
    BY DEF AttachmentsGood
  <2>2. t \in Attached /\ t.pty = at.pty /\ t.start = at.start /\ t.offset = at.offset
        /\ t.out = at.out /\ t.output = at.output /\ t.chunk = at.chunk
    BY <2>1 DEF Attached
  <2>3. attachments'[a] = t \/ attachments'[a] = at
    BY DEF Detached
  <2> HIDE DEF t
  <2>4. AttachmentOK(t)
    BY <2>1, <2>2, SameDelivery
  <2> QED BY <2>1, <2>3, <2>4
<1>2. attachments' = [a \in Attachment |-> attachments'[a]]
  BY DEF Detached
<1>3. attachments' \in [Attachment -> Attached]
  BY <1>1, <1>2 DEF AttachmentOK
<1> QED BY <1>1, <1>3 DEF AttachmentsGood

LEMMA AttachStep ==
    ASSUME AttachmentsGood, NEW a \in Attachment, NEW p \in Pty, NEW from \in {0, 2},
           NEW ends \in Ends, Attach(a, p, from, ends)
    PROVE  AttachmentsGood'
<1> DEFINE t == [NoAttachment EXCEPT
                    !.pty = p, !.registered = TRUE, !.live = TRUE,
                    !.start = from, !.offset = from,
                    !.output = IF "output" \in ends THEN "poll" ELSE "none",
                    !.input  = IF "input" \in ends THEN "read" ELSE "none"]
<1>1. attachments' = [attachments EXCEPT ![a] = t]
  BY DEF Attach
<1>2. PICK n \in Attached : n = NoAttachment
  BY NoAttachmentOK DEF AttachmentOK
<1>3. from \in Nat /\ from - from = 0 /\ from <= from /\ NoAttachment.out = <<>>
  BY DEF NoAttachment
<1>4. t \in Attached /\ t.pty = p /\ t.start = from /\ t.offset = from
      /\ t.out = n.out /\ t.output \in {"poll", "none"}
  BY <1>2, <1>3 DEF Attached
<1> HIDE DEF t
<1>5. Run(from, 0) = <<>>
  BY DEF Run
<1>6. AttachmentOK(t)
  BY <1>2, <1>3, <1>4, <1>5 DEF AttachmentOK
<1> QED BY <1>1, <1>6, OneAttachmentChanges

LEMMA DetachStep ==
    ASSUME AttachmentsGood, NEW a \in Attachment, Detach(a)
    PROVE  AttachmentsGood'
<1> DEFINE at == attachments[a]
           t == [at EXCEPT !.registered = FALSE, !.live = FALSE]
<1>1. at \in Attached /\ AttachmentOK(at)
  BY DEF AttachmentsGood
<1>2. t \in Attached /\ t.pty = at.pty /\ t.start = at.start /\ t.offset = at.offset
      /\ t.out = at.out /\ t.output = at.output /\ t.chunk = at.chunk
  BY <1>1 DEF Attached
<1>3. attachments' = [attachments EXCEPT ![a] = t]
  BY DEF Detach
<1> HIDE DEF t
<1>4. AttachmentOK(t)
  BY <1>1, <1>2, SameDelivery
<1> QED BY <1>3, <1>4, OneAttachmentChanges

LEMMA StreamInputStep ==
    ASSUME AttachmentsGood, NEW a \in Attachment, streamAttachedInput(a)
    PROVE  AttachmentsGood'
<1> DEFINE at == attachments[a]
           t == [at EXCEPT !.input = "done"]
<1>1. at \in Attached /\ AttachmentOK(at)
  BY DEF AttachmentsGood
<1>2. t \in Attached /\ t.pty = at.pty /\ t.start = at.start /\ t.offset = at.offset
      /\ t.out = at.out /\ t.output = at.output /\ t.chunk = at.chunk
  BY <1>1 DEF Attached
<1>3. attachments' = [attachments EXCEPT ![a] = t]
  BY DEF streamAttachedInput
<1> HIDE DEF t
<1>4. AttachmentOK(t)
  BY <1>1, <1>2, SameDelivery
<1> QED BY <1>3, <1>4, OneAttachmentChanges

LEMMA StreamPollStep ==
    ASSUME AttachmentsGood, SessionsGood, NEW a \in Attachment, streamPoll(a)
    PROVE  AttachmentsGood'
<1> DEFINE at == attachments[a]
           r  == Read(sessions[at.pty], at.offset, DefaultReadBytes)
           k  == [lo |-> r.lo, hi |-> r.hi, next |-> r.next, closed |-> r.closed]
           d  == [at EXCEPT !.output = "done"]
           t  == [at EXCEPT !.output = "deliver", !.chunk = k]
<1>1. at \in Attached /\ AttachmentOK(at) /\ at.output = "poll"
  BY DEF AttachmentsGood, streamPoll
<1>2. \/ attachments' = [attachments EXCEPT ![a] = d]
      \/ attachments' = [attachments EXCEPT ![a] = t]
  BY DEF streamPoll
<1>3. AttachmentOK(d)
  <2>1. d \in Attached /\ d.pty = at.pty /\ d.start = at.start /\ d.offset = at.offset
        /\ d.out = at.out /\ d.output = "done"
    BY <1>1 DEF Attached
  <2> QED BY <1>1, <2>1, SameDelivery
<1>4. AttachmentOK(t)
  <2>1. at.pty \in Pty /\ at.offset \in Nat
    BY <1>1 DEF AttachmentOK, Attached
  <2>2. sessions[at.pty] \in Session /\ DefaultReadBytes \in Nat
    BY <2>1, PtyAssumption DEF SessionsGood
  <2>3. /\ r.lo \in Nat /\ r.hi \in Nat /\ r.next = r.hi /\ r.closed \in BOOLEAN
        /\ r.next > at.offset => r.lo = at.offset
    BY <2>1, <2>2, ReadFacts
  <2> HIDE DEF r
  <2>4. k \in ReadChunk /\ k.next = k.hi /\ (k.next > at.offset => k.lo = at.offset)
    BY <2>3 DEF ReadChunk
  <2> HIDE DEF k
  <2>5. t \in Attached /\ t.pty = at.pty /\ t.start = at.start /\ t.offset = at.offset
        /\ t.out = at.out /\ t.output = "deliver" /\ t.chunk = k
    BY <1>1, <2>4 DEF Attached
  <2> HIDE DEF t
  <2> QED BY <1>1, <2>1, <2>4, <2>5 DEF AttachmentOK
<1> HIDE DEF d, t
<1> QED BY <1>2, <1>3, <1>4, OneAttachmentChanges

LEMMA StreamDeliverStep ==
    ASSUME AttachmentsGood, NEW a \in Attachment, streamDeliver(a)
    PROVE  AttachmentsGood'
<1> DEFINE at == attachments[a]
           c  == at.chunk
           bytes == [i \in 1..(c.hi - c.lo) |-> c.lo + i]
           more == c.next > at.offset
           out == IF more THEN at.out \o bytes ELSE at.out
           o == IF more THEN c.next ELSE at.offset
           next == IF c.closed THEN "done" ELSE "poll"
           t == [at EXCEPT !.out = out, !.offset = o, !.chunk = NoChunk, !.output = next]
           d == [at EXCEPT !.output = "done", !.chunk = NoChunk]
<1>1. at \in Attached /\ AttachmentOK(at) /\ at.output = "deliver"
  BY DEF AttachmentsGood, streamDeliver
<1>2. \/ attachments' = [attachments EXCEPT ![a] = t]
      \/ attachments' = [attachments EXCEPT ![a] = d]
  BY <1>1 DEF streamDeliver, AttachmentsGood
<1>3. AttachmentOK(d)
  <2>1. d \in Attached /\ d.pty = at.pty /\ d.start = at.start /\ d.offset = at.offset
        /\ d.out = at.out /\ d.output = "done"
    BY <1>1 DEF Attached
  <2> QED BY <1>1, <2>1, SameDelivery
<1>4. AttachmentOK(t)
  <2>1. /\ at.start \in Nat /\ at.offset \in Nat /\ at.out \in Seq(Nat)
        /\ at.start <= at.offset /\ at.pty \in Pty
        /\ at.out = Run(at.start, at.offset - at.start)
        /\ c \in ReadChunk /\ c.next = c.hi /\ (c.next > at.offset => c.lo = at.offset)
    BY <1>1 DEF AttachmentOK, Attached
  <2>2. c.lo \in Nat /\ c.hi \in Nat /\ c.next \in Nat
    BY <2>1 DEF ReadChunk
  <2>3. o \in Nat /\ at.start <= o /\ out \in Seq(Nat) /\ out = Run(at.start, o - at.start)
    <3>1. CASE ~more
      BY <2>1, <3>1
    <3>2. CASE more
      <4> DEFINE m == at.offset - at.start
                 n == c.next - at.offset
      <4>1. m \in Nat /\ n \in Nat /\ m + n = c.next - at.start /\ at.start + m = at.offset
            /\ at.start <= c.next
        <5>1. \A x, y, z \in Nat : x <= y /\ z > y =>
                 /\ y - x \in Nat /\ z - y \in Nat /\ (y - x) + (z - y) = z - x
                 /\ x + (y - x) = y /\ x <= z
          OBVIOUS
        <5>2. PICK x, y, z \in Nat : x = at.start /\ y = at.offset /\ z = c.next
          BY <2>1, <2>2
        <5>3. x <= y /\ z > y
          BY <2>1, <3>2, <5>2
        <5>4. /\ y - x \in Nat /\ z - y \in Nat /\ (y - x) + (z - y) = z - x
              /\ x + (y - x) = y /\ x <= z
          BY <5>1, <5>3
        <5> QED BY <5>2, <5>4, Zenon
      <4>2. bytes = Run(at.offset, n)
        BY <2>1, <3>2 DEF Run
      <4>3. at.out = Run(at.start, m)
        BY <2>1
      <4> HIDE DEF m, n, bytes
      <4>4. Run(at.start, m) \o Run(at.start + m, n) = Run(at.start, m + n)
        BY <2>1, <4>1, RunsJoin
      <4>5. at.out \o bytes = Run(at.start, c.next - at.start)
        BY <4>1, <4>2, <4>3, <4>4
      <4>6. Run(at.start, m + n) \in Seq(Nat)
        BY <2>1, <4>1, RunIsSeq
      <4>7. out = at.out \o bytes /\ o = c.next
        BY <3>2
      <4> HIDE DEF out, o
      <4> QED BY <2>2, <4>1, <4>5, <4>6, <4>7
    <3> QED BY <3>1, <3>2
  <2>4. next \in {"done", "poll"}
    OBVIOUS
  <2> HIDE DEF out, o, next
  <2>5. t \in Attached /\ t.pty = at.pty /\ t.start = at.start /\ t.offset = o
        /\ t.out = out /\ t.output = next
    BY <1>1, <2>3, <2>4 DEF Attached
  <2> HIDE DEF t
  <2> QED BY <2>1, <2>3, <2>4, <2>5 DEF AttachmentOK
<1> HIDE DEF d, t
<1> QED BY <1>2, <1>3, <1>4, OneAttachmentChanges

-----------------------------------------------------------------------------
(* Verifier calls.                                                         *)

(* What a verifier concluded stays true while sessions move forward.       *)
LEMMA ChecksUnchanged ==
    ASSUME ChecksGood, SessionsGood, SessionsGood', SessionsForward, UNCHANGED checks
    PROVE  ChecksGood'
<1> SUFFICES ASSUME NEW v \in Check
             PROVE  CheckOK(checks[v], sessions')
  BY DEF ChecksGood
<1> DEFINE k == checks[v]
<1>1. CheckOK(k, sessions) /\ k \in Checking
  BY DEF ChecksGood
<1>2. CASE k.verdict = "none"
  BY <1>1, <1>2 DEF CheckOK
<1>3. CASE k.verdict # "none"
  <2> DEFINE s == sessions[k.pty]
             u == sessions'[k.pty]
  <2>1. k.pty \in Pty /\ (k.offset = k.start \/ k.offset <= s.buffer)
    BY <1>1, <1>3 DEF CheckOK
  <2>2. Forward(s, u) /\ s \in Session /\ u \in Session
    BY <2>1 DEF SessionsForward, SessionsGood
  <2>3. s.buffer \in Nat /\ u.buffer \in Nat /\ s.buffer <= u.buffer
    BY <2>2 DEF Forward, Session
  <2>4. s.closed => u.closed /\ u.code = s.code
    BY <2>2 DEF Forward
  <2>5. k.offset \in Nat /\ k.start \in Nat /\ Needle \in Nat
    BY <1>1, PtyAssumption DEF Checking
  <2>6. k.verdict = "ok" =>
           /\ k.kind = "contains" => k.start < Needle /\ Needle <= s.buffer
           /\ k.kind = "exit" => s.closed /\ s.code = 0
    BY <1>1 DEF CheckOK
  <2> HIDE DEF s, u
  <2>7. k.offset = k.start \/ k.offset <= u.buffer
    BY <2>1, <2>3, <2>5
  <2>8. Needle <= s.buffer => Needle <= u.buffer
    BY <2>3, <2>5
  <2>9. CheckOK(k, sessions')
    BY <1>1, <2>1, <2>4, <2>6, <2>7, <2>8 DEF CheckOK, u
  <2> QED BY <2>9
<1> QED BY <1>2, <1>3

LEMMA OneCheckChanges ==
    ASSUME ChecksGood, NEW v \in Check, NEW t, UNCHANGED sessions,
           checks' = [checks EXCEPT ![v] = t], CheckOK(t, sessions)
    PROVE  ChecksGood'
<1>1. t \in Checking
  BY DEF CheckOK
<1>2. checks' \in [Check -> Checking] /\ checks'[v] = t
      /\ \A b \in Check : b # v => checks'[b] = checks[b]
  BY <1>1 DEF ChecksGood
<1> QED BY <1>2 DEF ChecksGood

LEMMA NoCheckOK == CheckOK(NoCheck, sessions)
BY DEF NoCheck, CheckOK, Checking

LEMMA BeginCheckStep ==
    ASSUME ChecksGood, NEW v \in Check, NEW p \in Pty, NEW from \in {0, 1},
           NEW kind \in {"active", "contains", "exit"}, BeginCheck(v, p, kind, from)
    PROVE  ChecksGood'
<1> DEFINE t == [NoCheck EXCEPT !.kind = kind, !.pty = p, !.start = from,
                                !.offset = from, !.verdict = "pending"]
<1>1. checks' = [checks EXCEPT ![v] = t] /\ UNCHANGED sessions
  BY DEF BeginCheck
<1>2. PICK n \in Checking : n = NoCheck
  BY NoCheckOK DEF CheckOK
<1>3. from \in Nat
  OBVIOUS
<1>4. t \in Checking /\ t.pty = p /\ t.offset = t.start /\ t.verdict = "pending"
  BY <1>2, <1>3 DEF Checking
<1> HIDE DEF t
<1>5. CheckOK(t, sessions)
  BY <1>4 DEF CheckOK
<1> QED BY <1>1, <1>5, OneCheckChanges

LEMMA HandleActiveStep ==
    ASSUME ChecksGood, NEW v \in Check, HandleActiveVerify(v)
    PROVE  ChecksGood'
<1> DEFINE k == checks[v]
           d == IF Inspect(sessions[k.pty]).closed THEN "failed" ELSE "ok"
           t == [k EXCEPT !.verdict = d]
<1>1. k \in Checking /\ CheckOK(k, sessions) /\ k.kind = "active" /\ k.verdict = "pending"
  BY DEF ChecksGood, HandleActiveVerify
<1>2. checks' = [checks EXCEPT ![v] = t] /\ UNCHANGED sessions
  BY DEF HandleActiveVerify
<1>3. d \in {"failed", "ok"}
  OBVIOUS
<1> HIDE DEF d
<1>4. t \in Checking /\ t.kind = "active" /\ t.pty = k.pty /\ t.offset = k.offset
      /\ t.start = k.start
  BY <1>1, <1>3 DEF Checking
<1> HIDE DEF t
<1>5. CheckOK(t, sessions)
  BY <1>1, <1>4 DEF CheckOK
<1> QED BY <1>2, <1>5, OneCheckChanges

LEMMA StreamContainsStep ==
    ASSUME ChecksGood, SessionsGood, NEW v \in Check, StreamContainsVerify(v)
    PROVE  ChecksGood'
<1> DEFINE k == checks[v]
           s == sessions[k.pty]
           r == Read(s, k.offset, DefaultReadBytes)
           upto == IF r.next > k.offset THEN r.next ELSE k.offset
           found == k.start < Needle /\ Needle <= upto
<1>1. k \in Checking /\ CheckOK(k, sessions) /\ k.kind = "contains"
      /\ k.verdict = "pending"
  BY DEF ChecksGood, StreamContainsVerify
<1>2. PICK late \in BOOLEAN :
         checks' = [checks EXCEPT
                       ![v].offset = upto,
                       ![v].verdict = IF found THEN "ok"
                                      ELSE IF r.closed \/ late THEN "failed"
                                      ELSE "pending"]
  BY DEF StreamContainsVerify
<1> DEFINE d == IF found THEN "ok" ELSE IF r.closed \/ late THEN "failed" ELSE "pending"
           t == [k EXCEPT !.offset = upto, !.verdict = d]
<1>3. checks' = [checks EXCEPT ![v] = t] /\ UNCHANGED sessions
  BY <1>2, <1>1 DEF StreamContainsVerify, ChecksGood
<1>4. k.pty \in Pty /\ (k.offset = k.start \/ k.offset <= s.buffer)
      /\ k.offset \in Nat /\ k.start \in Nat
  BY <1>1 DEF CheckOK, Checking
<1>5. s \in Session /\ s.buffer \in Nat /\ DefaultReadBytes \in Nat /\ Needle \in Nat
  BY <1>4, PtyAssumption DEF SessionsGood, Session
<1>6. r.next \in Nat /\ r.next <= s.buffer
  BY <1>4, <1>5, ReadFacts
<1>7. upto \in Nat /\ (upto = k.start \/ upto <= s.buffer)
  BY <1>4, <1>5, <1>6
<1>8. found => k.start < Needle /\ Needle <= s.buffer
  BY <1>4, <1>5, <1>7
<1>9. d \in {"ok", "failed", "pending"} /\ (d = "ok" => found)
  OBVIOUS
<1> HIDE DEF r, d, upto, found
<1>10. t \in Checking /\ t.kind = "contains" /\ t.pty = k.pty /\ t.offset = upto
       /\ t.start = k.start /\ t.verdict = d
  BY <1>1, <1>7, <1>9 DEF Checking
<1> HIDE DEF t
<1>11. CheckOK(t, sessions)
  BY <1>4, <1>7, <1>8, <1>9, <1>10 DEF CheckOK
<1> QED BY <1>3, <1>11, OneCheckChanges

LEMMA ExitCodeStep ==
    ASSUME ChecksGood, SessionsGood, NEW v \in Check, ExitCodeVerify(v)
    PROVE  ChecksGood'
<1> DEFINE k == checks[v]
           s == sessions[k.pty]
           i == Inspect(s)
<1>1. k \in Checking /\ CheckOK(k, sessions) /\ k.kind = "exit" /\ k.verdict = "pending"
  BY DEF ChecksGood, ExitCodeVerify
<1>2. PICK late \in BOOLEAN :
         checks' = [checks EXCEPT ![v].verdict =
                       IF i.closed THEN IF i.exitCode = 0 THEN "ok" ELSE "failed"
                       ELSE IF late THEN "failed" ELSE "pending"]
  BY DEF ExitCodeVerify
<1> DEFINE d == IF i.closed THEN IF i.exitCode = 0 THEN "ok" ELSE "failed"
                ELSE IF late THEN "failed" ELSE "pending"
           t == [k EXCEPT !.verdict = d]
<1>3. checks' = [checks EXCEPT ![v] = t] /\ UNCHANGED sessions
  BY <1>2, <1>1 DEF ExitCodeVerify, ChecksGood
<1>4. k.pty \in Pty /\ (k.offset = k.start \/ k.offset <= s.buffer)
  BY <1>1 DEF CheckOK
<1>5. s.closed => s.exitCode = s.code
  BY <1>4 DEF SessionsGood, SessionOK
<1>6. d \in {"ok", "failed", "pending"} /\ (d = "ok" => i.closed /\ i.exitCode = 0)
  OBVIOUS
<1>7. i.closed = s.closed /\ i.exitCode = s.exitCode
  BY DEF Inspect
<1> HIDE DEF d
<1>8. t \in Checking /\ t.kind = "exit" /\ t.pty = k.pty /\ t.offset = k.offset
      /\ t.start = k.start /\ t.verdict = d
  BY <1>1, <1>6 DEF Checking
<1> HIDE DEF t, i
<1>9. CheckOK(t, sessions)
  BY <1>4, <1>5, <1>6, <1>7, <1>8 DEF CheckOK
<1> QED BY <1>3, <1>9, OneCheckChanges

-----------------------------------------------------------------------------
(* The PTY manager: its own steps and the calls of the embedder.           *)

NothingStarts ==
    \A p \in Pty : sessions'[p].state = "running" => sessions[p].state = "running"

LEMMA ForwardInv ==
    ASSUME PtyInv, SessionsGood', SessionsForward, AttachmentsGood', UNCHANGED checks,
           doomed' \subseteq Pty
    PROVE  PtyInv'
BY ChecksUnchanged DEF PtyInv

LEMMA PtyStepInv ==
    ASSUME PtyInv, PtyStep
    PROVE  PtyInv' /\ NothingStarts
<1>0. SessionsGood /\ AttachmentsGood /\ ChecksGood /\ doomed \subseteq Pty
  BY DEF PtyInv
<1>1. ASSUME NEW p \in Pty,
             ProcessPrints(p) \/ ProcessExits(p) \/ captureOutput(p) \/ waitForExit(p)
      PROVE  PtyInv' /\ NothingStarts
  <2>1. UNCHANGED <<attachments, checks, doomed>>
    BY <1>1 DEF ProcessPrints, ProcessExits, captureOutput, waitForExit
  <2>2. SessionsGood' /\ SessionsForward /\ NothingStarts
    BY <1>0, <1>1, PtyStepSessions DEF NothingStarts
  <2>3. AttachmentsGood'
    BY <1>0, <2>1, AttachmentsUnchanged
  <2> QED BY <1>0, <2>1, <2>2, <2>3, ForwardInv
<1>2. ASSUME NEW p \in Pty, CloseAllNext(p)
      PROVE  PtyInv' /\ NothingStarts
  <2>1. SessionOK(sessions[p])
    BY <1>0 DEF SessionsGood
  <2>2. sessions' = [sessions EXCEPT ![p] = Closed(sessions[p])]
        /\ attachments' = Detached({p}) /\ UNCHANGED checks /\ doomed' \subseteq Pty
    BY <1>0, <1>2 DEF CloseAllNext
  <2>3. SessionOK(Closed(sessions[p])) /\ Forward(sessions[p], Closed(sessions[p]))
        /\ Closed(sessions[p]).state = "exited"
    BY <2>1, ClosedOK
  <2>4. SessionsGood' /\ SessionsForward
    BY <1>0, <2>2, <2>3, OneSessionChanges
  <2>5. AttachmentsGood'
    BY <1>0, <2>2, DetachedOK
  <2>6. NothingStarts
    BY <1>0, <2>2, <2>3 DEF NothingStarts, SessionsGood
  <2> QED BY <1>0, <2>2, <2>4, <2>5, <2>6, ForwardInv
<1>3. ASSUME NEW a \in Attachment,
             streamPoll(a) \/ streamDeliver(a) \/ streamAttachedInput(a)
      PROVE  PtyInv' /\ NothingStarts
  <2>1. UNCHANGED <<sessions, checks, doomed>>
    BY <1>3 DEF streamPoll, streamDeliver, streamAttachedInput
  <2>2. AttachmentsGood'
    BY <1>0, <1>3, StreamPollStep, StreamDeliverStep, StreamInputStep
  <2>3. SessionsGood' /\ SessionsForward
    BY <1>0, <2>1, SessionsUnchanged
  <2>4. NothingStarts
    BY <2>1 DEF NothingStarts
  <2> QED BY <1>0, <2>1, <2>2, <2>3, <2>4, ForwardInv
<1>4. ASSUME NEW v \in Check,
             HandleActiveVerify(v) \/ StreamContainsVerify(v) \/ ExitCodeVerify(v)
      PROVE  PtyInv' /\ NothingStarts
  <2>1. UNCHANGED <<sessions, attachments, doomed>>
    BY <1>4 DEF HandleActiveVerify, StreamContainsVerify, ExitCodeVerify
  <2>2. ChecksGood'
    BY <1>0, <1>4, HandleActiveStep, StreamContainsStep, ExitCodeStep
  <2>3. SessionsGood' /\ AttachmentsGood'
    BY <1>0, <2>1, SessionsUnchanged, AttachmentsUnchanged
  <2>4. NothingStarts /\ doomed' \subseteq Pty
    BY <1>0, <2>1 DEF NothingStarts
  <2> QED BY <2>2, <2>3, <2>4 DEF PtyInv
<1> QED BY <1>1, <1>2, <1>3, <1>4 DEF PtyStep

LEMMA PtyCallInv ==
    ASSUME PtyInv, PtyCall
    PROVE  PtyInv' /\ UNCHANGED sessions
<1>0. SessionsGood /\ AttachmentsGood /\ ChecksGood /\ doomed \subseteq Pty
  BY DEF PtyInv
<1>1. CASE CloseAll
  <2>1. UNCHANGED <<sessions, checks>> /\ attachments' = Detached(Pty) /\ doomed' \subseteq Pty
    BY <1>1 DEF CloseAll
  <2>2. SessionsGood' /\ SessionsForward /\ AttachmentsGood'
    BY <1>0, <2>1, SessionsUnchanged, DetachedOK
  <2> QED BY <2>1, <2>2, ForwardInv
<1>2. ASSUME NEW a \in Attachment,
             \/ Detach(a)
             \/ \E p \in Pty, from \in {0, 2}, ends \in Ends : Attach(a, p, from, ends)
      PROVE  PtyInv' /\ UNCHANGED sessions
  <2>1. UNCHANGED <<sessions, checks, doomed>>
    BY <1>2 DEF Detach, Attach
  <2>2. AttachmentsGood'
    BY <1>0, <1>2, DetachStep, AttachStep
  <2>3. SessionsGood' /\ SessionsForward
    BY <1>0, <2>1, SessionsUnchanged
  <2> QED BY <1>0, <2>1, <2>2, <2>3, ForwardInv
<1>3. ASSUME NEW v \in Check, NEW p \in Pty, NEW from \in {0, 1},
             NEW kind \in {"active", "contains", "exit"}, BeginCheck(v, p, kind, from)
      PROVE  PtyInv' /\ UNCHANGED sessions
  <2>1. UNCHANGED <<sessions, attachments, doomed>>
    BY <1>3 DEF BeginCheck
  <2>2. ChecksGood'
    BY <1>0, <1>3, BeginCheckStep
  <2>3. SessionsGood' /\ AttachmentsGood'
    BY <1>0, <2>1, SessionsUnchanged, AttachmentsUnchanged
  <2> QED BY <1>0, <2>1, <2>2, <2>3 DEF PtyInv
<1> QED BY <1>1, <1>2, <1>3 DEF PtyCall

-----------------------------------------------------------------------------
(* The session record.                                                     *)

USE DEF NoLease

LEMMA SessionStepRecord ==
    ASSUME SessionRecordGood,
           ClaimSession \/ LeaseEnds \/ AbortSession \/ UNCHANGED st
    PROVE  SessionRecordGood'
<1>0. st \in State /\ st.version \in Nat /\ "aborted" \in Phase
  BY DEF SessionRecordGood, State, Phase
<1>1. CASE ClaimSession
  <2> DEFINE v == st.version + 1
  <2>1. v \in Nat
    BY <1>0
  <2>2. st' = [st EXCEPT !.lease = st.version, !.expires = 2, !.version = v]
    BY <1>1 DEF ClaimSession, Now
  <2> HIDE DEF v
  <2> QED BY <1>0, <2>1, <2>2 DEF SessionRecordGood, State
<1>2. CASE LeaseEnds
  BY <1>0, <1>2 DEF LeaseEnds, Now, SessionRecordGood, State
<1>3. CASE AbortSession
  BY <1>0, <1>3 DEF AbortSession, SessionRecordGood, State
<1> QED BY <1>1, <1>2, <1>3 DEF SessionRecordGood

-----------------------------------------------------------------------------
(* Handles: with the Postgres store a record only changes with its         *)
(* version, which grows.                                                   *)

Newer(r, s) == r.version <= s.version /\ (r.version = s.version => s = r)

HandlesForward == Postgres => \A h \in Handle : Newer(handles[h], handles'[h])

LEMMA HandlesUnchanged ==
    ASSUME HandlesGood, UNCHANGED handles
    PROVE  HandlesGood' /\ HandlesForward
<1>1. HandlesGood'
  BY DEF HandlesGood
<1>2. \A h \in Handle : handles[h].version <= handles[h].version
  BY DEF HandlesGood, HandleRecord
<1> QED BY <1>1, <1>2 DEF HandlesForward, Newer

LEMMA OneHandleChanges ==
    ASSUME HandlesGood, NEW h \in Handle, NEW r, HandleOK(r),
           handles' = [handles EXCEPT ![h] = r], Postgres => Newer(handles[h], r)
    PROVE  HandlesGood' /\ HandlesForward
<1>1. r \in HandleRecord
  BY DEF HandleOK
<1>2. handles' \in [Handle -> HandleRecord] /\ handles'[h] = r
      /\ \A g \in Handle : g # h => handles'[g] = handles[g]
  BY <1>1 DEF HandlesGood
<1>3. HandlesGood'
  BY <1>2 DEF HandlesGood
<1>4. \A g \in Handle : Newer(handles[g], handles[g])
  BY DEF HandlesGood, HandleRecord, Newer
<1> QED BY <1>2, <1>3, <1>4 DEF HandlesForward

(* The record reconcileActiveRuntimeHandles writes.                        *)
Invalidated(r) == [r EXCEPT !.status = "invalidated", !.version = @ + 1]

LEMMA InvalidatedFacts ==
    ASSUME NEW r \in HandleRecord
    PROVE  /\ Invalidated(r) \in HandleRecord
           /\ Invalidated(r).version = r.version + 1
           /\ Invalidated(r).status = "invalidated"
           /\ Invalidated(r).pty = r.pty
<1> DEFINE v == r.version + 1
<1>1. v \in Nat
  BY DEF HandleRecord
<1>2. Invalidated(r) = [r EXCEPT !.status = "invalidated", !.version = v]
  BY DEF Invalidated
<1> HIDE DEF v
<1>3. /\ Invalidated(r) \in HandleRecord /\ Invalidated(r).version = v
      /\ Invalidated(r).status = "invalidated" /\ Invalidated(r).pty = r.pty
  BY <1>1, <1>2 DEF HandleRecord, Ended
<1> QED BY <1>3 DEF v

LEMMA ReconcileHandles ==
    ASSUME HandlesGood, handles' = reconcileActiveRuntimeHandles
    PROVE  /\ HandlesGood' /\ HandlesForward
           /\ \A h \in Handle :
                \/ handles'[h] = handles[h]
                \/ /\ handles[h].status = "active" /\ handles'[h].pty = handles[h].pty
                   /\ handles'[h].status # "none"
<1>1. ASSUME NEW h \in Handle
      PROVE  /\ HandleOK(handles'[h]) /\ Newer(handles[h], handles'[h])
             /\ \/ handles'[h] = handles[h]
                \/ /\ handles[h].status = "active" /\ handles'[h].pty = handles[h].pty
                   /\ handles'[h].status # "none"
  <2>1. handles[h] \in HandleRecord /\ HandleOK(handles[h])
    BY DEF HandlesGood
  <2>2. handles[h].version \in Nat
    BY <2>1 DEF HandleRecord
  <2>3. CASE handles[h].status # "active"
    <3>1. handles'[h] = handles[h]
      BY <2>3 DEF reconcileActiveRuntimeHandles, isRuntimeHandleActive
    <3>2. Newer(handles[h], handles[h])
      BY <2>2 DEF Newer
    <3> QED BY <2>1, <3>1, <3>2
  <2>4. CASE handles[h].status = "active"
    <3> DEFINE i == Invalidated(handles[h])
    <3>1. handles'[h] = i
      BY <2>4 DEF reconcileActiveRuntimeHandles, isRuntimeHandleActive, Invalidated
    <3>2. /\ i \in HandleRecord /\ i.version = handles[h].version + 1
          /\ i.status = "invalidated" /\ i.pty = handles[h].pty
      BY <2>1, InvalidatedFacts
    <3> HIDE DEF i
    <3>3. Newer(handles[h], i)
      BY <2>2, <3>2 DEF Newer
    <3>4. handles[h].pty \in Pty
      BY <2>1, <2>4 DEF HandleOK
    <3>5. HandleOK(i)
      BY <3>2, <3>4 DEF HandleOK
    <3> QED BY <2>4, <3>1, <3>2, <3>3, <3>5
  <2> QED BY <2>3, <2>4
<1>2. handles' \in [Handle -> HandleRecord]
  <2>1. handles' = [h \in Handle |-> handles'[h]]
    BY DEF reconcileActiveRuntimeHandles
  <2> QED BY <1>1, <2>1 DEF HandleOK
<1> QED BY <1>1, <1>2 DEF HandlesGood, HandlesForward

-----------------------------------------------------------------------------
(* Calls.                                                                  *)

LEMMA CallStays ==
    ASSUME HandlesGood, HandlesGood', HandlesForward, NEW k, CallOK(k, handles)
    PROVE  CallOK(k, handles')
<1>1. ASSUME k.pc = "update"
      PROVE  UpdateOK(k, handles')
  <2>1. UpdateOK(k, handles) /\ k.h \in Handle
    BY <1>1 DEF CallOK
  <2>2. HandleOK(k.seen) /\ k.seen.status = "active"
    BY <2>1 DEF UpdateOK
  <2>3. k.seen.version \in Nat
    BY <2>2 DEF HandleOK, HandleRecord
  <2>4. ASSUME Postgres
        PROVE  /\ k.seen.version <= handles'[k.h].version
               /\ k.seen.version = handles'[k.h].version => handles'[k.h] = k.seen
    <3> DEFINE r == handles[k.h]
               u == handles'[k.h]
    <3>1. k.seen.version <= r.version /\ (k.seen.version = r.version => r = k.seen)
      BY <2>1, <2>4 DEF UpdateOK
    <3>2. r.version <= u.version /\ (r.version = u.version => u = r)
      BY <2>1, <2>4 DEF HandlesForward, Newer
    <3>3. r.version \in Nat /\ u.version \in Nat
      BY <2>1 DEF HandlesGood, HandleRecord
    <3> HIDE DEF r, u
    <3>4. k.seen.version <= u.version
      BY <2>3, <3>1, <3>2, <3>3
    <3>5. k.seen.version = u.version => k.seen.version = r.version /\ r.version = u.version
      BY <2>3, <3>1, <3>2, <3>3
    <3>6. k.seen.version = u.version => u = k.seen
      BY <3>1, <3>2, <3>5
    <3> QED BY <3>4, <3>6 DEF u
  <2> QED BY <2>2, <2>4 DEF UpdateOK
<1> QED BY <1>1 DEF CallOK

LEMMA CallsUnchanged ==
    ASSUME HandlesGood, HandlesGood', HandlesForward, CallsGood, UNCHANGED calls
    PROVE  CallsGood'
BY CallStays DEF CallsGood

LEMMA OneCallChanges ==
    ASSUME HandlesGood, HandlesGood', HandlesForward, CallsGood,
           NEW c \in Client, NEW k, Set(c, k), CallOK(k, handles')
    PROVE  /\ CallsGood' /\ calls'[c] = k
           /\ \A d \in Client : d # c => calls'[d] = calls[d]
<1>1. k \in CallRecord
  BY DEF CallOK
<1>2. calls' \in [Client -> CallRecord] /\ calls'[c] = k
      /\ \A d \in Client : d # c => calls'[d] = calls[d]
  BY <1>1 DEF CallsGood, Set
<1>3. \A d \in Client : CallOK(calls[d], handles')
  BY CallStays DEF CallsGood
<1> QED BY <1>2, <1>3 DEF CallsGood

LEMMA IdleFacts ==
    /\ Idle \in CallRecord /\ Idle.pc = "idle" /\ Idle.op = "none"
    /\ CallOK(Idle, handles) /\ CallOK(Idle, handles')
<1>1. NoHandle \in HandleRecord
  BY DEF NoHandle, HandleRecord
<1>2. NoObservation \in [offset : Nat, closed : BOOLEAN]
  BY DEF NoObservation
<1>3. Idle \in CallRecord /\ Idle.pc = "idle" /\ Idle.op = "none"
  BY <1>1, <1>2 DEF Idle, CallRecord
<1> QED BY <1>3 DEF CallOK

(* Stored handles are kept, with the PTY they name.                        *)
HandlesKept ==
    \A h \in Handle : handles[h].status # "none" =>
        handles'[h].status # "none" /\ handles'[h].pty = handles[h].pty

LEMMA OwnerStays ==
    ASSUME NEW p \in Pty, Owner(p), HandlesKept, leaked \subseteq leaked',
           \A c \in Client : calls[c].pc \in {"create", "store"} /\ calls[c].pty = p
              => calls'[c] = calls[c]
    PROVE  Owner(p)'
BY DEF Owner, HandlesKept

LEMMA OwnedStays ==
    ASSUME Owned, NothingStarts, HandlesKept, leaked \subseteq leaked',
           \A c \in Client : calls[c].pc \in {"create", "store"} => calls'[c] = calls[c]
    PROVE  Owned'
BY OwnerStays DEF Owned, NothingStarts

LEMMA HandlesKeptUnchanged ==
    ASSUME UNCHANGED handles
    PROVE  HandlesKept
BY DEF HandlesKept

(* A step that only moves a call on, or ends a PTY on the way.             *)
LEMMA CallMoves ==
    ASSUME InteractiveInv, PtyInv', NothingStarts, UNCHANGED <<st, handles, leaked>>,
           NEW c \in Client, calls[c].pc \notin {"create", "store"}, NEW k, Set(c, k),
           CallOK(k, handles)
    PROVE  InteractiveInv'
<1>1. SessionRecordGood /\ HandlesGood /\ CallsGood
  BY DEF InteractiveInv
<1>2. SessionRecordGood'
  BY <1>1, SessionStepRecord
<1>3. HandlesGood' /\ HandlesForward
  BY <1>1, HandlesUnchanged
<1>4. CallOK(k, handles')
  OBVIOUS
<1>5. CallsGood' /\ \A d \in Client : d # c => calls'[d] = calls[d]
  BY <1>1, <1>3, <1>4, OneCallChanges
<1>6. \A d \in Client : calls[d].pc \in {"create", "store"} => calls'[d] = calls[d]
  BY <1>5
<1>7. Postgres => Owned'
  BY <1>6, OwnedStays, HandlesKeptUnchanged DEF InteractiveInv
<1> QED BY <1>2, <1>3, <1>5, <1>7 DEF InteractiveInv

LEMMA PtyUnchanged ==
    ASSUME PtyInv, UNCHANGED ptyVars
    PROVE  PtyInv' /\ NothingStarts
<1>1. UNCHANGED <<sessions, attachments, checks, doomed>>
  BY DEF ptyVars
<1>2. SessionsGood' /\ SessionsForward /\ AttachmentsGood' /\ doomed' \subseteq Pty
  BY <1>1, SessionsUnchanged, AttachmentsUnchanged DEF PtyInv
<1>3. PtyInv'
  BY <1>1, <1>2, ForwardInv
<1> QED BY <1>1, <1>3 DEF NothingStarts

LEMMA MutateCallInv ==
    ASSUME InteractiveInv, NEW c \in Client, NEW h \in Handle,
           NEW op \in {"update", "close", "invalidate"}, NEW l \in {NoLease, st.lease},
           MutateRuntimeHandle(c, h, op, l)
    PROVE  InteractiveInv'
<1> DEFINE k == [Idle EXCEPT !.op = op, !.pc = "update", !.h = h, !.lease = l,
                             !.seen = handles[h], !.obs.offset = handles[h].offset]
<1>0. PtyInv /\ SessionRecordGood /\ HandlesGood
  BY DEF InteractiveInv
<1>1. Set(c, k) /\ UNCHANGED <<st, handles, leaked>> /\ calls[c].pc \notin {"create", "store"}
  BY DEF MutateRuntimeHandle
<1>2. PtyInv' /\ NothingStarts
  BY <1>0, PtyUnchanged DEF MutateRuntimeHandle
<1>4. handles[h] \in HandleRecord /\ HandleOK(handles[h]) /\ handles[h].status = "active"
  BY <1>0 DEF HandlesGood, MutateRuntimeHandle, MutateAllowed, isRuntimeHandleActive
<1>5. l \in Nat
  BY <1>0 DEF SessionRecordGood, State
<1>6. k \in CallRecord /\ k.pc = "update" /\ k.h = h /\ k.op = op /\ k.seen = handles[h]
  <2>1. PICK n \in CallRecord : n = Idle
    BY IdleFacts
  <2>2. handles[h].offset \in Nat
    BY <1>4 DEF HandleRecord
  <2> QED BY <1>4, <1>5, <2>1, <2>2 DEF CallRecord
<1> HIDE DEF k
<1>8. handles[h].version <= handles[h].version
  BY <1>4 DEF HandleRecord
<1>9. UpdateOK(k, handles)
  BY <1>4, <1>6, <1>8 DEF UpdateOK
<1>10. CallOK(k, handles)
  BY <1>6, <1>9 DEF CallOK
<1> QED BY <1>1, <1>2, <1>10, CallMoves

LEMMA StartCallInv ==
    ASSUME InteractiveInv, NEW c \in Client, NEW h \in Handle, StartInteractive(c, h)
    PROVE  InteractiveInv'
<1> DEFINE k == [Idle EXCEPT !.op = "start", !.pc = "start", !.h = h]
<1>0. PtyInv /\ SessionRecordGood
  BY DEF InteractiveInv
<1>1. Set(c, k) /\ UNCHANGED <<st, handles, leaked>> /\ calls[c].pc \notin {"create", "store"}
  BY DEF StartInteractive
<1>2. PtyInv' /\ NothingStarts
  BY <1>0, PtyUnchanged DEF StartInteractive
<1>3. PICK n \in CallRecord : n = Idle
  BY IdleFacts
<1>4. k \in CallRecord /\ k.pc = "start" /\ k.h = h /\ k.op = "start"
  BY <1>3 DEF CallRecord
<1> HIDE DEF k
<1>6. CallOK(k, handles)
  BY <1>4 DEF CallOK
<1> QED BY <1>1, <1>2, <1>6, CallMoves

LEMMA RequireCallInv ==
    ASSUME InteractiveInv, NEW c \in Client, NEW h \in Handle,
           NEW op \in {"reopen", "view", "write", "close"},
           requireActiveInteractiveHandle(c, h, op)
    PROVE  InteractiveInv'
<1> DEFINE k == [Idle EXCEPT !.op = op, !.pc = op, !.h = h, !.pty = handles[h].pty]
<1>0. PtyInv /\ SessionRecordGood /\ HandlesGood
  BY DEF InteractiveInv
<1>1. Set(c, k) /\ UNCHANGED <<st, handles, leaked>> /\ calls[c].pc \notin {"create", "store"}
  BY DEF requireActiveInteractiveHandle
<1>2. PtyInv' /\ NothingStarts
  BY <1>0, PtyUnchanged DEF requireActiveInteractiveHandle
<1>3. PICK n \in CallRecord : n = Idle
  BY IdleFacts
<1>4. handles[h].pty \in Pty
  BY <1>0 DEF HandlesGood, HandleOK, requireActiveInteractiveHandle, isRuntimeHandleActive
<1>5. k \in CallRecord /\ k.pc = op /\ k.h = h /\ k.op = op /\ k.pty \in Pty
  BY <1>3, <1>4 DEF CallRecord
<1> HIDE DEF k
<1>7. CallOK(k, handles)
  BY <1>5 DEF CallOK
<1> QED BY <1>1, <1>2, <1>7, CallMoves

(* The controller calls move on with the same handle.                      *)
LEMMA SameCallOK ==
    ASSUME NEW k, CallOK(k, handles), NEW q \in CallRecord,
           k.pc \in {"reopen", "view", "write", "close", "kill"},
           q.pc \in {"reopen", "kill", "persist"},
           q.h = k.h, q.op = k.op, q.pty = k.pty
    PROVE  CallOK(q, handles)
BY DEF CallOK

LEMMA ReturnInv ==
    ASSUME InteractiveInv, PtyInv', NothingStarts, UNCHANGED <<st, handles, leaked>>,
           NEW c \in Client, calls[c].pc \notin {"create", "store"}, Return(c)
    PROVE  InteractiveInv'
<1>1. CallOK(Idle, handles)
  BY IdleFacts DEF InteractiveInv
<1>2. Set(c, Idle)
  BY DEF Return
<1> QED BY <1>1, <1>2, CallMoves

LEMMA ReopenInv ==
    ASSUME InteractiveInv, NEW c \in Client, ControllerReopen(c)
    PROVE  InteractiveInv'
<1> DEFINE k == calls[c]
           o == [offset |-> 0, closed |-> sessions[k.pty].closed]
           q == [k EXCEPT !.pc = "persist", !.obs = o]
<1>0. PtyInv /\ SessionsGood /\ k \in CallRecord /\ CallOK(k, handles) /\ k.pc = "reopen"
  BY DEF InteractiveInv, PtyInv, CallsGood, ControllerReopen
<1>1. Set(c, q) /\ UNCHANGED <<st, handles, leaked>>
  BY DEF ControllerReopen, mergeInteractiveObservation, interactiveObservationFromInspect,
         Inspect
<1>2. PtyInv' /\ NothingStarts
  BY <1>0, PtyUnchanged DEF ControllerReopen
<1>3. k.pty \in Pty
  BY <1>0 DEF CallOK
<1>4. o \in [offset : Nat, closed : BOOLEAN]
  BY <1>0, <1>3 DEF SessionsGood, Session
<1> HIDE DEF o
<1>5. q \in CallRecord /\ q.pc = "persist" /\ q.h = k.h /\ q.op = k.op /\ q.pty = k.pty
  BY <1>0, <1>4 DEF CallRecord
<1> HIDE DEF q
<1>6. CallOK(q, handles)
  BY <1>0, <1>5, SameCallOK
<1> QED BY <1>0, <1>1, <1>2, <1>6, CallMoves

LEMMA ViewInv ==
    ASSUME InteractiveInv, NEW c \in Client, NEW offset \in 0..1, ControllerView(c, offset)
    PROVE  InteractiveInv'
<1> DEFINE k == calls[c]
           r == Read(sessions[k.pty], offset, 0)
           o == [offset |-> r.next, closed |-> r.closed]
           q == [k EXCEPT !.pc = "persist", !.obs = o]
<1>0. PtyInv /\ SessionsGood /\ k \in CallRecord /\ CallOK(k, handles) /\ k.pc = "view"
  BY DEF InteractiveInv, PtyInv, CallsGood, ControllerView
<1>1. Set(c, q) /\ UNCHANGED <<st, handles, leaked>>
  BY DEF ControllerView, mergeInteractiveObservation
<1>2. PtyInv' /\ NothingStarts
  BY <1>0, PtyUnchanged DEF ControllerView
<1>3. k.pty \in Pty /\ offset \in Nat /\ 0 \in Nat
  BY <1>0 DEF CallOK
<1>4. sessions[k.pty] \in Session
  BY <1>0, <1>3 DEF SessionsGood
<1>5. r.next \in Nat /\ r.closed \in BOOLEAN
  BY <1>3, <1>4, ReadFacts
<1> HIDE DEF r
<1>6. o \in [offset : Nat, closed : BOOLEAN]
  BY <1>5
<1> HIDE DEF o
<1>7. q \in CallRecord /\ q.pc = "persist" /\ q.h = k.h /\ q.op = k.op /\ q.pty = k.pty
  BY <1>0, <1>6 DEF CallRecord
<1> HIDE DEF q
<1>8. CallOK(q, handles)
  BY <1>0, <1>7, SameCallOK
<1> QED BY <1>0, <1>1, <1>2, <1>8, CallMoves

LEMMA WriteInv ==
    ASSUME InteractiveInv, NEW c \in Client, ControllerWrite(c)
    PROVE  InteractiveInv'
<1> DEFINE k == calls[c]
           q == [k EXCEPT !.pc = "reopen"]
<1>0. PtyInv /\ k \in CallRecord /\ CallOK(k, handles) /\ k.pc = "write"
  BY DEF InteractiveInv, CallsGood, ControllerWrite
<1>1. (Return(c) \/ Set(c, q)) /\ UNCHANGED <<st, handles, leaked>>
  BY DEF ControllerWrite
<1>2. PtyInv' /\ NothingStarts
  BY <1>0, PtyUnchanged DEF ControllerWrite
<1>3. q \in CallRecord /\ q.pc = "reopen" /\ q.h = k.h /\ q.op = k.op /\ q.pty = k.pty
  BY <1>0 DEF CallRecord
<1> HIDE DEF q
<1>4. CallOK(q, handles)
  BY <1>0, <1>3, SameCallOK
<1> QED BY <1>0, <1>1, <1>2, <1>4, CallMoves, ReturnInv

LEMMA CloseInv ==
    ASSUME InteractiveInv, NEW c \in Client, ControllerClose(c)
    PROVE  InteractiveInv'
<1> DEFINE k == calls[c]
           q == [k EXCEPT !.pc = "kill"]
<1>0. PtyInv /\ k \in CallRecord /\ CallOK(k, handles) /\ k.pc = "close"
  BY DEF InteractiveInv, CallsGood, ControllerClose
<1>1. Set(c, q) /\ UNCHANGED <<st, handles, leaked, sessions, checks, doomed>>
      /\ attachments' = Detached({k.pty})
  BY DEF ControllerClose
<1>2. SessionsGood' /\ SessionsForward /\ AttachmentsGood' /\ doomed' \subseteq Pty
  BY <1>0, <1>1, SessionsUnchanged, DetachedOK DEF PtyInv
<1>3. PtyInv' /\ NothingStarts
  BY <1>0, <1>1, <1>2, ForwardInv DEF NothingStarts
<1>4. q \in CallRecord /\ q.pc = "kill" /\ q.h = k.h /\ q.op = k.op /\ q.pty = k.pty
  BY <1>0 DEF CallRecord
<1> HIDE DEF q
<1>5. CallOK(q, handles)
  BY <1>0, <1>4, SameCallOK
<1> QED BY <1>0, <1>1, <1>3, <1>5, CallMoves

(* Ending the process of a PTY.                                            *)
LEMMA KilledSession ==
    ASSUME SessionsGood, NEW p \in Pty, sessions' = [sessions EXCEPT ![p] = Closed(@)]
    PROVE  /\ SessionsGood' /\ SessionsForward /\ NothingStarts
           /\ sessions'[p].state = "exited"
<1>1. SessionOK(sessions[p])
  BY DEF SessionsGood
<1>2. SessionOK(Closed(sessions[p])) /\ Forward(sessions[p], Closed(sessions[p]))
      /\ Closed(sessions[p]).state = "exited"
  BY <1>1, ClosedOK
<1>3. SessionsGood' /\ SessionsForward
  BY <1>2, OneSessionChanges
<1>4. sessions'[p].state = "exited" /\ \A q \in Pty : q # p => sessions'[q] = sessions[q]
  BY <1>2 DEF SessionsGood
<1> QED BY <1>3, <1>4 DEF NothingStarts

LEMMA KillInv ==
    ASSUME InteractiveInv, NEW c \in Client, ControllerKill(c)
    PROVE  InteractiveInv'
<1> DEFINE k == calls[c]
           o == [offset |-> 0, closed |-> TRUE]
           q == [k EXCEPT !.pc = "persist", !.obs = o]
<1>0. PtyInv /\ k \in CallRecord /\ CallOK(k, handles) /\ k.pc = "kill"
  BY DEF InteractiveInv, CallsGood, ControllerKill
<1>1. Set(c, q) /\ UNCHANGED <<st, handles, leaked, attachments, checks, doomed>>
      /\ sessions' = [sessions EXCEPT ![k.pty] = Closed(@)]
  BY DEF ControllerKill
<1>2. k.pty \in Pty
  BY <1>0 DEF CallOK
<1>3. SessionsGood' /\ SessionsForward /\ NothingStarts
  BY <1>0, <1>1, <1>2, KilledSession DEF PtyInv
<1>4. AttachmentsGood' /\ doomed' \subseteq Pty
  BY <1>0, <1>1, AttachmentsUnchanged DEF PtyInv
<1>5. PtyInv'
  BY <1>0, <1>1, <1>3, <1>4, ForwardInv
<1>6. o \in [offset : Nat, closed : BOOLEAN]
  OBVIOUS
<1> HIDE DEF o
<1>7. q \in CallRecord /\ q.pc = "persist" /\ q.h = k.h /\ q.op = k.op /\ q.pty = k.pty
  BY <1>0, <1>6 DEF CallRecord
<1> HIDE DEF q
<1>8. CallOK(q, handles)
  BY <1>0, <1>7, SameCallOK
<1> QED BY <1>0, <1>1, <1>3, <1>5, <1>8, CallMoves

LEMMA PersistStateInv ==
    ASSUME InteractiveInv, NEW c \in Client, persistInteractiveRuntimeState(c)
    PROVE  InteractiveInv'
<1> DEFINE k == calls[c]
           r == handles[k.h]
           op == IF k.obs.closed THEN "close" ELSE k.op
           q == [k EXCEPT !.pc = "update", !.seen = r, !.op = op]
<1>0. PtyInv /\ SessionRecordGood /\ HandlesGood /\ k \in CallRecord
      /\ CallOK(k, handles) /\ k.pc = "persist" /\ calls \in [Client -> CallRecord]
  BY DEF InteractiveInv, CallsGood, persistInteractiveRuntimeState
<1>1. UNCHANGED <<st, handles, leaked>>
  BY DEF persistInteractiveRuntimeState
<1>2. Return(c) \/ (Set(c, q) /\ MutateAllowed(k.h, NoLease))
  BY <1>0 DEF persistInteractiveRuntimeState
<1>3. PtyInv' /\ NothingStarts
  BY <1>0, PtyUnchanged DEF persistInteractiveRuntimeState
<1>4. ASSUME MutateAllowed(k.h, NoLease)
      PROVE  CallOK(q, handles)
  <2>1. k.h \in Handle /\ k.op # "run"
    BY <1>0 DEF CallOK
  <2>2. r \in HandleRecord /\ HandleOK(r) /\ r.status = "active"
    BY <1>0, <1>4, <2>1 DEF HandlesGood, MutateAllowed, isRuntimeHandleActive
  <2>4. r.version <= r.version
    BY <2>2 DEF HandleRecord
  <2>5. q \in CallRecord /\ q.pc = "update" /\ q.h = k.h /\ q.op # "run" /\ q.seen = r
    <3>1. op \in {"none", "start", "reopen", "view", "write", "update", "close",
                   "invalidate"}
      BY <1>0, <2>1 DEF CallRecord
    <3> HIDE DEF op
    <3> QED BY <1>0, <2>2, <3>1 DEF CallRecord
  <2> HIDE DEF q
  <2>6. UpdateOK(q, handles)
    BY <2>2, <2>4, <2>5 DEF UpdateOK
  <2> QED BY <2>1, <2>5, <2>6 DEF CallOK
<1> HIDE DEF q
<1>5. calls[c].pc \notin {"create", "store"}
  BY <1>0
<1> QED BY <1>1, <1>2, <1>3, <1>4, <1>5, CallMoves, ReturnInv

(* The record mutateRuntimeHandle stores.                                  *)
LEMMA MutatedFacts ==
    ASSUME NEW r \in HandleRecord, NEW k \in CallRecord, k.op # "run"
    PROVE  LET m == mutated(r, k.op, k.obs) IN
           /\ m \in HandleRecord /\ m.version = r.version + 1
           /\ m.pty = r.pty /\ m.status # "none"
<1> DEFINE op == k.op
           v == r.version + 1
           s == IF op = "close" THEN "closed"
                ELSE IF op = "invalidate" THEN "invalidated" ELSE "active"
           b == ApplyInteractiveRuntimeMetadata(r, op, k.obs)
           m == [b EXCEPT !.version = v, !.status = s]
<1>1. v \in Nat /\ k.obs.offset \in Nat /\ k.obs.closed \in BOOLEAN
  BY DEF HandleRecord, CallRecord
<1>2. op \in {"none", "start", "reopen", "view", "write", "update", "close", "invalidate"}
  BY DEF CallRecord
<1>3. s \in {"closed", "invalidated", "active"}
  OBVIOUS
<1> HIDE DEF op, s, v
<1>4. b \in HandleRecord /\ b.version = r.version /\ b.pty = r.pty
  BY <1>1, <1>2 DEF ApplyInteractiveRuntimeMetadata, HandleRecord
<1>5. mutated(r, k.op, k.obs) = m
  BY <1>4 DEF mutated, op, s, v
<1> HIDE DEF b
<1>6. m \in HandleRecord /\ m.version = v /\ m.pty = b.pty /\ m.status = s
  BY <1>1, <1>3, <1>4 DEF HandleRecord, Ended
<1> HIDE DEF m
<1> QED BY <1>3, <1>4, <1>5, <1>6 DEF v

(* With the Postgres store a step changes a handle by creating it or while *)
(* it is active.                                                           *)
ChangeAllowed(h) ==
    handles'[h] = handles[h] \/ handles[h].status \in {"none", "active"}

ChangesAllowed == Postgres => \A h \in Handle : ChangeAllowed(h)

LEMMA NothingChanges ==
    ASSUME UNCHANGED handles
    PROVE  ChangesAllowed
BY DEF ChangesAllowed, ChangeAllowed

LEMMA UpdateInv ==
    ASSUME InteractiveInv, NEW c \in Client, mutateRuntimeHandle(c)
    PROVE  InteractiveInv' /\ ChangesAllowed
<1> DEFINE k == calls[c]
           r == handles[k.h]
           m == mutated(k.seen, k.op, k.obs)
<1>0. PtyInv /\ SessionRecordGood /\ HandlesGood /\ CallsGood /\ k \in CallRecord
      /\ CallOK(k, handles) /\ k.pc = "update" /\ calls[c].pc \notin {"create", "store"}
  BY DEF InteractiveInv, CallsGood, mutateRuntimeHandle
<1>1. UNCHANGED <<st, leaked>> /\ Return(c) /\ handles' = Update(k.h, m)
  BY DEF mutateRuntimeHandle
<1>2. PtyInv' /\ NothingStarts
  BY <1>0, PtyUnchanged DEF mutateRuntimeHandle
<1>3. k.h \in Handle /\ UpdateOK(k, handles) /\ k.op # "run"
  BY <1>0 DEF CallOK
<1>4. CASE handles' = handles
  BY <1>0, <1>1, <1>2, <1>4, ReturnInv, NothingChanges
<1>5. CASE handles' # handles
  <2>1. m.version = r.version + 1 /\ handles' = [handles EXCEPT ![k.h] = m]
    BY <1>1, <1>5 DEF Update
  <2>2. k.seen \in HandleRecord /\ k.seen.status = "active" /\ k.seen.pty \in Pty
    BY <1>3 DEF UpdateOK, HandleOK
  <2>3. /\ m \in HandleRecord /\ m.version = k.seen.version + 1
        /\ m.pty = k.seen.pty /\ m.status # "none"
    BY <1>0, <1>3, <2>2, MutatedFacts
  <2> HIDE DEF m
  <2>4. r.version \in Nat /\ k.seen.version \in Nat
    BY <1>0, <1>3, <2>2 DEF HandlesGood, HandleRecord
  <2>5. k.seen.version = r.version
    BY <2>1, <2>3, <2>4
  <2>6. Postgres => r = k.seen
    BY <1>3, <2>5 DEF UpdateOK
  <2>7. HandleOK(m)
    BY <2>2, <2>3 DEF HandleOK
  <2>8. Newer(r, m)
    BY <2>1, <2>4 DEF Newer
  <2>9. HandlesGood' /\ HandlesForward
    BY <1>0, <1>3, <2>1, <2>7, <2>8, OneHandleChanges
  <2>10. SessionRecordGood'
    BY <1>0, <1>1, SessionStepRecord
  <2>11. CallOK(Idle, handles')
    BY IdleFacts
  <2>12. CallsGood' /\ \A d \in Client : d # c => calls'[d] = calls[d]
    BY <1>0, <1>1, <2>9, <2>11, OneCallChanges DEF Return
  <2>13. handles'[k.h] = m /\ \A h \in Handle : h # k.h => handles'[h] = handles[h]
    BY <1>0, <1>3, <2>1 DEF HandlesGood
  <2>14. Postgres => HandlesKept
    BY <2>3, <2>6, <2>13 DEF HandlesKept
  <2>15. Postgres => Owned'
    <3>1. \A d \in Client : calls[d].pc \in {"create", "store"} => calls'[d] = calls[d]
      BY <1>0, <2>12
    <3> QED BY <1>1, <1>2, <2>14, <3>1, OwnedStays DEF InteractiveInv
  <2>17. Postgres => ChangeAllowed(k.h)
    BY <2>2, <2>6 DEF ChangeAllowed
  <2>18. ChangesAllowed
    BY <2>13, <2>17 DEF ChangesAllowed, ChangeAllowed
  <2> QED BY <1>2, <2>9, <2>10, <2>12, <2>15, <2>18 DEF InteractiveInv
<1> QED BY <1>4, <1>5

(* A new process.                                                          *)
LEMMA StartedSession ==
    ASSUME SessionsGood, NEW p \in Pty, ~Known(p),
           sessions' = [sessions EXCEPT ![p] = Started]
    PROVE  /\ SessionsGood' /\ SessionsForward
           /\ \A q \in Pty : q # p => sessions'[q] = sessions[q]
<1>1. SessionOK(sessions[p]) /\ sessions[p].state = "absent"
  BY DEF SessionsGood, Known
<1>2. SessionOK(Started) /\ Forward(sessions[p], Started)
  BY <1>1, StartedOK
<1> QED BY <1>2, OneSessionChanges DEF SessionsGood

(* The call c takes over a PTY that runs already or has just been started. *)
LEMMA CallOwns ==
    ASSUME InteractiveInv, UNCHANGED <<attachments, checks, doomed, st, handles, leaked>>,
           NEW c \in Client, calls[c].pc \notin {"create", "store"},
           NEW p \in Pty,
           sessions' = sessions
             \/ (~Known(p) /\ sessions' = [sessions EXCEPT ![p] = Started]),
           NEW k, Set(c, k), CallOK(k, handles), k.pc \in {"create", "store"}, k.pty = p
    PROVE  InteractiveInv'
<1>0. PtyInv /\ SessionsGood /\ SessionRecordGood /\ HandlesGood /\ CallsGood
  BY DEF InteractiveInv, PtyInv
<1>1. SessionsGood' /\ SessionsForward /\ \A x \in Pty : x # p => sessions'[x] = sessions[x]
  BY <1>0, SessionsUnchanged, StartedSession
<1>2. AttachmentsGood' /\ doomed' \subseteq Pty
  BY <1>0, AttachmentsUnchanged DEF PtyInv
<1>3. PtyInv'
  BY <1>0, <1>1, <1>2, ForwardInv
<1>4. SessionRecordGood'
  BY <1>0, SessionStepRecord
<1>5. HandlesGood' /\ HandlesForward /\ HandlesKept
  BY <1>0, HandlesUnchanged, HandlesKeptUnchanged
<1>6. CallOK(k, handles')
  OBVIOUS
<1>7. CallsGood' /\ calls'[c] = k /\ \A d \in Client : d # c => calls'[d] = calls[d]
  BY <1>0, <1>5, <1>6, OneCallChanges
<1>8. ASSUME Owned, NEW x \in Pty, sessions'[x].state = "running"
      PROVE  Owner(x)'
  <2>1. CASE x = p
    BY <1>7, <2>1 DEF Owner
  <2>2. CASE x # p
    <3>1. Owner(x)
      BY <1>1, <1>8, <2>2 DEF Owned
    <3>2. \A d \in Client : calls[d].pc \in {"create", "store"} => calls'[d] = calls[d]
      BY <1>7
    <3> QED BY <1>5, <3>1, <3>2, OwnerStays
  <2> QED BY <2>1, <2>2
<1>9. Owned => Owned'
  BY <1>8 DEF Owned
<1> QED BY <1>3, <1>4, <1>5, <1>7, <1>9 DEF InteractiveInv

LEMMA ControllerStartInv ==
    ASSUME InteractiveInv, NEW c \in Client, ControllerStart(c)
    PROVE  InteractiveInv'
<1> DEFINE k == calls[c]
<1>0. PtyInv /\ k \in CallRecord /\ CallOK(k, handles) /\ k.pc = "start"
      /\ calls[c].pc \notin {"create", "store"}
  BY DEF InteractiveInv, CallsGood, ControllerStart
<1>1. UNCHANGED <<attachments, checks, doomed, st, handles, leaked>>
  BY DEF ControllerStart
<1>2. CASE Return(c) /\ UNCHANGED sessions
  <2>1. PtyInv' /\ NothingStarts
    BY <1>0, <1>1, <1>2, PtyUnchanged DEF ptyVars
  <2> QED BY <1>0, <1>1, <1>2, <2>1, ReturnInv
<1>3. ASSUME NEW p \in Pty, ~Known(p), sessions' = [sessions EXCEPT ![p] = Started],
             Set(c, [k EXCEPT !.pc = "create", !.pty = p])
      PROVE  InteractiveInv'
  <2> DEFINE q == [k EXCEPT !.pc = "create", !.pty = p]
  <2>1. q \in CallRecord /\ q.pc = "create" /\ q.pty = p /\ q.h = k.h /\ q.op = k.op
    BY <1>0 DEF CallRecord
  <2>2. Set(c, q)
    BY <1>3
  <2> HIDE DEF q
  <2>3. CallOK(q, handles)
    BY <1>0, <2>1 DEF CallOK
  <2> QED BY <1>0, <1>1, <1>3, <2>1, <2>2, <2>3, CallOwns
<1> QED BY <1>2, <1>3 DEF ControllerStart

(* A run calls its tool.                                                   *)
LEMMA InvokeToolInv ==
    ASSUME InteractiveInv, NEW c \in Client, NEW h \in Handle, NEW p \in Pty,
           InvokeTool(c, h, p)
    PROVE  InteractiveInv'
<1> DEFINE k == [Idle EXCEPT !.op = "run", !.pc = "store", !.h = h, !.pty = p,
                             !.lease = st.lease]
<1>0. SessionsGood /\ st.lease \in Nat
  BY DEF InteractiveInv, PtyInv, SessionRecordGood, State
<1>1. /\ UNCHANGED <<attachments, checks, doomed, st, handles, leaked>> /\ Set(c, k)
      /\ calls[c].pc \notin {"create", "store"}
      /\ sessions' = [sessions EXCEPT ![p] = IF Known(p) THEN @ ELSE Started]
  BY DEF InvokeTool
<1>2. sessions' = sessions \/ (~Known(p) /\ sessions' = [sessions EXCEPT ![p] = Started])
  <2>1. CASE Known(p)
    BY <1>0, <1>1, <2>1 DEF SessionsGood
  <2>2. CASE ~Known(p)
    BY <1>1, <2>2
  <2> QED BY <2>1, <2>2
<1>3. PICK n \in CallRecord : n = Idle
  BY IdleFacts
<1>4. k \in CallRecord /\ k.pc = "store" /\ k.h = h /\ k.pty = p
  BY <1>0, <1>3 DEF CallRecord
<1> HIDE DEF k
<1>5. CallOK(k, handles)
  BY <1>4 DEF CallOK
<1> QED BY <1>1, <1>2, <1>4, <1>5, CallOwns

(* A handle as it is given to Create, and as Create stores it.             *)
LEMMA NewHandleOK ==
    ASSUME NEW p \in Pty
    PROVE  LET r == [runtimeHandleFromValue(p) EXCEPT !.version = 1] IN
           HandleOK(r) /\ r.pty = p /\ r.status = "active" /\ r.version = 1
<1>1. PICK n \in HandleRecord : n = NoHandle
  <2>1. NoHandle \in HandleRecord
    BY DEF NoHandle, HandleRecord
  <2> QED BY <2>1
<1> DEFINE rec == runtimeHandleFromValue(p)
<1>2. rec \in HandleRecord /\ rec.pty = p /\ rec.status = "active"
  BY <1>1 DEF HandleRecord, runtimeHandleFromValue
<1> HIDE DEF rec
<1> DEFINE r == [rec EXCEPT !.version = 1]
<1>3. r \in HandleRecord /\ r.pty = p /\ r.status = "active" /\ r.version = 1
  BY <1>2 DEF HandleRecord
<1> HIDE DEF r
<1>4. HandleOK(r)
  BY <1>3 DEF HandleOK
<1> QED BY <1>3, <1>4 DEF r, rec

(* Create either fails or stores the record; with Postgres it never        *)
(* replaces one.                                                           *)
LEMMA CreatedHandle ==
    ASSUME HandlesGood, NEW h \in Handle, NEW p \in Pty, ~CreateFails(h),
           handles' = Create(h, runtimeHandleFromValue(p))
    PROVE  /\ HandlesGood' /\ HandlesForward
           /\ Postgres => HandlesKept
           /\ ChangesAllowed
           /\ handles'[h].status # "none" /\ handles'[h].pty = p
<1> DEFINE r == [runtimeHandleFromValue(p) EXCEPT !.version = 1]
<1>1. HandleOK(r) /\ r.pty = p /\ r.status = "active" /\ r.version = 1
  BY NewHandleOK
<1>2. handles' = [handles EXCEPT ![h] = r] /\ (Postgres => handles[h].status = "none")
  BY DEF CreateFails, Create, PostgresCreate, MemoryCreate
<1> HIDE DEF r
<1>3. HandleOK(handles[h])
  BY DEF HandlesGood
<1>4. Postgres => Newer(handles[h], r)
  BY <1>1, <1>2, <1>3 DEF HandleOK, Newer
<1>5. HandlesGood' /\ HandlesForward
  BY <1>1, <1>2, <1>4, OneHandleChanges
<1>6. handles'[h] = r /\ \A g \in Handle : g # h => handles'[g] = handles[g]
  BY <1>2 DEF HandlesGood
<1> QED BY <1>1, <1>2, <1>5, <1>6 DEF HandlesKept, ChangesAllowed, ChangeAllowed

(* A call or a run that holds a PTY returns: it has stored a handle that   *)
(* names the PTY, or ended the PTY, or left it to leaked.                  *)
LEMMA OwnerReturns ==
    ASSUME InteractiveInv, PtyInv', NothingStarts, HandlesGood', HandlesForward,
           Postgres => HandlesKept, UNCHANGED st, leaked \subseteq leaked',
           NEW c \in Client, Return(c), NEW p \in Pty, calls[c].pty = p,
           Postgres => (sessions'[p].state # "running" \/ Owner(p)')
    PROVE  InteractiveInv'
<1>0. SessionRecordGood /\ HandlesGood /\ CallsGood
  BY DEF InteractiveInv
<1>1. CallOK(Idle, handles') /\ Set(c, Idle)
  BY IdleFacts DEF Return
<1>2. CallsGood' /\ \A d \in Client : d # c => calls'[d] = calls[d]
  BY <1>0, <1>1, OneCallChanges
<1>3. SessionRecordGood'
  BY <1>0, SessionStepRecord
<1>4. ASSUME Postgres, Owned, NEW x \in Pty, sessions'[x].state = "running"
      PROVE  Owner(x)'
  <2>1. CASE x = p
    BY <1>4, <2>1
  <2>2. CASE x # p
    <3>1. Owner(x)
      BY <1>4 DEF Owned, NothingStarts
    <3>2. \A d \in Client : calls[d].pc \in {"create", "store"} /\ calls[d].pty = x
             => calls'[d] = calls[d]
      BY <1>2, <2>2
    <3> QED BY <1>4, <3>1, <3>2, OwnerStays
  <2> QED BY <2>1, <2>2
<1>5. Postgres /\ Owned => Owned'
  BY <1>4 DEF Owned
<1> QED BY <1>2, <1>3, <1>5 DEF InteractiveInv

LEMMA CreateInv ==
    ASSUME InteractiveInv, NEW c \in Client, createRuntimeHandle(c)
    PROVE  InteractiveInv' /\ ChangesAllowed
<1> DEFINE k == calls[c]
<1>0. PtyInv /\ HandlesGood /\ CallOK(k, handles) /\ k.pc = "create"
  BY DEF InteractiveInv, CallsGood, createRuntimeHandle
<1>1. k.h \in Handle /\ k.pty \in Pty
  BY <1>0 DEF CallOK
<1>p. PICK p \in Pty : p = k.pty
  BY <1>1
<1>2. UNCHANGED <<checks, doomed, st, leaked>> /\ Return(c)
  BY DEF createRuntimeHandle
<1>3. CASE /\ ~CreateFails(k.h) /\ handles' = Create(k.h, runtimeHandleFromValue(k.pty))
           /\ UNCHANGED <<sessions, attachments>>
  <2>1. /\ HandlesGood' /\ HandlesForward /\ (Postgres => HandlesKept) /\ ChangesAllowed
        /\ handles'[k.h].status # "none" /\ handles'[k.h].pty = k.pty
    BY <1>0, <1>1, <1>3, CreatedHandle
  <2>2. PtyInv' /\ NothingStarts
    BY <1>0, <1>2, <1>3, PtyUnchanged DEF ptyVars
  <2>3. Owner(p)'
    BY <1>1, <1>p, <2>1 DEF Owner
  <2> QED BY <1>2, <2>1, <2>2, <2>3, <1>p, OwnerReturns
<1>4. CASE /\ attachments' = Detached({k.pty})
           /\ sessions' = [sessions EXCEPT ![k.pty] = Closed(@)]
           /\ UNCHANGED handles
  <2>1. SessionsGood' /\ SessionsForward /\ NothingStarts /\ sessions'[k.pty].state = "exited"
    BY <1>0, <1>1, <1>4, KilledSession DEF PtyInv
  <2>2. AttachmentsGood' /\ doomed' \subseteq Pty
    BY <1>0, <1>2, <1>4, DetachedOK DEF PtyInv
  <2>3. PtyInv'
    BY <1>0, <1>2, <2>1, <2>2, ForwardInv
  <2>4. HandlesGood' /\ HandlesForward /\ HandlesKept /\ ChangesAllowed
    BY <1>0, <1>4, HandlesUnchanged, HandlesKeptUnchanged, NothingChanges
  <2> QED BY <1>2, <2>1, <2>3, <2>4, <1>p, OwnerReturns
<1> QED BY <1>3, <1>4 DEF createRuntimeHandle, runtimeHandleFromValue

(* The end of a run stores the handle of the tool's result or is refused.  *)
LEMMA PersistInv ==
    ASSUME InteractiveInv, NEW c \in Client, PersistRuntimeHandles(c)
    PROVE  InteractiveInv' /\ ChangesAllowed
<1> DEFINE k == calls[c]
<1>0. PtyInv /\ HandlesGood /\ CallOK(k, handles) /\ k.pc = "store"
  BY DEF InteractiveInv, CallsGood, PersistRuntimeHandles
<1>1. k.h \in Handle /\ k.pty \in Pty
  BY <1>0 DEF CallOK
<1>p. PICK p \in Pty : p = k.pty
  BY <1>1
<1>2. UNCHANGED <<ptyVars, st>> /\ Return(c)
  BY DEF PersistRuntimeHandles
<1>3. PtyInv' /\ NothingStarts
  BY <1>0, <1>2, PtyUnchanged
<1>4. CASE /\ ~CreateFails(k.h) /\ handles' = Create(k.h, runtimeHandleFromValue(k.pty))
           /\ UNCHANGED leaked
  <2>1. /\ HandlesGood' /\ HandlesForward /\ (Postgres => HandlesKept) /\ ChangesAllowed
        /\ handles'[k.h].status # "none" /\ handles'[k.h].pty = k.pty
    BY <1>0, <1>1, <1>4, CreatedHandle
  <2>2. Owner(p)'
    BY <1>1, <1>p, <2>1 DEF Owner
  <2> QED BY <1>2, <1>3, <1>4, <2>1, <2>2, <1>p, OwnerReturns
<1>5. CASE /\ leaked' = leaked \cup ({k.pty} \ {handles[h].pty : h \in Handle})
           /\ UNCHANGED handles
  <2>1. HandlesGood' /\ HandlesForward /\ HandlesKept /\ ChangesAllowed
    BY <1>0, <1>5, HandlesUnchanged, HandlesKeptUnchanged, NothingChanges
  <2>2. leaked \subseteq leaked'
    BY <1>5
  <2>3. Owner(p)'
    <3>1. CASE \E h \in Handle : handles[h].pty = k.pty
      <4>1. PICK h \in Handle : handles[h].pty = k.pty
        BY <3>1
      <4>2. CASE handles[h].status # "none"
        BY <1>5, <1>p, <4>1, <4>2 DEF Owner
      <4>3. CASE handles[h].status = "none"
        BY <1>0, <1>1, <4>1, <4>3, PtyAssumption DEF HandlesGood, HandleOK
      <4> QED BY <4>2, <4>3
    <3>2. CASE ~\E h \in Handle : handles[h].pty = k.pty
      BY <1>5, <1>p, <3>2 DEF Owner
    <3> QED BY <3>1, <3>2
  <2> QED BY <1>2, <1>3, <2>1, <2>2, <2>3, <1>p, OwnerReturns
<1> QED BY <1>4, <1>5 DEF PersistRuntimeHandles, upsertRuntimeHandle

(* Claims, the end of a lease, an abort and a recovery.                    *)
LEMMA SessionStepInv ==
    ASSUME InteractiveInv, ClaimSession \/ LeaseEnds \/ AbortSession \/ RecoverHandles
    PROVE  InteractiveInv' /\ ChangesAllowed
<1>0. PtyInv /\ SessionRecordGood /\ HandlesGood /\ CallsGood
  BY DEF InteractiveInv
<1>1. UNCHANGED <<ptyVars, calls, leaked>>
  BY DEF ClaimSession, LeaseEnds, AbortSession, RecoverHandles
<1>2. PtyInv' /\ NothingStarts
  BY <1>0, <1>1, PtyUnchanged
<1>3. SessionRecordGood'
  BY <1>0, SessionStepRecord DEF RecoverHandles
<1>4. HandlesGood' /\ HandlesForward /\ HandlesKept /\ ChangesAllowed
  <2>1. CASE UNCHANGED handles
    BY <1>0, <2>1, HandlesUnchanged, HandlesKeptUnchanged, NothingChanges
  <2>2. CASE handles' = reconcileActiveRuntimeHandles
    <3>1. HandlesGood' /\ HandlesForward /\ \A h \in Handle :
             \/ handles'[h] = handles[h]
             \/ /\ handles[h].status = "active" /\ handles'[h].pty = handles[h].pty
                /\ handles'[h].status # "none"
      BY <1>0, <2>2, ReconcileHandles
    <3> QED BY <3>1 DEF HandlesKept, ChangesAllowed, ChangeAllowed
  <2> QED BY <2>1, <2>2 DEF ClaimSession, LeaseEnds, AbortSession, RecoverHandles
<1>5. CallsGood'
  BY <1>0, <1>1, <1>4, CallsUnchanged
<1>6. Owned => Owned'
  BY <1>1, <1>2, <1>4, OwnedStays
<1> QED BY <1>2, <1>3, <1>4, <1>5, <1>6 DEF InteractiveInv

-----------------------------------------------------------------------------
(* The specification.                                                      *)

LEMMA PtyOnly ==
    ASSUME InteractiveInv, PtyInv', NothingStarts, UNCHANGED <<st, handles, calls, leaked>>
    PROVE  InteractiveInv' /\ ChangesAllowed
<1>0. SessionRecordGood /\ HandlesGood /\ CallsGood
  BY DEF InteractiveInv
<1>1. SessionRecordGood'
  BY <1>0, SessionStepRecord
<1>2. HandlesGood' /\ HandlesForward /\ HandlesKept /\ ChangesAllowed
  BY <1>0, HandlesUnchanged, HandlesKeptUnchanged, NothingChanges
<1>3. CallsGood'
  BY <1>0, <1>2, CallsUnchanged
<1>4. Owned => Owned'
  BY <1>2, OwnedStays
<1> QED BY <1>1, <1>2, <1>3, <1>4 DEF InteractiveInv

LEMMA ClientCallInv ==
    ASSUME InteractiveInv, NEW c \in Client, ClientCall(c)
    PROVE  InteractiveInv' /\ ChangesAllowed
<1>1. UNCHANGED handles
  BY DEF ClientCall, StartInteractive, requireActiveInteractiveHandle, MutateRuntimeHandle
<1>2. InteractiveInv'
  BY StartCallInv, RequireCallInv, MutateCallInv DEF ClientCall
<1> QED BY <1>1, <1>2, NothingChanges

LEMMA ClientStepInv ==
    ASSUME InteractiveInv, NEW c \in Client, ClientStep(c)
    PROVE  InteractiveInv' /\ ChangesAllowed
<1>1. CASE createRuntimeHandle(c)
  BY <1>1, CreateInv
<1>2. CASE mutateRuntimeHandle(c)
  BY <1>2, UpdateInv
<1>4. CASE PersistRuntimeHandles(c)
  BY <1>4, PersistInv
<1>3. CASE \/ ControllerStart(c) \/ ControllerReopen(c)
           \/ \E offset \in 0..1 : ControllerView(c, offset)
           \/ ControllerWrite(c) \/ ControllerClose(c) \/ ControllerKill(c)
           \/ persistInteractiveRuntimeState(c)
  <2>1. UNCHANGED handles
    BY <1>3 DEF ControllerStart, ControllerReopen, ControllerView, ControllerWrite,
                ControllerClose, ControllerKill, persistInteractiveRuntimeState
  <2>2. InteractiveInv'
    BY <1>3, ControllerStartInv, ReopenInv, ViewInv, WriteInv, CloseInv, KillInv,
       PersistStateInv
  <2> QED BY <2>1, <2>2, NothingChanges
<1> QED BY <1>1, <1>2, <1>3, <1>4 DEF ClientStep

LEMMA InitInv == Init => InteractiveInv
<1> SUFFICES ASSUME Init
             PROVE  InteractiveInv
  OBVIOUS
<1>1. SessionsGood /\ AttachmentsGood /\ ChecksGood /\ doomed \subseteq Pty
  <2>1. SessionOK(NoSession) /\ AttachmentOK(NoAttachment) /\ CheckOK(NoCheck, sessions)
    BY NoSessionOK, NoAttachmentOK, NoCheckOK
  <2>2. NoSession \in Session /\ NoAttachment \in Attached /\ NoCheck \in Checking
    BY <2>1 DEF SessionOK, AttachmentOK, CheckOK
  <2> QED BY <2>1, <2>2 DEF Init, PtyInit, SessionsGood, AttachmentsGood, ChecksGood
<1>2. SessionRecordGood
  <2>1. PICK a \in State : a = Absent
    <3>1. Absent \in State
      BY NoStepAssumption DEF Absent, State, Phase, ExecutionState
    <3> QED BY <3>1
  <2>2. [a EXCEPT !.version = 1, !.created = 1] \in State
    BY DEF State
  <2> QED BY <2>1, <2>2 DEF Init, Created, SessionRecordGood, Now
<1>3. HandlesGood
  <2>1. NoHandle \in HandleRecord /\ HandleOK(NoHandle)
    BY DEF NoHandle, HandleRecord, HandleOK
  <2> QED BY <2>1 DEF Init, HandlesGood
<1>4. CallsGood
  BY IdleFacts DEF Init, CallsGood
<1>5. Owned
  BY DEF Init, PtyInit, Owned, NoSession
<1> QED BY <1>1, <1>2, <1>3, <1>4, <1>5 DEF InteractiveInv, PtyInv

LEMMA NextInv == InteractiveInv /\ [Next]_vars => InteractiveInv' /\ ChangesAllowed
<1> SUFFICES ASSUME InteractiveInv, [Next]_vars
             PROVE  InteractiveInv' /\ ChangesAllowed
  OBVIOUS
<1>0. PtyInv
  BY DEF InteractiveInv
<1>1. CASE UNCHANGED vars
  BY <1>0, <1>1, PtyUnchanged, PtyOnly DEF vars
<1>2. CASE Call
  <2>1. CASE PtyCall /\ UNCHANGED <<st, handles, calls, leaked>>
    <3>1. PtyInv' /\ NothingStarts
      BY <1>0, <2>1, PtyCallInv DEF NothingStarts
    <3> QED BY <2>1, <3>1, PtyOnly
  <2> QED BY <1>2, <2>1, ClientCallInv DEF Call
<1>3. CASE PtyStep /\ UNCHANGED <<st, handles, calls, leaked>>
  BY <1>0, <1>3, PtyStepInv, PtyOnly
<1>4. CASE ToolRun
  <2>1. PICK c \in Client, h \in Handle, p \in Pty : InvokeTool(c, h, p)
    BY <1>4 DEF ToolRun
  <2>2. InteractiveInv' /\ UNCHANGED handles
    BY <2>1, InvokeToolInv DEF InvokeTool
  <2> QED BY <2>2, NothingChanges
<1> QED BY <1>1, <1>2, <1>3, <1>4, ClientStepInv, SessionStepInv DEF Next

LEMMA Invariance == Spec => []InteractiveInv
BY InitInv, NextInv, PTL DEF Spec

(* Whatever the buffers, read limits and detachments do, the writer of an  *)
(* attachment has been handed every byte between the offset it asked for   *)
(* and the one streamAttachedOutput has reached, once and in order.        *)
THEOREM AttachmentsDeliverInOrder == Spec => []AttachedOutputInOrder
<1>1. InteractiveInv => AttachedOutputInOrder
  BY DEF InteractiveInv, PtyInv, AttachmentsGood, AttachmentOK, Run, AttachedOutputInOrder
<1> QED BY <1>1, Invariance, PTL

(* A verifier that reported success was right about the process and stays  *)
(* right: the buffer still holds its text, the exit code is still 0.       *)
THEOREM VerifiersAreRight == Spec => []VerdictsMatchTheProcess
<1>1. InteractiveInv => VerdictsMatchTheProcess
  BY DEF InteractiveInv, PtyInv, ChecksGood, CheckOK, VerdictsMatchTheProcess
<1> QED BY <1>1, Invariance, PTL

(* With the Postgres store a running PTY has a call or a run that will     *)
(* still store or close it, a handle that names it, or was started by a    *)
(* tool whose run was refused at its end: StartInteractive leaks none.     *)
THEOREM RuntimesAreOwned ==
    ASSUME Postgres
    PROVE  Spec => []NoOrphanRuntime
<1>1. InteractiveInv => NoOrphanRuntime
  BY DEF InteractiveInv, Owned, Owner, NoOrphanRuntime
<1> QED BY <1>1, Invariance, PTL

(* With the Postgres store no step of any client, worker, abort or         *)
(* recovery changes a handle that is closed or invalidated.                *)
THEOREM EndedHandlesAreFinal ==
    ASSUME Postgres
    PROVE  Spec => EndedHandlesStay
<1>1. InteractiveInv /\ [Next]_vars
        => [\A h \in Handle : handles[h].status \in Ended => handles'[h] = handles[h]]_vars
  BY NextInv DEF ChangesAllowed, ChangeAllowed, Ended
<1> QED BY <1>1, Invariance, PTL DEF Spec, EndedHandlesStay
=============================================================================
