----------------------------- MODULE SbmThread -----------------------------
(***************************************************************************)
(* The detector thread of the frame-mode stream buffer manager and the     *)
(* calls that start, reset and stop it (vdecoder/sbm/sbmFrameBase.c:       *)
(* ProcessThread, SbmFrameInit, SbmFrameReset, SbmFrameDestroy), as far as *)
(* they go through the message queue.  What the thread does for a READ and *)
(* for a RESET is one step here; SbmFrame says what it is.                 *)
(*                                                                         *)
(* The thread keeps itself going with READ messages: it posts the next one *)
(* only if it finds the queue empty, and SbmFrameReset posts one because   *)
(* its RESET may have kept the thread from it.  Nobody looks at the result *)
(* of a post.  Init, reset and destroy come from one control thread.       *)
(***************************************************************************)
EXTENDS CdcMessageQueue

\* Two READ messages and a request may wait together; SbmFrameInit asks for
\* 32 places.
ASSUME ThreadAssumption == nMaxMessageNum >= 3

VARIABLES
    thr,        \* control point of the detector thread
    ctl,        \* control point of the control thread
    resetSem

threadVars == <<mqVars, thr, ctl, resetSem>>

ThreadInit ==
    /\ CdcMessageQueueCreate
    /\ thr = "wait"
    /\ ctl = "start"
    /\ resetSem = 0

-----------------------------------------------------------------------------
(* The detector thread. *)

\* ProcessThread gets a message.
GetMessage ==
    /\ thr = "wait"
    /\ \E m \in {"READ", "RESET", "QUIT"} :
        /\ CdcMessageQueueTryGetMessage(m)
        /\ thr' = CASE m = "READ"  -> "read"
                    [] m = "RESET" -> "reset"
                    [] m = "QUIT"  -> "exited"
    /\ UNCHANGED <<ctl, resetSem>>

\* The detection for a READ message is over.
ReadDone ==
    /\ thr = "read"
    /\ thr' = "count"
    /\ UNCHANGED <<mqVars, ctl, resetSem>>

\* Does the thread have to post the next READ itself?
MustPostRead == CdcMessageQueueGetCount <= 0

\* The number of messages is read without the mutex.
CountMessages ==
    /\ thr = "count"
    /\ thr' = IF MustPostRead THEN "post" ELSE "wait"
    /\ UNCHANGED <<mqVars, ctl, resetSem>>

PostRead ==
    /\ thr = "post"
    /\ CdcMessageQueuePostMessage("READ")
    /\ thr' = IF CanPost THEN "sem" ELSE "wait"
    /\ UNCHANGED <<ctl, resetSem>>

PostReadSem ==
    /\ thr = "sem"
    /\ SemPost
    /\ thr' = "wait"
    /\ UNCHANGED <<ctl, resetSem>>

\* The state has been reset for a RESET message.
ResetDone ==
    /\ thr = "reset"
    /\ thr' = "reply"
    /\ UNCHANGED <<mqVars, ctl, resetSem>>

\* resetSem after the reply.
Replied == resetSem + 1

ResetReply ==
    /\ thr = "reply"
    /\ thr' = "wait"
    /\ resetSem' = Replied
    /\ UNCHANGED <<mqVars, ctl>>

-----------------------------------------------------------------------------
(* The control thread. *)

\* A post of the control thread: its first step, and its second.
Post(from, m, sending, to) ==
    /\ ctl = from
    /\ CdcMessageQueuePostMessage(m)
    /\ ctl' = IF CanPost THEN sending ELSE to
    /\ UNCHANGED <<thr, resetSem>>

PostSem(sending, to) ==
    /\ ctl = sending
    /\ SemPost
    /\ ctl' = to
    /\ UNCHANGED <<thr, resetSem>>

\* SbmFrameInit: the thread runs, the first READ is posted.
InitRead == Post("start", "READ", "startSem", "startType")
InitReadSem == PostSem("startSem", "startType")

\* SbmFrameInit returns.
InitDone ==
    /\ ctl = "startType"
    /\ ctl' = "idle"
    /\ UNCHANGED <<mqVars, thr, resetSem>>

\* Mutant: a READ is posted in place of the RESET.
ResetAsRead == Post("idle", "READ", "resetSem", "resetWait")

\* SbmFrameReset.
PostReset == Post("idle", "RESET", "resetSem", "resetWait")
PostResetSem == PostSem("resetSem", "resetWait")

\* Mutant: the wait for the answer times out.
ResetTimedOut ==
    /\ ctl = "resetWait"
    /\ resetSem' = 0
    /\ ctl' = "resetRead"
    /\ UNCHANGED <<mqVars, thr>>

ResetWait ==
    /\ ctl = "resetWait"
    /\ resetSem > 0
    /\ resetSem' = resetSem - 1
    /\ ctl' = "resetRead"
    /\ UNCHANGED <<mqVars, thr>>

\* Mutant: the reset does not post the READ its RESET has kept away.
ResetWithoutRead ==
    /\ ctl = "resetRead"
    /\ ctl' = "idle"
    /\ UNCHANGED <<mqVars, thr, resetSem>>

ResetRead == Post("resetRead", "READ", "readSem", "idle")
ResetReadSem == PostSem("readSem", "idle")

\* SbmFrameDestroy.
PostQuit == Post("idle", "QUIT", "quitSem", "join")
PostQuitSem == PostSem("quitSem", "join")

Join ==
    /\ ctl = "join"
    /\ thr = "exited"
    /\ ctl' = "destroyed"
    /\ UNCHANGED <<mqVars, thr, resetSem>>

\* Nothing is left to run.
Destroyed == ctl = "destroyed" /\ UNCHANGED threadVars

-----------------------------------------------------------------------------
Detector ==
    \/ GetMessage
    \/ ReadDone
    \/ CountMessages
    \/ PostRead
    \/ PostReadSem
    \/ ResetDone
    \/ ResetReply

Control ==
    \/ InitRead
    \/ InitReadSem
    \/ InitDone
    \/ PostReset
    \/ PostResetSem
    \/ ResetWait
    \/ ResetRead
    \/ ResetReadSem
    \/ PostQuit
    \/ PostQuitSem
    \/ Join

ThreadNext == Detector \/ Control \/ Destroyed

ThreadSpec == ThreadInit /\ [][ThreadNext]_threadVars

(***************************************************************************)
(* Both threads run on.  Whether the control thread ever resets or         *)
(* destroys is left open.                                                  *)
(***************************************************************************)
ThreadFairness ==
    /\ WF_threadVars(Detector)
    /\ WF_threadVars(\/ InitRead \/ InitReadSem \/ InitDone
                     \/ PostResetSem \/ ResetWait \/ ResetRead
                     \/ ResetReadSem \/ PostQuitSem \/ Join)

ThreadFairSpec == ThreadSpec /\ ThreadFairness

-----------------------------------------------------------------------------
Posted == {messages[i] : i \in 1 .. Len(messages)}

\* Types of the variables of the two threads and their queue.
ThreadTypeOK ==
    /\ messages \in Seq({"READ", "RESET", "QUIT"})
    /\ sem \in Nat
    /\ resetSem \in 0 .. 1
    /\ thr \in {"wait", "read", "count", "post", "sem", "reset", "reply",
                "exited"}
    /\ ctl \in {"start", "startSem", "startType", "idle", "resetSem",
                "resetWait", "resetRead", "readSem", "quitSem", "join",
                "destroyed"}

\* The thread never falls asleep for good: while no call of the control
\* thread is under way it is at a READ, is about to post one, or has one
\* waiting, whatever resets have raced with its own post.
ReadAlive ==
    ctl = "idle" => thr \in {"read", "count", "post"} \/ "READ" \in Posted

\* The posts whose result nobody looks at all find room.
PostsSucceed ==
    ctl \in {"start", "idle", "resetRead"} \/ thr = "post" => CanPost

\* When SbmFrameReset has its answer its RESET has been carried out: an
\* answer is never left over from an earlier reset.
ResetCarriedOut ==
    /\ ctl \notin {"resetSem", "resetWait"} =>
           resetSem = 0 /\ "RESET" \notin Posted
                        /\ thr \notin {"reset", "reply"}
    /\ resetSem = 1 => "RESET" \notin Posted /\ thr \notin {"reset", "reply"}

-----------------------------------------------------------------------------
(* Why these hold: what may wait in the queue at each point of the two     *)
(* threads.                                                                *)

R  == <<"READ">>
RR == <<"READ", "READ">>

\* The thread is in a READ and has not posted the next one.
Reading == thr \in {"read", "count", "post"}

\* No request is under way: one READ is with the thread or waits, and
\* perhaps the one of the last reset besides.
Undisturbed ==
    \/ Reading /\ messages \in {<<>>, R}
    \/ thr \in {"wait", "sem"} /\ messages \in {R, RR}

\* Request m waits, before it what waited already, behind it perhaps the
\* READ of a thread that had found the queue empty.
Requested(m) ==
    \/ thr \in {"read", "count", "post"} /\ messages \in {<<m>>, <<"READ", m>>}
    \/ thr \in {"read", "count"} /\ messages = <<m, "READ">>
    \/ thr = "wait" /\ messages = <<m>>
    \/ thr \in {"wait", "sem"}
       /\ messages \in {<<"READ", m>>, <<m, "READ">>,
                         <<"READ", "READ", m>>, <<"READ", m, "READ">>}

\* The request has been taken: at most the thread's own READ is left.
Taken(points) == thr \in points /\ messages \in {<<>>, R}

\* A reset is answered: the thread may have come to the end of its READs.
Answered ==
    \/ Reading /\ messages = <<>>
    \/ thr = "sem" /\ messages = R
    \/ thr = "wait" /\ messages \in {<<>>, R}

\* The reset has posted the READ in its place.
Renewed ==
    \/ Reading /\ messages = R
    \/ thr = "sem" /\ messages = RR
    \/ thr = "wait" /\ messages \in {R, RR}

\* The queue at every point of the control thread.
QueueShape ==
    \/ ctl = "start" /\ thr = "wait" /\ messages = <<>> /\ resetSem = 0
    \/ ctl = "startSem" /\ thr = "wait" /\ messages = R /\ resetSem = 0
    \/ ctl \in {"startType", "idle"} /\ Undisturbed /\ resetSem = 0
    \/ ctl \in {"resetSem", "resetWait"}
       /\ \/ Requested("RESET") /\ resetSem = 0
          \/ Taken({"reset", "reply"}) /\ resetSem = 0
          \/ Answered /\ resetSem = 1
    \/ ctl = "resetRead" /\ Answered /\ resetSem = 0
    \/ ctl = "readSem" /\ Renewed /\ resetSem = 0
    \/ ctl \in {"quitSem", "join"} /\ resetSem = 0
       /\ (Requested("QUIT") \/ Taken({"exited"}))
    \/ ctl = "destroyed" /\ Taken({"exited"}) /\ resetSem = 0

\* The semaphore counts the messages whose poster has raised it.
SemCounts ==
    Len(messages) = sem + (IF thr = "sem" THEN 1 ELSE 0)
                        + (IF ctl \in {"startSem", "resetSem", "readSem",
                                       "quitSem"} THEN 1 ELSE 0)

\* The queue has the messages its threads' places allow and the semaphore
\* counts them: at most two READs and one request ever wait.
ThreadInv == QueueShape /\ SemCounts

\* SbmFrameReset, which waits without a time-out, returns.
ResetReturns == ctl = "resetWait" ~> ctl = "idle"

\* SbmFrameDestroy, which joins the thread, returns.
DestroyReturns == ctl = "join" ~> ctl = "destroyed"

\* No call of the control thread waits for ever for a detector that is busy,
\* or asleep, with something else.
CallsReturn == ResetReturns /\ DestroyReturns
=============================================================================
