-------------------------- MODULE CdcMessageQueue --------------------------
(***************************************************************************)
(* The message queue of base/CdcMessageQueue.c: a list of at most          *)
(* nMaxMessageNum messages under a mutex, and a semaphore that counts      *)
(* them.  A post has two steps: the semaphore is raised after the mutex    *)
(* has been given back, and not at all if the list was full.  The node     *)
(* array behind the list and the functions nobody calls are left out.      *)
(***************************************************************************)
EXTENDS Naturals, Sequences

CONSTANT nMaxMessageNum

ASSUME QueueAssumption == nMaxMessageNum \in Nat \ {0}

VARIABLES
    messages,   \* pHead: the list, the oldest message first
    sem

mqVars == <<messages, sem>>

CdcMessageQueueCreate == messages = <<>> /\ sem = 0

\* The list with message m: the walk goes to the last node.
MessageLast(m) == Append(messages, m)

\* CdcMessageQueuePostMessage finds room.
CanPost == Len(messages) < nMaxMessageNum

\* CdcMessageQueuePostMessage up to the unlock.
CdcMessageQueuePostMessage(m) ==
    /\ messages' = IF CanPost THEN MessageLast(m) ELSE messages
    /\ UNCHANGED sem

\* Its sem_post.
SemPost == sem' = sem + 1 /\ UNCHANGED messages

\* CdcMessageQueueTryGetMessage returns message m.  (A time-out of the wait
\* changes nothing, and there is one reader.)
CdcMessageQueueTryGetMessage(m) ==
    /\ sem > 0
    /\ messages # <<>>
    /\ m = Head(messages)
    /\ sem' = sem - 1
    /\ messages' = Tail(messages)

CdcMessageQueueGetCount == Len(messages)
=============================================================================
