----------------------------- MODULE AuditQueue -----------------------------
(***************************************************************************)
(* How an audit message gets from the queue it is monitored on to the      *)
(* document store.  The listener peeks; when there is a message it         *)
(* receives it in a transaction of the queue, maps it, sends it to the     *)
(* endpoint's own queue, which is not part of the transaction, and         *)
(* commits.  Whatever throws aborts the transaction, and the message is    *)
(* back where it was.  The endpoint then hands the message to              *)
(* Audit_Handler, which stores a new document.                             *)
(*                                                                         *)
(* Queues, transactions and the endpoint are external: a transaction is an *)
(* effect on the queue that Commit makes, and the endpoint hands a message *)
(* out again until its handler has returned.                               *)
(***************************************************************************)
EXTENDS Naturals, Sequences, FiniteSets, FiniteSetsExt

CONSTANTS
  Messages,
  Poison,          \* messages without the headers that the mapping dereferences
  MaxFailures      \* bound: calls that throw, and deaths of the process

ASSUME MessagesAssumption == IsFiniteSet(Messages)
ASSUME PoisonAssumption == Poison \subseteq Messages
ASSUME BoundsAssumption == MaxFailures \in Nat

VARIABLES
  arrivals,     \* the audit messages, in the order they came
  queue,        \* the audit queue
  listener,     \* where queue_PeekCompleted is
  local,        \* copies of each message in the endpoint's queue
  handled,      \* the message in Audit_Handler, if any
  saved,        \* SaveChanges has returned, the handler has not
  documents,    \* documents stored for each message
  throws,       \* calls that threw
  deaths        \* deaths of the process

vars == <<arrivals, queue, listener, local, handled, saved, documents, throws, deaths>>
delivery == <<local, handled, saved, documents>>
reception == <<arrivals, queue, listener>>
failures == <<throws, deaths>>

Seen == {arrivals[i] : i \in 1 .. Len(arrivals)}
Queued == {queue[i] : i \in 1 .. Len(queue)}

Init ==
  /\ arrivals = <<>> /\ queue = <<>>
  /\ listener = "peeking"
  /\ local = [m \in Messages |-> 0]
  /\ handled = {} /\ saved = FALSE
  /\ documents = [m \in Messages |-> 0]
  /\ throws = 0 /\ deaths = 0

Arrive(m) ==
  /\ m \in Messages \ Seen
  /\ arrivals' = Append(arrivals, m)
  /\ queue' = Append(queue, m)
  /\ UNCHANGED <<listener, delivery, failures>>

-----------------------------------------------------------------------------
\* The listener

\* The peek completes, and the transaction has the first message.
Receive ==
  /\ listener = "peeking" /\ queue # <<>>
  /\ listener' = "received"
  /\ UNCHANGED <<arrivals, queue, delivery, failures>>

\* Convert and To_NServiceBus_Audit_Message.
Map ==
  /\ listener = "received"
  /\ listener' = IF Head(queue) \in Poison THEN "caught" ELSE "mapped"
  /\ UNCHANGED <<arrivals, queue, delivery, failures>>

SendLocal ==
  /\ listener = "mapped"
  /\ local' = [local EXCEPT ![Head(queue)] = @ + 1]
  /\ listener' = "sent"
  /\ UNCHANGED <<arrivals, queue, handled, saved, documents, failures>>

\* Mutant of Commit: the message was peeked, not received.
Commit_Of_A_Peek ==
  /\ listener = "sent"
  /\ listener' = "peeking"
  /\ UNCHANGED <<arrivals, queue, delivery, failures>>

Commit ==
  /\ listener = "sent"
  /\ queue' = Tail(queue)
  /\ listener' = "peeking"
  /\ UNCHANGED <<arrivals, delivery, failures>>

\* SendLocal or Commit throws.
Call_Throws ==
  /\ listener \in {"mapped", "sent"}
  /\ throws + deaths < MaxFailures
  /\ listener' = "caught"
  /\ throws' = throws + 1
  /\ UNCHANGED <<deaths, arrivals, queue, delivery>>

\* Mutant of Abort: the transaction is completed whatever happened.
Abort_Receives ==
  /\ listener = "caught"
  /\ queue' = Tail(queue)
  /\ listener' = "peeking"
  /\ UNCHANGED <<arrivals, delivery, failures>>

\* Mutant of Abort: the message is put back at the end of the queue.
Abort_To_The_End ==
  /\ listener = "caught"
  /\ queue' = Append(Tail(queue), Head(queue))
  /\ listener' = "peeking"
  /\ UNCHANGED <<arrivals, delivery, failures>>

\* Mutant of Abort: the next peek is begun after a commit only.
Abort_Without_Peek ==
  /\ listener = "caught"
  /\ listener' = "stopped"
  /\ UNCHANGED <<arrivals, queue, delivery, failures>>

\* Abort, and the next peek in the finally block.
Abort ==
  /\ listener = "caught"
  /\ listener' = "peeking"
  /\ UNCHANGED <<arrivals, queue, delivery, failures>>

-----------------------------------------------------------------------------
\* The handler of the endpoint

Handle(m) ==
  /\ handled = {} /\ local[m] > 0
  /\ handled' = {m} /\ saved' = FALSE
  /\ UNCHANGED <<reception, local, documents, failures>>

\* Store and SaveChanges: a document without an id gets a new one.
Append_Document(m) ==
  /\ m \in handled /\ ~ saved
  /\ documents' = [documents EXCEPT ![m] = @ + 1]
  /\ saved' = TRUE
  /\ UNCHANGED <<reception, local, handled, failures>>

\* SaveChanges, or the endpoint after it, throws: the message is handed out
\* again.
Handler_Throws ==
  /\ handled # {} /\ throws + deaths < MaxFailures
  /\ handled' = {} /\ saved' = FALSE
  /\ throws' = throws + 1
  /\ UNCHANGED <<deaths, reception, local, documents>>

\* The handler has returned and the endpoint removes the message.
Handled(m) ==
  /\ m \in handled /\ saved
  /\ local' = [local EXCEPT ![m] = @ - 1]
  /\ handled' = {} /\ saved' = FALSE
  /\ UNCHANGED <<reception, documents, failures>>

\* The process dies; the queues and the documents stay, and Run starts again.
Die ==
  /\ throws + deaths < MaxFailures
  /\ listener' = "peeking"
  /\ handled' = {} /\ saved' = FALSE
  /\ deaths' = deaths + 1
  /\ UNCHANGED <<throws, arrivals, queue, local, documents>>

queue_PeekCompleted == Receive \/ Map \/ SendLocal \/ Commit \/ Abort
Audit_Handler == \E m \in Messages : Handle(m) \/ Append_Document(m) \/ Handled(m)

Next ==
  \/ \E m \in Messages : Arrive(m)
  \/ queue_PeekCompleted
  \/ Audit_Handler
  \/ Call_Throws \/ Handler_Throws \/ Die

\* A callback that has begun goes on, and the endpoint hands out what it has.
\* Nobody need send audit messages.
Spec ==
  /\ Init /\ [][Next]_vars
  /\ WF_vars(queue_PeekCompleted)
  /\ WF_vars(Audit_Handler)

-----------------------------------------------------------------------------
\* Properties

TypeOK ==
  /\ arrivals \in Seq(Messages) /\ queue \in Seq(Messages)
  /\ listener \in {"peeking", "received", "mapped", "sent", "caught"}
  /\ listener # "peeking" => queue # <<>>
  /\ local \in [Messages -> Nat] /\ documents \in [Messages -> Nat]
  /\ handled \in {{}} \cup {{m} : m \in Messages}
  /\ \A m \in handled : local[m] > 0
  /\ saved \in BOOLEAN /\ saved => handled # {}
  /\ throws \in Nat /\ deaths \in Nat /\ throws + deaths <= MaxFailures

\* An audit message is somewhere at every instant, although the two queues are
\* not updated together: in its queue, in the endpoint's queue or stored.
NothingLost == \A m \in Seen : m \in Queued \/ local[m] > 0 \/ documents[m] > 0

\* A message that is saved and not yet removed counts once.
Copies(m) == local[m] + documents[m] - (IF saved /\ m \in handled THEN 1 ELSE 0)
Duplicates(m) == IF Copies(m) > 1 THEN Copies(m) - 1 ELSE 0

\* The price of that: a call that throws leaves at most one duplicate, of
\* whichever message; a death leaves two, one between SendLocal and Commit and
\* one between SaveChanges and the end of the handler.
DuplicatesBounded ==
  MapThenSumSet(Duplicates, Messages) <= throws + 2 * deaths

\* Messages are sent on in the order they came: one that is put back is still
\* ahead of all others.
SentInOrder ==
  \A i, j \in 1 .. Len(arrivals) :
    i < j /\ Copies(arrivals[j]) > 0 => Copies(arrivals[i]) > 0

Poison_Up_To(m) ==
  \E i \in 1 .. Len(arrivals) :
    /\ arrivals[i] \in Poison
    /\ \E j \in i .. Len(arrivals) : arrivals[j] = m

\* A message with no poison ahead of it is stored in the end, failures and
\* restarts notwithstanding.
StoredUnlessBehindPoison ==
  \A m \in Messages : (m \in Seen /\ ~ Poison_Up_To(m)) ~> documents[m] > 0

=============================================================================
