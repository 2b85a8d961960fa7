------------------------------ MODULE IAMClient ------------------------------
(***************************************************************************)
(* The IAM client's subject tracking (src/unnamed/part_001, package        *)
(* iamclient).  New reads the subjects once and starts the goroutine       *)
(* handleSubjectsChanged, which subscribes to the IAM's subjects-changed   *)
(* stream, reads the subjects again to catch a change made while it was   *)
(* not subscribed, and then forwards every notification that differs from *)
(* client.subjects to subjectsChangedChannel (capacity 1, a blocking      *)
(* send).  Any error of the subscription, the read or the stream ends     *)
(* subscribeSubjectsChanged; the goroutine then waits for the reconnect    *)
(* timer or for Close, whichever its select takes.  Close puts a token in  *)
(* closeChannel and closes the connection, which breaks the stream.       *)
(*                                                                         *)
(* A subject list is a model value: isSubjectsEqual compares two lists     *)
(* element by element, which is equality of the values.  The reader of    *)
(* the channel (the owner of the client) is an environment that takes     *)
(* what is sent.                                                           *)
(***************************************************************************)
EXTENDS Naturals, Sequences

CONSTANTS
    SubjectLists,    \* the subject lists the IAM may hold
    InitialSubjects, \* the IAM's list when New reads it
    MaxChanges,      \* bound on the IAM's changes of its list
    MaxFailures      \* bound on lost connections and failed RPCs

ASSUME InitialSubjects \in SubjectLists

VARIABLES
    iam,          \* the subjects the IAM holds
    changes,      \* how often the IAM changed them
    streamOpen,   \* the subscription stream the goroutine reads is alive
    stream,       \* notifications sent on it and not yet received
    subjects,     \* client.subjects
    pc,           \* where handleSubjectsChanged is
    channel,      \* subjectsChangedChannel, capacity 1
    seen,         \* the last list the owner took from the channel
    closeChannel, \* tokens in closeChannel, capacity 1
    closed,       \* Close has run: the connections are closed
    failures      \* connection losses and RPC errors so far

vars == <<iam, changes, streamOpen, stream, subjects, pc, channel, seen,
          closeChannel, closed, failures>>

\* isSubjectsEqual: same length and the same subject at every index.
isSubjectsEqual(s1, s2) == s1 = s2

\* The outcomes of an RPC: it fails on a closed connection, and otherwise
\* may fail while the failure bound allows.
RPCOutcomes ==
    IF closed THEN {FALSE}
    ELSE IF failures < MaxFailures THEN BOOLEAN ELSE {TRUE}

\* A failed RPC counts against the bound unless the connection is closed.
CountFailure(ok) == failures' = IF ok \/ closed THEN failures ELSE failures + 1

-----------------------------------------------------------------------------
(* The IAM and the network.                                                 *)

\* The IAM's subjects change; an open stream carries the new list.
SubjectsChange(l) ==
    /\ changes < MaxChanges
    /\ l # iam
    /\ iam' = l
    /\ changes' = changes + 1
    /\ stream' = IF streamOpen THEN Append(stream, l) ELSE stream
    /\ UNCHANGED <<streamOpen, subjects, pc, channel, seen, closeChannel, closed, failures>>

\* The connection under the stream is lost: what it still carried is gone.
ConnectionLost ==
    /\ streamOpen
    /\ failures < MaxFailures
    /\ streamOpen' = FALSE
    /\ stream' = <<>>
    /\ failures' = failures + 1
    /\ UNCHANGED <<iam, changes, subjects, pc, channel, seen, closeChannel, closed>>

-----------------------------------------------------------------------------
(* handleSubjectsChanged and subscribeSubjectsChanged.                      *)

\* SubscribeSubjectsChanged: a new stream, or an error that ends
\* subscribeSubjectsChanged.
Subscribe ==
    /\ pc = "subscribe"
    /\ \E ok \in RPCOutcomes :
          /\ streamOpen' = ok
          /\ stream' = <<>>
          /\ pc' = IF ok THEN "getSubjects" ELSE "wait"
          /\ CountFailure(ok)
    /\ UNCHANGED <<iam, changes, subjects, channel, seen, closeChannel, closed>>

\* A getSubjects after the subscription that does not compare and send.
GetSubjectsNoResync ==
    /\ pc = "getSubjects"
    /\ \E ok \in RPCOutcomes :
          /\ IF ~ok
             THEN /\ pc' = "wait"
                  /\ streamOpen' = FALSE /\ stream' = <<>>
             ELSE /\ pc' = "recv"
                  /\ UNCHANGED <<streamOpen, stream>>
          /\ CountFailure(ok)
    /\ UNCHANGED <<iam, changes, subjects, channel, seen, closeChannel, closed>>

\* getSubjects after the subscription; a list other than client.subjects is
\* stored under the lock and then sent.  An error ends the function and the
\* stream is read no more.
GetSubjects ==
    /\ pc = "getSubjects"
    /\ \E ok \in RPCOutcomes :
          /\ IF ~ok
             THEN /\ pc' = "wait"
                  /\ streamOpen' = FALSE /\ stream' = <<>>
                  /\ UNCHANGED subjects
             ELSE /\ pc' = IF isSubjectsEqual(iam, subjects) THEN "recv" ELSE "send"
                  /\ subjects' = iam
                  /\ UNCHANGED <<streamOpen, stream>>
          /\ CountFailure(ok)
    /\ UNCHANGED <<iam, changes, channel, seen, closeChannel, closed>>

\* A send that does not wait for room in the channel.
SendNoWait ==
    /\ pc = "send"
    /\ channel' = Append(channel, subjects)
    /\ pc' = "recv"
    /\ UNCHANGED <<iam, changes, streamOpen, stream, subjects, seen, closeChannel,
                   closed, failures>>

\* subjectsChangedChannel <- client.subjects: blocks while the channel is full.
Send ==
    /\ pc = "send"
    /\ channel = <<>>
    /\ channel' = <<subjects>>
    /\ pc' = "recv"
    /\ UNCHANGED <<iam, changes, streamOpen, stream, subjects, seen, closeChannel,
                   closed, failures>>

\* stream.Recv returns a notification; one that differs from client.subjects
\* is stored and sent.
Recv ==
    /\ pc = "recv"
    /\ stream # <<>>
    /\ subjects' = Head(stream)
    /\ stream' = Tail(stream)
    /\ pc' = IF isSubjectsEqual(Head(stream), subjects) THEN "recv" ELSE "send"
    /\ UNCHANGED <<iam, changes, streamOpen, channel, seen, closeChannel, closed, failures>>

\* stream.Recv returns the error of a broken stream.
RecvError ==
    /\ pc = "recv"
    /\ ~streamOpen
    /\ pc' = "wait"
    /\ UNCHANGED <<iam, changes, streamOpen, stream, subjects, channel, seen,
                   closeChannel, closed, failures>>

\* The select of handleSubjectsChanged takes the token of closeChannel and
\* the goroutine returns.
ReturnOnClose ==
    /\ pc = "wait"
    /\ closeChannel = 1
    /\ closeChannel' = 0
    /\ pc' = "done"
    /\ UNCHANGED <<iam, changes, streamOpen, stream, subjects, channel, seen, closed, failures>>

\* The select takes time.After(iamReconnectTimeout): subscribe again.
Reconnect ==
    /\ pc = "wait"
    /\ pc' = "subscribe"
    /\ UNCHANGED <<iam, changes, streamOpen, stream, subjects, channel, seen,
                   closeChannel, closed, failures>>

-----------------------------------------------------------------------------
(* The owner of the client.                                                 *)

\* A Close that closes the connections without telling the goroutine.
CloseNoToken ==
    /\ ~closed
    /\ closed' = TRUE
    /\ streamOpen' = FALSE
    /\ stream' = <<>>
    /\ UNCHANGED <<iam, changes, subjects, pc, channel, seen, closeChannel, failures>>

\* Close: a token into closeChannel, then the connections are closed, which
\* breaks the stream.
Close ==
    /\ ~closed
    /\ closeChannel' = 1
    /\ closed' = TRUE
    /\ streamOpen' = FALSE
    /\ stream' = <<>>
    /\ UNCHANGED <<iam, changes, subjects, pc, channel, seen, failures>>

\* The owner takes a list from GetSubjectsChangedChannel().
Receive ==
    /\ channel # <<>>
    /\ seen' = Head(channel)
    /\ channel' = <<>>
    /\ UNCHANGED <<iam, changes, streamOpen, stream, subjects, pc, closeChannel,
                   closed, failures>>

-----------------------------------------------------------------------------

\* After New: the subjects were read, the owner starts from GetSubjects(),
\* and the goroutine is about to subscribe.
Init ==
    /\ iam = InitialSubjects
    /\ changes = 0
    /\ streamOpen = FALSE
    /\ stream = <<>>
    /\ subjects = InitialSubjects
    /\ pc = "subscribe"
    /\ channel = <<>>
    /\ seen = InitialSubjects
    /\ closeChannel = 0
    /\ closed = FALSE
    /\ failures = 0

\* The steps of the handleSubjectsChanged goroutine.
Subscriber ==
    \/ Subscribe \/ GetSubjects \/ Send \/ Recv \/ RecvError \/ Reconnect

Next ==
    \/ Subscriber \/ ReturnOnClose
    \/ \E l \in SubjectLists : SubjectsChange(l)
    \/ ConnectionLost
    \/ Close
    \/ Receive

\* The goroutine runs whenever it can, the reconnect timer fires, and Go's
\* select takes each ready case with equal probability, so a token in
\* closeChannel that is offered again and again is taken.  The owner keeps
\* reading the channel.  The IAM and the network need not do anything.
Spec ==
    /\ Init /\ [][Next]_vars
    /\ WF_vars(Subscriber)
    /\ SF_vars(ReturnOnClose)
    /\ WF_vars(Receive)

-----------------------------------------------------------------------------
(* Properties.                                                              *)

TypeOK ==
    /\ iam \in SubjectLists /\ subjects \in SubjectLists /\ seen \in SubjectLists
    /\ changes \in 0..MaxChanges /\ failures \in 0..MaxFailures
    /\ streamOpen \in BOOLEAN /\ closed \in BOOLEAN
    /\ stream \in Seq(SubjectLists) /\ Len(stream) <= MaxChanges
    /\ channel \in Seq(SubjectLists) /\ Len(channel) <= 1
    /\ pc \in {"subscribe", "getSubjects", "send", "recv", "wait", "done"}
    /\ closeChannel \in 0..1

\* Once the IAM stops changing its subjects and the connection stops
\* failing, client.subjects and the list the owner last took from
\* subjectsChangedChannel both become the IAM's list and stay so, unless the
\* client was closed: a change the stream lost while it was broken, or made
\* before the new subscription, is caught by the getSubjects that follows
\* every SubscribeSubjectsChanged.
SubjectsEventuallyCurrent ==
    <>[](closed \/ (isSubjectsEqual(subjects, iam) /\ isSubjectsEqual(seen, iam)))

\* After Close the handleSubjectsChanged goroutine returns: the broken
\* stream ends subscribeSubjectsChanged, and the select finds the token Close
\* put into closeChannel.
CloseEndsSubscriber == closed ~> pc = "done"

=============================================================================
