----------------------------- MODULE Dispatcher -----------------------------
(***************************************************************************)
(* dispatcher.go: the goroutine that handles a file of drop, or of the     *)
(* drop directory of a playlist, once the file has been left alone for     *)
(* three seconds; and the FUSE handlers of file.go that tell it about such *)
(* files through a channel of bounded capacity.                            *)
(*                                                                         *)
(* Time is a number of ticks.  A time stamp is kept as its age, and ages   *)
(* above the timeout are all alike, so that time itself is no variable.    *)
(***************************************************************************)
EXTENDS Integers, Sequences, SequencesExt, FiniteSets

CONSTANTS
    File,         \* files in drop directories
    Client,       \* FUSE requests that can be in progress at the same time
    Timeout,      \* ticks in three seconds
    Capacity,     \* of fChannel: 10 in the source
    Watched,      \* files whose attributes are asked for again and again
    MaxRequests   \* bound: files created and opened and attributes asked for

ASSUME DispatcherAssumption ==
    /\ Timeout \in Nat \ {0}
    /\ Capacity \in Nat \ {0}
    /\ MaxRequests \in Nat
    /\ Watched \subseteq File
    /\ IsFiniteSet(Client)

VARIABLES
    exists,    \* the files that are in their drop directory
    opens,     \* file handles a client has open
    call,      \* the request each client has in progress
    fChannel,  \* messages sent and not received
    fileItems, \* the dispatcher's list
    idle,      \* how long ago select was entered
    state,     \* what the dispatcher does: "select", "clean" or "run"
    index,     \* of cleanLists' loop, counted from 1
    due,       \* the files cleanLists found to be timed out
    requests,  \* counted so far
    owed       \* releases of a file less the times it has been handled

clientVars == <<exists, opens, call, requests>>
listVars   == <<fileItems, idle, state, index, due>>
vars       == <<clientVars, fChannel, listVars, owed>>

Age == 0 .. Timeout + 1

\* nil, DelayedVoid, and the one of DelayedHandleDrop and
\* DelayedHandlePlaylistSong that belongs to the file's directory.
Fn == {"nil", "DelayedVoid", "DelayedHandle"}

FileItem == [file : File, fn : Fn, touched : Age]

\* A request that pushes; "opening" has pushed and is about to open the file.
Call == [op : {"attr", "open", "release"}, file : File, touched : Age]
        \cup [op : {"opening"}, file : File]

NoCall == [op |-> "none"]

FnOf(op) == CASE op = "attr"    -> "nil"
              [] op = "open"    -> "DelayedVoid"
              [] op = "release" -> "DelayedHandle"

Busy(p)    == call[p] # NoCall
Sending(p) == call[p].op \in {"attr", "open", "release"}

Older(age) == IF age > Timeout THEN age ELSE age + 1

----------------------------------------------------------------------------
(* The FUSE side: File.Attr, File.Open, FileHandle.Release and Dir.Create. *)

Counted == requests < MaxRequests /\ requests' = requests + 1

\* PushFileItem reads the clock before it waits for room in the channel.
Push(p, op, f) ==
    /\ ~Busy(p)
    /\ call' = [call EXCEPT ![p] = [op |-> op, file |-> f, touched |-> 0]]

\* A new file is open, and nothing is pushed.
Create(f) ==
    /\ f \notin exists /\ Counted
    /\ exists' = exists \cup {f}
    /\ opens' = [opens EXCEPT ![f] = @ + 1]
    /\ UNCHANGED <<call, fChannel, listVars, owed>>

Attr(p, f) ==
    /\ f \in exists /\ Push(p, "attr", f)
    /\ IF f \in Watched THEN UNCHANGED requests ELSE Counted
    /\ UNCHANGED <<exists, opens, fChannel, listVars, owed>>

Open(p, f) ==
    /\ f \in exists /\ Push(p, "open", f) /\ Counted
    /\ UNCHANGED <<exists, opens, fChannel, listVars, owed>>

Release(p, f) ==
    /\ opens[f] > 0 /\ Push(p, "release", f)
    /\ opens' = [opens EXCEPT ![f] = @ - 1]
    /\ owed' = [owed EXCEPT ![f] = @ + 1]
    /\ UNCHANGED <<exists, requests, fChannel, listVars>>

\* Faulty variant: a channel without a bound.
SendAnyway(p) ==
    LET c == call[p] IN
    /\ Sending(p)
    /\ fChannel' = Append(fChannel, [file |-> c.file, fn |-> FnOf(c.op), touched |-> c.touched])
    /\ call' = [call EXCEPT ![p] = IF c.op = "open" THEN [op |-> "opening", file |-> c.file]
                                   ELSE NoCall]
    /\ UNCHANGED <<exists, opens, requests, listVars, owed>>

Send(p) ==
    LET c == call[p] IN
    /\ Sending(p) /\ Len(fChannel) < Capacity
    /\ fChannel' = Append(fChannel, [file |-> c.file, fn |-> FnOf(c.op), touched |-> c.touched])
    /\ call' = [call EXCEPT ![p] = IF c.op = "open" THEN [op |-> "opening", file |-> c.file]
                                   ELSE NoCall]
    /\ UNCHANGED <<exists, opens, requests, listVars, owed>>

\* The file may be gone by now, and then Open fails after all.
OpenFile(p) ==
    LET f == call[p].file IN
    /\ call[p].op = "opening"
    /\ opens' = IF f \in exists THEN [opens EXCEPT ![f] = @ + 1] ELSE opens
    /\ call' = [call EXCEPT ![p] = NoCall]
    /\ UNCHANGED <<exists, requests, fChannel, listVars, owed>>

----------------------------------------------------------------------------
(* The dispatcher.                                                         *)

\* Faulty variant: the function of the last message is taken as it is.
AddFileAlways(items, m) ==
    LET at == {i \in DOMAIN items : items[i].file = m.file} IN
    IF at = {} THEN Append(items, m)
    ELSE [i \in DOMAIN items |-> IF i \in at THEN m ELSE items[i]]

\* Faulty variant: an item is taken for the same only while nobody handles it.
AddFileTwice(items, m) ==
    LET at == {i \in DOMAIN items : items[i].file = m.file /\ items[i].fn # "DelayedHandle"} IN
    IF at = {} THEN Append(items, m)
    ELSE [i \in DOMAIN items |->
            IF i \notin at THEN items[i]
            ELSE [items[i] EXCEPT !.touched = m.touched,
                                  !.fn = IF m.fn = "nil" THEN @ ELSE m.fn]]

\* The list with a message taken in: a new time for an item that is there,
\* and a new function unless the message brings none.
AddFile(items, m) ==
    LET at == {i \in DOMAIN items : items[i].file = m.file} IN
    IF at = {} THEN Append(items, m)
    ELSE [i \in DOMAIN items |->
            IF i \notin at THEN items[i]
            ELSE [items[i] EXCEPT !.touched = m.touched,
                                  !.fn = IF m.fn = "nil" THEN @ ELSE m.fn]]

Receive ==
    /\ state = "select" /\ fChannel # <<>>
    /\ fileItems' = AddFile(fileItems, Head(fChannel))
    /\ fChannel' = Tail(fChannel)
    /\ idle' = 0
    /\ UNCHANGED <<clientVars, state, index, due, owed>>

\* select takes the timer when nothing has come for three seconds; what
\* comes at the same moment may stay in the channel.
TimedOut(item) == item.touched > Timeout

Timer ==
    /\ state = "select" /\ idle >= Timeout
    /\ state' = "clean"
    /\ index' = Len(fileItems)
    /\ due' = {fileItems[i].file : i \in {j \in DOMAIN fileItems : TimedOut(fileItems[j])}}
    /\ UNCHANGED <<clientVars, fChannel, fileItems, idle, owed>>

\* Faulty variant: an item that is not due ends the loop.
LookNoFurther ==
    /\ state = "clean" /\ index > 0
    /\ IF fileItems[index].file \in due
       THEN state' = "run" /\ UNCHANGED index
       ELSE index' = 0 /\ UNCHANGED state
    /\ UNCHANGED <<clientVars, fChannel, fileItems, idle, due, owed>>

\* The loop runs from the last item to the first.
Look ==
    /\ state = "clean" /\ index > 0
    /\ IF fileItems[index].file \in due
       THEN state' = "run" /\ UNCHANGED index
       ELSE index' = index - 1 /\ UNCHANGED state
    /\ UNCHANGED <<clientVars, fChannel, fileItems, idle, due, owed>>

\* Faulty variant: the item stays in the list.
RunAgain ==
    LET item == fileItems[index] IN
    /\ state = "run"
    /\ exists' = IF item.fn = "DelayedHandle" THEN exists \ {item.file} ELSE exists
    /\ owed' = IF item.fn = "DelayedHandle" THEN [owed EXCEPT ![item.file] = @ - 1] ELSE owed
    /\ index' = index - 1
    /\ state' = "clean"
    /\ UNCHANGED <<opens, call, requests, fChannel, fileItems, idle, due>>

\* Faulty variant: the handler waits for the channel to be empty.
RunWhenEmpty ==
    LET item == fileItems[index] IN
    /\ state = "run"
    /\ item.fn = "DelayedHandle" => fChannel = <<>>
    /\ exists' = IF item.fn = "DelayedHandle" THEN exists \ {item.file} ELSE exists
    /\ owed' = IF item.fn = "DelayedHandle" THEN [owed EXCEPT ![item.file] = @ - 1] ELSE owed
    /\ fileItems' = RemoveAt(fileItems, index)
    /\ index' = index - 1
    /\ state' = "clean"
    /\ UNCHANGED <<opens, call, requests, fChannel, idle, due>>

\* The item's function runs in the dispatcher's own goroutine.  A handler
\* moves or removes the file, or gives up and leaves it where it is.
Run ==
    LET item == fileItems[index] IN
    /\ state = "run"
    /\ \/ item.fn = "DelayedHandle" /\ exists' = exists \ {item.file}
       \/ UNCHANGED exists
    /\ owed' = IF item.fn = "DelayedHandle" THEN [owed EXCEPT ![item.file] = @ - 1] ELSE owed
    /\ fileItems' = RemoveAt(fileItems, index)
    /\ index' = index - 1
    /\ state' = "clean"
    /\ UNCHANGED <<opens, call, requests, fChannel, idle, due>>

Cleaned ==
    /\ state = "clean" /\ index = 0
    /\ state' = "select"
    /\ idle' = 0
    /\ due' = {}
    /\ UNCHANGED <<clientVars, fChannel, fileItems, index, owed>>

----------------------------------------------------------------------------
Aged(q) == [i \in DOMAIN q |-> [q[i] EXCEPT !.touched = Older(@)]]

Tick ==
    /\ fChannel' = Aged(fChannel)
    /\ fileItems' = Aged(fileItems)
    /\ call' = [p \in Client |-> IF Sending(p)
                                 THEN [call[p] EXCEPT !.touched = Older(@)] ELSE call[p]]
    /\ idle' = IF state = "select" /\ idle < Timeout THEN idle + 1 ELSE idle
    /\ UNCHANGED <<exists, opens, requests, state, index, due, owed>>

Init ==
    /\ exists = {}
    /\ opens = [f \in File |-> 0]
    /\ call = [p \in Client |-> NoCall]
    /\ fChannel = <<>> /\ fileItems = <<>>
    /\ idle = 0 /\ state = "select" /\ index = 0 /\ due = {}
    /\ requests = 0
    /\ owed = [f \in File |-> 0]

Loop == Receive \/ Timer \/ Look \/ Run \/ Cleaned

Next ==
    \/ Loop \/ Tick
    \/ \E f \in File : Create(f) \/ \E p \in Client : Attr(p, f) \/ Open(p, f) \/ Release(p, f)
    \/ \E p \in Client : Send(p) \/ OpenFile(p)

Spec == Init /\ [][Next]_vars

(***************************************************************************)
(* Time passes and the dispatcher runs when it can.  Go queues the senders *)
(* that wait on a channel, so one that waits for room gets it although     *)
(* others send too.  select picks at random among the cases that are ready *)
(* and prefers neither for ever.  A client closes what it has opened.      *)
(***************************************************************************)
Fairness ==
    /\ WF_vars(Tick)
    /\ SF_vars(Receive) /\ SF_vars(Timer) /\ WF_vars(Look) /\ WF_vars(Run) /\ WF_vars(Cleaned)
    /\ \A p \in Client : SF_vars(Send(p)) /\ WF_vars(OpenFile(p))
    /\ \A f \in File : WF_vars(\E p \in Client : Release(p, f))

FairSpec == Spec /\ Fairness

----------------------------------------------------------------------------
(* Properties.                                                             *)

TypeOK ==
    /\ exists \subseteq File
    /\ opens \in [File -> Nat]
    /\ call \in [Client -> Call \cup {NoCall}]
    /\ fChannel \in Seq(FileItem) /\ Len(fChannel) <= Capacity
    /\ fileItems \in Seq(FileItem)
    /\ idle \in 0 .. Timeout
    /\ state \in {"select", "clean", "run"}
    /\ index \in 0 .. Len(fileItems)
    /\ state = "run" => index > 0
    /\ due \subseteq File
    /\ requests \in 0 .. MaxRequests
    /\ owed \in [File -> Int]

(***************************************************************************)
(* addFile keeps one item for each file: a file that is touched again does *)
(* not wait in two places of the list and is not handled twice.            *)
(***************************************************************************)
OneItemPerFile ==
    \A i, j \in DOMAIN fileItems : fileItems[i].file = fileItems[j].file => i = j

(***************************************************************************)
(* The handler runs on a file at most once for each time a client has      *)
(* closed it: the calls that are still to come, in the list, the channel   *)
(* and the requests, are never more than the releases not yet answered.    *)
(***************************************************************************)
Handlers(q, f) == {i \in DOMAIN q : q[i].file = f /\ q[i].fn = "DelayedHandle"}

Releases(f) == {p \in Client : call[p].op = "release" /\ call[p].file = f}

ToCome(f) == Cardinality(Handlers(fileItems, f)) + Cardinality(Handlers(fChannel, f))
             + Cardinality(Releases(f))

HandledOncePerRelease == \A f \in File : ToCome(f) <= owed[f]

(***************************************************************************)
(* A handler that waits for its file to be quiet is not lost: it stays in  *)
(* the list until it is run, or until the file has been opened once more   *)
(* (whose release will bring it back).  Looking at the file's attributes   *)
(* only makes it wait longer.                                              *)
(***************************************************************************)
Scheduled(f) == Handlers(fileItems, f) # {}

Reopened(f) ==
    /\ state = "select" /\ fChannel # <<>>
    /\ Head(fChannel).file = f /\ Head(fChannel).fn = "DelayedVoid"

HandlerIsKept ==
    [][ \A f \in File :
          Scheduled(f) => \/ Scheduled(f)'
                          \/ Reopened(f)
                          \/ state = "run" /\ fileItems[index].file = f ]_vars

(***************************************************************************)
(* One pass of cleanLists deals with every item that had timed out when it *)
(* began, although it takes items out of the list it is going through.     *)
(***************************************************************************)
NobodyIsSkipped ==
    [][ state = "clean" /\ state' = "select" =>
          \A i \in DOMAIN fileItems : fileItems[i].file \notin due ]_vars

(***************************************************************************)
(* dispatcher.go: PushFileItem receives a file "to be processed in the     *)
(* near future".  A file that a client has closed is handled at last, or   *)
(* opened again, whatever happens to the files that are only looked at.    *)
(***************************************************************************)
Pending(f) == ToCome(f) > 0

ReleasedIsHandled == \A f \in File \ Watched : Pending(f) ~> ~Pending(f)

(***************************************************************************)
(* A request that pushes a file to the dispatcher is answered, although    *)
(* the channel may be full and the dispatcher busy with a handler.         *)
(***************************************************************************)
PushReturns == \A p \in Client : Busy(p) ~> ~Busy(p)
=============================================================================
