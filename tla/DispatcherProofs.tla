-------------------------- MODULE DispatcherProofs --------------------------
(***************************************************************************)
(* Theorems about dispatcher.go, for any files, finite set of clients,     *)
(* timeout and capacity of the channel.                                    *)
(*                                                                         *)
(* The argument of HandledOnce, the last of them.  A call that is still to *)
(* come is a request that waits to push it, then a message, then an item   *)
(* of the list.  On its way it is counted once: what a step adds to one of *)
(* the three it takes off another (Kept), except that a release adds a     *)
(* request and is owed one call more, and that the run of a handler is     *)
(* owed one less and takes the only item of its file out of the list.      *)
(* That there is only one is OneItemPerFile.                               *)
(***************************************************************************)
EXTENDS Dispatcher, SequenceTheorems, FiniteSetTheorems, TLAPS

----------------------------------------------------------------------------
(* The operations on the list and on the channel.                          *)

(***************************************************************************)
(* RemoveAt (append(fileItems[:i], fileItems[i+1:]...) in cleanLists) drops *)
(* one item, and the items behind it move up by one place.                 *)
(***************************************************************************)
LEMMA RemoveAtProperties ==
    ASSUME NEW S, NEW q \in Seq(S), NEW i \in 1 .. Len(q)
    PROVE  /\ RemoveAt(q, i) \in Seq(S)
           /\ Len(RemoveAt(q, i)) = Len(q) - 1
           /\ \A j \in 1 .. Len(q) - 1 :
                 RemoveAt(q, i)[j] = IF j < i THEN q[j] ELSE q[j + 1]
<1> DEFINE front == SubSeq(q, 1, i - 1)
           back  == SubSeq(q, i + 1, Len(q))
<1>1. /\ front \in Seq(S) /\ Len(front) = i - 1
      /\ \A j \in 1 .. i - 1 : front[j] = q[j]
  BY SubSeqProperties
<1>2. /\ back \in Seq(S) /\ Len(back) = Len(q) - i
      /\ \A j \in 1 .. Len(q) - i : back[j] = q[i + j]
  BY SubSeqProperties
<1>0. RemoveAt(q, i) = front \o back /\ Len(q) \in Nat
  BY DEF RemoveAt
<1> HIDE DEF front, back
<1>3. /\ front \o back \in Seq(S)
      /\ Len(front \o back) = Len(front) + Len(back)
      /\ \A j \in 1 .. Len(front) + Len(back) :
            (front \o back)[j] = IF j <= Len(front) THEN front[j] ELSE back[j - Len(front)]
  BY <1>1, <1>2, ConcatProperties
<1>4. Len(RemoveAt(q, i)) = Len(q) - 1
  BY <1>0, <1>1, <1>2, <1>3
<1>5. ASSUME NEW j \in 1 .. Len(q) - 1
      PROVE  RemoveAt(q, i)[j] = IF j < i THEN q[j] ELSE q[j + 1]
  <2>1. CASE j < i
    BY <1>0, <1>1, <1>2, <1>3, <2>1
  <2>2. CASE ~(j < i)
    <3>1. RemoveAt(q, i)[j] = back[j - (i - 1)]
      BY <1>0, <1>1, <1>2, <1>3, <2>2
    <3>2. j - (i - 1) \in 1 .. Len(q) - i /\ i + (j - (i - 1)) = j + 1
      BY <1>0, <2>2
    <3> QED
      BY <1>2, <2>2, <3>1, <3>2
  <2> QED
    BY <2>1, <2>2
<1> QED
  BY <1>0, <1>3, <1>4, <1>5

(***************************************************************************)
(* addFile keeps what is in the list where it is.                          *)
(***************************************************************************)
LEMMA AddFileProperties ==
    ASSUME NEW items \in Seq(FileItem), NEW m \in FileItem
    PROVE  /\ AddFile(items, m) \in Seq(FileItem)
           /\ Len(AddFile(items, m)) \in {Len(items), Len(items) + 1}
           /\ \A i \in 1 .. Len(items) :
                 /\ AddFile(items, m)[i].file = items[i].file
                 /\ AddFile(items, m)[i].fn =
                       IF items[i].file = m.file /\ m.fn # "nil" THEN m.fn ELSE items[i].fn
           /\ Len(AddFile(items, m)) = Len(items) + 1 =>
                 /\ AddFile(items, m)[Len(items) + 1] = m
                 /\ \A i \in 1 .. Len(items) : items[i].file # m.file
<1> DEFINE at == {i \in DOMAIN items : items[i].file = m.file}
           touch(i) == IF i \notin at THEN items[i]
                       ELSE [items[i] EXCEPT !.touched = m.touched,
                                             !.fn = IF m.fn = "nil" THEN @ ELSE m.fn]
<1>1. DOMAIN items = 1 .. Len(items) /\ Len(items) \in Nat
  OBVIOUS
<1>2. CASE at = {}
  <2>1. AddFile(items, m) = Append(items, m)
    BY <1>2 DEF AddFile
  <2> QED
    BY <1>1, <1>2, <2>1 DEF FileItem
<1>3. CASE at # {}
  <2>1. AddFile(items, m) = [i \in 1 .. Len(items) |-> touch(i)]
    BY <1>1, <1>3 DEF AddFile
  <2>2. ASSUME NEW i \in 1 .. Len(items)
        PROVE  /\ touch(i) \in FileItem
               /\ touch(i).file = items[i].file
               /\ touch(i).fn = IF items[i].file = m.file /\ m.fn # "nil" THEN m.fn
                                ELSE items[i].fn
    <3>0. items[i] \in FileItem
      BY ElementOfSeq
    <3>1. items[i].fn \in Fn /\ m.fn \in Fn /\ m.touched \in Age
      BY <3>0 DEF FileItem
    <3> DEFINE fn == IF m.fn = "nil" THEN items[i].fn ELSE m.fn
    <3>2. fn \in Fn
      BY <3>1
    <3>3. /\ [items[i] EXCEPT !.touched = m.touched, !.fn = fn] \in FileItem
          /\ [items[i] EXCEPT !.touched = m.touched, !.fn = fn].file = items[i].file
          /\ [items[i] EXCEPT !.touched = m.touched, !.fn = fn].fn = fn
      <4> HIDE DEF fn
      <4> QED
        BY <3>0, <3>1, <3>2 DEF FileItem
    <3>4. CASE i \in at
      BY <3>3, <3>4
    <3>5. CASE i \notin at
      BY <1>1, <3>0, <3>5
    <3> QED
      BY <3>4, <3>5
  <2> HIDE DEF touch
  <2>3. AddFile(items, m) \in [1 .. Len(items) -> FileItem]
    BY <2>1, <2>2
  <2>4. AddFile(items, m) \in Seq(FileItem) /\ Len(AddFile(items, m)) = Len(items)
    BY <1>1, <2>3
  <2> HIDE DEF at
  <2>5. \A i \in 1 .. Len(items) : AddFile(items, m)[i] = touch(i)
    BY <2>1
  <2>6. Len(AddFile(items, m)) # Len(items) + 1
    <3>1. Len(items) # Len(items) + 1
      BY LenProperties
    <3> QED
      BY <2>4, <3>1
  <2> QED
    BY <2>2, <2>4, <2>5, <2>6
<1> QED
  BY <1>2, <1>3

(***************************************************************************)
(* The passing of time changes nothing in a list but the ages.             *)
(***************************************************************************)
LEMMA AgedProperties ==
    ASSUME NEW q \in Seq(FileItem)
    PROVE  /\ Aged(q) \in Seq(FileItem)
           /\ Len(Aged(q)) = Len(q)
           /\ \A i \in 1 .. Len(q) : Aged(q)[i].file = q[i].file /\ Aged(q)[i].fn = q[i].fn
<1>1. DOMAIN q = 1 .. Len(q) /\ Len(q) \in Nat
  OBVIOUS
<1>2. ASSUME NEW i \in 1 .. Len(q)
      PROVE  /\ [q[i] EXCEPT !.touched = Older(@)] \in FileItem
             /\ [q[i] EXCEPT !.touched = Older(@)].file = q[i].file
             /\ [q[i] EXCEPT !.touched = Older(@)].fn = q[i].fn
  <2>0. q[i] \in FileItem
    BY ElementOfSeq
  <2>1. q[i].touched \in Age
    BY <2>0 DEF FileItem
  <2>2. Older(q[i].touched) \in Age
    BY <2>1, DispatcherAssumption DEF Older, Age
  <2> QED
    BY <2>0, <2>2 DEF FileItem
<1>3. Aged(q) = [i \in 1 .. Len(q) |-> [q[i] EXCEPT !.touched = Older(@)]]
  BY <1>1 DEF Aged
<1>4. Aged(q) \in [1 .. Len(q) -> FileItem]
  BY <1>2, <1>3
<1>5. Aged(q) \in Seq(FileItem) /\ Len(Aged(q)) = Len(q)
  BY <1>1, <1>4
<1>6. \A i \in 1 .. Len(q) : Aged(q)[i] = [q[i] EXCEPT !.touched = Older(@)]
  BY <1>3
<1> QED
  BY <1>2, <1>5, <1>6

----------------------------------------------------------------------------
(* Type correctness.                                                       *)

(***************************************************************************)
(* A request that is about to send holds a file and the age of its stamp.  *)
(***************************************************************************)
LEMMA SendingCall ==
    ASSUME TypeOK, NEW p \in Client, Sending(p)
    PROVE  /\ call[p] \in [op : {"attr", "open", "release"}, file : File, touched : Age]
           /\ [file |-> call[p].file, fn |-> FnOf(call[p].op), touched |-> call[p].touched]
                 \in FileItem
<1>1. call[p] \in Call \cup {NoCall}
  BY DEF TypeOK
<1>2. call[p] \in [op : {"attr", "open", "release"}, file : File, touched : Age]
  BY <1>1 DEF Sending, Call, NoCall
<1> QED
  BY <1>2 DEF FileItem, FnOf, Fn

LEMMA ItemOfList ==
    ASSUME NEW q \in Seq(FileItem), NEW i \in DOMAIN q
    PROVE  /\ q[i] \in FileItem /\ q[i].file \in File /\ q[i].fn \in Fn
           /\ i \in 1 .. Len(q)
<1>1. q[i] \in FileItem /\ i \in 1 .. Len(q)
  BY LenProperties, ElementOfSeq
<1> QED
  BY <1>1 DEF FileItem

LEMMA TypeInit == Init => TypeOK
<1> SUFFICES ASSUME Init PROVE TypeOK
  OBVIOUS
<1>1. fChannel \in Seq(FileItem) /\ Len(fChannel) = 0 /\ fileItems \in Seq(FileItem)
  BY DEF Init
<1> QED
  BY <1>1, DispatcherAssumption DEF Init, TypeOK

LEMMA TypeNext == TypeOK /\ [Next]_vars => TypeOK'
<1> SUFFICES ASSUME TypeOK, [Next]_vars PROVE TypeOK'
  OBVIOUS
<1> USE DispatcherAssumption
<1>1. ASSUME NEW f \in File, Create(f) PROVE TypeOK'
  BY <1>1 DEF TypeOK, Create, Counted, listVars
<1>2. ASSUME NEW p \in Client, NEW f \in File, Attr(p, f) PROVE TypeOK'
  <2>1. [op |-> "attr", file |-> f, touched |-> 0] \in Call
    BY DEF Call, Age
  <2>2. call' \in [Client -> Call \cup {NoCall}] /\ requests' \in 0 .. MaxRequests
    BY <1>2, <2>1 DEF TypeOK, Attr, Push, Counted
  <2> QED
    BY <1>2, <2>2 DEF TypeOK, Attr, listVars
<1>3. ASSUME NEW p \in Client, NEW f \in File, Open(p, f) PROVE TypeOK'
  <2>1. [op |-> "open", file |-> f, touched |-> 0] \in Call
    BY DEF Call, Age
  <2>2. call' \in [Client -> Call \cup {NoCall}] /\ requests' \in 0 .. MaxRequests
    BY <1>3, <2>1 DEF TypeOK, Open, Push, Counted
  <2> QED
    BY <1>3, <2>2 DEF TypeOK, Open, listVars
<1>4. ASSUME NEW p \in Client, NEW f \in File, Release(p, f) PROVE TypeOK'
  <2>1. [op |-> "release", file |-> f, touched |-> 0] \in Call
    BY DEF Call, Age
  <2>2. call' \in [Client -> Call \cup {NoCall}]
    BY <1>4, <2>1 DEF TypeOK, Release, Push
  <2>3. opens' \in [File -> Nat] /\ owed' \in [File -> Int]
    BY <1>4 DEF TypeOK, Release
  <2> QED
    BY <1>4, <2>2, <2>3 DEF TypeOK, Release, listVars
<1>5. ASSUME NEW p \in Client, Send(p) PROVE TypeOK'
  <2> DEFINE m == [file |-> call[p].file, fn |-> FnOf(call[p].op), touched |-> call[p].touched]
  <2>1. m \in FileItem /\ call[p].file \in File
    BY <1>5, SendingCall DEF Send
  <2>2. fChannel' = Append(fChannel, m) /\ Len(fChannel) < Capacity
    BY <1>5 DEF Send
  <2>3. fChannel' \in Seq(FileItem) /\ Len(fChannel') <= Capacity
    <3> HIDE DEF m
    <3> QED
      BY <2>1, <2>2 DEF TypeOK
  <2>4. [op |-> "opening", file |-> call[p].file] \in Call
    BY <2>1 DEF Call
  <2>5. call' \in [Client -> Call \cup {NoCall}]
    BY <1>5, <2>4 DEF TypeOK, Send
  <2> QED
    BY <1>5, <2>3, <2>5 DEF TypeOK, Send, listVars
<1>6. ASSUME NEW p \in Client, OpenFile(p) PROVE TypeOK'
  <2>1. opens' \in [File -> Nat]
    BY <1>6 DEF TypeOK, OpenFile
  <2>2. call' \in [Client -> Call \cup {NoCall}]
    BY <1>6 DEF TypeOK, OpenFile
  <2> QED
    BY <1>6, <2>1, <2>2 DEF TypeOK, OpenFile, listVars
<1>7. ASSUME Receive PROVE TypeOK'
  <2>1. /\ Head(fChannel) \in FileItem
        /\ Tail(fChannel) \in Seq(FileItem)
        /\ Len(Tail(fChannel)) = Len(fChannel) - 1
    BY <1>7, HeadTailProperties DEF TypeOK, Receive
  <2>2. fileItems' \in Seq(FileItem) /\ Len(fileItems') \in {Len(fileItems), Len(fileItems) + 1}
    BY <1>7, <2>1, AddFileProperties DEF TypeOK, Receive
  <2>3. fChannel' \in Seq(FileItem) /\ Len(fChannel') <= Capacity
    BY <1>7, <2>1, LenProperties DEF TypeOK, Receive
  <2>4. index' \in 0 .. Len(fileItems')
    BY <1>7, <2>2, LenProperties DEF TypeOK, Receive
  <2>5. idle' \in 0 .. Timeout
    BY <1>7 DEF Receive
  <2> QED
    BY <1>7, <2>2, <2>3, <2>4, <2>5 DEF TypeOK, Receive, clientVars
<1>8. ASSUME Timer PROVE TypeOK'
  <2>1. due' \subseteq File
    BY <1>8, ItemOfList DEF TypeOK, Timer
  <2>2. index' \in 0 .. Len(fileItems')
    BY <1>8, LenProperties DEF TypeOK, Timer
  <2> QED
    BY <1>8, <2>1, <2>2 DEF TypeOK, Timer, clientVars
<1>9. ASSUME Look PROVE TypeOK'
  <2>1. index' \in 0 .. Len(fileItems') /\ (state' = "run" => index' > 0)
    BY <1>9, LenProperties DEF TypeOK, Look
  <2> QED
    BY <1>9, <2>1 DEF TypeOK, Look, clientVars
<1>10. ASSUME Run PROVE TypeOK'
  <2>1. index \in 1 .. Len(fileItems)
    BY <1>10, LenProperties DEF TypeOK, Run
  <2>2. /\ fileItems' \in Seq(FileItem)
        /\ Len(fileItems') = Len(fileItems) - 1
    BY <1>10, <2>1, RemoveAtProperties DEF TypeOK, Run
  <2>3. index' \in 0 .. Len(fileItems')
    BY <1>10, <2>1, <2>2, LenProperties DEF TypeOK, Run
  <2>4. exists' \subseteq File
    BY <1>10 DEF TypeOK, Run
  <2>5. fileItems[index].file \in File
    BY <2>1, ItemOfList, LenProperties DEF TypeOK
  <2>6. owed' \in [File -> Int]
    BY <1>10, <2>5 DEF TypeOK, Run
  <2> QED
    BY <1>10, <2>2, <2>3, <2>4, <2>6 DEF TypeOK, Run
<1>11. ASSUME Cleaned PROVE TypeOK'
  BY <1>11 DEF TypeOK, Cleaned, clientVars
<1>12. ASSUME Tick PROVE TypeOK'
  <2>1. /\ fChannel' \in Seq(FileItem) /\ Len(fChannel') = Len(fChannel)
        /\ fileItems' \in Seq(FileItem) /\ Len(fileItems') = Len(fileItems)
    BY <1>12, AgedProperties DEF TypeOK, Tick
  <2>2. ASSUME NEW p \in Client
        PROVE  (IF Sending(p) THEN [call[p] EXCEPT !.touched = Older(@)] ELSE call[p])
                  \in Call \cup {NoCall}
    <3>1. CASE Sending(p)
      <4>1. call[p] \in [op : {"attr", "open", "release"}, file : File, touched : Age]
        BY <3>1, SendingCall
      <4>2. Older(call[p].touched) \in Age
        BY <4>1 DEF Older, Age
      <4> QED
        BY <3>1, <4>1, <4>2 DEF Call
    <3>2. CASE ~Sending(p)
      BY <3>2 DEF TypeOK
    <3> QED
      BY <3>1, <3>2
  <2>3. call' \in [Client -> Call \cup {NoCall}]
    BY <1>12, <2>2 DEF Tick
  <2>4. idle' \in 0 .. Timeout
    BY <1>12 DEF TypeOK, Tick
  <2> QED
    BY <1>12, <2>1, <2>3, <2>4 DEF TypeOK, Tick
<1>13. ASSUME UNCHANGED vars PROVE TypeOK'
  BY <1>13 DEF TypeOK, vars, clientVars, listVars
<1> QED
  BY <1>1, <1>2, <1>3, <1>4, <1>5, <1>6, <1>7, <1>8, <1>9, <1>10, <1>11, <1>12, <1>13
     DEF Next, Loop

(***************************************************************************)
(* The list, the channel and the requests keep their types, the channel    *)
(* never holds more than its capacity, and cleanLists never reads beyond   *)
(* the list that shrinks under it.                                         *)
(***************************************************************************)
THEOREM TypeCorrect == Spec => []TypeOK
  BY TypeInit, TypeNext, PTL DEF Spec

----------------------------------------------------------------------------
(* The list.                                                               *)

LEMMA OneItemNext == TypeOK /\ OneItemPerFile /\ [Next]_vars => OneItemPerFile'
<1> SUFFICES ASSUME TypeOK, OneItemPerFile, [Next]_vars PROVE OneItemPerFile'
  OBVIOUS
<1>1. fileItems \in Seq(FileItem) /\ DOMAIN fileItems = 1 .. Len(fileItems) /\ Len(fileItems) \in Nat
  BY DEF TypeOK
<1>2. CASE fileItems' = fileItems
  BY <1>2 DEF OneItemPerFile
<1>3. ASSUME Receive PROVE OneItemPerFile'
  <2>1. Head(fChannel) \in FileItem
    BY <1>3, HeadTailProperties DEF TypeOK, Receive
  <2>2. fileItems' = AddFile(fileItems, Head(fChannel))
    BY <1>3 DEF Receive
  <2> DEFINE m == Head(fChannel)
             new == AddFile(fileItems, m)
  <2>3. /\ new \in Seq(FileItem)
        /\ Len(new) \in {Len(fileItems), Len(fileItems) + 1}
        /\ \A i \in 1 .. Len(fileItems) : new[i].file = fileItems[i].file
        /\ Len(new) = Len(fileItems) + 1 =>
              /\ new[Len(fileItems) + 1] = m
              /\ \A i \in 1 .. Len(fileItems) : fileItems[i].file # m.file
    <3>1. m \in FileItem
      BY <2>1
    <3> HIDE DEF m
    <3>2. fileItems \in Seq(FileItem)
      BY <1>1
    <3>3. /\ new \in Seq(FileItem)
          /\ Len(new) \in {Len(fileItems), Len(fileItems) + 1}
          /\ \A i \in 1 .. Len(fileItems) :
                /\ new[i].file = fileItems[i].file
                /\ new[i].fn = IF fileItems[i].file = m.file /\ m.fn # "nil" THEN m.fn
                               ELSE fileItems[i].fn
          /\ Len(new) = Len(fileItems) + 1 =>
                /\ new[Len(fileItems) + 1] = m
                /\ \A i \in 1 .. Len(fileItems) : fileItems[i].file # m.file
      BY <3>1, <3>2, AddFileProperties
    <3> HIDE DEF new
    <3> QED
      BY <3>3
  <2> HIDE DEF m, new
  <2>4. DOMAIN new = 1 .. Len(new)
    BY <2>3, LenProperties
  <2>5. ASSUME NEW i \in DOMAIN new, NEW j \in DOMAIN new, new[i].file = new[j].file
        PROVE  i = j
    <3>1. CASE i \in 1 .. Len(fileItems) /\ j \in 1 .. Len(fileItems)
      <4>1. new[i].file = fileItems[i].file /\ new[j].file = fileItems[j].file
        BY <2>3, <3>1
      <4>2. i \in DOMAIN fileItems /\ j \in DOMAIN fileItems
        BY <1>1, <3>1
      <4>3. fileItems[i].file = fileItems[j].file
        BY <2>5, <4>1
      <4> QED
        BY <4>2, <4>3, Zenon DEF OneItemPerFile
    <3>2. CASE ~(i \in 1 .. Len(fileItems) /\ j \in 1 .. Len(fileItems))
      <4>1. Len(new) = Len(fileItems) + 1 /\ (i = Len(fileItems) + 1 \/ j = Len(fileItems) + 1)
        <5>1. i \in 1 .. Len(new) /\ j \in 1 .. Len(new)
          BY <2>4
        <5>2. Len(new) = Len(fileItems) \/ Len(new) = Len(fileItems) + 1
          BY <2>3
        <5>3. Len(fileItems) \in Nat
          BY <1>1
        <5> QED
          BY <3>2, <5>1, <5>2, <5>3
      <4>2. i # Len(fileItems) + 1 => i \in 1 .. Len(fileItems) /\ new[i].file # m.file
        BY <1>1, <2>3, <2>4, <4>1
      <4>3. j # Len(fileItems) + 1 => j \in 1 .. Len(fileItems) /\ new[j].file # m.file
        BY <1>1, <2>3, <2>4, <4>1
      <4> QED
        BY <2>3, <2>5, <4>1, <4>2, <4>3
    <3> QED
      BY <3>1, <3>2
  <2>6. fileItems' = new
    BY <2>2 DEF m, new
  <2> QED
    BY <2>5, <2>6 DEF OneItemPerFile
<1>4. ASSUME Run PROVE OneItemPerFile'
  <2>1. index \in 1 .. Len(fileItems) /\ fileItems' = RemoveAt(fileItems, index)
    BY <1>1, <1>4 DEF TypeOK, Run
  <2>2. /\ fileItems' \in Seq(FileItem)
        /\ Len(fileItems') = Len(fileItems) - 1
        /\ \A j \in 1 .. Len(fileItems) - 1 :
              fileItems'[j] = IF j < index THEN fileItems[j] ELSE fileItems[j + 1]
    BY <1>1, <2>1, RemoveAtProperties
  <2>3. DOMAIN fileItems' = 1 .. Len(fileItems) - 1
    BY <2>2, LenProperties
  <2> QED
    BY <1>1, <2>1, <2>2, <2>3 DEF OneItemPerFile
<1>5. ASSUME Tick PROVE OneItemPerFile'
  <2>1. /\ fileItems' \in Seq(FileItem) /\ Len(fileItems') = Len(fileItems)
        /\ \A i \in 1 .. Len(fileItems) : fileItems'[i].file = fileItems[i].file
    BY <1>1, <1>5, AgedProperties DEF Tick
  <2>2. DOMAIN fileItems' = DOMAIN fileItems
    BY <1>1, <2>1, LenProperties
  <2> QED
    BY <1>1, <2>1, <2>2 DEF OneItemPerFile
<1> QED
  BY <1>2, <1>3, <1>4, <1>5
     DEF Next, Loop, vars, listVars, Create, Attr, Open, Release, Send, OpenFile, Timer, Look, Cleaned

(***************************************************************************)
(* addFile keeps one item for each file, whatever is sent.                 *)
(***************************************************************************)
THEOREM OneItem == Spec => []OneItemPerFile
<1>1. Init => OneItemPerFile
  BY DEF Init, OneItemPerFile
<1> QED
  BY <1>1, OneItemNext, TypeCorrect, PTL DEF Spec

(***************************************************************************)
(* While cleanLists goes down the list, the items it has passed are not    *)
(* due: what it takes out moves only those it has passed already.          *)
(***************************************************************************)
PassedAreNotDue ==
    state # "select" => \A i \in DOMAIN fileItems : i > index => fileItems[i].file \notin due

LEMMA PassedNext == TypeOK /\ PassedAreNotDue /\ [Next]_vars => PassedAreNotDue'
<1> SUFFICES ASSUME TypeOK, PassedAreNotDue, [Next]_vars PROVE PassedAreNotDue'
  OBVIOUS
<1>1. fileItems \in Seq(FileItem) /\ DOMAIN fileItems = 1 .. Len(fileItems) /\ Len(fileItems) \in Nat
  BY DEF TypeOK
<1>2. CASE UNCHANGED listVars
  BY <1>2 DEF PassedAreNotDue, listVars
<1>3. ASSUME Receive PROVE PassedAreNotDue'
  BY <1>3 DEF Receive, PassedAreNotDue
<1>4. ASSUME Timer PROVE PassedAreNotDue'
  BY <1>1, <1>4 DEF Timer, PassedAreNotDue
<1>5. ASSUME Look PROVE PassedAreNotDue'
  BY <1>1, <1>5 DEF TypeOK, Look, PassedAreNotDue
<1>6. ASSUME Run PROVE PassedAreNotDue'
  <2>1. index \in 1 .. Len(fileItems) /\ fileItems' = RemoveAt(fileItems, index)
    BY <1>1, <1>6 DEF TypeOK, Run
  <2>2. /\ fileItems' \in Seq(FileItem)
        /\ Len(fileItems') = Len(fileItems) - 1
        /\ \A j \in 1 .. Len(fileItems) - 1 :
              fileItems'[j] = IF j < index THEN fileItems[j] ELSE fileItems[j + 1]
    BY <1>1, <2>1, RemoveAtProperties
  <2>3. DOMAIN fileItems' = 1 .. Len(fileItems) - 1
    BY <2>2, LenProperties
  <2> QED
    BY <1>1, <1>6, <2>1, <2>2, <2>3 DEF Run, PassedAreNotDue
<1>7. ASSUME Cleaned PROVE PassedAreNotDue'
  BY <1>7 DEF Cleaned, PassedAreNotDue
<1>8. ASSUME Tick PROVE PassedAreNotDue'
  <2>1. /\ fileItems' \in Seq(FileItem) /\ Len(fileItems') = Len(fileItems)
        /\ \A i \in 1 .. Len(fileItems) : fileItems'[i].file = fileItems[i].file
    BY <1>1, <1>8, AgedProperties DEF Tick
  <2>2. DOMAIN fileItems' = DOMAIN fileItems
    BY <1>1, <2>1, LenProperties
  <2> QED
    BY <1>1, <1>8, <2>1, <2>2 DEF Tick, PassedAreNotDue
<1> QED
  BY <1>2, <1>3, <1>4, <1>5, <1>6, <1>7, <1>8
     DEF Next, Loop, vars, Create, Attr, Open, Release, Send, OpenFile

(***************************************************************************)
(* One pass of cleanLists leaves none of the items that had timed out when *)
(* it began, although it takes items out of the list it goes through.      *)
(***************************************************************************)
THEOREM NobodySkipped == Spec => NobodyIsSkipped
<1>1. Init => PassedAreNotDue
  BY DEF Init, PassedAreNotDue
<1>2. TypeOK /\ PassedAreNotDue /\ [Next]_vars =>
        [state = "clean" /\ state' = "select" =>
           \A i \in DOMAIN fileItems : fileItems[i].file \notin due]_vars
  <2> SUFFICES ASSUME TypeOK, PassedAreNotDue, [Next]_vars, state = "clean", state' = "select"
               PROVE  \A i \in DOMAIN fileItems : fileItems[i].file \notin due
    OBVIOUS
  <2>1. Cleaned
    BY DEF Next, Loop, vars, clientVars, listVars, Create, Attr, Open, Release, Send, OpenFile,
           Receive, Timer, Look, Run, Tick
  <2>2. \A i \in DOMAIN fileItems : i > 0
    BY LenProperties DEF TypeOK
  <2> QED
    BY <2>1, <2>2 DEF Cleaned, PassedAreNotDue
<1> QED
  BY <1>1, <1>2, PassedNext, TypeCorrect, PTL DEF Spec, NobodyIsSkipped

----------------------------------------------------------------------------
(* The handlers that wait.                                                 *)

LEMMA ScheduledItem ==
    ASSUME NEW f \in File
    PROVE  /\ Scheduled(f) <=> \E i \in DOMAIN fileItems :
                 fileItems[i].file = f /\ fileItems[i].fn = "DelayedHandle"
           /\ Scheduled(f)' <=> \E i \in DOMAIN fileItems' :
                 fileItems'[i].file = f /\ fileItems'[i].fn = "DelayedHandle"
  BY DEF Scheduled, Handlers

LEMMA HandlerStaysInList ==
    ASSUME TypeOK, [Next]_vars, NEW f \in File, Scheduled(f), ~Reopened(f),
           ~(state = "run" /\ fileItems[index].file = f)
    PROVE  Scheduled(f)'
<1>1. fileItems \in Seq(FileItem) /\ DOMAIN fileItems = 1 .. Len(fileItems) /\ Len(fileItems) \in Nat
  BY DEF TypeOK
<1>2. PICK i \in 1 .. Len(fileItems) : fileItems[i].file = f /\ fileItems[i].fn = "DelayedHandle"
  BY <1>1, ScheduledItem
<1>3. CASE fileItems' = fileItems
  BY <1>1, <1>2, <1>3, ScheduledItem
<1>4. CASE Receive
  <2> DEFINE m   == Head(fChannel)
             new == AddFile(fileItems, m)
  <2>1. m \in FileItem /\ m.fn \in Fn
    <3>1. m \in FileItem
      BY <1>4, HeadTailProperties DEF TypeOK, Receive
    <3> HIDE DEF m
    <3> QED
      BY <3>1 DEF FileItem
  <2>2. m.file = f => m.fn # "DelayedVoid"
    BY <1>4 DEF Receive, Reopened
  <2>3. fileItems' = new
    BY <1>4 DEF Receive
  <2> HIDE DEF m
  <2>4. /\ new \in Seq(FileItem)
        /\ Len(new) = Len(fileItems) \/ Len(new) = Len(fileItems) + 1
        /\ new[i].file = fileItems[i].file
        /\ new[i].fn = IF fileItems[i].file = m.file /\ m.fn # "nil" THEN m.fn ELSE fileItems[i].fn
    <3>1. /\ new \in Seq(FileItem)
          /\ Len(new) \in {Len(fileItems), Len(fileItems) + 1}
          /\ \A j \in 1 .. Len(fileItems) :
                /\ new[j].file = fileItems[j].file
                /\ new[j].fn = IF fileItems[j].file = m.file /\ m.fn # "nil" THEN m.fn
                               ELSE fileItems[j].fn
      BY <1>1, <2>1, AddFileProperties
    <3> HIDE DEF new
    <3> QED
      BY <1>2, <3>1
  <2>5. new[i].file = f /\ new[i].fn = "DelayedHandle"
    BY <1>2, <2>1, <2>2, <2>4 DEF Fn
  <2> HIDE DEF new
  <2>6. i \in DOMAIN new
    BY <1>1, <2>4, LenProperties
  <2> QED
    BY <2>3, <2>5, <2>6, ScheduledItem
<1>5. CASE Run
  <2>1. index \in 1 .. Len(fileItems) /\ fileItems' = RemoveAt(fileItems, index)
    BY <1>1, <1>5 DEF TypeOK, Run
  <2>2. /\ fileItems' \in Seq(FileItem)
        /\ Len(fileItems') = Len(fileItems) - 1
        /\ \A j \in 1 .. Len(fileItems) - 1 :
              fileItems'[j] = IF j < index THEN fileItems[j] ELSE fileItems[j + 1]
    BY <1>1, <2>1, RemoveAtProperties
  <2>3. DOMAIN fileItems' = 1 .. Len(fileItems) - 1
    BY <2>2, LenProperties
  <2>4. i # index
    BY <1>2, <1>5 DEF Run
  <2>5. CASE i < index
    <3>1. i \in 1 .. Len(fileItems) - 1 /\ fileItems'[i] = fileItems[i]
      BY <1>1, <1>2, <2>1, <2>2, <2>5
    <3> QED
      BY <1>2, <2>3, <3>1, ScheduledItem
  <2>6. CASE i > index
    <3>1. i - 1 \in 1 .. Len(fileItems) - 1 /\ fileItems'[i - 1] = fileItems[i]
      BY <1>1, <1>2, <2>1, <2>2, <2>6
    <3> QED
      BY <1>2, <2>3, <3>1, ScheduledItem
  <2> QED
    BY <1>2, <2>1, <2>4, <2>5, <2>6
<1>6. CASE Tick
  <2>0. fileItems' = Aged(fileItems)
    BY <1>6 DEF Tick
  <2>1. /\ fileItems' \in Seq(FileItem) /\ Len(fileItems') = Len(fileItems)
        /\ fileItems'[i].file = fileItems[i].file /\ fileItems'[i].fn = fileItems[i].fn
    BY <1>1, <2>0, AgedProperties
  <2>2. i \in DOMAIN fileItems'
    BY <2>1, LenProperties
  <2> QED
    BY <1>2, <2>1, <2>2, ScheduledItem
<1> QED
  BY <1>3, <1>4, <1>5, <1>6
     DEF Next, Loop, vars, listVars, Create, Attr, Open, Release, Send, OpenFile, Timer, Look, Cleaned

(***************************************************************************)
(* A handler that waits is run or gives way to a new opening of its file,  *)
(* and is not lost to any other message or to the removal of other items.  *)
(***************************************************************************)
THEOREM HandlerKept == Spec => HandlerIsKept
<1>1. TypeOK /\ [Next]_vars =>
        [\A f \in File :
           Scheduled(f) => \/ Scheduled(f)'
                           \/ Reopened(f)
                           \/ state = "run" /\ fileItems[index].file = f]_vars
  BY HandlerStaysInList
<1> QED
  BY <1>1, TypeCorrect, PTL DEF Spec, HandlerIsKept

----------------------------------------------------------------------------
One(condition) == IF condition THEN 1 ELSE 0

Calls(m, f) == m.file = f /\ m.fn = "DelayedHandle"

----------------------------------------------------------------------------
(* Counting the calls in the list and in the channel.                      *)

LEMMA HandlersFinite ==
    ASSUME NEW q \in Seq(FileItem), NEW f
    PROVE  /\ IsFiniteSet(Handlers(q, f)) /\ Cardinality(Handlers(q, f)) \in Nat
           /\ Handlers(q, f) \subseteq 1 .. Len(q)
<1>1. Handlers(q, f) \subseteq 1 .. Len(q)
  BY LenProperties DEF Handlers
<1>2. IsFiniteSet(1 .. Len(q))
  BY FS_Interval, LenProperties
<1> QED
  BY <1>1, <1>2, FS_Subset, FS_CardinalityType

\* A list with an item for each file holds at most one call for a file.
LEMMA ScheduledOnce ==
    ASSUME NEW q \in Seq(FileItem), NEW f,
           \A i, j \in DOMAIN q : q[i].file = q[j].file => i = j
    PROVE  Cardinality(Handlers(q, f)) = One(Handlers(q, f) # {})
<1>1. CASE Handlers(q, f) = {}
  BY <1>1, FS_EmptySet DEF One
<1>2. CASE Handlers(q, f) # {}
  <2>1. PICK i : i \in Handlers(q, f)
    BY <1>2
  <2>2. Handlers(q, f) = {i}
    BY <2>1 DEF Handlers
  <2>3. Cardinality(Handlers(q, f)) = 1
    BY <2>2, FS_Singleton
  <2> QED
    BY <1>2, <2>3 DEF One
<1> QED
  BY <1>1, <1>2

LEMMA AppendCounts ==
    ASSUME NEW q \in Seq(FileItem), NEW m \in FileItem, NEW f
    PROVE  Cardinality(Handlers(Append(q, m), f)) <=
              Cardinality(Handlers(q, f)) + One(Calls(m, f))
<1> DEFINE n == Len(q) + 1
<1>1. /\ DOMAIN q = 1 .. Len(q) /\ DOMAIN Append(q, m) = 1 .. n /\ Len(q) \in Nat
      /\ Append(q, m)[n] = m /\ \A i \in 1 .. Len(q) : Append(q, m)[i] = q[i]
  BY AppendProperties, LenProperties
<1>2. IsFiniteSet(Handlers(q, f)) /\ Cardinality(Handlers(q, f)) \in Nat
  BY HandlersFinite
<1>3. CASE Calls(m, f)
  <2>1. Handlers(Append(q, m), f) = Handlers(q, f) \cup {n}
    BY <1>1, <1>3 DEF Handlers, Calls
  <2> HIDE DEF n
  <2>2. Cardinality(Handlers(q, f) \cup {n}) \in
           {Cardinality(Handlers(q, f)), Cardinality(Handlers(q, f)) + 1}
    BY <1>2, FS_AddElement
  <2> QED
    BY <1>2, <1>3, <2>1, <2>2 DEF One
<1>4. CASE ~Calls(m, f)
  <2>1. Handlers(Append(q, m), f) = Handlers(q, f)
    BY <1>1, <1>4 DEF Handlers, Calls
  <2> QED
    BY <1>2, <1>4, <2>1 DEF One
<1> QED
  BY <1>3, <1>4

LEMMA TailCounts ==
    ASSUME NEW q \in Seq(FileItem), q # <<>>, NEW f
    PROVE  Cardinality(Handlers(Tail(q), f)) + One(Calls(Head(q), f)) <=
              Cardinality(Handlers(q, f))
<1> DEFINE rest == Handlers(q, f) \ {1}
           up   == [i \in Handlers(Tail(q), f) |-> i + 1]
<1>1. /\ DOMAIN q = 1 .. Len(q) /\ Len(q) \in Nat \ {0} /\ Head(q) = q[1]
      /\ DOMAIN Tail(q) = 1 .. Len(q) - 1 /\ Tail(q) \in Seq(FileItem)
      /\ \A i \in 1 .. Len(q) - 1 : Tail(q)[i] = q[i + 1]
  BY EmptySeq, LenProperties, HeadTailProperties
<1>2. IsFiniteSet(Handlers(q, f)) /\ Cardinality(Handlers(q, f)) \in Nat
  BY HandlersFinite
<1>3. /\ IsFiniteSet(rest)
      /\ Cardinality(rest) = Cardinality(Handlers(q, f)) - One(Calls(Head(q), f))
  <2>1. 1 \in Handlers(q, f) <=> Calls(Head(q), f)
    BY <1>1 DEF Handlers, Calls
  <2> QED
    BY <1>2, <2>1, FS_RemoveElement DEF One
<1>4. up \in Injection(Handlers(Tail(q), f), rest)
  <2>1. ASSUME NEW i \in Handlers(Tail(q), f) PROVE i \in Nat /\ i + 1 \in rest
    BY <1>1, <2>1 DEF Handlers
  <2>2. up \in [Handlers(Tail(q), f) -> rest]
    BY <2>1
  <2>3. \A i, j \in Handlers(Tail(q), f) : up[i] = up[j] => i = j
    BY <2>1
  <2> HIDE DEF up, rest
  <2> QED
    BY <2>2, <2>3 DEF Injection, IsInjective
<1>5. Cardinality(Handlers(Tail(q), f)) <= Cardinality(rest)
  BY <1>3, <1>4, FS_Injection
<1>6. Cardinality(Handlers(Tail(q), f)) \in Nat
  BY <1>1, HandlersFinite
<1> QED
  BY <1>2, <1>3, <1>5, <1>6 DEF One

LEMMA AgedCounts ==
    ASSUME NEW q \in Seq(FileItem), NEW f
    PROVE  Handlers(Aged(q), f) = Handlers(q, f)
<1>1. /\ Aged(q) \in Seq(FileItem) /\ Len(Aged(q)) = Len(q)
      /\ \A i \in 1 .. Len(q) : Aged(q)[i].file = q[i].file /\ Aged(q)[i].fn = q[i].fn
  BY AgedProperties
<1>2. DOMAIN Aged(q) = 1 .. Len(q) /\ DOMAIN q = 1 .. Len(q)
  BY <1>1, LenProperties
<1> QED
  BY <1>1, <1>2 DEF Handlers

\* addFile: the list holds a call for the file only if it did, or the message is one.
LEMMA AddFileCalls ==
    ASSUME NEW items \in Seq(FileItem), NEW m \in FileItem, NEW f,
           Handlers(AddFile(items, m), f) # {}
    PROVE  Handlers(items, f) # {} \/ Calls(m, f)
<1> DEFINE new == AddFile(items, m)
<1>1. /\ new \in Seq(FileItem)
      /\ Len(new) \in {Len(items), Len(items) + 1}
      /\ \A i \in 1 .. Len(items) :
            /\ new[i].file = items[i].file
            /\ new[i].fn = IF items[i].file = m.file /\ m.fn # "nil" THEN m.fn ELSE items[i].fn
      /\ Len(new) = Len(items) + 1 => new[Len(items) + 1] = m
  BY AddFileProperties
<1>2. PICK i \in DOMAIN new : new[i].file = f /\ new[i].fn = "DelayedHandle"
  BY DEF Handlers
<1> HIDE DEF new
<1>3. i \in 1 .. Len(new) /\ DOMAIN items = 1 .. Len(items) /\ Len(items) \in Nat
  BY <1>1, <1>2, LenProperties
<1>4. CASE i \in 1 .. Len(items)
  BY <1>1, <1>2, <1>3, <1>4 DEF Handlers, Calls
<1>5. CASE i \notin 1 .. Len(items)
  <2>1. Len(new) = Len(items) + 1 /\ i = Len(items) + 1
    BY <1>1, <1>3, <1>5
  <2> QED
    BY <1>1, <1>2, <2>1 DEF Calls
<1> QED
  BY <1>4, <1>5

\* What is left of the list when an item is taken out was in it before.
LEMMA RemoveAtCalls ==
    ASSUME NEW q \in Seq(FileItem), NEW k \in 1 .. Len(q), NEW f,
           Handlers(RemoveAt(q, k), f) # {}
    PROVE  \E i \in Handlers(q, f) : i # k
<1>1. /\ RemoveAt(q, k) \in Seq(FileItem)
      /\ Len(RemoveAt(q, k)) = Len(q) - 1
      /\ \A j \in 1 .. Len(q) - 1 : RemoveAt(q, k)[j] = IF j < k THEN q[j] ELSE q[j + 1]
  BY RemoveAtProperties
<1>2. DOMAIN RemoveAt(q, k) = 1 .. Len(q) - 1 /\ DOMAIN q = 1 .. Len(q) /\ Len(q) \in Nat
  BY <1>1, LenProperties
<1>3. PICK j \in 1 .. Len(q) - 1 : /\ RemoveAt(q, k)[j].file = f
                                   /\ RemoveAt(q, k)[j].fn = "DelayedHandle"
  BY <1>2 DEF Handlers
<1>4. CASE j < k
  <2>1. j \in Handlers(q, f) /\ j # k
    BY <1>1, <1>2, <1>3, <1>4 DEF Handlers
  <2> QED
    BY <2>1
<1>5. CASE ~(j < k)
  <2>1. j + 1 \in Handlers(q, f) /\ j + 1 # k
    BY <1>1, <1>2, <1>3, <1>5 DEF Handlers
  <2> QED
    BY <2>1
<1> QED
  BY <1>4, <1>5

----------------------------------------------------------------------------
(* Steps.                                                                  *)

\* Releases that are waiting to be pushed, messages and items of the list.
Waiting(f)   == Cardinality(Releases(f))
Messages(f)  == Cardinality(Handlers(fChannel, f))
Items(f)     == Cardinality(Handlers(fileItems, f))

LEMMA Counts ==
    ASSUME TypeOK, NEW f
    PROVE  /\ Waiting(f) \in Nat /\ Messages(f) \in Nat /\ Items(f) \in Nat
           /\ IsFiniteSet(Releases(f))
           /\ ToCome(f) = Items(f) + Messages(f) + Waiting(f)
<1>1. IsFiniteSet(Releases(f))
  BY FS_Subset, DispatcherAssumption DEF Releases
<1> QED
  BY <1>1, HandlersFinite, FS_CardinalityType DEF TypeOK, Waiting, Messages, Items, ToCome

LEMMA CountsAfter ==
    ASSUME TypeOK', NEW f
    PROVE  /\ Waiting(f)' \in Nat /\ Messages(f)' \in Nat /\ Items(f)' \in Nat
           /\ ToCome(f)' = Items(f)' + Messages(f)' + Waiting(f)'
<1>1. IsFiniteSet(Releases(f)')
  BY FS_Subset, DispatcherAssumption DEF Releases
<1> QED
  BY <1>1, HandlersFinite, FS_CardinalityType DEF TypeOK, Waiting, Messages, Items, ToCome

\* The step adds no call that is not owed.
Kept(f) == ToCome(f)' - ToCome(f) <= owed[f]' - owed[f]

LEMMA KeptOwed ==
    ASSUME TypeOK, TypeOK', NEW f \in File, ToCome(f) <= owed[f], Kept(f)
    PROVE  (ToCome(f) <= owed[f])'
<1>1. ToCome(f) \in Nat
  BY Counts
<1>2. ToCome(f)' \in Nat
  BY CountsAfter
<1>3. owed[f] \in Int /\ owed[f]' \in Int
  BY DEF TypeOK
<1> QED
  BY <1>1, <1>2, <1>3 DEF Kept

\* The three ways a call can go are left alone, or their counts are.
LEMMA SameItems ==
    ASSUME NEW f, fileItems' = fileItems PROVE Items(f)' = Items(f)
  BY DEF Items

LEMMA SameMessages ==
    ASSUME NEW f, fChannel' = fChannel PROVE Messages(f)' = Messages(f)
  BY DEF Messages

LEMMA SameWaiting ==
    ASSUME NEW f, \A p \in Client : (call'[p].op = "release" /\ call'[p].file = f)
                                    <=> (call[p].op = "release" /\ call[p].file = f)
    PROVE  Waiting(f)' = Waiting(f)
<1>1. Releases(f)' = Releases(f)
  BY DEF Releases
<1> QED
  BY <1>1 DEF Waiting

\* What Kept says, of the three counts.
LEMMA KeptByCounts ==
    ASSUME TypeOK, TypeOK', NEW f \in File,
           Items(f)' + Messages(f)' + Waiting(f)' + owed[f]
              <= Items(f) + Messages(f) + Waiting(f) + owed[f]'
    PROVE  Kept(f)
<1>1. owed[f] \in Int /\ owed[f]' \in Int
  BY DEF TypeOK
<1> QED
  BY <1>1, Counts, CountsAfter DEF Kept

LEMMA ReleaseKept ==
    ASSUME TypeOK, TypeOK', NEW f \in File, NEW p \in Client, NEW g \in File, Release(p, g)
    PROVE  Kept(f)
<1>1. /\ Items(f)' = Items(f) /\ Messages(f)' = Messages(f)
      /\ Items(f) \in Nat /\ Messages(f) \in Nat /\ Waiting(f) \in Nat /\ Waiting(f)' \in Nat
  BY SameItems, SameMessages, Counts, CountsAfter DEF Release, listVars
<1>2. /\ call[p] = NoCall /\ call' = [call EXCEPT ![p] = [op |-> "release", file |-> g, touched |-> 0]]
      /\ owed' = [owed EXCEPT ![g] = owed[g] + 1]
      /\ call \in [Client -> Call \cup {NoCall}] /\ owed \in [File -> Int]
  BY DEF Release, Push, Busy, TypeOK
<1>3. IsFiniteSet(Releases(f))
  BY Counts
<1>4. CASE f = g
  <2>1. Releases(f)' = Releases(f) \cup {p} /\ p \notin Releases(f)
    BY <1>2, <1>4 DEF Releases, NoCall
  <2>2. Waiting(f)' = Waiting(f) + 1
    BY <1>3, <2>1, FS_AddElement DEF Waiting
  <2>3. owed[f]' = owed[f] + 1 /\ owed[f] \in Int
    BY <1>2, <1>4
  <2> QED
    BY <1>1, <2>2, <2>3, KeptByCounts
<1>5. CASE f # g
  <2>1. Releases(f)' = Releases(f)
    BY <1>2, <1>5 DEF Releases, NoCall
  <2>2. Waiting(f)' = Waiting(f)
    BY <2>1 DEF Waiting
  <2>3. owed[f]' = owed[f] /\ owed[f] \in Int
    BY <1>2, <1>5
  <2> QED
    BY <1>1, <2>2, <2>3, KeptByCounts
<1> QED
  BY <1>4, <1>5

\* A release that is pushed becomes a message.
LEMMA SendKept ==
    ASSUME TypeOK, TypeOK', NEW f \in File, NEW p \in Client, Send(p)
    PROVE  Kept(f)
<1> DEFINE c == call[p]
           m == [file |-> c.file, fn |-> FnOf(c.op), touched |-> c.touched]
           next == IF c.op = "open" THEN [op |-> "opening", file |-> c.file] ELSE NoCall
<1>1. /\ Items(f)' = Items(f) /\ owed[f]' = owed[f] /\ owed[f] \in Int
      /\ Items(f) \in Nat /\ Messages(f) \in Nat /\ Waiting(f) \in Nat
      /\ Waiting(f)' \in Nat /\ Messages(f)' \in Nat
  BY SameItems, Counts, CountsAfter DEF Send, listVars, TypeOK
<1>2. c \in [op : {"attr", "open", "release"}, file : File, touched : Age] /\ m \in FileItem
  BY SendingCall DEF Send
<1>3. /\ call' = [call EXCEPT ![p] = next] /\ fChannel' = Append(fChannel, m)
      /\ call \in [Client -> Call \cup {NoCall}] /\ fChannel \in Seq(FileItem)
  BY DEF Send, TypeOK
<1>4. next.op # "release"
  BY DEF NoCall
<1>5. Calls(m, f) <=> c.op = "release" /\ c.file = f
  BY <1>2 DEF Calls, FnOf
<1> HIDE DEF m, next
<1>6. Messages(f)' <= Messages(f) + One(Calls(m, f))
  BY <1>2, <1>3, AppendCounts DEF Messages
<1>7. IsFiniteSet(Releases(f))
  BY Counts
<1>8. CASE Calls(m, f)
  <2>1. Releases(f)' = Releases(f) \ {p} /\ p \in Releases(f)
    BY <1>3, <1>4, <1>5, <1>8 DEF Releases
  <2>2. Waiting(f)' = Waiting(f) - 1
    BY <1>7, <2>1, FS_RemoveElement DEF Waiting
  <2> QED
    BY <1>1, <1>6, <1>8, <2>2, KeptByCounts DEF One
<1>9. CASE ~Calls(m, f)
  <2>1. Releases(f)' = Releases(f)
    BY <1>3, <1>4, <1>5, <1>9 DEF Releases
  <2>2. Waiting(f)' = Waiting(f)
    BY <2>1 DEF Waiting
  <2> QED
    BY <1>1, <1>6, <1>9, <2>2, KeptByCounts DEF One
<1> QED
  BY <1>8, <1>9

\* A message becomes an item, or the function of the item of its file.
LEMMA ReceiveKept ==
    ASSUME TypeOK, TypeOK', OneItemPerFile, OneItemPerFile', NEW f \in File, Receive
    PROVE  Kept(f)
<1> DEFINE m == Head(fChannel)
<1>1. /\ fChannel \in Seq(FileItem) /\ fChannel # <<>> /\ fileItems \in Seq(FileItem)
      /\ fileItems' = AddFile(fileItems, m) /\ fChannel' = Tail(fChannel) /\ m \in FileItem
      /\ fileItems' \in Seq(FileItem)
  BY HeadTailProperties DEF Receive, TypeOK
<1>2. /\ owed[f]' = owed[f] /\ owed[f] \in Int
      /\ Items(f) \in Nat /\ Messages(f) \in Nat /\ Waiting(f) \in Nat
      /\ Items(f)' \in Nat /\ Messages(f)' \in Nat
  BY Counts, CountsAfter DEF Receive, TypeOK
<1>3. Waiting(f)' = Waiting(f)
  BY SameWaiting DEF Receive, clientVars
<1> HIDE DEF m
<1>4. Messages(f)' + One(Calls(m, f)) <= Messages(f)
  BY <1>1, TailCounts DEF Messages, m
<1>5. /\ Items(f) = One(Handlers(fileItems, f) # {})
      /\ Items(f)' = One(Handlers(fileItems', f) # {})
  BY <1>1, ScheduledOnce DEF Items, OneItemPerFile
<1>6. Handlers(fileItems', f) # {} => Handlers(fileItems, f) # {} \/ Calls(m, f)
  BY <1>1, AddFileCalls
<1>7. Items(f)' <= Items(f) + One(Calls(m, f))
  BY <1>5, <1>6 DEF One
<1>8. One(Calls(m, f)) \in Nat
  BY DEF One
<1> QED
  BY <1>2, <1>3, <1>4, <1>7, <1>8, KeptByCounts

\* The handler that runs was the only call for its file in the list.
LEMMA RunKept ==
    ASSUME TypeOK, TypeOK', OneItemPerFile, OneItemPerFile', NEW f \in File, Run
    PROVE  Kept(f)
<1> DEFINE item == fileItems[index]
<1>1. /\ fileItems \in Seq(FileItem) /\ fileItems' \in Seq(FileItem)
      /\ index \in 1 .. Len(fileItems) /\ DOMAIN fileItems = 1 .. Len(fileItems)
      /\ fileItems' = RemoveAt(fileItems, index)
      /\ owed' = IF item.fn = "DelayedHandle" THEN [owed EXCEPT ![item.file] = owed[item.file] - 1]
                 ELSE owed
      /\ owed \in [File -> Int]
  BY LenProperties DEF Run, TypeOK
<1>2. /\ Messages(f)' = Messages(f) /\ Waiting(f)' = Waiting(f)
      /\ Items(f) \in Nat /\ Messages(f) \in Nat /\ Waiting(f) \in Nat /\ Items(f)' \in Nat
  BY SameMessages, SameWaiting, Counts, CountsAfter DEF Run
<1>3. /\ Items(f) = One(Handlers(fileItems, f) # {})
      /\ Items(f)' = One(Handlers(fileItems', f) # {})
  BY <1>1, ScheduledOnce DEF Items, OneItemPerFile
<1>4. Handlers(fileItems', f) # {} => \E i \in Handlers(fileItems, f) : i # index
  BY <1>1, RemoveAtCalls
<1>5. CASE Calls(item, f)
  <2>1. index \in Handlers(fileItems, f)
    BY <1>1, <1>5 DEF Handlers, Calls
  <2>2. \A i \in Handlers(fileItems, f) : i = index
    BY <1>1, <2>1 DEF Handlers, OneItemPerFile
  <2>3. Items(f) = 1 /\ Items(f)' = 0
    BY <1>3, <1>4, <2>1, <2>2 DEF One
  <2>4. owed[f]' = owed[f] - 1 /\ owed[f] \in Int
    BY <1>1, <1>5 DEF Calls
  <2> QED
    BY <1>2, <2>3, <2>4, KeptByCounts
<1>6. CASE ~Calls(item, f)
  <2>1. owed[f]' = owed[f] /\ owed[f] \in Int
    BY <1>1, <1>6 DEF Calls
  <2>2. Items(f)' <= Items(f)
    BY <1>3, <1>4 DEF One
  <2> QED
    BY <1>2, <2>1, <2>2, KeptByCounts
<1> QED
  BY <1>5, <1>6

LEMMA TickKept ==
    ASSUME TypeOK, TypeOK', NEW f \in File, Tick
    PROVE  Kept(f)
<1>1. Items(f)' = Items(f) /\ Messages(f)' = Messages(f)
  BY AgedCounts DEF Tick, TypeOK, Items, Messages
<1>2. ASSUME NEW p \in Client
      PROVE  /\ call'[p].op = "release" <=> call[p].op = "release"
             /\ call[p].op = "release" => call'[p].file = call[p].file
  <2>1. CASE Sending(p)
    <3>1. call'[p] = [call[p] EXCEPT !.touched = Older(@)]
      BY <2>1 DEF Tick
    <3>2. call[p] \in [op : {"attr", "open", "release"}, file : File, touched : Age]
      BY <2>1, SendingCall
    <3> QED
      BY <3>1, <3>2
  <2>2. CASE ~Sending(p)
    BY <2>2 DEF Tick
  <2> QED
    BY <2>1, <2>2
<1>3. Waiting(f)' = Waiting(f)
  BY <1>2, SameWaiting
<1>4. owed[f]' = owed[f] /\ owed[f] \in Int
  BY DEF Tick, TypeOK
<1> QED
  BY <1>1, <1>3, <1>4, Counts, KeptByCounts

\* The requests that are no release, and the steps that count nothing.
LEMMA RestKept ==
    ASSUME TypeOK, TypeOK', NEW f \in File,
           \/ \E g \in File : Create(g)
           \/ \E p \in Client, g \in File : Attr(p, g) \/ Open(p, g)
           \/ \E p \in Client : OpenFile(p)
           \/ Timer \/ Look \/ Cleaned \/ UNCHANGED vars
    PROVE  Kept(f)
<1>1. UNCHANGED <<fileItems, fChannel, owed>>
  BY DEF Create, Attr, Open, OpenFile, Timer, Look, Cleaned, vars, listVars
<1>2. Items(f)' = Items(f) /\ Messages(f)' = Messages(f) /\ owed[f]' = owed[f] /\ owed[f] \in Int
  BY <1>1, SameItems, SameMessages DEF TypeOK
<1>3. \/ call' = call
      \/ \E p \in Client :
            /\ call[p].op # "release"
            /\ \E c : c.op # "release" /\ call' = [call EXCEPT ![p] = c]
  <2>1. ASSUME NEW p \in Client, NEW g \in File, Attr(p, g) \/ Open(p, g)
        PROVE  /\ call[p].op # "release"
               /\ \E c : c.op # "release" /\ call' = [call EXCEPT ![p] = c]
    <3>1. call[p].op # "release"
      BY <2>1 DEF Attr, Open, Push, Busy, NoCall
    <3>2. \E op \in {"attr", "open"} :
             call' = [call EXCEPT ![p] = [op |-> op, file |-> g, touched |-> 0]]
      BY <2>1 DEF Attr, Open, Push
    <3> QED
      BY <3>1, <3>2
  <2>2. ASSUME NEW p \in Client, OpenFile(p)
        PROVE  /\ call[p].op # "release"
               /\ NoCall.op # "release" /\ call' = [call EXCEPT ![p] = NoCall]
    BY <2>2 DEF OpenFile, NoCall
  <2> QED
    BY <2>1, <2>2 DEF Create, Timer, Look, Cleaned, vars, clientVars
<1>4. Waiting(f)' = Waiting(f)
  BY <1>3, SameWaiting DEF TypeOK
<1> QED
  BY <1>2, <1>4, Counts, KeptByCounts

LEMMA OnceNext ==
    ASSUME TypeOK, TypeOK', OneItemPerFile, OneItemPerFile', HandledOncePerRelease, [Next]_vars
    PROVE  HandledOncePerRelease'
<1>1. ASSUME NEW f \in File PROVE Kept(f)
  BY <1>1, ReleaseKept, SendKept, ReceiveKept, RunKept, TickKept, RestKept DEF Next, Loop
<1>2. ASSUME NEW f \in File PROVE (ToCome(f) <= owed[f])'
  BY <1>1, KeptOwed DEF HandledOncePerRelease
<1> QED
  BY <1>2 DEF HandledOncePerRelease

LEMMA OnceInit == Init => HandledOncePerRelease
<1> SUFFICES ASSUME Init, NEW f \in File PROVE ToCome(f) <= owed[f]
  BY DEF HandledOncePerRelease
<1>1. Handlers(fileItems, f) = {} /\ Handlers(fChannel, f) = {} /\ Releases(f) = {}
  BY DEF Init, Handlers, Releases, NoCall
<1>2. ToCome(f) = 0
  BY <1>1, FS_EmptySet DEF ToCome, Items, Messages, Waiting
<1>3. owed[f] = 0
  BY DEF Init
<1> QED
  BY <1>2, <1>3

(***************************************************************************)
(* The handler runs on a file no more often than clients have closed it,   *)
(* however its messages are delayed in the channel, however often the file *)
(* is looked at or opened again and whatever else the list holds.          *)
(***************************************************************************)
THEOREM HandledOnce == Spec => []HandledOncePerRelease
  BY OnceInit, OnceNext, TypeCorrect, OneItem, PTL DEF Spec
=============================================================================
