--------------------------- MODULE LibraryProofs ---------------------------
(***************************************************************************)
(* Theorems about the handlers of Library, for any names, requests, number *)
(* of clients and libraries to begin with.                                 *)
(*                                                                         *)
(* The argument.  A frame has the shape that its step needs: the step that *)
(* creates an album has an album to create, the step that removes a file   *)
(* knows its path, and a handler has victims only while it keeps the       *)
(* database open (ControlOK).  With it every step leads to typed data      *)
(* (DataOK), which gives TypeCorrect.  The two theorems on music files     *)
(* build on these two invariants.                                          *)
(***************************************************************************)
EXTENDS Library, StoreProofs

LEMMA NodeByLength ==
    ASSUME NEW n \in Node
    PROVE  /\ Len(n) = 1 => n \in ArtistKey
           /\ Len(n) = 2 => n \in AlbumKey
           /\ Len(n) = 3 => n \in SongKey
  BY DEF Node, ArtistKey, AlbumKey, SongKey

LEMMA KeyParts ==
    /\ \A n \in ArtistKey : n[1] \in DirName
    /\ \A n \in AlbumKey : n[1] \in DirName /\ n[2] \in DirName /\ n = <<n[1], n[2]>>
    /\ \A n \in SongKey : /\ n[1] \in DirName /\ n[2] \in DirName /\ n[3] \in TitleName
                          /\ AlbumOf(n) \in AlbumKey /\ n = <<n[1], n[2], n[3]>>
  BY DEF ArtistKey, AlbumKey, SongKey, AlbumOf

LEMMA CompatParts ==
    /\ \A n \in DirName : Compat[n] \in DirName
    /\ \A n \in TitleName : Compat[n] \in TitleName
  BY NamesAssumption

----------------------------------------------------------------------------
(* Control.                                                                *)

Key == ArtistKey \cup AlbumKey \cup SongKey

MoveSongsSteps == { "MoveSongs", "Unlist", "RenameFile", "DeleteOld", "SetMp3Tags",
                    "CreateNew", "AddPath", "AddEntry", "Regenerate" }

\* What a step relies on in the frame it finds.
Shape(step, f) ==
    /\ step \in {"CreateArtist", "MoveArtist", "NewArtist"} => f.to \in ArtistKey
    /\ step = "MkdirNew" => f.to \in ArtistKey \cup AlbumKey
    /\ step \in {"CreateAlbum", "MoveAlbum", "NewAlbum"} => f.to \in AlbumKey
    /\ step \in {"CreateSong", "CreateFile", "DropArtist", "DropAlbum", "DropFile", "DropSong"}
                \cup MoveSongsSteps => f.to \in SongKey
    /\ step \in {"DeleteArtist", "MoveArtist", "NewArtist"} => f.from \in ArtistKey
    /\ step \in {"DeleteAlbum", "MoveAlbum", "NewAlbum"} => f.from \in AlbumKey
    /\ step \in {"ReleaseSong", "ReleaseTags", "GetFilePath", "DeleteSong", "RemoveFile"}
                \cup MoveSongsSteps => f.from \in SongKey
    /\ step = "EndAlbum" => f.from \in AlbumKey \cup SongKey /\ f.to \in AlbumKey \cup SongKey
    /\ step = "EndArtist" => f.from \in Key
    /\ step \in {"ReleaseTags", "DeleteSong", "RemoveFile", "GetMp3Tags", "DropArtist",
                 "DropAlbum", "DropFile"} \cup MoveSongsSteps => f.path \in Path
    /\ step = "GetMp3Tags" => f.path \in DropFile
    /\ step \in {"Unlist", "AddPath", "AddEntry", "Regenerate"} => f.todo # <<>>
    /\ step = "DeleteAlbum" => f.req.from \in AlbumKey
    /\ step \notin KeepsOpen => f.victims = {}

ControlOK ==
    /\ pc \in [Process -> Steps]
    /\ loc \in [Process -> Frame]
    /\ \A p \in Process : Shape(pc[p], loc[p])
    /\ lock \in Process \cup {Free}
    /\ \A p \in Process : pc[p] \in KeepsOpen <=> lock = p

DiskOK(d) == d \in [Path -> Tags \cup {Untagged, NoFile}]

DataOK ==
    /\ db \in Database
    /\ DiskOK(disk)
    /\ dirs \subseteq Node
    /\ m3u \in [Playlist -> (SUBSET PlaylistFile) \cup {NoFile}]
    /\ started \in 0 .. MaxRequests

\* A step that leaves the process outside any session.
Proceeds(p) ==
    \E step \in Steps \ KeepsOpen, f \in Frame : Shape(step, f) /\ Goto(p, step, f)

LEMMA ProceedsControl ==
    ASSUME ControlOK, NEW p \in Process, Proceeds(p), pc[p] \notin KeepsOpen, UNCHANGED lock
    PROVE  ControlOK'
<1>1. PICK step \in Steps \ KeepsOpen, f \in Frame : Shape(step, f) /\ Goto(p, step, f)
  BY DEF Proceeds
<1>2. pc' \in [Process -> Steps] /\ loc' \in [Process -> Frame]
  BY <1>1 DEF ControlOK, Goto
<1>3. pc'[p] = step /\ loc'[p] = f
  BY <1>1 DEF ControlOK, Goto
<1>4. \A q \in Process : q # p => pc'[q] = pc[q] /\ loc'[q] = loc[q]
  BY <1>1 DEF ControlOK, Goto
<1>5. \A q \in Process : Shape(pc'[q], loc'[q])
  BY <1>1, <1>3, <1>4 DEF ControlOK
<1>6. \A q \in Process : pc'[q] \in KeepsOpen <=> lock' = q
  BY <1>1, <1>3, <1>4 DEF ControlOK
<1> QED
  BY <1>2, <1>5, <1>6 DEF ControlOK

\* A step with which the process takes the lock, keeps it or lets it go.
LEMMA SessionControl ==
    ASSUME ControlOK, NEW p \in Process, lock \in {p, Free},
           NEW step \in Steps, NEW f \in Frame, Shape(step, f), Goto(p, step, f),
           lock' = IF step \in KeepsOpen THEN p ELSE Free
    PROVE  ControlOK'
<1>1. pc' \in [Process -> Steps] /\ loc' \in [Process -> Frame]
  BY DEF ControlOK, Goto
<1>2. pc'[p] = step /\ loc'[p] = f
  BY DEF ControlOK, Goto
<1>3. \A q \in Process : q # p => pc'[q] = pc[q] /\ loc'[q] = loc[q]
  BY DEF ControlOK, Goto
<1>4. \A q \in Process : Shape(pc'[q], loc'[q])
  BY <1>2, <1>3 DEF ControlOK
<1>5. \A q \in Process : pc'[q] \in KeepsOpen <=> lock' = q
  BY <1>2, <1>3, LibraryAssumption DEF ControlOK
<1> QED
  BY <1>1, <1>4, <1>5 DEF ControlOK

(***************************************************************************)
(* Files that are written, tagged and moved to where a song belongs, which *)
(* is never in drop.                                                       *)
(***************************************************************************)
LEMMA NotInDrop == SongKey \subseteq Path \ DropFile
  BY LibraryAssumption, SentinelAssumption DEF Path

LEMMA WriteFile ==
    ASSUME NEW d, DiskOK(d), NEW f \in Path, NEW v \in Tags \cup {Untagged, NoFile},
           NEW e, e = [d EXCEPT ![f] = v]
    PROVE  DiskOK(e)
  BY DEF DiskOK

LEMMA RetaggedFile ==
    ASSUME DiskOK(disk), NEW f \in Path, NEW tags \in Tags
    PROVE  DiskOK(Retagged(f, tags))
<1> DEFINE v == IF disk[f] = NoFile THEN NoFile ELSE tags
           e == Retagged(f, tags)
<1>1. v \in Tags \cup {Untagged, NoFile} /\ v # Untagged
  BY LibraryAssumption
<1>2. e = [disk EXCEPT ![f] = v]
  BY DEF Retagged, DiskOK
<1> HIDE DEF v, e
<1>3. DiskOK(e)
  BY <1>1, <1>2, WriteFile
<1> QED
  BY <1>3 DEF e

LEMMA MovedFile ==
    ASSUME DiskOK(disk), NEW f \in Path, NEW k \in SongKey
    PROVE  DiskOK(Moved(f, k))
<1> DEFINE d == [disk EXCEPT ![f] = NoFile]
           v == disk[f]
           e == Moved(f, k)
<1>1. v \in Tags \cup {Untagged, NoFile}
  BY DEF DiskOK
<1>2. e = [d EXCEPT ![k] = v]
  BY DEF Moved
<1>3. NoFile \in Tags \cup {Untagged, NoFile} /\ NoFile # Untagged
  BY LibraryAssumption
<1>4. d = [disk EXCEPT ![f] = NoFile]
  OBVIOUS
<1> HIDE DEF d, v, e
<1>5. DiskOK(d)
  BY <1>3, <1>4, WriteFile
<1>6. DiskOK(e)
  BY <1>1, <1>2, <1>5, WriteFile DEF Path
<1> QED
  BY <1>6 DEF e

LEMMA MkdirAllType ==
    ASSUME dirs \subseteq Node, NEW k \in SongKey
    PROVE  MkdirAll(AlbumOf(k)) \subseteq Node
<1>1. AlbumOf(k) \in AlbumKey /\ <<AlbumOf(k)[1]>> \in ArtistKey
  BY KeyParts DEF AlbumOf, ArtistKey
<1> QED
  BY <1>1 DEF MkdirAll, Node

LEMMA BlankFrame == Blank \in Frame /\ Shape("idle", Blank)
<1>1. NoRequest \in Request
  BY DEF NoRequest, Request, Node
<1>2. Blank \in Frame
  BY <1>1, EmptySeq DEF Blank, Frame, Node
<1> QED
  BY <1>2 DEF Shape, Blank, MoveSongsSteps, KeepsOpen

LEMMA ReturnProceeds ==
    ASSUME NEW p \in Process, Return(p)
    PROVE  Proceeds(p)
  BY BlankFrame DEF Return, Proceeds, Steps, KeepsOpen

----------------------------------------------------------------------------
(* The loops of MoveArtist, MoveAlbum and MoveSongs.                       *)

LEMMA NextAlbumProceeds ==
    ASSUME NEW p \in Process, NEW f \in Frame, f.from \in Key, f.to \in Key, f.victims = {},
           NextAlbum(p, f)
    PROVE  Proceeds(p)
<1>1. CASE f.albums = <<>>
  <2>1. Goto(p, "EndArtist", f)
    BY <1>1 DEF NextAlbum
  <2>2. Shape("EndArtist", f)
    BY DEF Shape, MoveSongsSteps
  <2> QED
    BY <2>1, <2>2 DEF Proceeds, Steps, KeepsOpen
<1>2. CASE f.albums # <<>>
  <2> DEFINE b    == Head(f.albums)
             from == <<f.from[1], b>>
             to   == <<f.to[1], b>>
             rest == Tail(f.albums)
             g    == [f EXCEPT !.from = from, !.to = to, !.albums = rest]
  <2>1. f.albums \in Seq(DirName)
    BY DEF Frame
  <2>2. b \in DirName /\ rest \in Seq(DirName)
    BY <1>2, <2>1, HeadTailProperties
  <2>3. f.from[1] \in DirName /\ f.to[1] \in DirName
    BY KeyParts DEF Key
  <2>4. from \in AlbumKey /\ to \in AlbumKey
    BY <2>2, <2>3 DEF AlbumKey
  <2>5. Goto(p, "MoveAlbum", g)
    BY <1>2 DEF NextAlbum
  <2> HIDE DEF b, from, to, rest
  <2>6. g \in Frame
    BY <2>2, <2>4 DEF Frame, Node
  <2>7. g.from = from /\ g.to = to /\ g.victims = {}
    BY DEF Frame
  <2> HIDE DEF g
  <2>8. Shape("MoveAlbum", g)
    BY <2>4, <2>7 DEF Shape, MoveSongsSteps
  <2> QED
    BY <2>5, <2>6, <2>8 DEF Proceeds, Steps, KeepsOpen
<1> QED
  BY <1>1, <1>2

LEMMA AlbumReturnProceeds ==
    ASSUME NEW p \in Process, NEW f \in Frame, f.from \in Key, f.to \in Key, f.victims = {},
           AlbumReturn(p, f)
    PROVE  Proceeds(p)
  BY NextAlbumProceeds, ReturnProceeds DEF AlbumReturn

LEMMA NextSongProceeds ==
    ASSUME NEW p \in Process, NEW f \in Frame, f.from \in AlbumKey \cup SongKey,
           f.to \in AlbumKey \cup SongKey, f.victims = {}, NextSong(p, f)
    PROVE  Proceeds(p)
<1>1. CASE f.songs = {} /\ Goto(p, "EndAlbum", f)
  <2>1. Shape("EndAlbum", f)
    BY DEF Shape, MoveSongsSteps
  <2> QED
    BY <1>1, <2>1 DEF Proceeds, Steps, KeepsOpen
<1>2. ASSUME NEW s \in f.songs,
             Goto(p, "MoveSongs", [f EXCEPT !.from = s.key,
                                            !.to = <<f.to[1], f.to[2], s.key[3]>>,
                                            !.path = s.path,
                                            !.songs = @ \ {s}])
      PROVE  Proceeds(p)
  <2> DEFINE from  == s.key
             to    == <<f.to[1], f.to[2], s.key[3]>>
             path  == s.path
             songs == f.songs \ {s}
             g     == [f EXCEPT !.from = from, !.to = to, !.path = path, !.songs = songs]
  <2>1. s \in AlbumSong /\ songs \in SUBSET AlbumSong
    BY DEF Frame
  <2>2. from \in SongKey /\ path \in Path
    BY <2>1 DEF AlbumSong
  <2>3. to \in SongKey
    BY <2>2, KeyParts DEF SongKey
  <2>4. Goto(p, "MoveSongs", g)
    BY <1>2 DEF Frame
  <2> HIDE DEF from, to, path, songs
  <2>5. g \in Frame
    BY <2>1, <2>2, <2>3 DEF Frame, Node
  <2>6. g.from = from /\ g.to = to /\ g.path = path /\ g.victims = {}
    BY DEF Frame
  <2> HIDE DEF g
  <2>7. Shape("MoveSongs", g)
    BY <2>2, <2>3, <2>6 DEF Shape, MoveSongsSteps
  <2> QED
    BY <2>4, <2>5, <2>7 DEF Proceeds, Steps, KeepsOpen
<1> QED
  BY <1>1, <1>2 DEF NextSong

LEMMA SongReturnProceeds ==
    ASSUME NEW p \in Process, NEW f \in Frame, f.from \in SongKey, f.to \in SongKey,
           f.victims = {}, SongReturn(p, f)
    PROVE  Proceeds(p)
<1>1. CASE Len(f.req.from) = 3
  BY <1>1, ReturnProceeds DEF SongReturn
<1>2. CASE Len(f.req.from) # 3
  <2> DEFINE g == [f EXCEPT !.path = NoPath, !.lists = <<>>, !.todo = <<>>]
  <2>1. g \in Frame
    BY EmptySeq DEF Frame
  <2>2. g.from = f.from /\ g.to = f.to /\ g.victims = {}
    BY DEF Frame
  <2>3. NextSong(p, g)
    BY <1>2 DEF SongReturn
  <2> HIDE DEF g
  <2> QED
    BY <2>1, <2>2, <2>3, NextSongProceeds
<1> QED
  BY <1>1, <1>2

----------------------------------------------------------------------------
(* Each step keeps control and data in order.                              *)

LEMMA FrameOf ==
    ASSUME ControlOK, NEW p \in Process
    PROVE  loc[p] \in Frame /\ Shape(pc[p], loc[p])
  BY DEF ControlOK

LEMMA StartKeeps ==
    ASSUME ControlOK, DataOK, NEW p \in Process, NEW r \in Requests, Start(p, r)
    PROVE  ControlOK' /\ DataOK'
<1> DEFINE path == FirstPath(r)
           f    == [Blank EXCEPT !.req = r, !.from = r.from, !.to = r.to, !.path = path]
<1>1. r \in Request /\ WellFormed(r)
  BY LibraryAssumption
<1>2. r.from \in Node /\ r.to \in Node /\ r.file \in Path \cup {NoPath}
  BY <1>1 DEF Request
<1>3. path \in Path \cup {NoPath} /\ (r.op = "rename" /\ Len(r.from) = 3 => path \in SongKey)
      /\ (r.op = "drop" => path \in DropFile)
  BY <1>1, <1>2, NodeByLength DEF FirstPath, WellFormed, Path
<1>4. Goto(p, FirstStep(r), f)
  BY DEF Start
<1> HIDE DEF path
<1>5. f \in Frame /\ f.req = r /\ f.from = r.from /\ f.to = r.to /\ f.path = path /\ f.victims = {}
  BY <1>1, <1>2, <1>3, BlankFrame DEF Frame, Blank
<1> HIDE DEF f
<1>6. FirstStep(r) \in Steps \ KeepsOpen /\ Shape(FirstStep(r), f)
  <2>1. CASE r.op = "mkdir"
    <3>1. CASE Len(r.to) = 1
      BY <1>2, <1>5, <2>1, <3>1, NodeByLength DEF FirstStep, Shape, MoveSongsSteps, Steps, KeepsOpen
    <3>2. CASE Len(r.to) = 2
      BY <1>2, <1>5, <2>1, <3>2, NodeByLength DEF FirstStep, Shape, MoveSongsSteps, Steps, KeepsOpen
    <3> QED
      BY <1>1, <2>1, <3>1, <3>2 DEF WellFormed
  <2>2. CASE r.op = "create"
    <3>1. r.to \in SongKey
      BY <1>1, <1>2, <2>2, NodeByLength DEF WellFormed
    <3> QED
      BY <1>5, <2>2, <3>1 DEF FirstStep, Shape, MoveSongsSteps, Steps, KeepsOpen
  <2>3. CASE r.op = "release"
    <3>1. r.from \in SongKey
      BY <1>1, <1>2, <2>3, NodeByLength DEF WellFormed
    <3> QED
      BY <1>5, <2>3, <3>1 DEF FirstStep, Shape, MoveSongsSteps, Steps, KeepsOpen
  <2>4. CASE r.op = "remove"
    <3>1. CASE Len(r.from) = 1
      BY <1>2, <1>5, <2>4, <3>1, NodeByLength DEF FirstStep, Shape, MoveSongsSteps, Steps, KeepsOpen
    <3>2. CASE Len(r.from) = 2
      BY <1>2, <1>5, <2>4, <3>2, NodeByLength DEF FirstStep, Shape, MoveSongsSteps, Steps, KeepsOpen
    <3>3. CASE Len(r.from) = 3
      BY <1>2, <1>5, <2>4, <3>3, NodeByLength DEF FirstStep, Shape, MoveSongsSteps, Steps, KeepsOpen
    <3> QED
      BY <1>1, <2>4, <3>1, <3>2, <3>3 DEF WellFormed
  <2>5. CASE r.op = "rename"
    <3>0. Len(r.to) = Len(r.from)
      BY <1>1, <2>5 DEF WellFormed
    <3>1. CASE Len(r.from) = 1
      <4>1. r.from \in ArtistKey /\ r.to \in ArtistKey
        BY <1>2, <3>0, <3>1, NodeByLength
      <4> QED
        BY <1>5, <2>5, <3>1, <4>1 DEF FirstStep, Shape, MoveSongsSteps, Steps, KeepsOpen
    <3>2. CASE Len(r.from) = 2
      <4>1. r.from \in AlbumKey /\ r.to \in AlbumKey
        BY <1>2, <3>0, <3>2, NodeByLength
      <4> QED
        BY <1>5, <2>5, <3>2, <4>1 DEF FirstStep, Shape, MoveSongsSteps, Steps, KeepsOpen
    <3>3. CASE Len(r.from) = 3
      <4>1. r.from \in SongKey /\ r.to \in SongKey /\ path \in Path
        BY <1>2, <1>3, <2>5, <3>0, <3>3, NodeByLength DEF Path
      <4> QED
        BY <1>5, <2>5, <3>3, <4>1 DEF FirstStep, Shape, MoveSongsSteps, Steps, KeepsOpen
    <3> QED
      BY <1>1, <2>5, <3>1, <3>2, <3>3 DEF WellFormed
  <2>6. CASE r.op = "drop"
    <3>1. path \in DropFile /\ path \in Path
      BY <1>3, <2>6, LibraryAssumption DEF Path
    <3> QED
      BY <1>5, <2>6, <3>1 DEF FirstStep, Shape, MoveSongsSteps, Steps, KeepsOpen
  <2> QED
    BY <1>1, <2>1, <2>2, <2>3, <2>4, <2>5, <2>6 DEF WellFormed
<1>7. ControlOK'
  <2>1. Proceeds(p)
    BY <1>4, <1>5, <1>6 DEF Proceeds
  <2>2. pc[p] \notin KeepsOpen /\ UNCHANGED lock
    BY DEF Start, KeepsOpen
  <2> QED
    BY <2>1, <2>2, ProceedsControl
<1>8. DataOK'
  <2>1. started' \in 0 .. MaxRequests
    BY LibraryAssumption DEF Start, DataOK
  <2> QED
    BY <2>1 DEF Start, DataOK, files
<1> QED
  BY <1>7, <1>8

LEMMA CreateArtistStep ==
    ASSUME ControlOK, DataOK, NEW p \in Process, CreateArtist(p)
    PROVE  ControlOK' /\ DataOK'
<1> DEFINE a == Compat[loc[p].to[1]]
           f == [loc[p] EXCEPT !.to = <<a>>]
<1>1. loc[p] \in Frame /\ Shape("CreateArtist", loc[p])
  BY FrameOf DEF CreateArtist, Session
<1>2. a \in DirName /\ <<a>> \in ArtistKey
  BY <1>1, KeyParts, CompatParts DEF Shape, ArtistKey
<1>3. pc[p] \notin KeepsOpen /\ UNCHANGED lock /\ UNCHANGED started
  BY DEF CreateArtist, Session, KeepsOpen
<1> HIDE DEF a
<1>4. CASE Return(p) /\ UNCHANGED <<db, files>>
  BY <1>3, <1>4, ReturnProceeds, ProceedsControl DEF DataOK, files
<1>5. CASE /\ db' = CreateArtistTx(db, a)
           /\ Goto(p, "MkdirNew", f)
           /\ UNCHANGED files
  <2>1. f \in Frame /\ f.to = <<a>> /\ f.victims = {}
    BY <1>1, <1>2 DEF Frame, Node, Shape, KeepsOpen
  <2> HIDE DEF f
  <2>2. Shape("MkdirNew", f)
    BY <1>2, <2>1 DEF Shape, MoveSongsSteps
  <2>3. Proceeds(p)
    BY <1>5, <2>1, <2>2 DEF Proceeds, Steps, KeepsOpen
  <2>4. db' \in Database
    BY <1>2, <1>5, CreateArtistType DEF DataOK
  <2> QED
    BY <1>3, <1>5, <2>3, <2>4, ProceedsControl DEF DataOK, files
<1> QED
  BY <1>4, <1>5 DEF CreateArtist, Refuse, a

LEMMA CreateAlbumStep ==
    ASSUME ControlOK, DataOK, NEW p \in Process, CreateAlbum(p)
    PROVE  ControlOK' /\ DataOK'
<1> DEFINE ab == <<loc[p].to[1], Compat[loc[p].to[2]]>>
           f  == [loc[p] EXCEPT !.to = ab]
<1>1. loc[p] \in Frame /\ Shape("CreateAlbum", loc[p])
  BY FrameOf DEF CreateAlbum, Session
<1>2. ab \in AlbumKey
  BY <1>1, KeyParts, CompatParts DEF Shape, AlbumKey
<1>3. pc[p] \notin KeepsOpen /\ UNCHANGED lock /\ UNCHANGED started
  BY DEF CreateAlbum, Session, KeepsOpen
<1> HIDE DEF ab
<1>4. CASE Return(p) /\ UNCHANGED <<db, files>>
  BY <1>3, <1>4, ReturnProceeds, ProceedsControl DEF DataOK, files
<1>5. CASE /\ db' = CreateAlbumTx(db, ab)
           /\ Goto(p, "MkdirNew", f)
           /\ UNCHANGED files
  <2>1. f \in Frame /\ f.to = ab /\ f.victims = {}
    BY <1>1, <1>2 DEF Frame, Node, Shape, KeepsOpen
  <2> HIDE DEF f
  <2>2. Shape("MkdirNew", f)
    BY <1>2, <2>1 DEF Shape, MoveSongsSteps
  <2>3. Proceeds(p)
    BY <1>5, <2>1, <2>2 DEF Proceeds, Steps, KeepsOpen
  <2>4. db' \in Database
    BY <1>2, <1>5, CreateAlbumType DEF DataOK
  <2> QED
    BY <1>3, <1>5, <2>3, <2>4, ProceedsControl DEF DataOK, files
<1> QED
  BY <1>4, <1>5 DEF CreateAlbum, Refuse, ab

LEMMA MkdirNewStep ==
    ASSUME ControlOK, DataOK, NEW p \in Process, MkdirNew(p)
    PROVE  ControlOK' /\ DataOK'
<1>1. loc[p] \in Frame /\ Shape("MkdirNew", loc[p])
  BY FrameOf DEF MkdirNew, Syscall
<1>2. loc[p].to \in Node /\ <<loc[p].to[1]>> \in Node
  BY <1>1, KeyParts DEF Shape, Node, ArtistKey
<1>3. ControlOK'
  BY ReturnProceeds, ProceedsControl DEF MkdirNew, Syscall, KeepsOpen
<1> QED
  BY <1>2, <1>3 DEF MkdirNew, Syscall, DataOK

LEMMA CreateSongStep ==
    ASSUME ControlOK, DataOK, NEW p \in Process, CreateSong(p)
    PROVE  ControlOK' /\ DataOK'
<1> DEFINE k == <<loc[p].to[1], loc[p].to[2], Compat[loc[p].to[3]]>>
           f == [loc[p] EXCEPT !.to = k]
<1>1. loc[p] \in Frame /\ Shape("CreateSong", loc[p])
  BY FrameOf DEF CreateSong, Session
<1>2. k \in SongKey
  BY <1>1, KeyParts, CompatParts DEF Shape, SongKey
<1>3. pc[p] \notin KeepsOpen /\ UNCHANGED lock /\ UNCHANGED started
  BY DEF CreateSong, Session, KeepsOpen
<1> HIDE DEF k
<1>4. CASE Return(p) /\ UNCHANGED <<db, files>>
  BY <1>3, <1>4, ReturnProceeds, ProceedsControl DEF DataOK, files
<1>5. CASE /\ db' = CreateSongTx(db, k, k)
           /\ Goto(p, "CreateFile", f)
           /\ UNCHANGED files
  <2>1. f \in Frame /\ f.to = k /\ f.victims = {}
    BY <1>1, <1>2 DEF Frame, Node, Shape, KeepsOpen
  <2> HIDE DEF f
  <2>2. Shape("CreateFile", f)
    BY <1>2, <2>1 DEF Shape, MoveSongsSteps
  <2>3. Proceeds(p)
    BY <1>5, <2>1, <2>2 DEF Proceeds, Steps, KeepsOpen
  <2>4. db' \in Database
    BY <1>2, <1>5, CreateSongType DEF DataOK, Path
  <2> QED
    BY <1>3, <1>5, <2>3, <2>4, ProceedsControl DEF DataOK, files
<1> QED
  BY <1>4, <1>5 DEF CreateSong, Refuse, k

LEMMA CreateFileStep ==
    ASSUME ControlOK, DataOK, NEW p \in Process, CreateFile(p)
    PROVE  ControlOK' /\ DataOK'
<1> DEFINE k == loc[p].to
<1>1. k \in SongKey
  BY FrameOf DEF CreateFile, Syscall, Shape
<1>2. dirs' \subseteq Node
  BY <1>1, MkdirAllType DEF CreateFile, DataOK
<1>3. DiskOK(disk')
  <2>1. disk' = [disk EXCEPT ![k] = Untagged]
    BY DEF CreateFile
  <2> HIDE DEF k
  <2> QED
    BY <1>1, <2>1, NotInDrop, WriteFile DEF DataOK
<1>4. ControlOK'
  BY ReturnProceeds, ProceedsControl DEF CreateFile, Syscall, KeepsOpen
<1> QED
  BY <1>2, <1>3, <1>4 DEF CreateFile, Syscall, DataOK

LEMMA LookupProceeds ==
    ASSUME DataOK, NEW p \in Process, loc[p] \in Frame, loc[p].from \in SongKey,
           loc[p].victims = {}, db.songs[loc[p].from] # NoSong,
           NEW step \in {"ReleaseTags", "DeleteSong"},
           Goto(p, step, [loc[p] EXCEPT !.path = db.songs[loc[p].from].path])
    PROVE  Proceeds(p)
<1> DEFINE path == db.songs[loc[p].from].path
           f    == [loc[p] EXCEPT !.path = path]
<1>1. path \in Path
  BY DEF DataOK, Database, SongStore
<1>2. Goto(p, step, f)
  OBVIOUS
<1> HIDE DEF path
<1>3. f \in Frame /\ f.path = path /\ f.from \in SongKey /\ f.victims = {}
  BY <1>1 DEF Frame
<1> HIDE DEF f
<1>4. Shape(step, f)
  BY <1>1, <1>3 DEF Shape, MoveSongsSteps
<1> QED
  BY <1>2, <1>3, <1>4 DEF Proceeds, Steps, KeepsOpen

LEMMA ReleaseSongStep ==
    ASSUME ControlOK, DataOK, NEW p \in Process, ReleaseSong(p)
    PROVE  ControlOK' /\ DataOK'
<1>1. /\ loc[p] \in Frame /\ loc[p].from \in SongKey /\ loc[p].victims = {}
      /\ pc[p] \notin KeepsOpen /\ UNCHANGED <<lock, started, db, files>>
  BY FrameOf DEF ReleaseSong, Session, Shape, KeepsOpen
<1>2. Proceeds(p)
  BY <1>1, LookupProceeds, ReturnProceeds DEF ReleaseSong
<1> QED
  BY <1>1, <1>2, ProceedsControl DEF DataOK, files

LEMMA ReleaseTagsStep ==
    ASSUME ControlOK, DataOK, NEW p \in Process, ReleaseTags(p)
    PROVE  ControlOK' /\ DataOK'
<1> DEFINE k    == loc[p].from
           tags == [artist |-> k[1], album |-> k[2], title |-> k[3], mp3 |-> FALSE]
<1>1. k \in SongKey /\ loc[p].path \in Path
  BY FrameOf DEF ReleaseTags, Syscall, Shape
<1>2. tags \in Tags
  BY <1>1, KeyParts DEF Tags
<1>3. disk' = Retagged(loc[p].path, tags)
  BY DEF ReleaseTags
<1> HIDE DEF tags
<1>4. DiskOK(disk')
  BY <1>1, <1>2, <1>3, RetaggedFile DEF DataOK
<1>5. ControlOK'
  BY ReturnProceeds, ProceedsControl DEF ReleaseTags, Syscall, KeepsOpen
<1> QED
  BY <1>4, <1>5 DEF ReleaseTags, Syscall, DataOK

LEMMA GetFilePathStep ==
    ASSUME ControlOK, DataOK, NEW p \in Process, GetFilePath(p)
    PROVE  ControlOK' /\ DataOK'
<1>1. /\ loc[p] \in Frame /\ loc[p].from \in SongKey /\ loc[p].victims = {}
      /\ pc[p] \notin KeepsOpen /\ UNCHANGED <<lock, started, db, files>>
  BY FrameOf DEF GetFilePath, Session, Shape, KeepsOpen
<1>2. Proceeds(p)
  BY <1>1, LookupProceeds, ReturnProceeds DEF GetFilePath
<1> QED
  BY <1>1, <1>2, ProceedsControl DEF DataOK, files

LEMMA DeleteSongThenKeeps ==
    ASSUME ControlOK, DataOK, NEW p \in Process, loc[p] \in Frame, NEW k \in SongKey,
           NEW next \in Steps \ KeepsOpen, Shape(next, loc[p]), DeleteSongThen(p, k, next)
    PROVE  ControlOK' /\ DataOK'
<1>1. db' \in Database /\ UNCHANGED <<files, started>> /\ lock = Free
  BY DeleteSongType DEF DeleteSongThen, DataOK
<1>2. CASE Goto(p, "Nested", loc[p]) /\ lock' = p
  <2>1. Shape("Nested", loc[p]) /\ "Nested" \in Steps /\ "Nested" \in KeepsOpen
    BY DEF Shape, MoveSongsSteps, KeepsOpen, Steps
  <2>2. ControlOK'
    BY <1>1, <1>2, <2>1, SessionControl
  <2> QED
    BY <1>1, <2>2 DEF DataOK, files
<1>3. CASE Goto(p, next, loc[p]) /\ UNCHANGED lock
  <2>1. ControlOK'
    BY <1>1, <1>3, SessionControl
  <2> QED
    BY <1>1, <2>1 DEF DataOK, files
<1> QED
  BY <1>2, <1>3 DEF DeleteSongThen

LEMMA DeleteSongStep ==
    ASSUME ControlOK, DataOK, NEW p \in Process, DeleteSong(p)
    PROVE  ControlOK' /\ DataOK'
<1>1. /\ pc[p] = "DeleteSong" /\ loc[p] \in Frame /\ loc[p].from \in SongKey
      /\ loc[p].path \in Path /\ loc[p].victims = {}
  BY FrameOf DEF DeleteSong, Session, Shape, KeepsOpen
<1>2. CASE DeleteSongThen(p, loc[p].from, "RemoveFile")
  <2>1. Shape("RemoveFile", loc[p]) /\ "RemoveFile" \in Steps \ KeepsOpen
    BY <1>1 DEF Shape, MoveSongsSteps, KeepsOpen, Steps
  <2> QED
    BY <1>1, <1>2, <2>1, DeleteSongThenKeeps
<1>3. CASE Session(p, "DeleteSong") /\ Refuse(p)
  <2>1. ControlOK'
    BY <1>3, ReturnProceeds, ProceedsControl DEF Session, Refuse, KeepsOpen
  <2> QED
    BY <1>3, <2>1 DEF Session, Refuse, DataOK, files
<1> QED
  BY <1>2, <1>3 DEF DeleteSong

LEMMA RemoveFileStep ==
    ASSUME ControlOK, DataOK, NEW p \in Process, RemoveFile(p)
    PROVE  ControlOK' /\ DataOK'
<1> DEFINE path == loc[p].path
<1>1. path \in Path
  BY FrameOf DEF RemoveFile, Syscall, Shape
<1>2. disk' = [disk EXCEPT ![path] = NoFile] /\ NoFile # Untagged
  BY LibraryAssumption DEF RemoveFile
<1> HIDE DEF path
<1>3. DiskOK(disk')
  BY <1>1, <1>2, WriteFile DEF DataOK
<1>4. ControlOK'
  BY ReturnProceeds, ProceedsControl DEF RemoveFile, Syscall, KeepsOpen
<1> QED
  BY <1>3, <1>4 DEF RemoveFile, Syscall, DataOK

LEMMA RemoveVictimsControl ==
    ASSUME ControlOK, DataOK, NEW p \in Process, lock = Free, loc[p] \in Frame,
           NEW songs \in SUBSET SongKey, \A k \in songs : db.songs[k] # NoSong,
           RemoveVictims(p, songs)
    PROVE  ControlOK'
<1>1. CASE Return(p) /\ UNCHANGED lock
  <2>1. "idle" \in Steps /\ "idle" \notin KeepsOpen
    BY DEF Steps, KeepsOpen
  <2> QED
    BY <1>1, <2>1, BlankFrame, SessionControl DEF Return
<1>2. CASE /\ Goto(p, "Victims", [loc[p] EXCEPT !.victims = {db.songs[k] : k \in songs}])
           /\ lock' = p
  <2> DEFINE victims == {db.songs[k] : k \in songs}
             f       == [loc[p] EXCEPT !.victims = victims]
  <2>1. victims \in SUBSET SongStore
    BY DEF DataOK, Database
  <2>2. Goto(p, "Victims", f)
    BY <1>2
  <2> HIDE DEF victims
  <2>3. f \in Frame
    BY <2>1 DEF Frame
  <2> HIDE DEF f
  <2>4. Shape("Victims", f) /\ "Victims" \in Steps /\ "Victims" \in KeepsOpen
    BY DEF Shape, MoveSongsSteps, Steps, KeepsOpen
  <2> QED
    BY <1>2, <2>2, <2>3, <2>4, SessionControl
<1> QED
  BY <1>1, <1>2 DEF RemoveVictims

LEMMA DeleteArtistStep ==
    ASSUME ControlOK, DataOK, NEW p \in Process, DeleteArtist(p)
    PROVE  ControlOK' /\ DataOK'
<1> DEFINE a     == loc[p].from[1]
           songs == {k \in SongKey : k[1] = a /\ db.songs[k] # NoSong}
<1>1. loc[p] \in Frame /\ lock = Free
  BY FrameOf DEF DeleteArtist
<1>2. RemoveVictims(p, songs)
  BY DEF DeleteArtist
<1>3. songs \in SUBSET SongKey /\ \A k \in songs : db.songs[k] # NoSong
  OBVIOUS
<1>4. db' \in Database
  BY DeleteArtistType DEF DeleteArtist, DataOK
<1> HIDE DEF songs
<1>5. ControlOK'
  BY <1>1, <1>2, <1>3, RemoveVictimsControl
<1> QED
  BY <1>2, <1>4, <1>5 DEF RemoveVictims, DataOK, files

LEMMA DeleteAlbumStep ==
    ASSUME ControlOK, DataOK, NEW p \in Process, DeleteAlbum(p)
    PROVE  ControlOK' /\ DataOK'
<1> DEFINE ab     == loc[p].from
           listed == <<ab[1], ab[1]>>
           songs  == SongsIn(db, listed)
<1>1. loc[p] \in Frame /\ lock = Free /\ pc[p] \notin KeepsOpen
  BY FrameOf DEF DeleteAlbum, KeepsOpen
<1>2. CASE db' = DeleteAlbumBucket(db, ab) /\ RemoveVictims(p, songs)
  <2>1. songs \in SUBSET SongKey /\ \A k \in songs : db.songs[k] # NoSong
    BY DEF SongsIn
  <2>2. db' \in Database
    BY <1>2, DeleteAlbumType DEF DataOK
  <2> HIDE DEF songs
  <2>3. ControlOK'
    BY <1>1, <1>2, <2>1, RemoveVictimsControl
  <2> QED
    BY <1>2, <2>2, <2>3 DEF RemoveVictims, DataOK, files
<1>3. CASE Refuse(p) /\ UNCHANGED <<lock, started>>
  <2>1. ControlOK'
    BY <1>1, <1>3, ReturnProceeds, ProceedsControl DEF Refuse
  <2> QED
    BY <1>3, <2>1 DEF Refuse, DataOK, files
<1> QED
  BY <1>2, <1>3 DEF DeleteAlbum

LEMMA VictimsStep ==
    ASSUME ControlOK, DataOK, NEW p \in Process, Victims(p)
    PROVE  ControlOK' /\ DataOK'
<1>1. loc[p] \in Frame /\ lock = p
  BY FrameOf DEF Victims, ControlOK, KeepsOpen
<1>2. PICK v \in loc[p].victims :
          \/ /\ v.lists # <<>>
             /\ Goto(p, "Nested", loc[p])
             /\ UNCHANGED <<disk, lock>>
          \/ /\ v.lists = <<>>
             /\ disk' = [disk EXCEPT ![v.path] = NoFile]
             /\ IF loc[p].victims = {v}
                THEN Return(p) /\ lock' = Free
                ELSE /\ Goto(p, "Victims", [loc[p] EXCEPT !.victims = @ \ {v}])
                     /\ UNCHANGED lock
  BY DEF Victims
<1>3. v \in SongStore /\ UNCHANGED <<db, dirs, m3u, started>>
  BY <1>1 DEF Frame, Victims
<1>4. \A f : Shape("Nested", f) /\ Shape("Victims", f)
  BY DEF Shape, MoveSongsSteps, KeepsOpen
<1>5. {"Nested", "Victims"} \subseteq Steps /\ {"Nested", "Victims"} \subseteq KeepsOpen
      /\ "idle" \in Steps \ KeepsOpen
  BY DEF Steps, KeepsOpen
<1>6. CASE Goto(p, "Nested", loc[p]) /\ UNCHANGED <<disk, lock>>
  <2>1. ControlOK'
    BY <1>1, <1>4, <1>5, <1>6, SessionControl
  <2> QED
    BY <1>3, <1>6, <2>1 DEF DataOK
<1>7. CASE /\ disk' = [disk EXCEPT ![v.path] = NoFile]
           /\ \/ Return(p) /\ lock' = Free
              \/ /\ Goto(p, "Victims", [loc[p] EXCEPT !.victims = @ \ {v}])
                 /\ UNCHANGED lock
  <2> DEFINE path == v.path
             rest == loc[p].victims \ {v}
             f    == [loc[p] EXCEPT !.victims = rest]
  <2>1. path \in Path
    BY <1>3 DEF SongStore
  <2>2. disk' = [disk EXCEPT ![path] = NoFile] /\ NoFile # Untagged
    BY <1>7, LibraryAssumption
  <2> HIDE DEF path
  <2>3. DiskOK(disk')
    BY <2>1, <2>2, WriteFile DEF DataOK
  <2>4. ASSUME Return(p), lock' = Free PROVE ControlOK'
    <3>1. "idle" \in Steps /\ "idle" \notin KeepsOpen
      BY <1>5
    <3>2. Goto(p, "idle", Blank)
      BY <2>4 DEF Return
    <3> QED
      BY <1>1, <2>4, <3>1, <3>2, BlankFrame, SessionControl
  <2>5. ASSUME Goto(p, "Victims", f), UNCHANGED lock PROVE ControlOK'
    <3>1. rest \in SUBSET SongStore
      BY <1>1 DEF Frame
    <3> HIDE DEF rest
    <3>2. f \in Frame
      BY <1>1, <3>1 DEF Frame
    <3> HIDE DEF f
    <3> QED
      BY <1>1, <1>4, <1>5, <2>5, <3>2, SessionControl
  <2>6. ControlOK'
    BY <1>7, <2>4, <2>5
  <2> QED
    BY <1>3, <2>3, <2>6 DEF DataOK
<1> QED
  BY <1>2, <1>6, <1>7

LEMMA MoveArtistStep ==
    ASSUME ControlOK, DataOK, NEW p \in Process, MoveArtist(p)
    PROVE  ControlOK' /\ DataOK'
<1>1. pc[p] = "MoveArtist" /\ pc[p] \notin KeepsOpen /\ UNCHANGED lock
  BY DEF MoveArtist, Syscall, KeepsOpen
<1>2. loc[p] \in Frame /\ Shape("MoveArtist", loc[p])
  BY <1>1, FrameOf
<1>3. loc[p].to \in Node /\ Shape("NewArtist", loc[p])
  BY <1>2 DEF Shape, MoveSongsSteps, KeepsOpen, Node
<1>4. Proceeds(p)
  BY <1>2, <1>3 DEF MoveArtist, Proceeds, Steps, KeepsOpen
<1>5. ControlOK'
  BY <1>1, <1>4, ProceedsControl
<1> QED
  BY <1>3, <1>5 DEF MoveArtist, Syscall, DataOK

LEMMA NewArtistStep ==
    ASSUME ControlOK, DataOK, NEW p \in Process, NewArtist(p)
    PROVE  ControlOK' /\ DataOK'
<1> DEFINE old == loc[p].from[1]
           new == Compat[loc[p].to[1]]
<1>1. pc[p] = "NewArtist" /\ pc[p] \notin KeepsOpen /\ UNCHANGED <<lock, started, files>>
  BY DEF NewArtist, Session, KeepsOpen
<1>2. /\ loc[p] \in Frame /\ loc[p].from \in ArtistKey /\ loc[p].to \in ArtistKey
      /\ loc[p].victims = {}
  BY <1>1, FrameOf DEF Shape, KeepsOpen
<1>3. old \in DirName /\ new \in DirName
  BY <1>2, KeyParts, CompatParts
<1>4. CASE Return(p) /\ UNCHANGED db
  BY <1>1, <1>4, ReturnProceeds, ProceedsControl DEF DataOK, files
<1>5. CASE /\ db' = ProcessNewArtistTx(db, new, old)
           /\ NextAlbum(p, [loc[p] EXCEPT !.albums = db.listed[old]])
  <2> DEFINE albums == db.listed[old]
             f      == [loc[p] EXCEPT !.albums = albums]
  <2>1. albums \in Seq(DirName)
    BY <1>3 DEF DataOK, Database
  <2>2. NextAlbum(p, f)
    BY <1>5
  <2>3. db' \in Database
    BY <1>3, <1>5, ProcessNewArtistType DEF DataOK
  <2> HIDE DEF albums
  <2>4. f \in Frame /\ f.from \in Key /\ f.to \in Key /\ f.victims = {}
    BY <1>2, <2>1 DEF Frame, Key
  <2> HIDE DEF f
  <2>5. Proceeds(p)
    BY <2>2, <2>4, NextAlbumProceeds
  <2> QED
    BY <1>1, <2>3, <2>5, ProceedsControl DEF DataOK, files
<1> QED
  BY <1>4, <1>5 DEF NewArtist

LEMMA EndArtistStep ==
    ASSUME ControlOK, DataOK, NEW p \in Process, EndArtist(p)
    PROVE  ControlOK' /\ DataOK'
<1>1. ControlOK'
  BY ReturnProceeds, ProceedsControl DEF EndArtist, Session, KeepsOpen
<1>2. db' \in Database
  BY DeleteArtistType DEF EndArtist, DataOK
<1> QED
  BY <1>1, <1>2 DEF EndArtist, Session, DataOK, files

LEMMA MoveAlbumStep ==
    ASSUME ControlOK, DataOK, NEW p \in Process, MoveAlbum(p)
    PROVE  ControlOK' /\ DataOK'
<1>1. pc[p] = "MoveAlbum" /\ pc[p] \notin KeepsOpen /\ UNCHANGED lock
  BY DEF MoveAlbum, Syscall, KeepsOpen
<1>2. /\ loc[p] \in Frame /\ loc[p].from \in AlbumKey /\ loc[p].to \in AlbumKey
      /\ loc[p].victims = {}
  BY <1>1, FrameOf DEF Shape, KeepsOpen
<1>3. loc[p].to \in Node /\ Shape("NewAlbum", loc[p])
  BY <1>2 DEF Shape, MoveSongsSteps, KeepsOpen, Node
<1>4. ASSUME Goto(p, "NewAlbum", loc[p]) PROVE Proceeds(p)
  BY <1>2, <1>3, <1>4 DEF Proceeds, Steps, KeepsOpen
<1>5. ASSUME AlbumReturn(p, loc[p]) PROVE Proceeds(p)
  BY <1>2, <1>5, AlbumReturnProceeds DEF Key
<1>6. Proceeds(p)
  BY <1>4, <1>5 DEF MoveAlbum
<1>7. ControlOK'
  BY <1>1, <1>6, ProceedsControl
<1>8. dirs' \subseteq Node
  BY <1>3 DEF MoveAlbum, DataOK
<1> QED
  BY <1>7, <1>8 DEF MoveAlbum, Syscall, DataOK

LEMMA NewAlbumStep ==
    ASSUME ControlOK, DataOK, NEW p \in Process, NewAlbum(p)
    PROVE  ControlOK' /\ DataOK'
<1> DEFINE old == loc[p].from
           new == <<loc[p].to[1], Compat[loc[p].to[2]]>>
<1>1. pc[p] = "NewAlbum" /\ pc[p] \notin KeepsOpen /\ UNCHANGED <<lock, started, files>>
  BY DEF NewAlbum, Session, KeepsOpen
<1>2. /\ loc[p] \in Frame /\ old \in AlbumKey /\ loc[p].to \in AlbumKey
      /\ loc[p].victims = {}
  BY <1>1, FrameOf DEF Shape, KeepsOpen
<1>3. new \in AlbumKey
  BY <1>2, KeyParts, CompatParts DEF AlbumKey
<1>4. CASE AlbumReturn(p, loc[p]) /\ UNCHANGED db
  <2>1. Proceeds(p)
    BY <1>2, <1>4, AlbumReturnProceeds DEF Key
  <2> QED
    BY <1>1, <1>4, <2>1, ProceedsControl DEF DataOK, files
<1>5. CASE /\ db' = ProcessNewAlbumTx(db, new, old)
           /\ NextSong(p, [loc[p] EXCEPT !.songs =
                 {[key |-> k, path |-> db.songs[k].path] : k \in SongsIn(db, old)}])
  <2> DEFINE songs == {[key |-> k, path |-> db.songs[k].path] : k \in SongsIn(db, old)}
             f     == [loc[p] EXCEPT !.songs = songs]
  <2>1. songs \in SUBSET AlbumSong
    <3>1. ASSUME NEW k \in SongsIn(db, old) PROVE k \in SongKey /\ db.songs[k].path \in Path
      BY DEF SongsIn, DataOK, Database, SongStore
    <3> QED
      BY <3>1 DEF AlbumSong
  <2>2. NextSong(p, f)
    BY <1>5
  <2>3. db' \in Database
    BY <1>2, <1>3, <1>5, ProcessNewAlbumType DEF DataOK
  <2> HIDE DEF songs
  <2>4. f \in Frame /\ f.from \in AlbumKey /\ f.to \in AlbumKey /\ f.victims = {}
    BY <1>2, <2>1 DEF Frame
  <2> HIDE DEF f
  <2>5. Proceeds(p)
    BY <2>2, <2>4, NextSongProceeds
  <2> QED
    BY <1>1, <2>3, <2>5, ProceedsControl DEF DataOK, files
<1> QED
  BY <1>4, <1>5 DEF NewAlbum

LEMMA EndAlbumStep ==
    ASSUME ControlOK, DataOK, NEW p \in Process, EndAlbum(p)
    PROVE  ControlOK' /\ DataOK'
<1>1. pc[p] = "EndAlbum" /\ pc[p] \notin KeepsOpen /\ UNCHANGED <<lock, started, files>>
  BY DEF EndAlbum, Session, KeepsOpen
<1>2. /\ loc[p] \in Frame /\ loc[p].from \in Key /\ loc[p].to \in Key
      /\ loc[p].victims = {}
  BY <1>1, FrameOf DEF Shape, KeepsOpen, Key
<1>3. Proceeds(p)
  BY <1>2, AlbumReturnProceeds DEF EndAlbum
<1>4. db' \in Database
  BY DeleteAlbumType DEF EndAlbum, DataOK
<1> QED
  BY <1>1, <1>3, <1>4, ProceedsControl DEF DataOK, files

----------------------------------------------------------------------------
(* MoveSongs.                                                              *)

Moving(f) ==
    f \in Frame /\ f.from \in SongKey /\ f.to \in SongKey /\ f.path \in Path /\ f.victims = {}

LEMMA MovingFrame ==
    ASSUME ControlOK, NEW p \in Process, pc[p] \in MoveSongsSteps
    PROVE  /\ Moving(loc[p]) /\ pc[p] \notin KeepsOpen
           /\ pc[p] \in {"Unlist", "AddPath", "AddEntry", "Regenerate"} => loc[p].todo # <<>>
<1>1. pc[p] \notin KeepsOpen
  BY DEF MoveSongsSteps, KeepsOpen
<1>2. loc[p] \in Frame /\ Shape(pc[p], loc[p])
  BY FrameOf
<1> QED
  BY <1>1, <1>2 DEF Shape, Moving

LEMMA MovesOn ==
    ASSUME NEW p \in Process, NEW step \in MoveSongsSteps, NEW f, Moving(f),
           step \in {"Unlist", "AddPath", "AddEntry", "Regenerate"} => f.todo # <<>>,
           Goto(p, step, f)
    PROVE  Proceeds(p)
<1>1. step \in Steps \ KeepsOpen
  BY DEF MoveSongsSteps, Steps, KeepsOpen
<1>2. Shape(step, f)
  BY DEF Shape, Moving, MoveSongsSteps
<1> QED
  BY <1>1, <1>2 DEF Proceeds, Moving

LEMMA MoveEnds ==
    ASSUME NEW p \in Process, NEW f, Moving(f), SongReturn(p, f)
    PROVE  Proceeds(p)
  BY SongReturnProceeds DEF Moving

LEMMA NewFullPathType ==
    ASSUME NEW f, Moving(f)
    PROVE  NewFullPath(f) \in SongKey
  BY KeyParts, CompatParts DEF Moving, NewFullPath, SongKey

LEMMA MoveSongsStep ==
    ASSUME ControlOK, DataOK, NEW p \in Process, MoveSongs(p)
    PROVE  ControlOK' /\ DataOK'
<1> DEFINE lists == ListsOf(db, loc[p].from)
           f     == [loc[p] EXCEPT !.lists = lists, !.todo = lists]
           step  == IF lists = <<>> THEN "RenameFile" ELSE "Unlist"
<1>1. Moving(loc[p]) /\ pc[p] \notin KeepsOpen
  BY MovingFrame DEF MoveSongs, Session, MoveSongsSteps
<1>2. lists \in Seq(Playlist)
  BY <1>1, ListsOfType DEF Moving, DataOK
<1>3. Goto(p, step, f) /\ UNCHANGED <<db, files, lock, started>>
  BY DEF MoveSongs, Session
<1> HIDE DEF lists
<1>4. Moving(f) /\ f.todo = lists
  BY <1>1, <1>2 DEF Moving, Frame
<1> HIDE DEF f
<1>5. step \in MoveSongsSteps
      /\ (step \in {"Unlist", "AddPath", "AddEntry", "Regenerate"} => lists # <<>>)
  BY DEF MoveSongsSteps
<1> HIDE DEF step
<1>6. Proceeds(p)
  BY <1>3, <1>4, <1>5, MovesOn
<1> QED
  BY <1>1, <1>3, <1>6, ProceedsControl DEF DataOK, files

LEMMA UnlistStep ==
    ASSUME ControlOK, DataOK, NEW p \in Process, Unlist(p)
    PROVE  ControlOK' /\ DataOK'
<1> DEFINE pl   == Head(loc[p].todo)
           rest == Tail(loc[p].todo)
           f    == [loc[p] EXCEPT !.todo = rest]
           step == IF rest = <<>> THEN "RenameFile" ELSE "Unlist"
<1>1. Moving(loc[p]) /\ pc[p] \notin KeepsOpen /\ loc[p].todo # <<>>
  BY MovingFrame DEF Unlist, Session, MoveSongsSteps
<1>2. pl \in Playlist /\ rest \in Seq(Playlist)
  BY <1>1, HeadTailProperties DEF Moving, Frame
<1>3. Goto(p, step, f) /\ UNCHANGED <<files, lock, started>>
  BY DEF Unlist, Session
<1>4. db' \in Database
  BY <1>1, <1>2, KeyParts, UnlistType DEF Unlist, Moving, DataOK
<1> HIDE DEF pl, rest
<1>5. Moving(f) /\ f.todo = rest
  BY <1>1, <1>2 DEF Moving, Frame
<1> HIDE DEF f
<1>6. step \in MoveSongsSteps
      /\ (step \in {"Unlist", "AddPath", "AddEntry", "Regenerate"} => rest # <<>>)
  BY DEF MoveSongsSteps
<1> HIDE DEF step
<1>7. Proceeds(p)
  BY <1>3, <1>5, <1>6, MovesOn
<1> QED
  BY <1>1, <1>3, <1>4, <1>7, ProceedsControl DEF DataOK, files

LEMMA RenameFileStep ==
    ASSUME ControlOK, DataOK, NEW p \in Process, RenameFile(p)
    PROVE  ControlOK' /\ DataOK'
<1> DEFINE f == loc[p]
<1>1. Moving(f) /\ pc[p] \notin KeepsOpen /\ UNCHANGED <<db, dirs, m3u, lock, started>>
  BY MovingFrame DEF RenameFile, Syscall, MoveSongsSteps
<1>2. DiskOK(Moved(f.path, NewFullPath(f)))
  BY <1>1, NewFullPathType, MovedFile DEF Moving, DataOK
<1>3. ASSUME Goto(p, "DeleteOld", f) PROVE Proceeds(p)
  <2>1. "DeleteOld" \in MoveSongsSteps
    BY DEF MoveSongsSteps
  <2> QED
    BY <1>1, <1>3, <2>1, MovesOn
<1>4. ASSUME SongReturn(p, f) PROVE Proceeds(p)
  BY <1>1, <1>4, MoveEnds
<1>5. Proceeds(p) /\ DiskOK(disk')
  BY <1>2, <1>3, <1>4 DEF RenameFile, DataOK
<1> QED
  BY <1>1, <1>5, ProceedsControl DEF DataOK

LEMMA DeleteOldStep ==
    ASSUME ControlOK, DataOK, NEW p \in Process, DeleteOld(p)
    PROVE  ControlOK' /\ DataOK'
<1>1. Moving(loc[p]) /\ pc[p] \notin KeepsOpen
  BY MovingFrame DEF DeleteOld, Session, MoveSongsSteps
<1>2. CASE DeleteSongThen(p, loc[p].from, "SetMp3Tags")
  <2>1. Shape("SetMp3Tags", loc[p]) /\ "SetMp3Tags" \in Steps \ KeepsOpen
    BY <1>1 DEF Moving, Shape, MoveSongsSteps, KeepsOpen, Steps
  <2> QED
    BY <1>1, <1>2, <2>1, DeleteSongThenKeeps DEF Moving
<1>3. CASE /\ SongReturn(p, loc[p])
           /\ UNCHANGED <<db, files, lock, started>>
  <2>1. Proceeds(p)
    BY <1>1, <1>3, MoveEnds
  <2> QED
    BY <1>1, <1>3, <2>1, ProceedsControl DEF DataOK, files
<1> QED
  BY <1>2, <1>3 DEF DeleteOld, Session

LEMMA SetMp3TagsStep ==
    ASSUME ControlOK, DataOK, NEW p \in Process, SetMp3Tags(p)
    PROVE  ControlOK' /\ DataOK'
<1> DEFINE f    == loc[p]
           tags == [artist |-> f.to[1], album |-> f.to[2],
                    title |-> f.to[3], mp3 |-> f.to[3] \in Mp3Name]
<1>1. Moving(f) /\ pc[p] \notin KeepsOpen /\ UNCHANGED <<db, dirs, m3u, lock, started>>
  BY MovingFrame DEF SetMp3Tags, Syscall, MoveSongsSteps
<1>2. tags \in Tags
  BY <1>1, KeyParts DEF Moving, Tags
<1>3. disk' = Retagged(NewFullPath(f), tags)
  BY DEF SetMp3Tags
<1> HIDE DEF tags
<1>4. DiskOK(disk')
  BY <1>1, <1>2, <1>3, NewFullPathType, RetaggedFile DEF DataOK, Path
<1>5. "CreateNew" \in MoveSongsSteps /\ Goto(p, "CreateNew", f)
  BY DEF MoveSongsSteps, SetMp3Tags
<1>6. Proceeds(p)
  BY <1>1, <1>5, MovesOn
<1> QED
  BY <1>1, <1>4, <1>6, ProceedsControl DEF DataOK

LEMMA CreateNewStep ==
    ASSUME ControlOK, DataOK, NEW p \in Process, CreateNew(p)
    PROVE  ControlOK' /\ DataOK'
<1> DEFINE f == loc[p]
           g == [f EXCEPT !.todo = f.lists]
<1>1. Moving(f) /\ pc[p] \notin KeepsOpen /\ UNCHANGED <<files, lock, started>>
  BY MovingFrame DEF CreateNew, Session, MoveSongsSteps
<1>2. CreateSongTx(db, NewFullPath(f), NewFullPath(f)) \in Database
  BY <1>1, NewFullPathType, CreateSongType DEF DataOK, Path
<1>3. db' \in Database
  BY <1>2 DEF CreateNew, DataOK
<1>4. Moving(g) /\ g.todo = f.lists
  BY <1>1 DEF Moving, Frame
<1>5. ASSUME f.lists # <<>>, Goto(p, "AddPath", g) PROVE Proceeds(p)
  <2>1. "AddPath" \in MoveSongsSteps
    BY DEF MoveSongsSteps
  <2> HIDE DEF g
  <2> QED
    BY <1>4, <1>5, <2>1, MovesOn
<1>6. ASSUME SongReturn(p, f) PROVE Proceeds(p)
  BY <1>1, <1>6, MoveEnds
<1>7. Proceeds(p)
  BY <1>5, <1>6 DEF CreateNew
<1> QED
  BY <1>1, <1>3, <1>7, ProceedsControl DEF DataOK, files

LEMMA AddPathStep ==
    ASSUME ControlOK, DataOK, NEW p \in Process, AddPath(p)
    PROVE  ControlOK' /\ DataOK'
<1> DEFINE f    == loc[p]
           path == db.songs[f.to].path
           g    == [f EXCEPT !.path = path]
<1>1. Moving(f) /\ pc[p] \notin KeepsOpen /\ f.todo # <<>>
      /\ UNCHANGED <<db, files, lock, started>>
  BY MovingFrame DEF AddPath, Session, MoveSongsSteps
<1>2. {"Regenerate", "AddEntry"} \subseteq MoveSongsSteps
  BY DEF MoveSongsSteps
<1>3. ASSUME Goto(p, "Regenerate", f) PROVE Proceeds(p)
  BY <1>1, <1>2, <1>3, MovesOn
<1>4. ASSUME db.songs[f.to] # NoSong, Goto(p, "AddEntry", g) PROVE Proceeds(p)
  <2>1. path \in Path
    BY <1>1, <1>4 DEF Moving, DataOK, Database, SongStore
  <2> HIDE DEF path
  <2>2. Moving(g) /\ g.todo # <<>>
    BY <1>1, <2>1 DEF Moving, Frame
  <2> HIDE DEF g
  <2> QED
    BY <1>2, <1>4, <2>2, MovesOn
<1>5. Proceeds(p)
  BY <1>3, <1>4 DEF AddPath
<1> QED
  BY <1>1, <1>5, ProceedsControl DEF DataOK, files

LEMMA AddEntryStep ==
    ASSUME ControlOK, DataOK, NEW p \in Process, AddEntry(p)
    PROVE  ControlOK' /\ DataOK'
<1> DEFINE f  == loc[p]
           pl == Head(f.todo)
<1>1. Moving(f) /\ pc[p] \notin KeepsOpen /\ f.todo # <<>>
      /\ UNCHANGED <<files, lock, started>>
  BY MovingFrame DEF AddEntry, Session, MoveSongsSteps
<1>2. pl \in Playlist
  BY <1>1, HeadTailProperties DEF Moving, Frame
<1>3. \/ db' = db
      \/ db.songs[f.to] # NoSong /\ db' = AddFileToPlaylistTx(db, pl, f.to, f.path)
  BY DEF AddEntry
<1> HIDE DEF pl
<1>4. db' \in Database
  BY <1>1, <1>2, <1>3, AddFileToPlaylistType DEF Moving, DataOK
<1>5. "Regenerate" \in MoveSongsSteps /\ Goto(p, "Regenerate", f)
  BY DEF MoveSongsSteps, AddEntry
<1>6. Proceeds(p)
  BY <1>1, <1>5, MovesOn
<1> QED
  BY <1>1, <1>4, <1>6, ProceedsControl DEF DataOK, files

LEMMA RegenerateStep ==
    ASSUME ControlOK, DataOK, NEW p \in Process, Regenerate(p)
    PROVE  ControlOK' /\ DataOK'
<1> DEFINE pl   == Head(loc[p].todo)
           rest == Tail(loc[p].todo)
           f    == [loc[p] EXCEPT !.todo = rest]
<1>1. Moving(loc[p]) /\ pc[p] \notin KeepsOpen /\ loc[p].todo # <<>>
      /\ UNCHANGED <<db, disk, dirs, lock, started>>
  BY MovingFrame DEF Regenerate, Session, MoveSongsSteps
<1>2. pl \in Playlist /\ rest \in Seq(Playlist)
  BY <1>1, HeadTailProperties DEF Moving, Frame
<1>3. m3u' \in [Playlist -> (SUBSET PlaylistFile) \cup {NoFile}]
  <2>1. EntriesOf(db, pl) \in SUBSET PlaylistFile
    BY <1>2, EntriesOfType DEF DataOK
  <2> QED
    BY <2>1 DEF Regenerate, DataOK
<1>4. \/ SongReturn(p, f)
      \/ f.todo # <<>> /\ Goto(p, "AddPath", f)
  BY DEF Regenerate
<1> HIDE DEF pl, rest
<1>5. Moving(f)
  BY <1>1, <1>2 DEF Moving, Frame
<1> HIDE DEF f
<1>6. "AddPath" \in MoveSongsSteps
  BY DEF MoveSongsSteps
<1>7. Proceeds(p)
  BY <1>4, <1>5, <1>6, MovesOn, MoveEnds
<1> QED
  BY <1>1, <1>3, <1>7, ProceedsControl DEF DataOK

----------------------------------------------------------------------------
(* HandleDrop.                                                             *)

LEMMA DropsOn ==
    ASSUME NEW p \in Process, NEW f \in Frame, NEW k \in SongKey,
           f.path \in Path, f.victims = {},
           NEW step \in {"DropArtist", "DropAlbum", "DropFile"},
           Goto(p, step, [f EXCEPT !.to = k])
    PROVE  Proceeds(p)
<1> DEFINE g == [f EXCEPT !.to = k]
<1>1. g \in Frame /\ g.to = k /\ g.path \in Path /\ g.victims = {}
  BY DEF Frame, Node
<1> HIDE DEF g
<1>2. Shape(step, g)
  BY <1>1 DEF Shape, MoveSongsSteps
<1>3. Goto(p, step, g) /\ step \in Steps \ KeepsOpen
  BY DEF g, Steps, KeepsOpen
<1> QED
  BY <1>1, <1>2, <1>3 DEF Proceeds

LEMMA TagsOfType ==
    ASSUME DiskOK(disk), NEW f \in Path, disk[f] # NoFile
    PROVE  TagsOf(f) \in Tags /\ TitleOf(TagsOf(f)) \in TitleName
<1>1. CASE disk[f] = Untagged
  <2> DEFINE title == IF f \in SongKey THEN f[3] ELSE BaseName[f]
  <2>1. title \in TitleName
    BY LibraryAssumption, KeyParts DEF Path
  <2>2. TagsOf(f) = [artist |-> Unknown, album |-> Unknown, mp3 |-> FALSE, title |-> title]
    BY <1>1 DEF TagsOf
  <2> HIDE DEF title
  <2> QED
    BY <2>1, <2>2, LibraryAssumption DEF Tags, TitleOf
<1>2. CASE disk[f] # Untagged
  <2>1. TagsOf(f) \in Tags
    BY <1>2 DEF TagsOf, DiskOK
  <2> QED
    BY <2>1, NamesAssumption DEF Tags, TitleOf
<1> QED
  BY <1>1, <1>2

LEMMA GetMp3TagsStep ==
    ASSUME ControlOK, DataOK, NEW p \in Process, GetMp3Tags(p)
    PROVE  ControlOK' /\ DataOK'
<1> DEFINE f   == loc[p]
           tag == TagsOf(f.path)
           k   == <<tag.artist, tag.album, TitleOf(tag)>>
<1>1. /\ f \in Frame /\ f.path \in Path /\ f.victims = {}
      /\ pc[p] \notin KeepsOpen /\ UNCHANGED <<db, dirs, m3u, lock, started>>
  BY FrameOf DEF GetMp3Tags, Syscall, Shape, KeepsOpen
<1>2. CASE disk[f.path] = NoFile
  BY <1>1, <1>2, ReturnProceeds, ProceedsControl DEF GetMp3Tags, DataOK
<1>3. CASE disk[f.path] # NoFile
  <2>1. tag \in Tags /\ TitleOf(tag) \in TitleName
    BY <1>1, <1>3, TagsOfType DEF DataOK
  <2>2. k \in SongKey
    BY <2>1 DEF Tags, SongKey
  <2>3. Goto(p, "DropArtist", [f EXCEPT !.to = k]) /\ disk' = [disk EXCEPT ![f.path] = tag]
    BY <1>3 DEF GetMp3Tags
  <2> HIDE DEF k, tag
  <2>4. Proceeds(p)
    BY <1>1, <2>2, <2>3, DropsOn
  <2>5. DiskOK(disk')
    BY <1>1, <2>1, <2>3, WriteFile DEF DataOK
  <2> QED
    BY <1>1, <2>4, <2>5, ProceedsControl DEF DataOK
<1> QED
  BY <1>2, <1>3

LEMMA DropArtistStep ==
    ASSUME ControlOK, DataOK, NEW p \in Process, DropArtist(p)
    PROVE  ControlOK' /\ DataOK'
<1> DEFINE a == Compat[loc[p].to[1]]
           k == <<a, loc[p].to[2], loc[p].to[3]>>
<1>1. /\ loc[p] \in Frame /\ loc[p].to \in SongKey /\ loc[p].path \in Path
      /\ loc[p].victims = {} /\ pc[p] \notin KeepsOpen /\ UNCHANGED <<lock, started>>
  BY FrameOf DEF DropArtist, Session, Shape, KeepsOpen
<1>2. a \in DirName /\ k \in SongKey
  BY <1>1, KeyParts, CompatParts DEF SongKey
<1>3. CASE Refuse(p)
  BY <1>1, <1>3, ReturnProceeds, ProceedsControl DEF Refuse, DataOK, files
<1>4. CASE /\ db' = IF a \in db.artists THEN db ELSE CreateArtistTx(db, a)
           /\ Goto(p, "DropAlbum", [loc[p] EXCEPT !.to = k])
           /\ UNCHANGED files
  <2> HIDE DEF a, k
  <2>1. db' \in Database
    BY <1>2, <1>4, CreateArtistType DEF DataOK
  <2>2. Proceeds(p)
    BY <1>1, <1>2, <1>4, DropsOn
  <2> QED
    BY <1>1, <1>4, <2>1, <2>2, ProceedsControl DEF DataOK, files
<1> QED
  BY <1>3, <1>4 DEF DropArtist

LEMMA DropAlbumStep ==
    ASSUME ControlOK, DataOK, NEW p \in Process, DropAlbum(p)
    PROVE  ControlOK' /\ DataOK'
<1> DEFINE ab == <<loc[p].to[1], Compat[loc[p].to[2]]>>
           k  == <<ab[1], ab[2], loc[p].to[3]>>
<1>1. /\ loc[p] \in Frame /\ loc[p].to \in SongKey /\ loc[p].path \in Path
      /\ loc[p].victims = {} /\ pc[p] \notin KeepsOpen /\ UNCHANGED <<lock, started>>
  BY FrameOf DEF DropAlbum, Session, Shape, KeepsOpen
<1>2. ab \in AlbumKey /\ k \in SongKey
  BY <1>1, KeyParts, CompatParts DEF AlbumKey, SongKey
<1>3. CASE Refuse(p)
  BY <1>1, <1>3, ReturnProceeds, ProceedsControl DEF Refuse, DataOK, files
<1>4. CASE /\ db' = IF ab \in db.albums THEN db ELSE CreateAlbumTx(db, ab)
           /\ Goto(p, "DropFile", [loc[p] EXCEPT !.to = k])
           /\ UNCHANGED files
  <2> HIDE DEF ab, k
  <2>1. db' \in Database
    BY <1>2, <1>4, CreateAlbumType DEF DataOK
  <2>2. Proceeds(p)
    BY <1>1, <1>2, <1>4, DropsOn
  <2> QED
    BY <1>1, <1>4, <2>1, <2>2, ProceedsControl DEF DataOK, files
<1> QED
  BY <1>3, <1>4 DEF DropAlbum

LEMMA DropFileStep ==
    ASSUME ControlOK, DataOK, NEW p \in Process, DropFileInto(p)
    PROVE  ControlOK' /\ DataOK'
<1> DEFINE f == loc[p]
<1>1. /\ f \in Frame /\ f.to \in SongKey /\ f.path \in Path
      /\ f.victims = {} /\ pc[p] \notin KeepsOpen /\ UNCHANGED <<db, m3u, lock, started>>
  BY FrameOf DEF DropFileInto, Syscall, Shape, KeepsOpen
<1>2. dirs' \subseteq Node
  BY <1>1, MkdirAllType DEF DropFileInto, DataOK
<1>3. NewFullPath(f) \in SongKey
  BY <1>1, KeyParts, CompatParts DEF NewFullPath, SongKey
<1>4. DiskOK(Moved(f.path, NewFullPath(f)))
  BY <1>1, <1>3, MovedFile DEF DataOK
<1>5. ASSUME Goto(p, "DropSong", f) PROVE Proceeds(p)
  <2>1. Shape("DropSong", f)
    BY <1>1 DEF Shape, MoveSongsSteps
  <2> QED
    BY <1>1, <1>5, <2>1 DEF Proceeds, Steps, KeepsOpen
<1>6. Proceeds(p) /\ DiskOK(disk')
  BY <1>4, <1>5, ReturnProceeds DEF DropFileInto, DataOK
<1> QED
  BY <1>1, <1>2, <1>6, ProceedsControl DEF DataOK

LEMMA DropSongStep ==
    ASSUME ControlOK, DataOK, NEW p \in Process, DropSong(p)
    PROVE  ControlOK' /\ DataOK'
<1> DEFINE k == NewFullPath(loc[p])
<1>1. /\ loc[p].to \in SongKey /\ pc[p] \notin KeepsOpen
      /\ Return(p) /\ UNCHANGED <<files, lock, started>>
  BY FrameOf DEF DropSong, Session, Shape, KeepsOpen
<1>2. k \in SongKey
  BY <1>1, KeyParts, CompatParts DEF NewFullPath, SongKey
<1>3. db' = db \/ db' = CreateSongTx(db, k, k)
  BY DEF DropSong
<1> HIDE DEF k
<1>4. db' \in Database
  BY <1>2, <1>3, CreateSongType DEF DataOK, Path
<1> QED
  BY <1>1, <1>4, ReturnProceeds, ProceedsControl DEF DataOK, files

----------------------------------------------------------------------------
LEMMA InitOK == Init => ControlOK /\ DataOK
<1> SUFFICES ASSUME Init PROVE ControlOK /\ DataOK
  OBVIOUS
<1>1. PICK i \in Initial : db = i.db /\ disk = i.disk /\ dirs = i.dirs
  BY DEF Init
<1>2. ControlOK
  BY BlankFrame, LibraryAssumption DEF Init, ControlOK, Steps, KeepsOpen
<1>3. m3u \in [Playlist -> (SUBSET PlaylistFile) \cup {NoFile}]
  BY <1>1, InitialAssumption, EntriesOfType DEF Init
<1>4. DataOK
  BY <1>1, <1>3, InitialAssumption, LibraryAssumption DEF Init, DataOK, DiskOK
<1> QED
  BY <1>2, <1>4

LEMMA StutterOK ==
    ASSUME ControlOK, DataOK, UNCHANGED vars
    PROVE  ControlOK' /\ DataOK'
  BY DEF ControlOK, DataOK, DiskOK, Shape, vars

LEMMA NextOK ==
    ASSUME ControlOK, DataOK, [Next]_vars
    PROVE  ControlOK' /\ DataOK'
<1>1. ASSUME NEW p \in Process, Step(p) PROVE ControlOK' /\ DataOK'
  BY <1>1, CreateArtistStep, CreateAlbumStep, MkdirNewStep, CreateSongStep, CreateFileStep,
     ReleaseSongStep, ReleaseTagsStep, GetFilePathStep, DeleteSongStep, RemoveFileStep,
     DeleteArtistStep, DeleteAlbumStep, VictimsStep, MoveArtistStep, NewArtistStep,
     EndArtistStep, MoveAlbumStep, NewAlbumStep, EndAlbumStep, MoveSongsStep, UnlistStep,
     RenameFileStep, DeleteOldStep, SetMp3TagsStep, CreateNewStep, AddPathStep,
     AddEntryStep, RegenerateStep, GetMp3TagsStep, DropArtistStep, DropAlbumStep,
     DropFileStep, DropSongStep
     DEF Step
<1> QED
  BY <1>1, StartKeeps, StutterOK DEF Next, Finished

(***************************************************************************)
(* Every variable keeps its type, whatever the handlers do in whatever     *)
(* order, and the flock is held exactly by the handler that is still at    *)
(* work inside a session.                                                  *)
(***************************************************************************)
THEOREM TypeCorrect == Spec => []TypeOK
<1>1. ControlOK /\ DataOK => TypeOK
  BY DEF ControlOK, DataOK, DiskOK, TypeOK
<1>2. ControlOK /\ DataOK /\ [Next]_vars => (ControlOK /\ DataOK)'
  BY NextOK
<1> QED
  BY <1>1, <1>2, InitOK, PTL DEF Spec

----------------------------------------------------------------------------
(***************************************************************************)
(* Two theorems about the music files that the handlers of Library share.  *)
(*                                                                         *)
(* The argument.  Every song is filed under its own key, or under the path *)
(* of a scanned file, which nothing is ever created at (Filed).  A step    *)
(* either adds no song and moves none to another file, or it creates one   *)
(* song under its own key, which only a handler that finds the database    *)
(* closed can do (PathsStep): this gives DistinctFilesHold.  A handler     *)
(* with files to remove holds the lock (ControlOK), so that nothing is     *)
(* created then, and when DeleteArtist begins the songs that are left have *)
(* other files than its victims (DistinctFiles): ArtistVictimsStayGone.    *)
(***************************************************************************)

Filed(d) ==
    /\ \A k \in SongKey : d.songs[k] # NoSong =>
          d.songs[k].path \in {k} \cup (OtherPath \ DropFile)
    /\ \A k, l \in SongKey : k # l /\ d.songs[k] # NoSong /\ d.songs[l] # NoSong =>
          d.songs[k].path # d.songs[l].path

LEMMA KeepsFiled ==
    ASSUME NEW d, NEW e, Filed(d), KeepsPaths(d, e)
    PROVE  Filed(e)
  BY DEF Filed, KeepsPaths

LEMMA CreatesFiled ==
    ASSUME NEW d \in Database, Filed(d), NEW k \in SongKey
    PROVE  Filed(CreateSongTx(d, k, k))
<1> DEFINE e == CreateSongTx(d, k, k)
<1>1. /\ e.songs[k].path = k
      /\ \A l \in SongKey : l # k => e.songs[l] = d.songs[l]
  BY CreateSongPaths
<1> HIDE DEF e
<1>2. \A l \in SongKey : l # k /\ e.songs[l] # NoSong => e.songs[l].path # k
  BY <1>1, SentinelAssumption DEF Filed
<1>3. Filed(e)
  BY <1>1, <1>2 DEF Filed
<1> QED
  BY <1>3 DEF e

----------------------------------------------------------------------------
(* What a step does to the paths of the songs.                             *)

\* A song is made under its own compatible name, in an album that exists.
CreatesAt(k) ==
    Compat[k[3]] = k[3] /\ HasAlbum(db, AlbumOf(k)) /\ db' = CreateSongTx(db, k, k)

Creates == lock = Free /\ \E k \in SongKey : CreatesAt(k)

PathsStep == KeepsPaths(db, db') \/ Creates

LEMMA SameDatabase ==
    ASSUME db' = db
    PROVE  PathsStep
  BY SongsKept DEF PathsStep

LEMMA DeleteSongThenPaths ==
    ASSUME DataOK, NEW p, NEW k \in SongKey, NEW next, DeleteSongThen(p, k, next)
    PROVE  PathsStep
  BY DeleteSongKeeps DEF DeleteSongThen, PathsStep, DataOK

LEMMA StepPaths ==
    ASSUME ControlOK, DataOK, NEW p \in Process, Step(p)
    PROVE  PathsStep
<1>1. loc[p] \in Frame /\ Shape(pc[p], loc[p]) /\ db \in Database
  BY FrameOf DEF DataOK
<1>2. CASE \/ MkdirNew(p) \/ CreateFile(p) \/ ReleaseTags(p) \/ RemoveFile(p)
           \/ MoveArtist(p) \/ MoveAlbum(p) \/ RenameFile(p) \/ SetMp3Tags(p)
           \/ GetMp3Tags(p) \/ DropFileInto(p)
  BY <1>2, SameDatabase
     DEF MkdirNew, CreateFile, ReleaseTags, RemoveFile, MoveArtist, MoveAlbum,
         RenameFile, SetMp3Tags, GetMp3Tags, DropFileInto, Syscall
<1>3. CASE \/ ReleaseSong(p) \/ GetFilePath(p) \/ Victims(p) \/ MoveSongs(p)
           \/ AddPath(p) \/ Regenerate(p)
  BY <1>3, SameDatabase DEF ReleaseSong, GetFilePath, Victims, MoveSongs, AddPath, Regenerate
<1>4. CASE CreateArtist(p)
  BY <1>1, <1>4, SameDatabase, CreateArtistKeeps DEF CreateArtist, Refuse, PathsStep
<1>5. CASE CreateAlbum(p)
  BY <1>1, <1>5, SameDatabase, CreateAlbumKeeps DEF CreateAlbum, Refuse, PathsStep
<1>6. CASE CreateSong(p)
  <2> DEFINE k == <<loc[p].to[1], loc[p].to[2], Compat[loc[p].to[3]]>>
  <2>1. k \in SongKey
    BY <1>1, <1>6, KeyParts, CompatParts DEF CreateSong, Session, Shape, SongKey
  <2>2. Compat[k[3]] = k[3]
    BY <1>1, <1>6, KeyParts, NamesAssumption DEF CreateSong, Session, Shape
  <2>3. lock = Free /\ (db' = db \/ (HasAlbum(db, AlbumOf(k)) /\ db' = CreateSongTx(db, k, k)))
    BY <1>6 DEF CreateSong, Session, Refuse
  <2> HIDE DEF k
  <2> QED
    BY <2>1, <2>2, <2>3, SameDatabase DEF PathsStep, Creates, CreatesAt
<1>7. CASE DeleteSong(p)
  <2>1. loc[p].from \in SongKey
    BY <1>1, <1>7 DEF DeleteSong, Session, Shape
  <2> QED
    BY <1>7, <2>1, SameDatabase, DeleteSongThenPaths DEF DeleteSong, Refuse
<1>8. CASE DeleteArtist(p)
  BY <1>1, <1>8, DeleteArtistKeeps DEF DeleteArtist, PathsStep
<1>9. CASE DeleteAlbum(p)
  BY <1>1, <1>9, SameDatabase, DeleteAlbumKeeps DEF DeleteAlbum, Refuse, PathsStep
<1>10. CASE NewArtist(p)
  BY <1>1, <1>10, SameDatabase, ProcessNewArtistKeeps DEF NewArtist, PathsStep
<1>11. CASE EndArtist(p)
  BY <1>1, <1>11, DeleteArtistKeeps DEF EndArtist, PathsStep
<1>12. CASE NewAlbum(p)
  BY <1>1, <1>12, SameDatabase, ProcessNewAlbumKeeps DEF NewAlbum, PathsStep
<1>13. CASE EndAlbum(p)
  BY <1>1, <1>13, DeleteAlbumKeeps DEF EndAlbum, PathsStep
<1>14. CASE Unlist(p)
  BY <1>1, <1>14, UnlistKeeps DEF Unlist, PathsStep
<1>15. CASE DeleteOld(p)
  <2>1. loc[p].from \in SongKey
    BY <1>1, <1>15 DEF DeleteOld, Session, Shape, MoveSongsSteps
  <2> QED
    BY <1>15, <2>1, SameDatabase, DeleteSongThenPaths DEF DeleteOld
<1>16. CASE CreateNew(p)
  <2> DEFINE k == NewFullPath(loc[p])
  <2>1. k \in SongKey
    BY <1>16, MovingFrame, NewFullPathType DEF CreateNew, Session, MoveSongsSteps
  <2>2. Compat[k[3]] = k[3] /\ AlbumOf(k) = AlbumOf(loc[p].to)
    BY <1>1, <1>16, KeyParts, NamesAssumption
       DEF CreateNew, Session, Shape, MoveSongsSteps, NewFullPath, AlbumOf
  <2>3. \/ db' = db
        \/ lock = Free /\ HasAlbum(db, AlbumOf(loc[p].to)) /\ db' = CreateSongTx(db, k, k)
    BY <1>16 DEF CreateNew, Session
  <2> HIDE DEF k
  <2> QED
    BY <2>1, <2>2, <2>3, SameDatabase DEF PathsStep, Creates, CreatesAt
<1>17. CASE AddEntry(p)
  <2>1. loc[p].to \in SongKey
    BY <1>1, <1>17 DEF AddEntry, Session, Shape, MoveSongsSteps
  <2>2. \/ db' = db
        \/ /\ db.songs[loc[p].to] # NoSong
           /\ db' = AddFileToPlaylistTx(db, Head(loc[p].todo), loc[p].to, loc[p].path)
    BY <1>17 DEF AddEntry
  <2> QED
    BY <1>1, <2>1, <2>2, SameDatabase, AddFileToPlaylistKeeps DEF PathsStep
<1>18. CASE DropArtist(p)
  BY <1>1, <1>18, SameDatabase, CreateArtistKeeps DEF DropArtist, Refuse, PathsStep
<1>19. CASE DropAlbum(p)
  BY <1>1, <1>19, SameDatabase, CreateAlbumKeeps DEF DropAlbum, Refuse, PathsStep
<1>20. CASE DropSong(p)
  <2> DEFINE k == NewFullPath(loc[p])
  <2>1. k \in SongKey
    BY <1>1, <1>20, KeyParts, CompatParts DEF DropSong, Session, Shape, NewFullPath, SongKey
  <2>2. Compat[k[3]] = k[3]
    BY <1>1, <1>20, KeyParts, NamesAssumption DEF DropSong, Session, Shape, NewFullPath
  <2>3. \/ db' = db
        \/ lock = Free /\ HasAlbum(db, AlbumOf(k)) /\ db' = CreateSongTx(db, k, k)
    BY <1>20 DEF DropSong, Session
  <2> HIDE DEF k
  <2> QED
    BY <2>1, <2>2, <2>3, SameDatabase DEF PathsStep, Creates, CreatesAt
<1> QED
  BY <1>2, <1>3, <1>4, <1>5, <1>6, <1>7, <1>8, <1>9, <1>10, <1>11, <1>12, <1>13,
     <1>14, <1>15, <1>16, <1>17, <1>18, <1>19, <1>20 DEF Step

LEMMA NextPaths ==
    ASSUME ControlOK, DataOK, [Next]_vars
    PROVE  PathsStep
<1>1. ASSUME NEW p \in Process, NEW r \in Requests, Start(p, r) PROVE db' = db
  BY <1>1 DEF Start
<1>2. CASE UNCHANGED vars
  BY <1>2, SameDatabase DEF vars
<1> QED
  BY <1>1, <1>2, StepPaths, SameDatabase DEF Next, Finished

LEMMA InitFiled == Init => Filed(db)
<1> SUFFICES ASSUME Init PROVE Filed(db)
  OBVIOUS
<1>1. PICK i \in Initial : db = i.db
  BY DEF Init
<1> QED
  BY <1>1, InitialAssumption DEF Filed

LEMMA NextFiled ==
    ASSUME ControlOK, DataOK, Filed(db), [Next]_vars
    PROVE  Filed(db)'
  BY NextPaths, KeepsFiled, CreatesFiled DEF PathsStep, Creates, CreatesAt, DataOK

(***************************************************************************)
(* No two songs ever share a music file, whatever the handlers do in       *)
(* whatever order: neither a song that is created, moved or dropped at a   *)
(* name that is taken, nor one moved to where a scanned song lives.        *)
(***************************************************************************)
THEOREM DistinctFilesHold == Spec => []DistinctFiles
<1>1. Filed(db) => DistinctFiles
  BY DEF Filed, DistinctFiles
<1>2. ControlOK /\ DataOK /\ Filed(db) /\ [Next]_vars => (ControlOK /\ DataOK /\ Filed(db))'
  BY NextOK, NextFiled
<1> QED
  BY <1>1, <1>2, InitOK, InitFiled, PTL DEF Spec

----------------------------------------------------------------------------
(* What a step changes in the frames, and in the victims of a handler.      *)

\* Each step ends with one process going on.
GoesOn(p) == \E step, f : Goto(p, step, f)

LEMMA ReturnGoesOn ==
    ASSUME NEW p \in Process, Return(p)
    PROVE  GoesOn(p)
  BY DEF Return, GoesOn

LEMMA AlbumGoesOn ==
    ASSUME NEW p \in Process, NEW f, NextAlbum(p, f) \/ AlbumReturn(p, f)
    PROVE  GoesOn(p)
  BY ReturnGoesOn DEF NextAlbum, AlbumReturn, GoesOn

LEMMA SongGoesOn ==
    ASSUME NEW p \in Process, NEW f, NextSong(p, f) \/ SongReturn(p, f)
    PROVE  GoesOn(p)
  BY ReturnGoesOn DEF NextSong, SongReturn, GoesOn

LEMMA StepGoesOn ==
    ASSUME NEW p \in Process, Step(p)
    PROVE  GoesOn(p)
<1>1. \A step, f : Goto(p, step, f) => GoesOn(p)
  BY DEF GoesOn
<1>2. CASE \/ MkdirNew(p) \/ CreateFile(p) \/ ReleaseTags(p) \/ RemoveFile(p)
           \/ EndArtist(p) \/ DropSong(p)
  BY <1>2, ReturnGoesOn DEF MkdirNew, CreateFile, ReleaseTags, RemoveFile, EndArtist, DropSong
<1>3. CASE \/ CreateArtist(p) \/ CreateAlbum(p) \/ CreateSong(p)
           \/ ReleaseSong(p) \/ GetFilePath(p)
  BY <1>1, <1>3, ReturnGoesOn
     DEF CreateArtist, CreateAlbum, CreateSong, ReleaseSong, GetFilePath, Refuse
<1>4. CASE \/ GetMp3Tags(p) \/ DropArtist(p) \/ DropAlbum(p) \/ DropFileInto(p)
  BY <1>1, <1>4, ReturnGoesOn DEF GetMp3Tags, DropArtist, DropAlbum, DropFileInto, Refuse
<1>5. CASE DeleteSong(p) \/ DeleteOld(p)
  BY <1>1, <1>5, ReturnGoesOn, SongGoesOn
     DEF DeleteSong, DeleteOld, DeleteSongThen, Refuse
<1>6. CASE DeleteArtist(p) \/ DeleteAlbum(p) \/ Victims(p)
  BY <1>1, <1>6, ReturnGoesOn DEF DeleteArtist, DeleteAlbum, Victims, RemoveVictims, Refuse
<1>7. CASE MoveArtist(p) \/ NewArtist(p)
  BY <1>1, <1>7, ReturnGoesOn, AlbumGoesOn DEF MoveArtist, NewArtist
<1>8. CASE MoveAlbum(p) \/ NewAlbum(p) \/ EndAlbum(p)
  BY <1>1, <1>8, SongGoesOn, AlbumGoesOn DEF MoveAlbum, NewAlbum, EndAlbum
<1>9. CASE MoveSongs(p) \/ Unlist(p) \/ RenameFile(p) \/ SetMp3Tags(p) \/ AddPath(p) \/ AddEntry(p)
  BY <1>1, <1>9, SongGoesOn DEF MoveSongs, Unlist, RenameFile, SetMp3Tags, AddPath, AddEntry
<1>10. CASE CreateNew(p) \/ Regenerate(p)
  BY <1>1, <1>10, SongGoesOn DEF CreateNew, Regenerate
<1> QED
  BY <1>2, <1>3, <1>4, <1>5, <1>6, <1>7, <1>8, <1>9, <1>10 DEF Step

\* A step of p moves no other process on.
Local(p) == \A q \in Process : q # p => pc'[q] = pc[q] /\ loc'[q] = loc[q]

LEMMA GoesOnLocal ==
    ASSUME ControlOK, NEW p \in Process, GoesOn(p)
    PROVE  Local(p)
  BY DEF ControlOK, Goto, GoesOn, Local

LEMMA StepLocal ==
    ASSUME ControlOK, NEW p \in Process, Step(p)
    PROVE  Local(p)
  BY StepGoesOn, GoesOnLocal

(***************************************************************************)
(* A step that ends with the database file open: one of those that delete, *)
(* or the step to "Nested", which keeps the frame.                         *)
(***************************************************************************)
LEMMA StepLock ==
    ASSUME ControlOK, NEW p \in Process, Step(p), lock' = p
    PROVE  loc'[p] = loc[p] \/ DeleteArtist(p) \/ DeleteAlbum(p) \/ Victims(p)
<1>1. CASE \/ \E step \in Steps \ KeepsOpen : Syscall(p, step)
           \/ \E step : Session(p, step)
  <2>1. lock = p /\ pc[p] \in KeepsOpen
    BY <1>1, LibraryAssumption DEF Syscall, Session, ControlOK
  <2> QED
    BY <1>1, <2>1, LibraryAssumption DEF Syscall, Session
<1>2. CASE \E k, next : DeleteSongThen(p, k, next)
  BY <1>2 DEF DeleteSongThen, Goto, ControlOK
<1>3. CASE \/ CreateArtist(p) \/ CreateAlbum(p) \/ CreateSong(p) \/ ReleaseSong(p)
           \/ GetFilePath(p) \/ NewArtist(p) \/ EndArtist(p) \/ NewAlbum(p) \/ EndAlbum(p)
  BY <1>1, <1>3
     DEF CreateArtist, CreateAlbum, CreateSong, ReleaseSong, GetFilePath, NewArtist,
         EndArtist, NewAlbum, EndAlbum
<1>4. CASE \/ MoveSongs(p) \/ Unlist(p) \/ CreateNew(p) \/ AddPath(p) \/ AddEntry(p)
           \/ Regenerate(p) \/ DropArtist(p) \/ DropAlbum(p) \/ DropSong(p)
  BY <1>1, <1>4
     DEF MoveSongs, Unlist, CreateNew, AddPath, AddEntry, Regenerate, DropArtist,
         DropAlbum, DropSong
<1>5. CASE DeleteSong(p) \/ DeleteOld(p)
  BY <1>1, <1>2, <1>5 DEF DeleteSong, DeleteOld
<1>6. CASE \/ MkdirNew(p) \/ CreateFile(p) \/ ReleaseTags(p) \/ RemoveFile(p) \/ MoveArtist(p)
           \/ MoveAlbum(p) \/ RenameFile(p) \/ SetMp3Tags(p) \/ GetMp3Tags(p) \/ DropFileInto(p)
  <2>1. {"MkdirNew", "CreateFile", "ReleaseTags", "RemoveFile", "MoveArtist", "MoveAlbum",
         "RenameFile", "SetMp3Tags", "GetMp3Tags", "DropFile"} \subseteq Steps \ KeepsOpen
    BY DEF Steps, KeepsOpen
  <2> QED
    BY <1>1, <1>6, <2>1
       DEF MkdirNew, CreateFile, ReleaseTags, RemoveFile, MoveArtist, MoveAlbum,
           RenameFile, SetMp3Tags, GetMp3Tags, DropFileInto
<1> QED
  BY <1>3, <1>4, <1>5, <1>6 DEF Step

\* Frames gain victims only when one of the functions that delete begins.
KeepsVictims(q) == loc'[q].req = loc[q].req /\ loc'[q].victims \subseteq loc[q].victims

LEMMA VictimsFrame ==
    ASSUME ControlOK, NEW p \in Process, Victims(p)
    PROVE  loc'[p].victims = {} \/ KeepsVictims(p)
<1>1. loc[p] \in Frame /\ loc \in [Process -> Frame]
  BY DEF ControlOK
<1>2. CASE Goto(p, "Nested", loc[p])
  BY <1>1, <1>2 DEF Goto, KeepsVictims
<1>3. CASE Return(p)
  BY <1>1, <1>3 DEF Return, Goto, Blank
<1>4. ASSUME NEW v, Goto(p, "Victims", [loc[p] EXCEPT !.victims = @ \ {v}])
      PROVE  KeepsVictims(p)
  BY <1>1, <1>4 DEF Goto, KeepsVictims, Frame
<1> QED
  BY <1>2, <1>3, <1>4 DEF Victims

LEMMA NextVictims ==
    ASSUME ControlOK, ControlOK', [Next]_vars, NEW q \in Process
    PROVE  \/ loc'[q].victims = {} \/ KeepsVictims(q)
           \/ DeleteArtist(q) \/ DeleteAlbum(q)
<1>1. CASE pc'[q] \notin KeepsOpen
  BY <1>1 DEF ControlOK, Shape
<1>2. CASE pc'[q] \in KeepsOpen
  <2>1. lock' = q
    BY <1>2 DEF ControlOK
  <2>2. CASE UNCHANGED vars
    BY <2>2 DEF vars, KeepsVictims
  <2>3. ASSUME NEW p \in Process, NEW r \in Requests, Start(p, r) PROVE KeepsVictims(q)
    <3>1. p # q
      BY <2>1, <2>3 DEF Start, ControlOK, KeepsOpen
    <3> QED
      BY <2>3, <3>1, GoesOnLocal DEF Start, GoesOn, Local, KeepsVictims
  <2>4. ASSUME NEW p \in Process, Step(p), p # q PROVE KeepsVictims(q)
    BY <2>4, StepLocal DEF Local, KeepsVictims
  <2>5. CASE Step(q)
    BY <2>1, <2>5, StepLock, VictimsFrame DEF KeepsVictims
  <2> QED
    BY <2>2, <2>3, <2>4, <2>5 DEF Next, Finished
<1> QED
  BY <1>1, <1>2

----------------------------------------------------------------------------
LEMMA InitVictims == Init => ArtistVictimsAreGone
  BY DEF Init, ArtistVictimsAreGone, VictimsAreGone, Blank

LEMMA DeleteArtistVictims ==
    ASSUME ControlOK, DataOK, Filed(db), NEW p \in Process, DeleteArtist(p)
    PROVE  VictimsAreGone(p)'
<1> DEFINE a       == loc[p].from[1]
           songs   == {k \in SongKey : k[1] = a /\ db.songs[k] # NoSong}
           victims == {db.songs[k] : k \in songs}
<1>1. loc[p] \in Frame /\ loc \in [Process -> Frame] /\ db \in Database
  BY DEF ControlOK, DataOK
<1>2. loc'[p].victims \subseteq victims
  <2>1. CASE Return(p)
    BY <1>1, <2>1 DEF Return, Goto, Blank
  <2>2. CASE Goto(p, "Victims", [loc[p] EXCEPT !.victims = victims])
    BY <1>1, <2>2 DEF Goto, Frame
  <2> QED
    BY <2>1, <2>2 DEF DeleteArtist, RemoveVictims
<1>3. db'.songs = [k \in SongKey |-> IF k[1] = a THEN NoSong ELSE db.songs[k]]
  BY <1>1 DEF DeleteArtist, DeleteArtistBucket, Database
<1>4. ASSUME NEW v \in victims, NEW k \in SongKey, db'.songs[k] # NoSong
      PROVE  db'.songs[k].path # v.path
  <2>1. PICK l \in songs : v = db.songs[l]
    OBVIOUS
  <2>2. k # l /\ db'.songs[k] = db.songs[k]
    BY <1>3, <1>4, <2>1
  <2> QED
    BY <1>4, <2>1, <2>2 DEF Filed
<1> HIDE DEF victims
<1> QED
  BY <1>2, <1>4 DEF VictimsAreGone

LEMMA NextArtistVictims ==
    ASSUME ControlOK, DataOK, Filed(db), ArtistVictimsAreGone, ControlOK', [Next]_vars
    PROVE  ArtistVictimsAreGone'
<1> SUFFICES ASSUME NEW q \in Process, loc'[q].req.op = "remove", Len(loc'[q].req.from) = 1
             PROVE  VictimsAreGone(q)'
  BY DEF ArtistVictimsAreGone
<1>1. CASE loc'[q].victims = {}
  BY <1>1 DEF VictimsAreGone
<1>2. CASE KeepsVictims(q)
  <2>1. VictimsAreGone(q)
    BY <1>2 DEF KeepsVictims, ArtistVictimsAreGone
  <2>2. CASE KeepsPaths(db, db')
    BY <1>2, <2>1, <2>2 DEF KeepsPaths, KeepsVictims, VictimsAreGone
  <2>3. CASE lock = Free
    <3>1. pc[q] \notin KeepsOpen
      BY <2>3, LibraryAssumption DEF ControlOK
    <3>2. loc[q].victims = {}
      BY <3>1 DEF ControlOK, Shape
    <3> QED
      BY <1>2, <3>2 DEF KeepsVictims, VictimsAreGone
  <2> QED
    BY <2>2, <2>3, NextPaths DEF PathsStep, Creates
<1>3. CASE DeleteArtist(q)
  BY <1>3, DeleteArtistVictims
<1>4. CASE DeleteAlbum(q)
  <2>1. loc[q] \in Frame /\ loc \in [Process -> Frame] /\ loc[q].req.from \in AlbumKey
    BY <1>4 DEF ControlOK, DeleteAlbum, Shape
  <2>2. loc'[q].req = loc[q].req \/ loc'[q].victims = {}
    <3>1. CASE Return(q)
      BY <2>1, <3>1 DEF Return, Goto, Blank
    <3>2. ASSUME NEW victims, Goto(q, "Victims", [loc[q] EXCEPT !.victims = victims])
          PROVE  loc'[q].req = loc[q].req
      BY <2>1, <3>2 DEF Goto, Frame
    <3> QED
      BY <1>4, <3>1, <3>2 DEF DeleteAlbum, RemoveVictims, Refuse
  <2>3. Len(loc[q].req.from) = 2
    BY <2>1 DEF AlbumKey
  <2> QED
    BY <1>1, <2>2, <2>3
<1> QED
  BY <1>1, <1>2, <1>3, <1>4, NextVictims

(***************************************************************************)
(* While DeleteArtist removes the files of the songs it has dropped from   *)
(* the database, none of them is the file of a song of the library,        *)
(* whatever the other handlers make of the artist's name meanwhile.        *)
(***************************************************************************)
THEOREM ArtistVictimsStayGone == Spec => []ArtistVictimsAreGone
<1> DEFINE Inv == ControlOK /\ DataOK /\ Filed(db) /\ ArtistVictimsAreGone
<1>1. Init => Inv
  BY InitOK, InitFiled, InitVictims
<1>2. Inv /\ [Next]_vars => Inv'
  BY NextOK, NextFiled, NextArtistVictims
<1> QED
  BY <1>1, <1>2, PTL DEF Spec
=============================================================================
