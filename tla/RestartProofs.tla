--------------------------- MODULE RestartProofs ---------------------------
(***************************************************************************)
(* Theorems about MuLi stopped at any moment and started again, for any    *)
(* names, requests, clients and libraries, any order of the files and any  *)
(* number of stops.                                                        *)
(*                                                                         *)
(* The argument.  RestartInv is the type invariant with what main.go's     *)
(* order gives: while it starts, no handler is at work (Down), and each    *)
(* step of the start finds what the step before it has left (PhaseOK).     *)
(*                                                                         *)
(* Three invariants describe the scan.  WalkOK: the files that Walk has    *)
(* come to have their songs in the database, each read from the last of    *)
(* them that names it, which the next file keeps because it comes later.   *)
(* KeptOK: while a library that was scanned before is scanned again, the   *)
(* database is that library but for songs that a file still to come will   *)
(* set right.  ListsOK: a playlist file that the scan is done with is the  *)
(* file of a playlist.  KeptOK needs ListsOK, or the scan of the playlists *)
(* could make a new one; and ListsOK needs that a handler writes a file    *)
(* only from the database it leaves (FilesStep), and that the names of     *)
(* playlists have gone through GetCompatibleString (CompatLists).          *)
(***************************************************************************)
EXTENDS Restart, PlaylistsProofs

----------------------------------------------------------------------------
(* What a step of the mounted filesystem may do to a playlist file.        *)

\* The file of pl is written from a database that the step leaves as it is.
Writes(pl) ==
    pl \in db.playlists /\ m3u' = [m3u EXCEPT ![pl] = EntriesOf(db, pl)] /\ db' = db

FilesStep ==
    \A pl \in Playlist : m3u'[pl] # m3u[pl] => m3u'[pl] = NoFile \/ Writes(pl)

CompatLists(d) == \A pl \in d.playlists : ListCompat[pl] = pl

LEMMA ListStepCall ==
    ASSUME NEW p \in Process, ListStep(p)
    PROVE  /\ \E c : Becomes(p, c)
           /\ GoesOn(p) \/ UNCHANGED <<pc, loc>>
           /\ pc[p] = "idle"
           /\ call[p].step = "RegenerateList" => RegenerateList(p)
<1>1. CASE CreatePlaylist(p) \/ DeletePlaylist(p) \/ RenamePlaylist(p)
  BY <1>1 DEF CreatePlaylist, DeletePlaylist, RenamePlaylist, ListSession, At, Done
<1>2. CASE RegenerateList(p)
  BY <1>2 DEF RegenerateList, ListSession, At, Done
<1>3. CASE getPlaylistFile(p) \/ FindSong(p)
  BY <1>3 DEF getPlaylistFile, FindSong, At, Done, Proceed, GoesOn
<1>4. CASE FindFiled(p) \/ AddSongPath(p) \/ AddSongEntry(p)
  BY <1>4 DEF FindFiled, AddSongPath, AddSongEntry, ListSession, At, Proceed
<1>5. CASE RemoveDropped(p)
  BY <1>5 DEF RemoveDropped, At, Done, Proceed
<1> QED
  BY <1>1, <1>2, <1>3, <1>4, <1>5 DEF ListStep

\* A frame at RegenerateList is left only by writing the file.
LEMMA LeavesRegenerateList ==
    ASSUME ListInv, ListNext, NEW p \in Process, call[p].step = "RegenerateList",
           call'[p] # call[p]
    PROVE  RegenerateList(p)
<1>1. \A q \in Process : \A c : q # p /\ Becomes(q, c) => call'[p] = call[p]
  BY DEF Becomes, ListInv, CallsOK
<1>2. ASSUME NEW q \in Process, LibraryStep(q) PROVE FALSE
  BY <1>1, <1>2, LibraryCall
<1>3. ASSUME NEW q \in Process, ListStep(q) PROVE RegenerateList(p)
  BY <1>1, <1>3, ListStepCall
<1>4. ASSUME NEW q \in Process, NEW r \in Requests, LibraryStart(q, r) PROVE FALSE
  BY <1>4 DEF LibraryStart, listVars
<1>5. ASSUME NEW q \in Process, NEW r \in ListRequests, StartList(q, r) PROVE FALSE
  BY <1>1, <1>5 DEF StartList, Idle, NoCall
<1>6. ASSUME NEW f \in ListDrop, HandleSong(f) PROVE FALSE
  <2>1. Dispatcher \in Process
    BY DEF Process
  <2> QED
    BY <1>1, <1>6, <2>1 DEF HandleSong, Idle, NoCall
<1>7. ASSUME NEW f \in ListDrop, CreateInList(f) \/ \E t \in Content : CloseInList(f, t)
      PROVE  FALSE
  BY <1>7 DEF CreateInList, CloseInList
<1>8. ASSUME UNCHANGED <<vars, listVars>> PROVE FALSE
  BY <1>8 DEF listVars
<1> QED
  BY <1>2, <1>3, <1>4, <1>5, <1>6, <1>7, <1>8 DEF ListNext

\* A process at Regenerate goes on only by writing the file.
LEMMA LeavesRegenerate ==
    ASSUME ListInv, ListNext, NEW p \in Process, pc[p] = "Regenerate", pc'[p] # pc[p]
    PROVE  Regenerate(p)
<1>1. \A q \in Process : q # p /\ GoesOn(q) => pc'[p] = pc[p]
  BY DEF GoesOn, Goto, ListInv, ControlOK
<1>2. ASSUME NEW q \in Process, LibraryStep(q) PROVE Regenerate(p)
  <2>1. Step(q) /\ GoesOn(q)
    BY <1>2, StepGoesOn DEF LibraryStep
  <2>2. q = p
    BY <1>1, <2>1
  <2>3. ~AddEntry(p)
    BY DEF AddEntry, Session
  <2> QED
    BY <2>1, <2>2, <2>3, LibraryLists DEF ListInv
<1>3. ASSUME NEW q \in Process, ListStep(q) PROVE FALSE
  BY <1>1, <1>3, ListStepCall
<1>4. ASSUME NEW q \in Process, NEW r \in Requests, LibraryStart(q, r) PROVE FALSE
  <2>1. pc[q] = "idle" /\ GoesOn(q)
    BY <1>4 DEF LibraryStart, Start, GoesOn
  <2> QED
    BY <1>1, <2>1
<1>5. CASE \/ \E q \in Process, r \in ListRequests : StartList(q, r)
           \/ \E f \in ListDrop : CreateInList(f) \/ HandleSong(f)
                                  \/ \E t \in Content : CloseInList(f, t)
           \/ UNCHANGED <<vars, listVars>>
  BY <1>5 DEF StartList, CreateInList, HandleSong, CloseInList, vars
<1> QED
  BY <1>2, <1>3, <1>4, <1>5 DEF ListNext

LEMMA ListNextFilesStep ==
    ASSUME ListInv, ListNext
    PROVE  FilesStep
<1>1. m3u \in [Playlist -> (SUBSET PlaylistFile) \cup {NoFile}]
  BY DEF ListInv, DataOK
<1>2. ASSUME UNCHANGED m3u PROVE FilesStep
  BY <1>2 DEF FilesStep
<1>3. ASSUME NEW pl, m3u' = [m3u EXCEPT ![pl] = NoFile] PROVE FilesStep
  BY <1>1, <1>3 DEF FilesStep
<1>4. ASSUME NEW pl, UNCHANGED db,
             m3u' = IF pl \in db.playlists THEN [m3u EXCEPT ![pl] = EntriesOf(db, pl)] ELSE m3u
      PROVE  FilesStep
  <2>1. ASSUME NEW q \in Playlist, m3u'[q] # m3u[q] PROVE q = pl /\ pl \in db.playlists
    BY <1>1, <1>4, <2>1
  <2> QED
    BY <1>4, <2>1 DEF FilesStep, Writes
<1>5. ASSUME NEW p \in Process, LibraryStep(p) PROVE FilesStep
  <2>1. \/ UNCHANGED m3u
        \/ Regenerate(p)
    BY <1>5, LibraryLists DEF LibraryStep, ListInv, AddEntry, Session, files
  <2>2. ASSUME Regenerate(p) PROVE FilesStep
    BY <1>4, <2>2 DEF Regenerate, Session
  <2> QED
    BY <1>2, <2>1, <2>2
<1>6. ASSUME NEW p \in Process, ListStep(p) PROVE FilesStep
  <2>1. CASE RegenerateList(p)
    BY <1>4, <2>1 DEF RegenerateList
  <2>2. CASE DeletePlaylist(p) \/ RenamePlaylist(p)
    BY <1>2, <1>3, <2>2 DEF DeletePlaylist, RenamePlaylist
  <2>3. CASE \/ CreatePlaylist(p) \/ getPlaylistFile(p) \/ FindSong(p) \/ FindFiled(p)
             \/ AddSongPath(p) \/ AddSongEntry(p) \/ RemoveDropped(p)
    BY <1>2, <2>3 DEF CreatePlaylist, getPlaylistFile, FindSong, FindFiled, AddSongPath,
                      AddSongEntry, RemoveDropped, files
  <2> QED
    BY <1>6, <2>1, <2>2, <2>3 DEF ListStep
<1>7. ASSUME \/ \E p \in Process, r \in Requests : LibraryStart(p, r)
             \/ \E p \in Process, r \in ListRequests : StartList(p, r)
             \/ \E f \in ListDrop : CreateInList(f) \/ HandleSong(f)
                                    \/ \E t \in Content : CloseInList(f, t)
             \/ UNCHANGED <<vars, listVars>>
      PROVE  FilesStep
  <2>1. UNCHANGED m3u
    BY <1>7 DEF LibraryStart, Start, StartList, CreateInList, HandleSong, CloseInList, vars, files
  <2> QED
    BY <1>2, <2>1
<1> QED
  BY <1>5, <1>6, <1>7 DEF ListNext

\* A file that has been written anew is the playlist's file, or gone.
LEMMA RewrittenStep ==
    ASSUME ListInv, ListNext, NEW pl \in Playlist, Rewritten(pl)
    PROVE  m3u'[pl] = NoFile \/ Writes(pl)
<1>1. CASE m3u'[pl] # m3u[pl]
  BY <1>1, ListNextFilesStep DEF FilesStep
<1>2. ASSUME NEW p \in Process, pl \in db.playlists,
             call[p].step = "RegenerateList" /\ call[p].list = pl /\ call'[p] # call[p]
      PROVE  Writes(pl)
  BY <1>2, LeavesRegenerateList DEF RegenerateList, Writes
<1>3. ASSUME NEW p \in Process, pl \in db.playlists,
             pc[p] = "Regenerate" /\ Head(loc[p].todo) = pl /\ pc'[p] # pc[p]
      PROVE  Writes(pl)
  BY <1>3, LeavesRegenerate DEF Regenerate, Writes
<1> QED
  BY <1>1, <1>2, <1>3 DEF Rewritten

LEMMA ListNextCompat ==
    ASSUME ListInv, ListNext, CompatLists(db)
    PROVE  CompatLists(db')
<1>1. db \in Database
  BY DEF ListInv, DataOK
<1>2. ASSUME db'.playlists \subseteq db.playlists PROVE CompatLists(db')
  BY <1>2 DEF CompatLists
<1>3. ASSUME NEW to \in Playlist, NEW name, name = ListCompat[to], name # NoList,
             db'.playlists \subseteq db.playlists \cup {name}
      PROVE  CompatLists(db')
  <2>1. ListCompat[name] = name
    BY <1>3, ListNamesAssumption
  <2> QED
    BY <1>3, <2>1 DEF CompatLists
<1>4. ASSUME NEW p \in Process, LibraryStep(p) PROVE CompatLists(db')
  <2>1. SameLists(db, db') \/ AddEntry(p) \/ Regenerate(p)
    BY <1>4, LibraryLists DEF LibraryStep, ListInv
  <2>2. AddEntry(p) => db'.playlists = db.playlists
    BY <1>1 DEF AddEntry, AddFileToPlaylistTx, Database
  <2>3. Regenerate(p) => db' = db
    BY DEF Regenerate
  <2> QED
    BY <1>2, <2>1, <2>2, <2>3 DEF SameLists
<1>5. ASSUME NEW p \in Process, ListStep(p) PROVE CompatLists(db')
  <2>1. call[p] \in Call /\ ListShape(call[p])
    BY CallOf DEF ListInv
  <2>2. CASE CreatePlaylist(p)
    <3> DEFINE name == ListCompat[call[p].to]
    <3>1. call[p].to \in Playlist
      BY <2>1, <2>2 DEF CreatePlaylist, ListSession, At, ListShape
    <3>2. db' = db \/ (name # NoList /\ db' = CreatePlaylistTx(db, name))
      BY <2>2 DEF CreatePlaylist
    <3>3. CreatePlaylistTx(db, name).playlists = db.playlists \cup {name}
      BY <1>1 DEF CreatePlaylistTx, Database
    <3> QED
      BY <1>2, <1>3, <3>1, <3>2, <3>3
  <2>3. CASE DeletePlaylist(p)
    <3>1. db' \in DeletePlaylistTx(db, call[p].list)
      BY <2>3 DEF DeletePlaylist
    <3>2. CASE db' = DeletePlaylistBucket(db, call[p].list)
      BY <1>1, <1>2, <3>2 DEF DeletePlaylistBucket, Database
    <3>3. ASSUME NEW t \in LiveTitles(db, call[p].list),
                 db' = [db EXCEPT !.songs[db.entries[<<call[p].list, t>>].key].lists =
                                      RemoveFirst(@, call[p].list)]
          PROVE  CompatLists(db')
      BY <1>1, <1>2, <3>3 DEF Database
    <3> QED
      BY <3>1, <3>2, <3>3 DEF DeletePlaylistTx
  <2>4. CASE RenamePlaylist(p)
    <3> DEFINE old  == call[p].list
               name == ListCompat[call[p].to]
               copy == CopiedPlaylist(db, old, name)
    <3>1. call[p].to \in Playlist /\ old \in Playlist
      BY <2>1, <2>4 DEF RenamePlaylist, ListSession, At, ListShape
    <3>2. db' = db \/ (name # NoList /\ db' = RenamePlaylistTx(db, old, name))
      BY <2>4 DEF RenamePlaylist
    <3>3. name \in Playlist \cup {NoList}
      BY <3>1, PlaylistsAssumption
    <3>4. copy.playlists = db.playlists \cup {name}
      BY <1>1 DEF CopiedPlaylist, Database
    <3>5. name # NoList => copy \in Database
      BY <1>1, <3>1, <3>3, CopiedPlaylistType
    <3> HIDE DEF copy
    <3>6. name # NoList => DeletePlaylistBucket(copy, old).playlists = copy.playlists \ {old}
      BY <3>5 DEF DeletePlaylistBucket, Database
    <3>7. RenamePlaylistTx(db, old, name) = DeletePlaylistBucket(copy, old)
      BY DEF RenamePlaylistTx, copy
    <3> HIDE DEF old, name
    <3>8. CASE db' = db
      BY <1>2, <3>8
    <3>9. CASE name # NoList /\ db' = RenamePlaylistTx(db, old, name)
      <4>1. db'.playlists \subseteq db.playlists \cup {name}
        BY <3>4, <3>6, <3>7, <3>9
      <4> QED
        BY <1>3, <3>1, <3>9, <4>1 DEF name
    <3> QED
      BY <3>2, <3>8, <3>9
  <2>5. CASE AddSongEntry(p)
    BY <1>1, <1>2, <2>5 DEF AddSongEntry, AddFileToPlaylistTx, Database
  <2>6. CASE \/ RegenerateList(p) \/ getPlaylistFile(p) \/ FindSong(p) \/ FindFiled(p)
             \/ AddSongPath(p) \/ RemoveDropped(p)
    BY <1>2, <2>6
       DEF RegenerateList, getPlaylistFile, FindSong, FindFiled, AddSongPath, RemoveDropped
  <2> QED
    BY <1>5, <2>2, <2>3, <2>4, <2>5, <2>6 DEF ListStep
<1>6. ASSUME \/ \E p \in Process, r \in Requests : LibraryStart(p, r)
             \/ \E p \in Process, r \in ListRequests : StartList(p, r)
             \/ \E f \in ListDrop : CreateInList(f) \/ HandleSong(f)
                                    \/ \E t \in Content : CloseInList(f, t)
             \/ UNCHANGED <<vars, listVars>>
      PROVE  CompatLists(db')
  BY <1>2, <1>6 DEF LibraryStart, Start, StartList, CreateInList, HandleSong, CloseInList, vars
<1> QED
  BY <1>4, <1>5, <1>6 DEF ListNext

----------------------------------------------------------------------------
(* Types, and where main.go is.                                            *)

\* Nothing is at work while MuLi is starting.
Down == start.step # "mounted" =>
    pc = [p \in Process |-> "idle"] /\ call = [p \in Process |-> NoCall]

Scanning == {"ScanFolder", "StoreNewSong"}

PhaseOK ==
    /\ start \in Startup
    /\ start.step = "mounted" => start = Mounted
    /\ start.step \notin Scanning => start.todo = {}
    /\ start.step \in Scanning => start.read = {}
    /\ start.todo \subseteq Found
    /\ start.step = "StoreNewSong" => \A f \in Path : IsNext(f) => disk[f] \in Tags
    /\ start.step \in {"Remove", "Regenerate"} =>
          /\ start.list \in Playlist
          /\ ListCompat[start.list] \in db.playlists \cup {NoList}

RestartInv ==
    /\ ListInv /\ Down /\ PhaseOK
    /\ torn \subseteq Playlist /\ ragged \subseteq Playlist
    /\ stops \in 0 .. MaxStops

LEMMA PhaseType ==
    ASSUME NEW step \in {"mounted", "ScanFolder", "StoreNewSong", "ScanPlaylistFolder", "Remove",
                         "Regenerate"},
           NEW todo \in SUBSET Path, NEW read \in SUBSET Playlist, NEW list \in Playlist \cup {NoList}
    PROVE  /\ Phase(step, todo, read, list) \in Startup
           /\ Phase(step, todo, read, list).step = step
           /\ Phase(step, todo, read, list).todo = todo
           /\ Phase(step, todo, read, list).read = read
           /\ Phase(step, todo, read, list).list = list
  BY DEF Phase, Startup

LEMMA MountedType == Mounted \in Startup /\ Mounted.step = "mounted"
                     /\ Mounted.todo = {} /\ Mounted.read = {}
  BY DEF Mounted, Phase, Startup

\* From the start, every file that is there is still to be visited.
LEMMA FromTheStartType ==
    /\ FromTheStart \in Startup /\ FromTheStart.step = "ScanFolder"
    /\ FromTheStart.todo = Found /\ FromTheStart.read = {}
<1>1. Found \in SUBSET Path
  BY DEF Found
<1> HIDE DEF Found
<1> QED
  BY <1>1, PhaseType DEF FromTheStart

LEMMA TagsSong ==
    ASSUME NEW t \in Tags
    PROVE  SongOf(t) \in SongKey
<1>1. t.artist \in DirName /\ t.album \in DirName /\ TitleOf(t) \in TitleName
  BY NamesAssumption DEF Tags, TitleOf
<1> QED
  BY <1>1, CompatParts DEF SongOf, SongKey

\* What a step of the start leaves alone keeps its type.
LEMMA StartingKeeps ==
    ASSUME ListInv, Down, NEW step, step # "mounted", Starting(step),
           db' \in Database, DiskOK(disk)',
           m3u' \in [Playlist -> (SUBSET PlaylistFile) \cup {NoFile}]
    PROVE  ListInv' /\ Down'
<1>1. UNCHANGED <<pc, loc, lock, call, handle, dirs, started>> /\ start.step = step
  BY DEF Starting
<1>2. ControlOK' /\ CallsOK' /\ Down'
  BY <1>1, ControlStays, CallsStay DEF ListInv, Down, listVars
<1>3. DataOK'
  BY <1>1 DEF ListInv, DataOK
<1> QED
  BY <1>2, <1>3 DEF ListInv

(* The start: the scan of the music folder, and that of the playlists.     *)

\* The file that Walk comes to is there, and it has tags.
LEMMA VisitedFile ==
    ASSUME DataOK, PhaseOK, NEW f \in Path, IsNext(f)
    PROVE  /\ f \in Found /\ f \in start.todo /\ TagsOf(f) \in Tags
           /\ \A g \in Path : IsNext(g) => g = f
<1>1. disk[f] # NoFile /\ f \in Found /\ f \in start.todo
  BY DEF IsNext, PhaseOK, Found
<1>2. TagsOf(f) \in Tags
  BY <1>1, TagsOfType DEF DataOK
<1>3. \A g \in Path : IsNext(g) => g = f
  BY RestartAssumption DEF IsNext
<1> QED
  BY <1>1, <1>2, <1>3

LEMMA VisitFound ==
    ASSUME DataOK, PhaseOK, NEW f \in Path, Visit(f)
    PROVE  Found' = Found
<1>1. f \in Found /\ TagsOf(f) # NoFile
  BY VisitedFile, LibraryAssumption DEF Visit
<1>2. \A g \in Path : disk'[g] # NoFile <=> disk[g] # NoFile
  BY <1>1 DEF Visit, DataOK, DiskOK, Found
<1> QED
  BY <1>2 DEF Found

LEMMA VisitOK ==
    ASSUME RestartInv, NEW f \in Path, Visit(f)
    PROVE  /\ RestartInv'
           /\ start'.step = "StoreNewSong" /\ start'.todo = start.todo /\ start'.read = start.read
<1>1. /\ DataOK /\ PhaseOK /\ start.step = "ScanFolder" /\ IsNext(f) /\ start \in Startup
      /\ start' = [start EXCEPT !.step = "StoreNewSong"]
      /\ disk' = [disk EXCEPT ![f] = TagsOf(f)] /\ UNCHANGED <<db, m3u>>
  BY DEF RestartInv, ListInv, Visit, Starting, PhaseOK
<1>2. TagsOf(f) \in Tags /\ f \in Found /\ \A g \in Path : IsNext(g) => g = f
  BY <1>1, VisitedFile
<1>3. DiskOK(disk)' /\ disk'[f] = TagsOf(f)
  BY <1>1, <1>2, WriteFile DEF DataOK, DiskOK
<1>4. ListInv' /\ Down'
  BY <1>1, <1>3, StartingKeeps DEF RestartInv, DataOK, Visit
<1>5. /\ start' \in Startup /\ start'.step = "StoreNewSong"
      /\ start'.todo = start.todo /\ start'.read = start.read
  BY <1>1 DEF Startup
<1>6. \A g \in Path : IsNext(g)' => disk'[g] \in Tags
  <2>1. \A g \in Path : IsNext(g)' => IsNext(g)
    BY <1>5 DEF IsNext
  <2> QED
    BY <1>2, <1>3, <2>1
<1>7. PhaseOK'
  BY <1>1, <1>5, <1>6, VisitFound DEF PhaseOK, Scanning
<1> QED
  BY <1>4, <1>5, <1>7 DEF RestartInv, Visit, Starting

LEMMA StoreNewSongOK ==
    ASSUME RestartInv, NEW f \in Path, StoreNewSong(f)
    PROVE  /\ RestartInv' /\ SongOf(disk[f]) \in SongKey /\ disk[f] \in Tags /\ f \in Found
           /\ start'.step = "ScanFolder" /\ start'.todo = start.todo \ {f}
           /\ start'.read = start.read
<1> DEFINE k == SongOf(disk[f])
<1>1. /\ DataOK /\ PhaseOK /\ start.step = "StoreNewSong" /\ IsNext(f) /\ start \in Startup
      /\ start' = [start EXCEPT !.step = "ScanFolder", !.todo = start.todo \ {f}]
      /\ UNCHANGED <<disk, m3u>>
      /\ db' = IF HasPlace(k) THEN StoreNewSongTx(db, k, f) ELSE db
  BY DEF RestartInv, ListInv, StoreNewSong, Starting, PhaseOK
<1>2. k \in SongKey /\ disk[f] \in Tags /\ f \in Found
  BY <1>1, VisitedFile, TagsSong DEF PhaseOK
<1> HIDE DEF k
<1>3. db' \in Database
  BY <1>1, <1>2, StoreNewSongType DEF DataOK
<1>4. ListInv' /\ Down'
  BY <1>1, <1>3, StartingKeeps DEF RestartInv, DataOK, DiskOK, StoreNewSong
<1>5. /\ start' \in Startup /\ start'.step = "ScanFolder"
      /\ start'.todo = start.todo \ {f} /\ start'.read = start.read
  BY <1>1 DEF Startup
<1>6. PhaseOK'
  BY <1>1, <1>5 DEF PhaseOK, Scanning, Found
<1> QED
  BY <1>2, <1>4, <1>5, <1>6 DEF RestartInv, StoreNewSong, Starting, k

LEMMA ScanPlaylistFolderOK ==
    ASSUME RestartInv, ScanPlaylistFolder
    PROVE  RestartInv'
<1> DEFINE read == {pl \in Playlist : m3u[pl] # NoFile}
<1>1. ListInv' /\ Down'
  BY StartingKeeps DEF RestartInv, ListInv, DataOK, DiskOK, ScanPlaylistFolder
<1>2. start' = Phase("ScanPlaylistFolder", {}, read, NoList) /\ UNCHANGED m3u
  BY DEF ScanPlaylistFolder
<1>3. /\ start' \in Startup /\ start'.step = "ScanPlaylistFolder"
      /\ start'.todo = {} /\ start'.read = read
  <2> HIDE DEF read
  <2>1. read \in SUBSET Playlist
    BY DEF read
  <2> QED
    BY <1>2, <2>1, PhaseType
<1>4. PhaseOK'
  BY <1>3 DEF PhaseOK, Scanning
<1> QED
  BY <1>1, <1>4 DEF RestartInv, ScanPlaylistFolder, Starting

LEMMA LeaveAloneOK ==
    ASSUME RestartInv, NEW pl \in Playlist, LeaveAlone(pl)
    PROVE  /\ RestartInv'
           /\ start'.step = "ScanPlaylistFolder" /\ start'.todo = {}
           /\ start'.read = start.read \ {pl}
<1>1. /\ DataOK /\ PhaseOK /\ start.step = "ScanPlaylistFolder" /\ start \in Startup
      /\ start' = [start EXCEPT !.read = start.read \ {pl}] /\ UNCHANGED <<db, disk, m3u>>
  BY DEF RestartInv, ListInv, PhaseOK, LeaveAlone, Starting
<1>2. /\ start' \in Startup /\ start'.step = "ScanPlaylistFolder"
      /\ start'.todo = start.todo /\ start'.read = start.read \ {pl}
  BY <1>1 DEF Startup
<1>3. PhaseOK'
  BY <1>1, <1>2 DEF PhaseOK, Scanning
<1>4. ListInv' /\ Down'
  BY <1>1, StartingKeeps DEF RestartInv, DataOK, DiskOK, LeaveAlone
<1> QED
  BY <1>1, <1>2, <1>3, <1>4 DEF RestartInv, LeaveAlone, Starting, PhaseOK, Scanning

LEMMA ProcessPlaylistPanicsOK ==
    ASSUME RestartInv, NEW pl \in Playlist, ProcessPlaylistPanics(pl)
    PROVE  RestartInv'
<1>1. start' = FromTheStart /\ UNCHANGED <<db, disk, m3u, torn, ragged>> /\ DataOK
  BY DEF ProcessPlaylistPanics, RestartInv, ListInv
<1>2. ListInv' /\ Down'
  BY <1>1, StartingKeeps DEF RestartInv, DataOK, DiskOK, ProcessPlaylistPanics
<1>3. Found' = Found
  BY <1>1 DEF Found
<1>4. PhaseOK'
  BY <1>1, <1>3, FromTheStartType DEF PhaseOK, Scanning
<1> QED
  BY <1>1, <1>2, <1>4 DEF RestartInv, ProcessPlaylistPanics, Starting

\* What the visit of a playlist file makes: the playlist, and nothing else.
LEMMA visitPlaylistOK ==
    ASSUME RestartInv, NEW pl \in Playlist, visitPlaylist(pl)
    PROVE  /\ RestartInv' /\ pl \in start.read
           /\ start'.step = "Remove" /\ start'.todo = {} /\ start'.read = start.read
           /\ db' = IF ListCompat[pl] = NoList THEN db ELSE CreatePlaylistTx(db, ListCompat[pl])
           /\ UNCHANGED <<disk, m3u, torn, ragged, kept>>
<1> DEFINE name == ListCompat[pl]
<1>1. /\ DataOK /\ PhaseOK /\ start.step = "ScanPlaylistFolder" /\ start.todo = {}
      /\ pl \in start.read /\ start \in Startup /\ name \in Playlist \cup {NoList}
      /\ start' = [start EXCEPT !.step = "Remove", !.list = pl]
      /\ UNCHANGED <<disk, m3u, torn, ragged, kept>>
      /\ db' = IF name = NoList THEN db ELSE CreatePlaylistTx(db, name)
  BY PlaylistsAssumption
     DEF RestartInv, ListInv, PhaseOK, visitPlaylist, Starting, Scanning
<1> HIDE DEF name
<1>2. /\ start' \in Startup /\ start'.step = "Remove" /\ start'.list = pl
      /\ start'.todo = {} /\ start'.read = start.read
  BY <1>1 DEF Startup
<1>3. db' \in Database /\ name \in db'.playlists \cup {NoList}
  BY <1>1, CreatePlaylistType DEF DataOK, Database, CreatePlaylistTx
<1>4. PhaseOK'
  <2>1. ListCompat[start'.list] = name
    BY <1>2 DEF name
  <2> QED
    BY <1>1, <1>2, <1>3, <2>1 DEF PhaseOK, Scanning
<1>5. ListInv' /\ Down'
  BY <1>1, <1>3, StartingKeeps DEF RestartInv, DataOK, DiskOK, visitPlaylist
<1> QED
  BY <1>1, <1>2, <1>4, <1>5 DEF RestartInv, Starting, visitPlaylist, name

LEMMA RemoveScannedOK ==
    ASSUME RestartInv, RemoveScanned
    PROVE  /\ RestartInv' /\ start.list \in Playlist
           /\ start'.step = "Regenerate" /\ start'.todo = {}
           /\ start'.read = start.read \ {start.list}
           /\ m3u'[start.list] = NoFile
           /\ \A q \in Playlist \ {start.list} : m3u'[q] = m3u[q]
<1> DEFINE pl == start.list
<1>1. /\ DataOK /\ PhaseOK /\ start.step = "Remove" /\ start \in Startup /\ pl \in Playlist
      /\ start.todo = {} /\ UNCHANGED <<db, disk>>
      /\ start' = [start EXCEPT !.step = "Regenerate", !.read = start.read \ {pl}]
      /\ m3u' = [m3u EXCEPT ![pl] = NoFile]
  BY DEF RestartInv, ListInv, PhaseOK, RemoveScanned, Starting, Scanning
<1>2. /\ start' \in Startup /\ start'.step = "Regenerate" /\ start'.todo = {}
      /\ start'.read = start.read \ {pl} /\ start'.list = pl
  BY <1>1 DEF Startup
<1>3. /\ m3u' \in [Playlist -> (SUBSET PlaylistFile) \cup {NoFile}]
      /\ m3u'[pl] = NoFile /\ \A q \in Playlist \ {pl} : m3u'[q] = m3u[q]
  BY <1>1, NoM3u DEF DataOK
<1>4. PhaseOK'
  BY <1>1, <1>2 DEF PhaseOK, Scanning
<1>5. ListInv' /\ Down'
  BY <1>1, <1>3, StartingKeeps DEF RestartInv, DataOK, DiskOK, RemoveScanned
<1> QED
  BY <1>1, <1>2, <1>3, <1>4, <1>5 DEF RestartInv, RemoveScanned, Starting

LEMMA RegenerateScannedOK ==
    ASSUME RestartInv, RegenerateScanned
    PROVE  /\ RestartInv' /\ ListCompat[start.list] \in db.playlists \cup {NoList}
           /\ start'.step = "ScanPlaylistFolder" /\ start'.todo = {} /\ start.todo = {}
           /\ start'.read = start.read
<1> DEFINE pl == ListCompat[start.list]
<1>1. /\ DataOK /\ PhaseOK /\ start.step = "Regenerate" /\ start \in Startup /\ start.todo = {}
      /\ Starting("Regenerate") /\ UNCHANGED <<db, disk>> /\ pl \in db.playlists \cup {NoList}
      /\ start' = [start EXCEPT !.step = "ScanPlaylistFolder", !.list = NoList]
  BY DEF RestartInv, ListInv, PhaseOK, RegenerateScanned, Starting, Scanning
<1>2. /\ start' \in Startup /\ start'.step = "ScanPlaylistFolder"
      /\ start'.todo = {} /\ start'.read = start.read
  BY <1>1 DEF Startup
<1>3. pl \in db.playlists => EntriesOf(db, pl) \subseteq PlaylistFile
  <2>1. pl \in db.playlists => pl \in Playlist
    BY <1>1 DEF DataOK, Database
  <2> HIDE DEF pl
  <2> QED
    BY <1>1, <2>1, EntriesOfType DEF DataOK
<1>4. /\ m3u' = IF pl \in db.playlists THEN [m3u EXCEPT ![pl] = EntriesOf(db, pl)] ELSE m3u
      /\ torn' \subseteq torn /\ ragged' \subseteq ragged
  BY DEF RegenerateScanned
<1>5. m3u' \in [Playlist -> (SUBSET PlaylistFile) \cup {NoFile}]
  <2> HIDE DEF pl
  <2> QED
    BY <1>1, <1>3, <1>4 DEF DataOK
<1>6. PhaseOK'
  BY <1>1, <1>2 DEF PhaseOK, Scanning
<1>7. ListInv' /\ Down'
  BY <1>1, <1>5, StartingKeeps DEF RestartInv, DataOK, DiskOK
<1> QED
  BY <1>1, <1>2, <1>4, <1>6, <1>7 DEF RestartInv, Starting, RegenerateScanned

LEMMA MountOK ==
    ASSUME RestartInv, Mount
    PROVE  RestartInv'
<1>1. ListInv' /\ Down'
  BY StartingKeeps DEF RestartInv, ListInv, DataOK, DiskOK, Mount
<1>2. PhaseOK'
  BY MountedType DEF PhaseOK, Mount, Scanning
<1> QED
  BY <1>1, <1>2 DEF RestartInv, Mount, Starting

----------------------------------------------------------------------------
(* The end of the process.                                                 *)

\* What the session that is cut short may have done: the playlist file that
\* it was to write, or the playlist it was at, and never both.
LEMMA HalfWrittenStep ==
    ASSUME DataOK, torn \subseteq Playlist, ragged \subseteq Playlist, NEW pl, HalfWritten(pl)
    PROVE  /\ pl \in Playlist /\ pl \in db.playlists /\ db' = db
           /\ torn' \subseteq Playlist /\ ragged' \subseteq Playlist
           /\ m3u' \in [Playlist -> (SUBSET PlaylistFile) \cup {NoFile}]
           /\ \A q \in Playlist \ {pl} : m3u'[q] = m3u[q]
           /\ \A q \in Playlist \ {pl} : q \in torn' <=> q \in torn
<1>1. pl \in Playlist /\ pl \in db.playlists
  BY DEF HalfWritten, DataOK, Database
<1>2. \A es \in SUBSET EntriesOf(db, pl) : es \in SUBSET PlaylistFile
  BY <1>1, EntriesOfType DEF DataOK
<1>3. {} \in SUBSET PlaylistFile
  OBVIOUS
<1>4. PICK v \in (SUBSET PlaylistFile) \cup {NoFile} : m3u' = [m3u EXCEPT ![pl] = v]
  BY <1>2, <1>3 DEF HalfWritten
<1>5. /\ db' = db /\ (torn' = torn \ {pl} \/ torn' = torn \cup {pl})
      /\ ragged' = ragged \ {pl} \/ ragged' = ragged \cup {pl}
  BY DEF HalfWritten
<1> QED
  BY <1>1, <1>4, <1>5 DEF DataOK

LEMMA CutType ==
    ASSUME ListInv, torn \subseteq Playlist, ragged \subseteq Playlist,
           Cut \/ UNCHANGED <<db, m3u, torn, ragged>>
    PROVE  /\ db' \in Database /\ torn' \subseteq Playlist /\ ragged' \subseteq Playlist
           /\ m3u' \in [Playlist -> (SUBSET PlaylistFile) \cup {NoFile}]
<1>1. DataOK
  BY DEF ListInv
<1>2. ASSUME NEW pl, HalfWritten(pl)
      PROVE  /\ db' \in Database /\ torn' \subseteq Playlist /\ ragged' \subseteq Playlist
             /\ m3u' \in [Playlist -> (SUBSET PlaylistFile) \cup {NoFile}]
  BY <1>1, <1>2, HalfWrittenStep DEF DataOK
<1>3. ASSUME NEW p \in Process, HalfDone(p)
      PROVE  /\ db' \in Database /\ torn' \subseteq Playlist /\ ragged' \subseteq Playlist
             /\ m3u' \in [Playlist -> (SUBSET PlaylistFile) \cup {NoFile}]
  <2>1. ListShape(call[p])
    BY CallOf DEF ListInv
  <2>2. CASE call[p].step = "DeletePlaylist" /\ db' \in DeletePlaylistTx(db, call[p].list)
             /\ UNCHANGED <<m3u, torn, ragged>>
    <3>1. call[p].list \in Playlist
      BY <2>1, <2>2 DEF ListShape
    <3> QED
      BY <1>1, <2>2, <3>1, DeletePlaylistType DEF DataOK
  <2>3. CASE /\ m3u' = [m3u EXCEPT ![call[p].list] = NoFile]
             /\ torn' = torn \ {call[p].list} /\ ragged' = ragged \ {call[p].list}
             /\ UNCHANGED db
    BY <1>1, <2>3, NoM3u DEF DataOK
  <2>4. CASE HalfWritten(call[p].list)
    BY <1>2, <2>4
  <2> QED
    BY <1>3, <2>2, <2>3, <2>4 DEF HalfDone
<1> QED
  BY <1>1, <1>2, <1>3 DEF Cut, DataOK

\* Nothing that was at work goes on after the end.
LEMMA StopControl ==
    ASSUME Stop
    PROVE  ControlOK' /\ CallsOK' /\ Down'
<1>1. /\ lock' = Free
      /\ pc' = [p \in Process |-> "idle"]
      /\ loc' = [p \in Process |-> Blank]
      /\ call' = [p \in Process |-> NoCall]
      /\ handle' = [f \in ListDrop |-> "none"]
  BY DEF Stop
<1>2. "idle" \in Steps /\ "idle" \notin KeepsOpen
  BY DEF Steps, KeepsOpen
<1>3. ControlOK'
  BY <1>1, <1>2, BlankFrame, LibraryAssumption DEF ControlOK
<1>4. CallsOK'
  BY <1>1, NoCallOK DEF CallsOK
<1> QED
  BY <1>1, <1>3, <1>4 DEF Down

LEMMA StopOK ==
    ASSUME RestartInv, Stop
    PROVE  RestartInv'
<1>1. /\ DataOK /\ UNCHANGED <<disk, dirs, started>> /\ stops < MaxStops /\ stops' = stops + 1
      /\ start' = FromTheStart
  BY DEF RestartInv, ListInv, Stop
<1>2. /\ db' \in Database /\ torn' \subseteq Playlist /\ ragged' \subseteq Playlist
      /\ m3u' \in [Playlist -> (SUBSET PlaylistFile) \cup {NoFile}]
  BY CutType DEF RestartInv, Stop
<1>3. ListInv' /\ Down'
  BY <1>1, <1>2, StopControl DEF ListInv, DataOK, DiskOK
<1>4. Found' = Found
  BY <1>1 DEF Found
<1>5. PhaseOK'
  BY <1>1, <1>4, FromTheStartType DEF PhaseOK, Scanning
<1>6. stops' \in 0 .. MaxStops
  BY <1>1, RestartAssumption DEF RestartInv
<1> QED
  BY <1>2, <1>3, <1>5, <1>6 DEF RestartInv

----------------------------------------------------------------------------
(* The mounted filesystem, and the whole.                                  *)

LEMMA ServeOK ==
    ASSUME RestartInv, Serve
    PROVE  RestartInv'
<1>1. ListInv'
  BY ListNextOK DEF Serve, RestartInv
<1>2. start = Mounted /\ start' = start /\ stops' = stops /\ torn' \subseteq torn
      /\ ragged' \subseteq ragged
  BY DEF Serve, RestartInv, PhaseOK
<1>3. Down' /\ PhaseOK'
  BY <1>2, MountedType DEF Down, PhaseOK, Scanning
<1> QED
  BY <1>1, <1>2, <1>3 DEF RestartInv

LEMMA RestartInitOK == RestartInit => RestartInv
<1> SUFFICES ASSUME RestartInit PROVE RestartInv
  OBVIOUS
<1>1. ListInv /\ start = Mounted
  BY ListInitOK DEF RestartInit
<1>2. Down /\ PhaseOK
  BY <1>1, MountedType DEF Down, PhaseOK, Scanning
<1> QED
  BY <1>1, <1>2, RestartAssumption DEF RestartInv, RestartInit

LEMMA RestartStutterOK ==
    ASSUME RestartInv, UNCHANGED allVars
    PROVE  RestartInv'
<1>1. UNCHANGED <<vars, listVars>> /\ UNCHANGED <<start, torn, ragged, stops>>
  BY DEF allVars, restartVars
<1>2. ListInv'
  BY <1>1, ListStutterOK DEF RestartInv
<1>3. UNCHANGED <<db, disk, m3u, pc, call>>
  BY <1>1 DEF vars, listVars, files
<1> QED
  BY <1>1, <1>2, <1>3 DEF RestartInv, Down, PhaseOK, Found, IsNext

LEMMA RestartNextOK ==
    ASSUME RestartInv, [RestartNext]_allVars
    PROVE  RestartInv'
  BY ServeOK, StopOK, VisitOK, StoreNewSongOK, ScanPlaylistFolderOK, LeaveAloneOK,
     ProcessPlaylistPanicsOK, visitPlaylistOK, RemoveScannedOK, RegenerateScannedOK, MountOK,
     RestartStutterOK
     DEF RestartNext, StartStep

(***************************************************************************)
(* Whenever MuLi ends, and however often, what it finds and what it holds  *)
(* while it starts again has the types of Restart: a session cut in two    *)
(* leaves no other kind of database or playlist file.                      *)
(***************************************************************************)
THEOREM RestartTypeCorrect == RestartSpec => []RestartTypeOK
<1>1. RestartInv => RestartTypeOK
  BY DEF RestartInv, PhaseOK, ListInv, ControlOK, DataOK, DiskOK, CallsOK, TypeOK, ListTypeOK,
         RestartTypeOK, Down, AllQuiet, Idle
<1>2. RestartInv /\ [RestartNext]_allVars => RestartInv'
  BY RestartNextOK
<1> QED
  BY <1>1, <1>2, RestartInitOK, PTL DEF RestartSpec

----------------------------------------------------------------------------
(* What the scan of the music folder leaves.                               *)

\* Of the files in T, g is the last that Walk comes to whose tags name k.
LastNaming(dk, T, k, g) ==
    /\ g \in T /\ SongOf(dk[g]) = k
    /\ \A h \in T : SongOf(dk[h]) = k => Walk[h] <= Walk[g]

\* The song can be opened, in an album that is listed, and is read from there.
Stored(d, dk, T, k) ==
    /\ HasAlbum(d, AlbumOf(k)) /\ Contains(d.listed[k[1]], k[2])
    /\ \E g \in T : LastNaming(dk, T, k, g) /\ d.songs[k] = [path |-> g, lists |-> <<>>]

\* The files in T have been visited.
Covered(d, dk, T) ==
    \A f \in T : dk[f] \in Tags /\ (HasPlace(SongOf(dk[f])) => Stored(d, dk, T, SongOf(dk[f])))

\* An album that is listed stays listed when another song is stored.
LEMMA StillListed ==
    ASSUME NEW d \in Database, NEW k \in SongKey, NEW l \in SongKey, NEW path, NEW e,
           NewSongStored(d, k, path, e),
           HasAlbum(d, AlbumOf(l)) /\ Contains(d.listed[l[1]], l[2])
    PROVE  HasAlbum(e, AlbumOf(l)) /\ Contains(e.listed[l[1]], l[2])
<1>1. /\ k[1] \in DirName /\ k[2] \in DirName /\ l[1] \in DirName /\ l[2] \in DirName
      /\ AlbumOf(l)[1] = l[1]
  BY KeyParts DEF AlbumOf
<1>2. HasAlbum(e, AlbumOf(l)) /\ l[1] \in d.artists
  BY <1>1 DEF HasAlbum, NewSongStored
<1>3. e.listed = [d.listed EXCEPT ![k[1]] = ListedWith(d, k)] /\ d.listed \in [DirName -> Seq(DirName)]
  BY DEF NewSongStored, Database
<1>4. CASE l[1] = k[1]
  <2>1. ListedWith(d, k) = WithAlbum(d.listed[k[1]], k[2]) /\ d.listed[k[1]] \in Seq(DirName)
    BY <1>1, <1>2, <1>3, <1>4 DEF ListedWith
  <2>2. Contains(ListedWith(d, k), l[2])
    BY <1>1, <1>4, <2>1, WithAlbumContains
  <2> QED
    BY <1>1, <1>2, <1>3, <1>4, <2>2
<1>5. CASE l[1] # k[1]
  BY <1>1, <1>2, <1>3, <1>5
<1> QED
  BY <1>4, <1>5

LEMMA NewlyListed ==
    ASSUME NEW d \in Database, NEW k \in SongKey, NEW path, NEW e, NewSongStored(d, k, path, e)
    PROVE  HasAlbum(e, AlbumOf(k)) /\ Contains(e.listed[k[1]], k[2])
<1> DEFINE q == IF k[1] \in d.artists THEN d.listed[k[1]] ELSE <<>>
<1>1. k[1] \in DirName /\ k[2] \in DirName /\ AlbumOf(k)[1] = k[1]
  BY KeyParts DEF AlbumOf
<1>2. e.listed = [d.listed EXCEPT ![k[1]] = ListedWith(d, k)] /\ d.listed \in [DirName -> Seq(DirName)]
  BY DEF NewSongStored, Database
<1>3. q \in Seq(DirName) /\ ListedWith(d, k) = WithAlbum(q, k[2])
  BY <1>1, <1>2, EmptySeq DEF ListedWith
<1> HIDE DEF q
<1>4. Contains(ListedWith(d, k), k[2])
  BY <1>1, <1>3, WithAlbumContains
<1>5. HasAlbum(e, AlbumOf(k))
  BY <1>1 DEF HasAlbum, NewSongStored
<1> QED
  BY <1>1, <1>2, <1>4, <1>5

\* The song of a file visited earlier is still found, unless the new file
\* names it too.
LEMMA OthersStored ==
    ASSUME NEW d \in Database, NEW k \in SongKey, NEW l \in SongKey, l # k, NEW f, NEW e,
           NewSongStored(d, k, f, e) \/ e = d,
           NEW dk, NEW T, SongOf(dk[f]) = k, Stored(d, dk, T, l)
    PROVE  Stored(e, dk, T \cup {f}, l)
<1>1. HasAlbum(e, AlbumOf(l)) /\ Contains(e.listed[l[1]], l[2])
  BY StillListed DEF Stored
<1>2. e.songs[l] = d.songs[l]
  BY DEF NewSongStored, Database
<1>3. PICK g \in T : LastNaming(dk, T, l, g) /\ d.songs[l] = [path |-> g, lists |-> <<>>]
  BY DEF Stored
<1>4. LastNaming(dk, T \cup {f}, l, g)
  BY <1>3 DEF LastNaming
<1> QED
  BY <1>1, <1>2, <1>3, <1>4 DEF Stored

\* The file that comes last takes the song.
LEMMA LastStored ==
    ASSUME NEW d \in Database, NEW k \in SongKey, NEW f \in Path, NEW e,
           NewSongStored(d, k, f, e),
           NEW dk, NEW T \in SUBSET Path, \A h \in T : Walk[h] < Walk[f], SongOf(dk[f]) = k
    PROVE  Stored(e, dk, T \cup {f}, k)
<1>1. HasAlbum(e, AlbumOf(k)) /\ Contains(e.listed[k[1]], k[2])
  BY NewlyListed
<1>2. e.songs[k] = [path |-> f, lists |-> <<>>]
  BY DEF NewSongStored, Database
<1>3. \A h \in T \cup {f} : Walk[h] <= Walk[f]
  BY RestartAssumption
<1>4. LastNaming(dk, T \cup {f}, k, f)
  BY <1>3 DEF LastNaming
<1> QED
  BY <1>1, <1>2, <1>4 DEF Stored

\* One more file is visited.
LEMMA StoreCovers ==
    ASSUME NEW d \in Database, NEW dk, NEW f \in Path, dk[f] \in Tags,
           NEW T \in SUBSET Path, \A h \in T : Walk[h] < Walk[f],
           NEW k, k = SongOf(dk[f]),
           NEW e, e = IF HasPlace(k) THEN StoreNewSongTx(d, k, f) ELSE d,
           Covered(d, dk, T)
    PROVE  Covered(e, dk, T \cup {f})
<1>1. k \in SongKey
  BY TagsSong
<1>2. IF HasPlace(k) THEN NewSongStored(d, k, f, e) ELSE e = d
  BY <1>1, StoreNewSongFields
<1>3. HasPlace(k) => Stored(e, dk, T \cup {f}, k)
  BY <1>1, <1>2, LastStored
<1>4. ASSUME NEW h \in T, HasPlace(SongOf(dk[h])) PROVE Stored(e, dk, T \cup {f}, SongOf(dk[h]))
  <2>1. SongOf(dk[h]) \in SongKey /\ Stored(d, dk, T, SongOf(dk[h]))
    BY <1>4, TagsSong DEF Covered
  <2>2. CASE SongOf(dk[h]) = k
    BY <1>3, <1>4, <2>2
  <2>3. CASE SongOf(dk[h]) # k
    BY <1>1, <1>2, <2>1, <2>3, OthersStored
  <2> QED
    BY <2>2, <2>3
<1> QED
  BY <1>3, <1>4 DEF Covered

\* What is found does not depend on the tags of the files still to come.
LEMMA CoveredElsewhere ==
    ASSUME NEW d, NEW dk, NEW dk2, NEW T, \A h \in T : dk2[h] = dk[h], Covered(d, dk, T)
    PROVE  Covered(d, dk2, T)
<1>1. ASSUME NEW k, Stored(d, dk, T, k) PROVE Stored(d, dk2, T, k)
  BY <1>1 DEF Stored, LastNaming
<1> QED
  BY <1>1 DEF Covered

----------------------------------------------------------------------------
(* The invariant of the start.                                             *)

\* Walk comes to the files in its order, and those it has visited are found.
WalkOK ==
    /\ \A f \in Found \ start.todo, g \in start.todo : Walk[f] < Walk[g]
    /\ start.step # "mounted" => Covered(db, disk, Found \ start.todo)

\* The scan has yet to come to a file that names the song.
ToCome(k) == HasPlace(k) /\ \E f \in start.todo : SongOf(disk[f]) = k

\* The library is d, but for the songs of files that are still to be visited.
Reproduces(d) ==
    /\ d \in Database /\ Covered(d, disk, Found)
    /\ db.artists = d.artists /\ db.listed = d.listed /\ db.albums = d.albums
    /\ db.playlists = d.playlists /\ db.entries = d.entries
    /\ \A k \in SongKey : db.songs[k] = d.songs[k] \/ ToCome(k)

KeptOK ==
    kept # Nothing => \E d : kept = [db |-> d, disk |-> disk] /\ Reproduces(d)

Restored(pl) ==
    m3u[pl] # NoFile => pl \in db.playlists /\ pl \notin ragged /\ m3u[pl] = EntriesOf(db, pl)

\* The playlist files that the scan has done with are those of playlists.
ListsOK ==
    /\ CompatLists(db)
    /\ start.step \in {"ScanPlaylistFolder", "Remove", "Regenerate"} =>
          \A pl \in Playlist \ (torn \cup start.read) : Restored(pl)
    /\ start.step = "mounted" /\ kept # Nothing => \A pl \in Playlist \ torn : Restored(pl)
    /\ kept # Nothing => \A pl \in Playlist \ torn :
          m3u[pl] # NoFile \/ pl \in start.read => pl \in db.playlists

ScanInv == RestartInv /\ WalkOK /\ KeptOK /\ ListsOK

LEMMA SameDatabases ==
    ASSUME NEW d \in Database, NEW e \in Database,
           d.artists = e.artists, d.listed = e.listed, d.albums = e.albums,
           d.playlists = e.playlists, d.entries = e.entries,
           \A k \in SongKey : d.songs[k] = e.songs[k]
    PROVE  d = e
<1>1. d.songs = e.songs
  BY DEF Database
<1> QED
  BY <1>1 DEF Database

\* When no file is left to visit, the library is the one that was kept.
LEMMA Reproduced ==
    ASSUME RestartInv, start.todo = {}, NEW d, Reproduces(d)
    PROVE  db = d
  BY SameDatabases DEF Reproduces, ToCome, RestartInv, ListInv, DataOK

LEMMA KeptLibrary ==
    ASSUME RestartInv, KeptOK, kept # Nothing, start.todo = {}
    PROVE  kept = [db |-> db, disk |-> disk] /\ Reproduces(db)
  BY Reproduced DEF KeptOK

----------------------------------------------------------------------------
(* A file is visited.                                                      *)

LEMMA VisitInv ==
    ASSUME ScanInv, NEW f \in Path, Visit(f)
    PROVE  ScanInv'
<1>1. /\ RestartInv' /\ DataOK /\ PhaseOK /\ start.step = "ScanFolder" /\ IsNext(f)
      /\ start'.step = "StoreNewSong" /\ start'.todo = start.todo
      /\ disk' = [disk EXCEPT ![f] = TagsOf(f)] /\ UNCHANGED <<db, m3u, torn, ragged, kept>>
  BY VisitOK DEF ScanInv, RestartInv, ListInv, Visit, Starting
<1>2. Found' = Found /\ f \in Found /\ f \in start.todo
  BY <1>1, VisitFound, VisitedFile
<1>3. WalkOK'
  <2>1. \A h \in Found \ start.todo : disk'[h] = disk[h]
    BY <1>1, <1>2 DEF DataOK, DiskOK, Found
  <2>2. Covered(db, disk', Found \ start.todo)
    BY <1>1, <2>1, CoveredElsewhere DEF ScanInv, WalkOK
  <2> QED
    BY <1>1, <1>2, <2>2 DEF ScanInv, WalkOK
<1>4. KeptOK'
  <2> SUFFICES ASSUME kept # Nothing PROVE KeptOK'
    BY <1>1 DEF KeptOK
  <2>1. PICK d : kept = [db |-> d, disk |-> disk] /\ Reproduces(d)
    BY DEF ScanInv, KeptOK
  <2>2. disk[f] \in Tags
    BY <1>2, <2>1 DEF Reproduces, Covered
  <2>3. TagsOf(f) = disk[f]
    BY <2>2, LibraryAssumption DEF TagsOf
  <2>4. disk' = disk
    BY <1>1, <2>3 DEF DataOK, DiskOK
  <2>5. Reproduces(d)'
    BY <1>1, <1>2, <2>1, <2>4 DEF Reproduces, ToCome
  <2> QED
    BY <1>1, <2>1, <2>4, <2>5 DEF KeptOK
<1>5. ListsOK'
  <2>1. start'.read = start.read
    BY VisitOK DEF ScanInv
  <2> QED
    BY <1>1, <2>1 DEF ScanInv, ListsOK, CompatLists
<1> QED
  BY <1>1, <1>3, <1>4, <1>5 DEF ScanInv

LEMMA StoreWalk ==
    ASSUME RestartInv, WalkOK, NEW f \in Path, StoreNewSong(f)
    PROVE  WalkOK'
<1> DEFINE k == SongOf(disk[f])
           T == Found \ start.todo
<1>1. /\ DataOK /\ PhaseOK /\ start.step = "StoreNewSong" /\ IsNext(f) /\ disk' = disk
      /\ disk[f] \in Tags /\ start'.todo = start.todo \ {f} /\ start'.step = "ScanFolder"
      /\ db' = IF HasPlace(k) THEN StoreNewSongTx(db, k, f) ELSE db
  BY StoreNewSongOK DEF RestartInv, ListInv, StoreNewSong, Starting
<1>2. Found' = Found /\ start.todo \subseteq Found /\ f \in Found /\ f \in start.todo
      /\ \A g \in start.todo : Walk[f] <= Walk[g]
  BY <1>1, VisitedFile DEF IsNext, PhaseOK, Found
<1>3. Found' \ start'.todo = T \cup {f}
  BY <1>1, <1>2
<1>4. T \in SUBSET Path /\ f \notin T /\ \A h \in T : Walk[h] < Walk[f]
  BY <1>2 DEF WalkOK, Found
<1>5. Covered(db, disk, T)
  BY <1>1 DEF WalkOK
<1>6. db \in Database
  BY <1>1 DEF DataOK
<1> HIDE DEF T, k
<1>7. Covered(db', disk', T \cup {f})
  <2>1. k = SongOf(disk[f])
    BY DEF k
  <2> QED
    BY <1>1, <1>4, <1>5, <1>6, <2>1, StoreCovers
<1>8. start.todo \subseteq Path
  BY <1>2 DEF Found
<1>9. \A g \in start.todo \ {f} : Walk[f] < Walk[g]
  BY <1>2, <1>8, RestartAssumption
<1>10. \A h \in T, g \in start.todo : Walk[h] < Walk[g]
  BY DEF WalkOK, T
<1>11. \A h \in Found' \ start'.todo, g \in start'.todo : Walk[h] < Walk[g]
  BY <1>1, <1>3, <1>9, <1>10
<1> QED
  BY <1>3, <1>7, <1>11 DEF WalkOK

\* What the scan stores again is what was there.
LEMMA StoredAgain ==
    ASSUME NEW d \in Database, NEW e \in Database, NEW b \in Database, NEW k \in SongKey,
           NEW path, NewSongStored(d, k, path, e),
           HasAlbum(b, AlbumOf(k)), Contains(b.listed[k[1]], k[2]),
           d.artists = b.artists, d.listed = b.listed, d.albums = b.albums
    PROVE  e.artists = b.artists /\ e.listed = b.listed /\ e.albums = b.albums
<1>1. k[1] \in DirName /\ k[1] \in b.artists /\ AlbumOf(k) \in b.albums
  BY KeyParts DEF HasAlbum, AlbumOf
<1>2. ListedWith(d, k) = b.listed[k[1]]
  BY <1>1 DEF ListedWith, WithAlbum
<1>3. e.listed = [b.listed EXCEPT ![k[1]] = b.listed[k[1]]]
  BY <1>2 DEF NewSongStored
<1>4. e.listed = b.listed
  BY <1>3 DEF Database
<1> QED
  BY <1>1, <1>4 DEF NewSongStored

LEMMA StoreKept ==
    ASSUME RestartInv, WalkOK, KeptOK, NEW f \in Path, StoreNewSong(f)
    PROVE  KeptOK'
<1> SUFFICES ASSUME kept # Nothing PROVE KeptOK'
  BY DEF KeptOK, StoreNewSong
<1> DEFINE k == SongOf(disk[f])
<1>1. DataOK /\ PhaseOK /\ start.step = "StoreNewSong" /\ kept' = kept /\ IsNext(f)
  BY DEF RestartInv, ListInv, StoreNewSong, Starting
<1>2. PICK d : kept = [db |-> d, disk |-> disk] /\ Reproduces(d)
  BY DEF KeptOK
<1>4. start'.todo = start.todo \ {f}
  BY StoreNewSongOK
<1>7. disk' = disk
  BY DEF StoreNewSong
<1>5. Found' = Found /\ start.todo \subseteq Found /\ f \in Found /\ f \in start.todo
      /\ \A g \in start.todo : Walk[f] <= Walk[g]
  BY <1>1, <1>7, VisitedFile DEF IsNext, PhaseOK, Found
<1>6. d \in Database /\ Covered(d, disk, Found) /\ disk[f] \in Tags
  BY <1>2, <1>5 DEF Reproduces, Covered
<1>8. k \in SongKey /\ db' = IF HasPlace(k) THEN StoreNewSongTx(db, k, f) ELSE db
  BY <1>6, TagsSong DEF StoreNewSong
<1>9. db \in Database /\ db' \in Database
  BY <1>1, StoreNewSongOK DEF RestartInv, ListInv, DataOK
<1>10. \A l \in SongKey \ {k} : ToCome(l) => ToCome(l)'
  BY <1>4, <1>7 DEF ToCome
<1>11. CASE ~HasPlace(k)
  <2>1. db' = db /\ ~ToCome(k)
    BY <1>8, <1>11 DEF ToCome
  <2>2. Reproduces(d)'
    BY <1>2, <1>5, <1>6, <1>7, <1>8, <1>10, <2>1 DEF Reproduces
  <2> QED
    BY <1>1, <1>2, <1>7, <2>2 DEF KeptOK
<1>12. CASE HasPlace(k)
  <2>1. NewSongStored(db, k, f, db')
    BY <1>8, <1>9, <1>12, StoreNewSongFields
  <2>2. Stored(d, disk, Found, k)
    BY <1>5, <1>6, <1>12 DEF Covered
  <2>3. db'.artists = d.artists /\ db'.listed = d.listed /\ db'.albums = d.albums
    BY <1>2, <1>6, <1>8, <1>9, <2>1, <2>2, StoredAgain DEF Stored, Reproduces
  <2>4. db'.playlists = d.playlists /\ db'.entries = d.entries
    BY <1>2, <2>1 DEF NewSongStored, Reproduces
  <2>5. db'.songs[k] = [path |-> f, lists |-> <<>>] /\ \A l \in SongKey \ {k} : db'.songs[l] = db.songs[l]
    BY <1>8, <1>9, <2>1 DEF NewSongStored, Database
  <2>6. PICK g \in Found : LastNaming(disk, Found, k, g) /\ d.songs[k] = [path |-> g, lists |-> <<>>]
    BY <2>2 DEF Stored
  <2>7. g # f => g \in start.todo \ {f} /\ SongOf(disk[g]) = k
    <3> HAVE g # f
    <3>1. Walk[f] <= Walk[g] /\ SongOf(disk[g]) = k
      BY <1>5, <2>6 DEF LastNaming
    <3>2. g \notin start.todo => Walk[g] < Walk[f]
      BY <1>5 DEF WalkOK
    <3> QED
      BY <3>1, <3>2, RestartAssumption DEF Found
  <2>8. db'.songs[k] = d.songs[k] \/ ToCome(k)'
    BY <1>4, <1>7, <1>12, <2>5, <2>6, <2>7 DEF ToCome
  <2>9. Reproduces(d)'
    BY <1>2, <1>5, <1>6, <1>7, <1>10, <2>3, <2>4, <2>5, <2>8 DEF Reproduces
  <2> QED
    BY <1>1, <1>2, <1>7, <2>9 DEF KeptOK
<1> QED
  BY <1>11, <1>12

LEMMA StoreLists ==
    ASSUME RestartInv, ListsOK, NEW f \in Path, StoreNewSong(f)
    PROVE  ListsOK'
<1> DEFINE k == SongOf(disk[f])
<1>1. /\ db \in Database /\ k \in SongKey /\ UNCHANGED <<m3u, torn, ragged, kept>>
      /\ start'.step = "ScanFolder" /\ start'.read = start.read
      /\ db' = IF HasPlace(k) THEN StoreNewSongTx(db, k, f) ELSE db
  BY StoreNewSongOK DEF RestartInv, ListInv, DataOK, StoreNewSong
<1> HIDE DEF k
<1>2. db'.playlists = db.playlists
  BY <1>1, StoreNewSongFields DEF NewSongStored
<1> QED
  BY <1>1, <1>2 DEF ListsOK, CompatLists

----------------------------------------------------------------------------
(* The scan of the playlists, and the mount.                               *)

\* A change of the playlists alone.
LEMMA CoveredKept ==
    ASSUME NEW d, NEW e, NEW dk, NEW T, Covered(d, dk, T),
           e.artists = d.artists, e.listed = d.listed, e.albums = d.albums, e.songs = d.songs
    PROVE  Covered(e, dk, T)
<1>1. ASSUME NEW k, Stored(d, dk, T, k) PROVE Stored(e, dk, T, k)
  BY <1>1 DEF Stored, HasAlbum
<1> QED
  BY <1>1 DEF Covered

\* A step after the scan of the files that leaves all but the playlist files.
LEMMA AfterScan ==
    ASSUME RestartInv, WalkOK, KeptOK, start.todo = {}, start'.todo = {},
           start.step # "mounted", UNCHANGED <<db, disk, kept>>
    PROVE  WalkOK' /\ KeptOK'
<1>1. Found' = Found /\ \A k : ToCome(k) <=> ToCome(k)'
  BY DEF Found, ToCome
<1> QED
  BY <1>1 DEF WalkOK, KeptOK, Reproduces

LEMMA ScanPlaylistFolderInv ==
    ASSUME ScanInv, ScanPlaylistFolder
    PROVE  ScanInv'
<1> DEFINE read == {pl \in Playlist : m3u[pl] # NoFile}
<1>1. /\ start.step = "ScanFolder" /\ start.todo = {} /\ UNCHANGED <<db, disk, m3u, torn, ragged, kept>>
      /\ start' = Phase("ScanPlaylistFolder", {}, read, NoList)
  BY DEF ScanPlaylistFolder, Starting
<1>2. start'.step = "ScanPlaylistFolder" /\ start'.todo = {} /\ start'.read = read
  BY <1>1, PhaseType
<1>3. WalkOK' /\ KeptOK'
  BY <1>1, <1>2, AfterScan DEF ScanInv
<1>4. ListsOK'
  BY <1>1, <1>2 DEF ScanInv, ListsOK, Restored
<1> QED
  BY <1>3, <1>4, ScanPlaylistFolderOK DEF ScanInv

LEMMA LeaveAloneInv ==
    ASSUME ScanInv, NEW pl \in Playlist, LeaveAlone(pl)
    PROVE  ScanInv'
<1>1. /\ RestartInv' /\ start.step = "ScanPlaylistFolder" /\ start.todo = {} /\ pl \in torn
      /\ UNCHANGED <<db, disk, m3u, torn, ragged, kept>>
      /\ start'.step = "ScanPlaylistFolder" /\ start'.todo = {} /\ start'.read = start.read \ {pl}
  BY LeaveAloneOK DEF ScanInv, RestartInv, PhaseOK, Scanning, LeaveAlone, Starting
<1>2. WalkOK' /\ KeptOK'
  BY <1>1, AfterScan DEF ScanInv
<1>3. ListsOK'
  BY <1>1 DEF ScanInv, ListsOK, Restored
<1> QED
  BY <1>1, <1>2, <1>3 DEF ScanInv

\* After a panic all is still to be done, and nothing is lost.
LEMMA ProcessPlaylistPanicsInv ==
    ASSUME ScanInv, NEW pl \in Playlist, ProcessPlaylistPanics(pl)
    PROVE  ScanInv'
<1>1. /\ start.todo = {} /\ start' = FromTheStart
      /\ UNCHANGED <<db, disk, m3u, torn, ragged, kept>>
  BY DEF ScanInv, RestartInv, PhaseOK, Scanning, ProcessPlaylistPanics, Starting
<1>2. /\ start'.step = "ScanFolder" /\ start'.todo = Found /\ start'.read = {} /\ Found' = Found
  BY <1>1, FromTheStartType DEF Found
<1>3. WalkOK'
  BY <1>2 DEF WalkOK, Covered
<1>4. KeptOK'
  <2>1. \A d : Reproduces(d) => Reproduces(d)'
    BY <1>1, <1>2 DEF Reproduces, ToCome
  <2> QED
    BY <1>1, <2>1 DEF ScanInv, KeptOK
<1>5. ListsOK'
  BY <1>1, <1>2 DEF ScanInv, ListsOK, CompatLists
<1> QED
  BY <1>3, <1>4, <1>5, ProcessPlaylistPanicsOK DEF ScanInv

\* The files that the scan found belong to playlists that it makes again.
LEMMA VisitedLists ==
    ASSUME ScanInv, NEW pl \in Playlist, visitPlaylist(pl)
    PROVE  /\ db'.playlists = db.playlists \cup ({ListCompat[pl]} \ {NoList})
           /\ db'.artists = db.artists /\ db'.listed = db.listed /\ db'.albums = db.albums
           /\ db'.songs = db.songs /\ db'.entries = db.entries
           /\ kept # Nothing => db'.playlists = db.playlists
<1> DEFINE name == ListCompat[pl]
<1>1. /\ db \in Database /\ pl \in start.read /\ name \in Playlist \cup {NoList}
      /\ NoList \notin Playlist /\ pl \notin torn
      /\ db' = IF name = NoList THEN db ELSE CreatePlaylistTx(db, name)
  BY PlaylistsAssumption DEF ScanInv, RestartInv, ListInv, DataOK, visitPlaylist
<1>2. kept # Nothing => name = pl /\ pl \in db.playlists
  BY <1>1 DEF ScanInv, ListsOK, CompatLists
<1> HIDE DEF name
<1>3. /\ db'.artists = db.artists /\ db'.listed = db.listed /\ db'.albums = db.albums
      /\ db'.songs = db.songs /\ db'.entries = db.entries
      /\ db'.playlists = db.playlists \cup ({name} \ {NoList})
  BY <1>1 DEF CreatePlaylistTx, Database
<1> QED
  BY <1>1, <1>2, <1>3 DEF name

LEMMA visitPlaylistInv ==
    ASSUME ScanInv, NEW pl \in Playlist, visitPlaylist(pl)
    PROVE  ScanInv'
<1> DEFINE name == ListCompat[pl]
<1>1. /\ RestartInv' /\ start.step = "ScanPlaylistFolder" /\ start.todo = {}
      /\ UNCHANGED <<disk, m3u, torn, ragged, kept>>
      /\ start'.step = "Remove" /\ start'.todo = {} /\ start'.read = start.read
  BY visitPlaylistOK DEF ScanInv, RestartInv, PhaseOK, Scanning, visitPlaylist, Starting
<1>2. /\ db'.playlists = db.playlists \cup ({name} \ {NoList})
      /\ db'.artists = db.artists /\ db'.listed = db.listed /\ db'.albums = db.albums
      /\ db'.songs = db.songs /\ db'.entries = db.entries
      /\ kept # Nothing => db'.playlists = db.playlists
  BY VisitedLists
<1>3. Found' = Found /\ \A k : ToCome(k) <=> ToCome(k)'
  BY <1>1 DEF Found, ToCome
<1>4. WalkOK'
  <2>1. Covered(db', disk', Found' \ start'.todo)
    BY <1>1, <1>2, <1>3, CoveredKept DEF ScanInv, WalkOK
  <2> QED
    BY <1>1, <2>1 DEF WalkOK
<1>5. KeptOK'
  BY <1>1, <1>2, <1>3 DEF ScanInv, KeptOK, Reproduces
<1>6. \A q \in Playlist : EntriesOf(db', q) = EntriesOf(db, q)
  BY <1>2 DEF EntriesOf
<1>7. \A q \in Playlist : Restored(q) => Restored(q)'
  BY <1>1, <1>2, <1>6 DEF Restored
<1>8. CompatLists(db')
  BY <1>2, ListNamesAssumption DEF ScanInv, ListsOK, CompatLists
<1>9. ListsOK'
  BY <1>1, <1>2, <1>7, <1>8 DEF ScanInv, ListsOK
<1> QED
  BY <1>1, <1>4, <1>5, <1>9 DEF ScanInv

LEMMA RemoveScannedInv ==
    ASSUME ScanInv, RemoveScanned
    PROVE  ScanInv'
<1> PICK pl \in Playlist : pl = start.list
  BY RemoveScannedOK DEF ScanInv
<1>1. /\ RestartInv' /\ start.step = "Remove" /\ start.todo = {}
      /\ UNCHANGED <<db, disk, torn, ragged, kept>>
      /\ start'.step = "Regenerate" /\ start'.todo = {} /\ start'.read = start.read \ {pl}
      /\ m3u'[pl] = NoFile /\ \A q \in Playlist \ {pl} : m3u'[q] = m3u[q]
  BY RemoveScannedOK DEF ScanInv, RestartInv, PhaseOK, Scanning, RemoveScanned, Starting
<1>2. WalkOK' /\ KeptOK'
  BY <1>1, AfterScan DEF ScanInv
<1>3. Restored(pl)' /\ \A q \in Playlist \ {pl} : Restored(q) => Restored(q)'
  BY <1>1 DEF Restored
<1>4. ListsOK'
  BY <1>1, <1>3 DEF ScanInv, ListsOK
<1> QED
  BY <1>1, <1>2, <1>4 DEF ScanInv

LEMMA RegenerateScannedInv ==
    ASSUME ScanInv, RegenerateScanned
    PROVE  ScanInv'
<1> DEFINE pl == ListCompat[start.list]
<1>1. /\ RestartInv' /\ DataOK /\ start.step = "Regenerate" /\ start.todo = {}
      /\ UNCHANGED <<db, disk, kept>> /\ torn' = torn \ {pl} /\ ragged' = ragged \ {pl}
      /\ start'.step = "ScanPlaylistFolder" /\ start'.todo = {} /\ start'.read = start.read
      /\ m3u' = IF pl \in db.playlists THEN [m3u EXCEPT ![pl] = EntriesOf(db, pl)] ELSE m3u
      /\ pl \in db.playlists \cup {NoList}
  BY RegenerateScannedOK DEF ScanInv, RestartInv, ListInv, RegenerateScanned, Starting
<1>2. WalkOK' /\ KeptOK'
  BY <1>1, AfterScan DEF ScanInv
<1> HIDE DEF pl
<1>3. db.playlists \subseteq Playlist /\ NoList \notin Playlist
  BY <1>1, PlaylistsAssumption DEF DataOK, Database
<1>4. \A q \in Playlist \ {pl} :
          m3u'[q] = m3u[q] /\ (q \in torn' <=> q \in torn) /\ (q \in ragged' <=> q \in ragged)
  BY <1>1, <1>3 DEF DataOK
<1>5. pl \in Playlist => pl \in db.playlists /\ pl \notin ragged' /\ m3u'[pl] = EntriesOf(db, pl)
  BY <1>1, <1>3 DEF DataOK
<1>6. \A q \in Playlist \ (torn' \cup start'.read) : Restored(q)'
  <2> SUFFICES ASSUME NEW q \in Playlist, q \notin torn', q \notin start.read
               PROVE  Restored(q)'
    BY <1>1
  <2>1. CASE q = pl
    BY <1>1, <1>5, <2>1 DEF Restored
  <2>2. CASE q # pl
    BY <1>1, <1>4, <2>2 DEF ScanInv, ListsOK, Restored
  <2> QED
    BY <2>1, <2>2
<1>7. kept # Nothing => \A q \in Playlist \ torn' :
          m3u'[q] # NoFile \/ q \in start.read => q \in db.playlists
  BY <1>4, <1>5 DEF ScanInv, ListsOK
<1>8. ListsOK'
  BY <1>1, <1>6, <1>7 DEF ScanInv, ListsOK
<1> QED
  BY <1>1, <1>2, <1>8 DEF ScanInv

LEMMA MountInv ==
    ASSUME ScanInv, Mount
    PROVE  ScanInv'
<1>1. /\ start.step = "ScanPlaylistFolder" /\ start.read = {} /\ start' = Mounted
      /\ UNCHANGED <<db, disk, m3u, torn, ragged>> /\ start.todo = {} /\ db \in Database
      /\ kept' = IF kept = Nothing THEN [db |-> db, disk |-> disk] ELSE kept
  BY DEF Mount, Starting, ScanInv, RestartInv, PhaseOK, Scanning, ListInv, DataOK
<1>2. start'.step = "mounted" /\ start'.todo = {} /\ start'.read = {}
  BY <1>1, MountedType
<1>3. WalkOK'
  BY <1>2 DEF WalkOK
<1>4. kept' = [db |-> db, disk |-> disk] /\ Reproduces(db)
  <2>1. CASE kept = Nothing
    <3>1. Covered(db, disk, Found)
      BY <1>1 DEF ScanInv, WalkOK
    <3> QED
      BY <1>1, <2>1, <3>1 DEF Reproduces
  <2>2. CASE kept # Nothing
    BY <1>1, <2>2, KeptLibrary DEF ScanInv
  <2> QED
    BY <2>1, <2>2
<1>5. KeptOK'
  <2>1. \A d : Reproduces(d) => Reproduces(d)'
    BY <1>1, <1>2 DEF Reproduces, ToCome, Found
  <2> QED
    BY <1>1, <1>4, <2>1 DEF KeptOK
<1>6. ListsOK'
  BY <1>1, <1>2 DEF ScanInv, ListsOK, Restored
<1> QED
  BY <1>3, <1>5, <1>6, MountOK DEF ScanInv

----------------------------------------------------------------------------
(* The end of the process, and the mounted filesystem.                     *)

\* What is left when a session is cut short: of the playlists of the
\* database none is new, and a playlist file that is not torn is that of a
\* playlist or was there before.
LEMMA CutLists ==
    ASSUME ListInv, torn \subseteq Playlist, ragged \subseteq Playlist,
           Cut \/ UNCHANGED <<db, m3u, torn, ragged>>
    PROVE  /\ db'.playlists \subseteq db.playlists
           /\ \A pl \in Playlist \ torn' : m3u'[pl] # NoFile =>
                 pl \in db.playlists \/ (pl \notin torn /\ m3u[pl] # NoFile)
<1>1. DataOK
  BY DEF ListInv
<1> DEFINE Kept == \A pl \in Playlist \ torn' : m3u'[pl] # NoFile =>
                      pl \in db.playlists \/ (pl \notin torn /\ m3u[pl] # NoFile)
<1>2. ASSUME NEW pl, HalfWritten(pl) PROVE db' = db /\ Kept
  BY <1>1, <1>2, HalfWrittenStep
<1>3. ASSUME NEW p \in Process, HalfDone(p) PROVE db'.playlists \subseteq db.playlists /\ Kept
  <2>1. ListShape(call[p])
    BY CallOf DEF ListInv
  <2>2. CASE call[p].step = "DeletePlaylist" /\ db' \in DeletePlaylistTx(db, call[p].list)
             /\ UNCHANGED <<m3u, torn, ragged>>
    <3>1. db \in Database /\ call[p].list \in Playlist
      BY <1>1, <2>1, <2>2 DEF DataOK, ListShape
    <3>2. db'.playlists \subseteq db.playlists
      <4>1. CASE db' = DeletePlaylistBucket(db, call[p].list)
        BY <3>1, <4>1 DEF DeletePlaylistBucket, Database
      <4>2. ASSUME NEW s, db' = [db EXCEPT !.songs = s] PROVE db'.playlists = db.playlists
        BY <3>1, <4>2 DEF Database
      <4> QED
        BY <2>2, <3>1, <4>1, <4>2, DeletePlaylistOutcome
    <3> QED
      BY <2>2, <3>2
  <2>3. CASE /\ m3u' = [m3u EXCEPT ![call[p].list] = NoFile] /\ call[p].list \in db.playlists
             /\ torn' = torn \ {call[p].list} /\ UNCHANGED db
    BY <1>1, <2>3 DEF DataOK
  <2>4. CASE HalfWritten(call[p].list)
    BY <1>2, <2>4
  <2> QED
    BY <1>3, <2>2, <2>3, <2>4 DEF HalfDone
<1> QED
  BY <1>1, <1>2, <1>3 DEF Cut

\* While MuLi starts, only a playlist file can be half written.
LEMMA CutWhileStarting ==
    ASSUME Down, start.step # "mounted", Cut \/ UNCHANGED <<db, m3u, torn, ragged>>
    PROVE  db' = db
<1>1. \A p \in Process : pc[p] = "idle" /\ call[p].step = "idle"
  BY DEF Down, NoCall
<1> QED
  BY <1>1 DEF Cut, HalfDone, HalfWritten

LEMMA StopInv ==
    ASSUME ScanInv, Stop
    PROVE  ScanInv'
<1>1. /\ ListInv /\ DataOK /\ PhaseOK /\ Down /\ disk' = disk
      /\ torn \subseteq Playlist /\ ragged \subseteq Playlist
      /\ Cut \/ UNCHANGED <<db, m3u, torn, ragged>>
      /\ start' = FromTheStart
      /\ kept' = IF start.step = "mounted" /\ [db |-> db', disk |-> disk'] # kept
                 THEN Nothing ELSE kept
  BY DEF ScanInv, RestartInv, ListInv, Stop
<1>2. start'.step = "ScanFolder" /\ start'.todo = Found /\ start'.read = {} /\ Found' = Found
  BY <1>1, FromTheStartType DEF Found
<1>3. start.todo \subseteq Found /\ (start.step = "mounted" => start.todo = {})
  BY <1>1, MountedType DEF PhaseOK
<1>4. WalkOK'
  BY <1>2 DEF WalkOK, Covered
<1>5. kept' # Nothing => kept' = kept /\ kept # Nothing /\ db' = db
  <2> SUFFICES ASSUME kept' # Nothing PROVE kept' = kept /\ kept # Nothing /\ db' = db
    OBVIOUS
  <2>1. CASE start.step = "mounted"
    <3>1. kept = [db |-> db', disk |-> disk'] /\ kept' = kept /\ kept # Nothing
      BY <1>1, <2>1
    <3>2. kept = [db |-> db, disk |-> disk]
      BY <1>3, <2>1, <3>1, KeptLibrary DEF ScanInv
    <3> QED
      BY <3>1, <3>2
  <2>2. CASE start.step # "mounted"
    BY <1>1, <2>2, CutWhileStarting
  <2> QED
    BY <2>1, <2>2
<1>6. KeptOK'
  <2> SUFFICES ASSUME kept' # Nothing PROVE \E d : kept' = [db |-> d, disk |-> disk'] /\ Reproduces(d)'
    BY DEF KeptOK
  <2>1. PICK d : kept = [db |-> d, disk |-> disk] /\ Reproduces(d)
    BY <1>5 DEF ScanInv, KeptOK
  <2>2. \A k : ToCome(k) => ToCome(k)'
    BY <1>1, <1>2, <1>3 DEF ToCome
  <2>3. Reproduces(d)'
    BY <1>1, <1>2, <1>5, <2>1, <2>2 DEF Reproduces
  <2> QED
    BY <1>1, <1>5, <2>1, <2>3
<1>7. ListsOK'
  <2>1. CompatLists(db')
    BY <1>1, CutLists DEF ScanInv, ListsOK, CompatLists
  <2>2. kept' # Nothing => \A pl \in Playlist \ torn' : m3u'[pl] # NoFile => pl \in db'.playlists
    BY <1>1, <1>5, CutLists DEF ScanInv, ListsOK
  <2> QED
    BY <1>2, <2>1, <2>2 DEF ListsOK
<1> QED
  BY <1>4, <1>6, <1>7, StopOK DEF ScanInv

LEMMA ServeInv ==
    ASSUME ScanInv, Serve
    PROVE  ScanInv'
<1>1. /\ ListInv /\ ListNext /\ start = Mounted /\ start' = start
      /\ start.step = "mounted" /\ start.todo = {} /\ start.read = {}
      /\ torn' = {pl \in torn : ~Rewritten(pl)} /\ ragged' = {pl \in ragged : ~Rewritten(pl)}
      /\ kept' = IF kept = Nothing \/ [db |-> db', disk |-> disk'] = kept THEN kept ELSE Nothing
  BY MountedType DEF ScanInv, RestartInv, PhaseOK, Serve
<1>2. WalkOK'
  BY <1>1 DEF WalkOK
<1>3. kept' # Nothing => kept' = kept /\ kept # Nothing /\ db' = db /\ disk' = disk
  <2> SUFFICES ASSUME kept' # Nothing
               PROVE  kept' = kept /\ kept # Nothing /\ db' = db /\ disk' = disk
    OBVIOUS
  <2>1. kept = [db |-> db', disk |-> disk'] /\ kept' = kept /\ kept # Nothing
    BY <1>1
  <2>2. kept = [db |-> db, disk |-> disk]
    BY <1>1, <2>1, KeptLibrary DEF ScanInv
  <2> QED
    BY <2>1, <2>2
<1>4. KeptOK'
  <2>1. kept' # Nothing => \A d : Reproduces(d) => Reproduces(d)'
    BY <1>1, <1>3 DEF Reproduces, ToCome, Found
  <2> QED
    BY <1>3, <2>1 DEF ScanInv, KeptOK
<1>5. CompatLists(db')
  BY <1>1, ListNextCompat DEF ScanInv, ListsOK
<1>6. ASSUME kept' # Nothing, NEW pl \in Playlist, pl \notin torn' PROVE Restored(pl)'
  <2>1. CASE pl \in torn \/ m3u'[pl] # m3u[pl]
    <3>1. Rewritten(pl)
      BY <1>1, <1>6, <2>1 DEF Rewritten
    <3>2. m3u'[pl] = NoFile \/ Writes(pl)
      BY <1>1, <3>1, RewrittenStep
    <3>3. m3u \in [Playlist -> (SUBSET PlaylistFile) \cup {NoFile}] /\ pl \notin ragged'
      BY <1>1, <3>1 DEF ListInv, DataOK
    <3>4. CASE m3u'[pl] = NoFile
      BY <3>4 DEF Restored
    <3>5. CASE Writes(pl)
      <4>1. pl \in db'.playlists /\ m3u'[pl] = EntriesOf(db, pl) /\ db' = db
        BY <3>3, <3>5 DEF Writes
      <4> QED
        BY <3>3, <4>1 DEF Restored
    <3> QED
      BY <3>2, <3>4, <3>5
  <2>2. CASE pl \notin torn /\ m3u'[pl] = m3u[pl]
    <3>1. Restored(pl)
      BY <1>1, <1>3, <1>6, <2>2 DEF ScanInv, ListsOK
    <3>2. ragged' \subseteq ragged /\ db' = db
      BY <1>1, <1>3, <1>6
    <3> QED
      BY <2>2, <3>1, <3>2 DEF Restored
  <2> QED
    BY <2>1, <2>2
<1>7. ListsOK'
  BY <1>1, <1>5, <1>6 DEF ListsOK, Restored
<1> QED
  BY <1>2, <1>4, <1>7, ServeOK DEF ScanInv

LEMMA ScanInitOK == RestartInit => ScanInv
<1> SUFFICES ASSUME RestartInit PROVE ScanInv
  OBVIOUS
<1>1. RestartInv /\ start = Mounted /\ kept = Nothing /\ Init
  BY RestartInitOK DEF RestartInit, ListInit
<1>2. WalkOK /\ KeptOK
  BY <1>1, MountedType DEF WalkOK, KeptOK
<1>3. PICK i \in Initial : db = i.db
  BY <1>1 DEF Init
<1>4. CompatLists(db)
  BY <1>3, ListNamesAssumption DEF CompatLists
<1>5. ListsOK
  BY <1>1, <1>4, MountedType DEF ListsOK
<1> QED
  BY <1>1, <1>2, <1>5 DEF ScanInv

LEMMA ScanStutter ==
    ASSUME ScanInv, UNCHANGED allVars
    PROVE  ScanInv'
<1>1. UNCHANGED <<db, disk, m3u, start, torn, ragged, kept>>
  BY DEF allVars, vars, restartVars, files
<1>2. Found' = Found /\ \A d : Reproduces(d) => Reproduces(d)'
  BY <1>1 DEF Found, Reproduces, ToCome
<1>3. WalkOK' /\ KeptOK' /\ ListsOK'
  BY <1>1, <1>2 DEF ScanInv, WalkOK, KeptOK, ListsOK, Restored
<1> QED
  BY <1>3, RestartStutterOK DEF ScanInv

LEMMA ScanNextOK ==
    ASSUME ScanInv, [RestartNext]_allVars
    PROVE  ScanInv'
<1>1. ASSUME NEW f \in Path, StoreNewSong(f) PROVE ScanInv'
  BY <1>1, StoreNewSongOK, StoreWalk, StoreKept, StoreLists DEF ScanInv
<1> QED
  BY <1>1, ServeInv, StopInv, VisitInv, ScanPlaylistFolderInv, LeaveAloneInv,
     ProcessPlaylistPanicsInv, visitPlaylistInv, RemoveScannedInv, RegenerateScannedInv, MountInv,
     ScanStutter
     DEF RestartNext, StartStep

LEMMA ScanInvHolds == RestartSpec => []ScanInv
  BY ScanInitOK, ScanNextOK, PTL DEF RestartSpec

\* What is known of a library that was just mounted.
LEMMA JustMountedLibrary ==
    ASSUME ScanInv, JustMounted
    PROVE  kept = [db |-> db, disk |-> disk] /\ Covered(db, disk, Found)
  BY KeptLibrary, MountedType DEF ScanInv, JustMounted, Reproduces

(***************************************************************************)
(* The files that are found when MuLi starts are in the library when it    *)
(* has mounted: ScanFolder comes to every one of them, whatever the        *)
(* database held and however often MuLi ended on the way.                  *)
(***************************************************************************)
THEOREM ScanFindsFiles == RestartSpec => []FilesFound
<1>1. ScanInv => FilesFound
  <2> SUFFICES ASSUME ScanInv, JustMounted, NEW f \in Path, disk[f] # NoFile
               PROVE  /\ disk[f] \in Tags
                      /\ LET k == SongOf(disk[f]) IN HasPlace(k) =>
                            /\ HasAlbum(db, AlbumOf(k)) /\ Contains(db.listed[k[1]], k[2])
                            /\ db.songs[k] # NoSong
                            /\ disk[db.songs[k].path] # NoFile
                            /\ SongOf(disk[db.songs[k].path]) = k
    BY DEF FilesFound
  <2> DEFINE k == SongOf(disk[f])
  <2>1. Covered(db, disk, Found) /\ f \in Found
    BY JustMountedLibrary DEF Found
  <2>2. disk[f] \in Tags
    BY <2>1 DEF Covered
  <2>3. ASSUME HasPlace(k) PROVE /\ HasAlbum(db, AlbumOf(k)) /\ Contains(db.listed[k[1]], k[2])
                                 /\ db.songs[k] # NoSong
                                 /\ disk[db.songs[k].path] # NoFile
                                 /\ SongOf(disk[db.songs[k].path]) = k
    <3>1. Stored(db, disk, Found, k)
      BY <2>1, <2>3 DEF Covered
    <3> HIDE DEF k
    <3>2. PICK g \in Found : LastNaming(disk, Found, k, g)
                             /\ db.songs[k] = [path |-> g, lists |-> <<>>]
      BY <3>1 DEF Stored
    <3>3. g \in Path /\ disk[g] # NoFile
      BY DEF Found
    <3>4. [path |-> g, lists |-> <<>>] # NoSong
      <4>1. <<>> \in Seq(Playlist)
        OBVIOUS
      <4>2. [path |-> g, lists |-> <<>>] \in [path : SongKey \cup OtherPath, lists : Seq(Playlist)]
        BY <3>3, <4>1 DEF Path
      <4> QED
        BY <4>2, SentinelAssumption
    <3>5. SongOf(disk[g]) = k
      BY <3>2 DEF LastNaming
    <3> QED
      BY <3>1, <3>2, <3>3, <3>4, <3>5 DEF Stored
  <2> QED
    BY <2>2, <2>3
<1> QED
  BY <1>1, ScanInvHolds, PTL

(***************************************************************************)
(* A scan of what was scanned already changes nothing: StoreNewSong makes  *)
(* again what is there, and of two files that name one song the one that   *)
(* Walk comes to last has it before and after, also when MuLi ends between *)
(* the two.                                                                *)
(***************************************************************************)
THEOREM RescanIsIdempotent == RestartSpec => []RescanChangesNothing
<1>1. ScanInv => RescanChangesNothing
  BY JustMountedLibrary DEF RescanChangesNothing
<1> QED
  BY <1>1, ScanInvHolds, PTL

(***************************************************************************)
(* When MuLi has mounted, the playlist files are those of the database     *)
(* again, wherever between two WriteStrings of RegeneratePlaylistFile it   *)
(* had ended, but for one without its first line: no line is taken from    *)
(* them, the playlists they are named after are in the database or made,   *)
(* and each file is written anew.  That MuLi mounts is not said: it does   *)
(* not while a file is cut inside a #MULI line, so none is then.           *)
(***************************************************************************)
THEOREM ScanRestoresPlaylistFiles == RestartSpec => []PlaylistFilesRestored
<1>1. ScanInv => PlaylistFilesRestored
  BY MountedType DEF ScanInv, ListsOK, Restored, PlaylistFilesRestored, JustMounted
<1> QED
  BY <1>1, ScanInvHolds, PTL
=============================================================================
