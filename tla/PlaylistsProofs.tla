-------------------------- MODULE PlaylistsProofs --------------------------
(***************************************************************************)
(* Theorems about Playlists and Library at work together, for any names,   *)
(* requests, playlists, number of clients and libraries to begin with.     *)
(*                                                                         *)
(* The argument.  A step of Library is one of those that LibraryProofs     *)
(* deals with, and a handler of Playlists goes on when it returns; a step  *)
(* of Playlists is taken by a process that is in no session and leaves the *)
(* frames of Library alone, or puts a new one there that has the shape its *)
(* first step needs (ControlOK).  The frame of a handler of Playlists has  *)
(* a shape of its own (CallsOK): the handler that removes a playlist has a *)
(* playlist to remove, and the one that adds a song to it has the song and *)
(* its path.  No transaction on playlists gives a song another file, which *)
(* carries DistinctFiles over to the two modules together.                 *)
(***************************************************************************)
EXTENDS Playlists, LibraryProofs

\* What a step relies on in the frame it finds.
ListShape(c) ==
    /\ c.step \in {"CreatePlaylist", "RenamePlaylist"} => c.to \in Playlist
    /\ c.step \in {"DeletePlaylist", "RenamePlaylist", "getPlaylistFile"} => c.list \in Playlist
    /\ c.step = "getPlaylistFile" => c.old \in TitleName /\ c.new \in TitleName
    /\ c.step = "FindSong" => c.path \in ListDrop
    /\ c.step \in {"FindSong", "HandleDrop", "FindFiled", "AddSongPath", "AddSongEntry"} =>
          c.song \in SongKey
    /\ c.step = "AddSongEntry" => c.at \in Path

CallsOK ==
    /\ call \in [Process -> Call]
    /\ \A p \in Process : ListShape(call[p])
    /\ handle \in [ListDrop -> {"none", "open", "waiting"}]

LEMMA BecomesOK ==
    ASSUME CallsOK, NEW p \in Process, NEW c \in Call, ListShape(c), Becomes(p, c),
           UNCHANGED handle
    PROVE  CallsOK'
  BY DEF CallsOK, Becomes

LEMMA NoCallOK == NoCall \in Call /\ ListShape(NoCall)
  BY DEF NoCall, Call, ListShape

LEMMA DoneOK ==
    ASSUME CallsOK, NEW p \in Process, Done(p), UNCHANGED handle
    PROVE  CallsOK'
  BY BecomesOK, NoCallOK DEF Done

LEMMA CallOf ==
    ASSUME CallsOK, NEW p \in Process
    PROVE  call[p] \in Call /\ ListShape(call[p])
  BY DEF CallsOK

LEMMA CallsStay ==
    ASSUME CallsOK, UNCHANGED listVars
    PROVE  CallsOK'
  BY DEF CallsOK, listVars

LEMMA ControlStays ==
    ASSUME ControlOK, UNCHANGED <<pc, loc, lock>>
    PROVE  ControlOK'
  BY DEF ControlOK

\* The process goes on with its frame as it is.
LEMMA ProceedOK ==
    ASSUME CallsOK, NEW p \in Process, NEW step,
           [call[p] EXCEPT !.step = step] \in Call,
           ListShape([call[p] EXCEPT !.step = step]),
           Proceed(p, step), UNCHANGED handle
    PROVE  CallsOK'
  BY BecomesOK DEF Proceed

\* The steps that rely on nothing, and those that rely on the song alone.
LEMMA ProceedTo ==
    ASSUME CallsOK, NEW p \in Process,
           NEW step \in {"RegenerateList", "RemoveDropped", "DiscardDropped", "MoveSongs",
                         "HandleDrop", "FindFiled", "AddSongPath"},
           step \in {"HandleDrop", "FindFiled", "AddSongPath"} => call[p].song \in SongKey,
           Proceed(p, step), UNCHANGED handle
    PROVE  CallsOK'
<1> DEFINE c == [call[p] EXCEPT !.step = step]
<1>1. call[p] \in Call
  BY CallOf
<1>2. c \in Call /\ c.step = step /\ c.song = call[p].song
  BY <1>1 DEF Call
<1> HIDE DEF c
<1>3. ListShape(c)
  BY <1>2 DEF ListShape
<1> QED
  BY <1>2, <1>3, ProceedOK DEF c

----------------------------------------------------------------------------
(* The invariant, and one lemma for each step.                             *)

ListInv == ControlOK /\ DataOK /\ CallsOK

LEMMA StartListOK ==
    ASSUME ListInv, NEW p \in Process, NEW r \in ListRequests, StartList(p, r)
    PROVE  ListInv'
<1>1. r \in Call /\ ListShape(r)
  <2>1. r \in ListRequest
    BY PlaylistsAssumption
  <2>2. CASE \E pl \in Playlist :
               r = [NoCall EXCEPT !.op = "mkdir", !.step = "CreatePlaylist", !.to = pl]
    BY <2>2 DEF NoCall, Call, ListShape
  <2>3. CASE \E pl \in Playlist :
               r = [NoCall EXCEPT !.op = "remove", !.step = "DeletePlaylist", !.list = pl]
    BY <2>3 DEF NoCall, Call, ListShape
  <2>4. CASE \E pl, pq \in Playlist :
               r = [NoCall EXCEPT !.op = "rename", !.step = "RenamePlaylist", !.list = pl,
                                  !.to = pq]
    BY <2>4 DEF NoCall, Call, ListShape
  <2>5. CASE \E pl \in Playlist, s, t \in TitleName :
               r = [NoCall EXCEPT !.op = "move", !.step = "getPlaylistFile", !.list = pl,
                                  !.old = s, !.new = t]
    BY <2>5 DEF NoCall, Call, ListShape
  <2> QED
    BY <2>1, <2>2, <2>3, <2>4, <2>5 DEF ListRequest
<1>2. CallsOK'
  BY <1>1, BecomesOK DEF StartList, ListInv
<1>3. started' \in 0 .. MaxRequests
  BY LibraryAssumption DEF StartList, ListInv, DataOK
<1>4. DataOK'
  BY <1>3 DEF StartList, ListInv, DataOK, files
<1>5. ControlOK'
  BY ControlStays DEF StartList, ListInv
<1> QED
  BY <1>2, <1>4, <1>5 DEF ListInv

LEMMA RegenerateListOK ==
    ASSUME ListInv, NEW p \in Process, RegenerateList(p)
    PROVE  ListInv'
<1>1. CallsOK' /\ ControlOK'
  BY DoneOK, ControlStays DEF RegenerateList, ListSession, At, ListInv
<1>2. call[p].list \in db.playlists => EntriesOf(db, call[p].list) \subseteq PlaylistFile
  <2>1. db \in Database /\ db.playlists \subseteq Playlist
    BY DEF ListInv, DataOK, Database
  <2> QED
    BY <2>1, EntriesOfType
<1>3. m3u' \in [Playlist -> (SUBSET PlaylistFile) \cup {NoFile}]
  BY <1>2 DEF RegenerateList, ListInv, DataOK
<1>4. DataOK'
  BY <1>3 DEF RegenerateList, ListSession, At, ListInv, DataOK
<1> QED
  BY <1>1, <1>4 DEF ListInv

LEMMA CreatePlaylistOK ==
    ASSUME ListInv, NEW p \in Process, CreatePlaylist(p)
    PROVE  ListInv'
<1> DEFINE name == ListCompat[call[p].to]
           c    == [call[p] EXCEPT !.step = "RegenerateList", !.list = name]
<1>1. call[p] \in Call /\ call[p].to \in Playlist
  BY CallOf DEF CreatePlaylist, ListSession, At, ListInv, ListShape
<1>2. name \in Playlist \cup {NoList}
  BY <1>1, PlaylistsAssumption
<1>3. ControlOK' /\ UNCHANGED <<files, started, handle>>
  BY ControlStays DEF CreatePlaylist, ListSession, At, ListInv
<1>4. CASE name = NoList
  BY <1>3, <1>4, DoneOK DEF CreatePlaylist, ListInv, DataOK, files
<1>5. CASE name # NoList
  <2>1. db' = CreatePlaylistTx(db, name) /\ Becomes(p, c)
    BY <1>5 DEF CreatePlaylist
  <2> HIDE DEF name
  <2>2. c \in Call /\ c.step = "RegenerateList"
    BY <1>1, <1>2 DEF Call
  <2> HIDE DEF c
  <2>3. CallsOK'
    BY <1>3, <2>1, <2>2, BecomesOK DEF ListShape, ListInv
  <2>4. db' \in Database
    BY <1>2, <1>5, <2>1, CreatePlaylistType DEF ListInv, DataOK
  <2> QED
    BY <1>3, <2>3, <2>4 DEF ListInv, DataOK, files
<1> QED
  BY <1>4, <1>5

LEMMA NoM3u ==
    ASSUME m3u \in [Playlist -> (SUBSET PlaylistFile) \cup {NoFile}], NEW pl,
           m3u' = [m3u EXCEPT ![pl] = NoFile]
    PROVE  m3u' \in [Playlist -> (SUBSET PlaylistFile) \cup {NoFile}]
  OBVIOUS

LEMMA DeletePlaylistOK ==
    ASSUME ListInv, NEW p \in Process, DeletePlaylist(p)
    PROVE  ListInv'
<1>1. call[p].list \in Playlist
  BY CallOf DEF DeletePlaylist, ListSession, At, ListInv, ListShape
<1>2. CallsOK' /\ ControlOK' /\ UNCHANGED <<disk, dirs, started>>
  BY DoneOK, ControlStays DEF DeletePlaylist, ListSession, At, ListInv
<1>3. db' \in Database
  BY <1>1, DeletePlaylistType DEF DeletePlaylist, ListInv, DataOK
<1>4. m3u' \in [Playlist -> (SUBSET PlaylistFile) \cup {NoFile}]
  BY NoM3u DEF DeletePlaylist, ListInv, DataOK
<1> QED
  BY <1>2, <1>3, <1>4 DEF ListInv, DataOK

LEMMA RenamePlaylistOK ==
    ASSUME ListInv, NEW p \in Process, RenamePlaylist(p)
    PROVE  ListInv'
<1> DEFINE old  == call[p].list
           name == ListCompat[call[p].to]
           c    == [call[p] EXCEPT !.step = "RegenerateList", !.list = name]
<1>1. call[p] \in Call /\ old \in Playlist /\ call[p].to \in Playlist
  BY CallOf DEF RenamePlaylist, ListSession, At, ListInv, ListShape
<1>2. name \in Playlist \cup {NoList}
  BY <1>1, PlaylistsAssumption
<1>3. ControlOK' /\ UNCHANGED <<disk, dirs, started, handle>>
  BY ControlStays DEF RenamePlaylist, ListSession, At, ListInv
<1>4. /\ Done(p) \/ Becomes(p, c)
      /\ \/ /\ name # NoList /\ db' = RenamePlaylistTx(db, old, name)
            /\ m3u' = [m3u EXCEPT ![old] = NoFile]
         \/ UNCHANGED <<db, m3u>>
  BY DEF RenamePlaylist
<1> HIDE DEF old, name
<1>5. c \in Call /\ c.step = "RegenerateList"
  BY <1>1, <1>2 DEF Call
<1> HIDE DEF c
<1>6. CallsOK'
  BY <1>3, <1>4, <1>5, DoneOK, BecomesOK DEF ListShape, ListInv
<1>7. db' \in Database
  BY <1>1, <1>2, <1>4, RenamePlaylistType DEF ListInv, DataOK
<1>8. m3u' \in [Playlist -> (SUBSET PlaylistFile) \cup {NoFile}]
  BY <1>4, NoM3u DEF ListInv, DataOK
<1> QED
  BY <1>3, <1>6, <1>7, <1>8 DEF ListInv, DataOK

\* MoveSongs is called with a frame that has the shape it needs.
LEMMA getPlaylistFileOK ==
    ASSUME ListInv, NEW p \in Process, getPlaylistFile(p)
    PROVE  ListInv'
<1> DEFINE e    == db.entries[<<call[p].list, call[p].old>>]
           from == e.key
           path == e.path
           to   == <<e.key[1], e.key[2], call[p].new>>
           req  == [NoRequest EXCEPT !.from = from]
           f    == [Blank EXCEPT !.req = req, !.from = from, !.to = to, !.path = path]
<1>1. /\ call[p].list \in Playlist /\ call[p].old \in TitleName /\ call[p].new \in TitleName
      /\ pc[p] = "idle" /\ UNCHANGED <<lock, started, handle, db, files>>
  BY CallOf DEF getPlaylistFile, At, ListInv, ListShape
<1>2. DataOK'
  BY <1>1 DEF ListInv, DataOK, files
<1>3. CASE e = NoEntry
  <2>1. Done(p) /\ UNCHANGED <<pc, loc>>
    BY <1>3 DEF getPlaylistFile
  <2> QED
    BY <1>1, <1>2, <2>1, DoneOK, ControlStays DEF ListInv
<1>4. CASE e # NoEntry
  <2>1. Proceed(p, "MoveSongs") /\ Goto(p, "MoveSongs", f)
    BY <1>4 DEF getPlaylistFile
  <2>2. from \in SongKey /\ path \in Path
    BY <1>1, <1>4 DEF ListInv, DataOK, Database, PlaylistFile
  <2>3. to \in SongKey
    BY <1>1, <2>2, KeyParts DEF SongKey
  <2> HIDE DEF from, path, to
  <2>4. req \in Request
    BY <2>2 DEF NoRequest, Request, Node
  <2> HIDE DEF req
  <2>5. f \in Frame /\ f.from = from /\ f.to = to /\ f.path = path /\ f.victims = {}
    BY <2>2, <2>3, <2>4, BlankFrame DEF Frame, Blank, Node
  <2> HIDE DEF f
  <2>6. Shape("MoveSongs", f)
    BY <2>2, <2>3, <2>5 DEF Shape, MoveSongsSteps
  <2>7. Proceeds(p)
    BY <2>1, <2>5, <2>6 DEF Proceeds, Steps, KeepsOpen
  <2>8. ControlOK'
    BY <1>1, <2>7, ProceedsControl DEF ListInv, KeepsOpen
  <2>9. CallsOK'
    BY <1>1, <2>1, ProceedTo DEF ListInv
  <2> QED
    BY <1>2, <2>8, <2>9 DEF ListInv
<1> QED
  BY <1>3, <1>4

----------------------------------------------------------------------------
(* Files copied into a playlist.                                           *)

LEMMA DropPath == ListDrop \subseteq DropFile /\ ListDrop \subseteq Path
  BY PlaylistsAssumption, LibraryAssumption DEF Path

LEMMA CreateInListOK ==
    ASSUME ListInv, NEW f \in ListDrop, CreateInList(f)
    PROVE  ListInv'
<1>1. started' \in 0 .. MaxRequests
  BY LibraryAssumption DEF CreateInList, ListInv, DataOK
<1>2. DiskOK(disk)'
  BY DropPath, WriteFile DEF CreateInList, ListInv, DataOK, DiskOK
<1>3. CallsOK'
  BY DEF CreateInList, ListInv, CallsOK
<1> QED
  BY <1>1, <1>2, <1>3, ControlStays DEF CreateInList, ListInv, DataOK

LEMMA CloseInListOK ==
    ASSUME ListInv, NEW f \in ListDrop, NEW t \in Content, CloseInList(f, t)
    PROVE  ListInv'
<1>1. t \in Tags /\ f \in Path
  BY PlaylistsAssumption, DropPath
<1>2. DiskOK(Retagged(f, t))
  BY <1>1, RetaggedFile DEF ListInv, DataOK
<1>3. CallsOK'
  BY DEF CloseInList, ListInv, CallsOK
<1> QED
  BY <1>2, <1>3, ControlStays DEF CloseInList, ListInv, DataOK

LEMMA HandleSongOK ==
    ASSUME ListInv, NEW f \in ListDrop, HandleSong(f)
    PROVE  ListInv'
<1> DEFINE t    == TagsOf(f)
           p    == Dispatcher
           song == <<Compat[t.artist], Compat[t.album], Compat[t.title]>>
           list == ListOf[f]
           c    == [NoCall EXCEPT !.op = "drop", !.step = "FindSong", !.path = f, !.list = list,
                                  !.song = song]
<1>1. f \in DropFile /\ f \in Path /\ list \in Playlist /\ p \in Process
  BY DropPath, PlaylistsAssumption DEF Process
<1>2. ControlOK' /\ handle' \in [ListDrop -> {"none", "open", "waiting"}]
  BY ControlStays DEF HandleSong, ListInv, CallsOK
<1>3. CASE disk[f] = NoFile
  <2>1. CallsOK'
    BY <1>2, <1>3 DEF HandleSong, ListInv, CallsOK
  <2> QED
    BY <1>2, <1>3, <2>1 DEF HandleSong, ListInv, DataOK
<1>4. CASE disk[f] # NoFile
  <2>1. t \in Tags
    BY <1>1, <1>4, TagsOfType DEF ListInv, DataOK
  <2>2. song \in SongKey
    BY <2>1, CompatParts DEF Tags, SongKey
  <2>3. disk' = [disk EXCEPT ![f] = t] /\ Becomes(p, c)
    BY <1>4 DEF HandleSong
  <2> HIDE DEF t, song, list
  <2>4. DiskOK(disk)'
    BY <1>1, <2>1, <2>3, WriteFile DEF ListInv, DataOK, DiskOK
  <2>5. c \in Call /\ c.step = "FindSong" /\ c.path = f /\ c.song = song
    BY <1>1, <2>2 DEF Call, NoCall
  <2> HIDE DEF c
  <2>6. ListShape(c)
    BY <2>2, <2>5 DEF ListShape
  <2>7. CallsOK'
    BY <1>1, <1>2, <2>3, <2>5, <2>6 DEF ListInv, CallsOK, Becomes
  <2> QED
    BY <1>2, <2>4, <2>7 DEF HandleSong, ListInv, DataOK
<1> QED
  BY <1>3, <1>4

LEMMA FindSongOK ==
    ASSUME ListInv, NEW p \in Process, FindSong(p)
    PROVE  ListInv'
<1> DEFINE path == call[p].path
           req  == [NoRequest EXCEPT !.op = "drop", !.file = path]
           f    == [Blank EXCEPT !.req = req, !.path = path]
<1>1. /\ path \in DropFile /\ path \in Path /\ call[p].song \in SongKey
      /\ pc[p] = "idle" /\ UNCHANGED <<lock, started, handle, db, files>>
  BY CallOf, DropPath DEF FindSong, At, ListInv, ListShape
<1>2. DataOK'
  BY <1>1 DEF ListInv, DataOK, files
<1>3. CASE Proceed(p, "AddSongPath") /\ UNCHANGED <<pc, loc>>
  BY <1>1, <1>2, <1>3, ProceedTo, ControlStays DEF ListInv
<1>4. CASE Proceed(p, "HandleDrop") /\ Goto(p, "GetMp3Tags", f)
  <2> HIDE DEF path
  <2>1. req \in Request
    BY <1>1 DEF NoRequest, Request, Node
  <2> HIDE DEF req
  <2>2. f \in Frame /\ f.path = path /\ f.victims = {}
    BY <1>1, <2>1, BlankFrame DEF Frame, Blank
  <2> HIDE DEF f
  <2>3. Shape("GetMp3Tags", f)
    BY <1>1, <2>2 DEF Shape, MoveSongsSteps
  <2>4. Proceeds(p)
    BY <1>4, <2>2, <2>3 DEF Proceeds, Steps, KeepsOpen
  <2>5. ControlOK'
    BY <1>1, <2>4, ProceedsControl DEF ListInv, KeepsOpen
  <2>6. CallsOK'
    BY <1>1, <1>4, ProceedTo DEF ListInv
  <2> QED
    BY <1>2, <2>5, <2>6 DEF ListInv
<1> QED
  BY <1>3, <1>4 DEF FindSong

LEMMA FindFiledOK ==
    ASSUME ListInv, NEW p \in Process, FindFiled(p)
    PROVE  ListInv'
<1>1. call[p].song \in SongKey
  BY CallOf DEF FindFiled, ListSession, At, ListInv, ListShape
<1>2. Proceed(p, "AddSongPath") \/ Proceed(p, "DiscardDropped")
  BY DEF FindFiled
<1> QED
  BY <1>1, <1>2, ProceedTo, ControlStays
     DEF FindFiled, ListSession, At, ListInv, DataOK, files

LEMMA AddSongPathOK ==
    ASSUME ListInv, NEW p \in Process, AddSongPath(p)
    PROVE  ListInv'
<1> DEFINE s  == db.songs[call[p].song]
           at == s.path
           c  == [call[p] EXCEPT !.step = "AddSongEntry", !.at = at]
<1>1. call[p] \in Call /\ call[p].song \in SongKey
  BY CallOf DEF AddSongPath, ListSession, At, ListInv, ListShape
<1>2. ControlOK' /\ DataOK' /\ UNCHANGED handle
  BY ControlStays DEF AddSongPath, ListSession, At, ListInv, DataOK, files
<1>3. CASE s = NoSong
  BY <1>2, <1>3, ProceedTo DEF AddSongPath, ListInv
<1>4. CASE s # NoSong
  <2>1. at \in Path /\ Becomes(p, c)
    BY <1>1, <1>4 DEF AddSongPath, ListInv, DataOK, Database, SongStore
  <2> HIDE DEF at
  <2>2. c \in Call /\ c.step = "AddSongEntry" /\ c.song \in SongKey /\ c.at \in Path
    BY <1>1, <2>1 DEF Call
  <2> HIDE DEF c
  <2>3. ListShape(c)
    BY <2>2 DEF ListShape
  <2> QED
    BY <1>2, <2>1, <2>2, <2>3, BecomesOK DEF ListInv
<1> QED
  BY <1>3, <1>4

LEMMA AddSongEntryOK ==
    ASSUME ListInv, NEW p \in Process, AddSongEntry(p)
    PROVE  ListInv'
<1> DEFINE c == call[p]
<1>1. c.song \in SongKey /\ c.at \in Path
  BY CallOf DEF AddSongEntry, ListSession, At, ListInv, ListShape
<1>2. ControlOK' /\ UNCHANGED <<files, started, handle>>
  BY ControlStays DEF AddSongEntry, ListSession, At, ListInv
<1>3. CallsOK'
  BY <1>2, ProceedTo DEF AddSongEntry, ListInv
<1>4. db' \in Database
  <2>1. db \in Database /\ db.playlists \subseteq Playlist
    BY DEF ListInv, DataOK, Database
  <2> QED
    BY <1>1, <2>1, AddFileToPlaylistType DEF AddSongEntry
<1> QED
  BY <1>2, <1>3, <1>4 DEF ListInv, DataOK, files

LEMMA RemoveDroppedOK ==
    ASSUME ListInv, NEW p \in Process, RemoveDropped(p)
    PROVE  ListInv'
<1>1. UNCHANGED <<db, dirs, m3u, pc, loc, lock, started, handle>>
  BY DEF RemoveDropped, At
<1>2. CallsOK'
  BY <1>1, ProceedTo, DoneOK DEF RemoveDropped, ListInv
<1>3. DiskOK(disk)'
  BY DEF RemoveDropped, ListInv, DataOK, DiskOK
<1> QED
  BY <1>1, <1>2, <1>3, ControlStays DEF ListInv, DataOK

----------------------------------------------------------------------------
(* MoveSongs and HandleDrop, when a handler of this module has called them.*)

LEMMA LibraryStepOK ==
    ASSUME ListInv, NEW p \in Process, LibraryStep(p)
    PROVE  ListInv'
<1>1. ControlOK' /\ DataOK'
  BY NextOK DEF LibraryStep, Next, ListInv
<1>2. UNCHANGED handle
  BY DEF LibraryStep
<1>3. CASE UNCHANGED call
  BY <1>1, <1>2, <1>3, CallsStay DEF ListInv, listVars
<1>4. CASE call[p].step \in {"MoveSongs", "HandleDrop"} /\ Resume(p)
  <2>1. call[p].step = "HandleDrop" => call[p].song \in SongKey
    BY CallOf DEF ListInv, ListShape
  <2>2. \/ Proceed(p, "RegenerateList") \/ Done(p) \/ Proceed(p, "DiscardDropped")
        \/ call[p].step = "HandleDrop" /\ Proceed(p, "FindFiled")
    <3>1. CASE call[p].step = "MoveSongs"
      BY <1>4, <3>1 DEF Resume
    <3>2. CASE call[p].step = "HandleDrop"
      BY <1>4, <3>2 DEF Resume
    <3> QED
      BY <1>4, <3>1, <3>2
  <2>3. CallsOK'
    BY <1>2, <2>1, <2>2, ProceedTo, DoneOK DEF ListInv
  <2> QED
    BY <1>1, <2>3 DEF ListInv
<1> QED
  BY <1>3, <1>4 DEF LibraryStep

LEMMA LibraryStartOK ==
    ASSUME ListInv, NEW p \in Process, NEW r \in Requests, LibraryStart(p, r)
    PROVE  ListInv'
  BY StartKeeps, CallsStay DEF LibraryStart, ListInv

----------------------------------------------------------------------------
LEMMA ListInitOK == ListInit => ListInv
<1> SUFFICES ASSUME ListInit PROVE ListInv
  OBVIOUS
<1>1. CallsOK
  BY NoCallOK DEF ListInit, CallsOK
<1> QED
  BY <1>1, InitOK DEF ListInit, ListInv

LEMMA ListStutterOK ==
    ASSUME ListInv, UNCHANGED <<vars, listVars>>
    PROVE  ListInv'
  BY StutterOK, CallsStay DEF ListInv

LEMMA ListNextOK ==
    ASSUME ListInv, [ListNext]_<<vars, listVars>>
    PROVE  ListInv'
<1>1. ASSUME NEW p \in Process, ListStep(p) PROVE ListInv'
  BY <1>1, CreatePlaylistOK, DeletePlaylistOK, RenamePlaylistOK, RegenerateListOK,
     getPlaylistFileOK, FindSongOK, FindFiledOK, AddSongPathOK, AddSongEntryOK,
     RemoveDroppedOK
     DEF ListStep
<1> QED
  BY <1>1, LibraryStepOK, LibraryStartOK, StartListOK, CreateInListOK, CloseInListOK,
     HandleSongOK, ListStutterOK
     DEF ListNext

(***************************************************************************)
(* Every variable of Playlists and of Library keeps its type, whatever is  *)
(* done to songs and to playlists in whatever order, and the flock is held *)
(* exactly by the handler that is still at work inside a session.          *)
(***************************************************************************)
THEOREM ListTypeCorrect == ListSpec => []ListTypeOK
<1>1. ListInv => ListTypeOK
  BY DEF ListInv, ControlOK, DataOK, DiskOK, CallsOK, TypeOK, ListTypeOK
<1>2. ListInv /\ [ListNext]_<<vars, listVars>> => ListInv'
  BY ListNextOK
<1> QED
  BY <1>1, <1>2, ListInitOK, PTL DEF ListSpec

----------------------------------------------------------------------------
(* Music files.                                                            *)

LEMMA ListPaths ==
    ASSUME ListInv, [ListNext]_<<vars, listVars>>
    PROVE  PathsStep
<1>1. db \in Database /\ db.playlists \subseteq Playlist
  BY DEF ListInv, DataOK, Database
<1>2. ASSUME NEW p \in Process, LibraryStep(p) PROVE PathsStep
  BY <1>2, StepPaths DEF LibraryStep, ListInv
<1>3. ASSUME NEW p \in Process, ListStep(p) PROVE PathsStep
  <2>1. call[p] \in Call /\ ListShape(call[p])
    BY CallOf DEF ListInv
  <2>2. CASE CreatePlaylist(p)
    BY <1>1, <2>2, SameDatabase, CreatePlaylistKeeps DEF CreatePlaylist, PathsStep
  <2>3. CASE DeletePlaylist(p)
    <3>1. call[p].list \in Playlist
      BY <2>1, <2>3 DEF DeletePlaylist, ListSession, At, ListShape
    <3> QED
      BY <1>1, <2>3, <3>1, DeletePlaylistKeeps DEF DeletePlaylist, PathsStep
  <2>4. CASE RenamePlaylist(p)
    <3> DEFINE name == ListCompat[call[p].to]
    <3>1. call[p].list \in Playlist /\ call[p].to \in Playlist
      BY <2>1, <2>4 DEF RenamePlaylist, ListSession, At, ListShape
    <3>2. name \in Playlist \cup {NoList}
      BY <3>1, PlaylistsAssumption
    <3>3. \/ name # NoList /\ db' = RenamePlaylistTx(db, call[p].list, name)
          \/ UNCHANGED <<db, m3u>>
      BY <2>4 DEF RenamePlaylist
    <3> HIDE DEF name
    <3> QED
      BY <1>1, <3>1, <3>2, <3>3, SameDatabase, RenamePlaylistKeeps DEF PathsStep
  <2>5. CASE AddSongEntry(p)
    <3>1. call[p].song \in SongKey
      BY <2>1, <2>5 DEF AddSongEntry, ListSession, At, ListShape
    <3>2. \/ db' = db
          \/ /\ db.songs[call[p].song] # NoSong
             /\ db' = AddFileToPlaylistTx(db, call[p].list, call[p].song, call[p].at)
      BY <2>5 DEF AddSongEntry
    <3> QED
      BY <1>1, <3>1, <3>2, SameDatabase, AddFileToPlaylistKeeps DEF PathsStep
  <2>6. CASE \/ RegenerateList(p) \/ getPlaylistFile(p) \/ FindSong(p) \/ FindFiled(p)
             \/ AddSongPath(p) \/ RemoveDropped(p)
    BY <2>6, SameDatabase
       DEF RegenerateList, getPlaylistFile, FindSong, FindFiled, AddSongPath, RemoveDropped
  <2> QED
    BY <1>3, <2>2, <2>3, <2>4, <2>5, <2>6 DEF ListStep
<1>4. ASSUME \/ \E p \in Process, r \in Requests : LibraryStart(p, r)
             \/ \E p \in Process, r \in ListRequests : StartList(p, r)
             \/ \E f \in ListDrop : \/ CreateInList(f) \/ HandleSong(f)
                                    \/ \E t \in Content : CloseInList(f, t)
             \/ UNCHANGED <<vars, listVars>>
      PROVE  PathsStep
  BY <1>4, SameDatabase
     DEF LibraryStart, Start, StartList, CreateInList, HandleSong, CloseInList, vars
<1> QED
  BY <1>2, <1>3, <1>4 DEF ListNext

LEMMA ListNextFiled ==
    ASSUME ListInv, Filed(db), [ListNext]_<<vars, listVars>>
    PROVE  Filed(db)'
<1>1. PathsStep /\ db \in Database
  BY ListPaths DEF ListInv, DataOK
<1> QED
  BY <1>1, KeepsFiled, CreatesFiled DEF PathsStep, Creates, CreatesAt

(***************************************************************************)
(* No two songs ever share a music file when playlists are made, renamed,  *)
(* removed and filled at the same time: the song that a playlist's rename  *)
(* or drop moves or files takes nobody's file either.                      *)
(***************************************************************************)
THEOREM ListDistinctFiles == ListSpec => []DistinctFiles
<1>1. Filed(db) => DistinctFiles
  BY DEF Filed, DistinctFiles
<1>2. ListInv /\ Filed(db) /\ [ListNext]_<<vars, listVars>> => (ListInv /\ Filed(db))'
  BY ListNextOK, ListNextFiled
<1>3. ListInit => ListInv /\ Filed(db)
  BY ListInitOK, InitFiled DEF ListInit
<1> QED
  BY <1>1, <1>2, <1>3, PTL DEF ListSpec

----------------------------------------------------------------------------
(***************************************************************************)
(* No song of a playlist is missing from its m3u file, for any names,      *)
(* requests and playlists and any number of clients.                       *)
(*                                                                         *)
(* The argument.  PlaylistFilesComplete speaks of the states in which no   *)
(* handler is at work.  In between, a handler that has put a song on a     *)
(* playlist, or has moved one playlist into another, is yet to write the   *)
(* file, and nothing but writing that file takes it off this way: it owes  *)
(* the file.  So at all times a file that lacks an entry is owed by some   *)
(* handler (AllWritten), whichever handlers write and remove files in      *)
(* between, and a handler that has returned owes nothing.                  *)
(***************************************************************************)

\* The handler p has yet to write the file of pl.
Owes(p, pl) ==
    \/ pc[p] = "Regenerate" /\ Head(loc[p].todo) = pl
    \/ call[p].step \in {"RegenerateList", "RemoveDropped"} /\ call[p].list = pl

Written(pl) ==
    m3u[pl] # NoFile =>
        /\ pl \in db.playlists
        /\ EntriesOf(db, pl) \subseteq m3u[pl] \/ \E p \in Process : Owes(p, pl)

AllWritten == \A pl \in Playlist : Written(pl)

----------------------------------------------------------------------------
(* What the transactions do to the playlists.                              *)

\* No entry is new and no playlist comes or goes.
SameLists(d, e) ==
    /\ e.playlists = d.playlists
    /\ \A x \in Playlist \X TitleName : e.entries[x] \in {d.entries[x], NoEntry}

LEMMA EntriesShrink ==
    ASSUME NEW d, NEW e, NEW pl \in Playlist,
           \A x \in Playlist \X TitleName : x[1] = pl => e.entries[x] \in {d.entries[x], NoEntry}
    PROVE  EntriesOf(e, pl) \subseteq EntriesOf(d, pl)
<1>1. ASSUME NEW t \in TitleName PROVE e.entries[<<pl, t>>] \in {d.entries[<<pl, t>>], NoEntry}
  OBVIOUS
<1> QED
  BY <1>1 DEF EntriesOf

LEMMA ListsUntouched ==
    ASSUME NEW d, NEW e, e.playlists = d.playlists, e.entries = d.entries
    PROVE  SameLists(d, e)
  BY DEF SameLists

LEMMA SongsLeaveLists ==
    ASSUME NEW d \in Database
    PROVE  /\ SameLists(d, d)
           /\ \A a : SameLists(d, CreateArtistTx(d, a))
           /\ \A ab : SameLists(d, CreateAlbumTx(d, ab))
           /\ \A k, f : SameLists(d, CreateSongTx(d, k, f))
           /\ \A k : SameLists(d, DeleteSongTx(d, k))
           /\ \A ab : SameLists(d, DeleteAlbumBucket(d, ab))
           /\ \A a : SameLists(d, DeleteArtistBucket(d, a))
           /\ \A a, b : SameLists(d, ProcessNewArtistTx(d, a, b))
           /\ \A x, y : SameLists(d, ProcessNewAlbumTx(d, x, y))
<1> USE ListsUntouched
<1>1. SameLists(d, d)
  OBVIOUS
<1>2. ASSUME NEW a PROVE SameLists(d, CreateArtistTx(d, a))
  <2>1. /\ CreateArtistTx(d, a).playlists = d.playlists
        /\ CreateArtistTx(d, a).entries = d.entries
    BY DEF CreateArtistTx, Database
  <2> QED
    BY <2>1
<1>3. ASSUME NEW ab PROVE SameLists(d, CreateAlbumTx(d, ab))
  <2>1. /\ CreateAlbumTx(d, ab).playlists = d.playlists
        /\ CreateAlbumTx(d, ab).entries = d.entries
    BY DEF CreateAlbumTx, Database
  <2> QED
    BY <2>1
<1>4. ASSUME NEW k, NEW f PROVE SameLists(d, CreateSongTx(d, k, f))
  <2>1. /\ CreateSongTx(d, k, f).playlists = d.playlists
        /\ CreateSongTx(d, k, f).entries = d.entries
    BY DEF CreateSongTx, Database
  <2> QED
    BY <2>1
<1>5. ASSUME NEW k PROVE SameLists(d, DeleteSongTx(d, k))
  <2>1. /\ DeleteSongTx(d, k).playlists = d.playlists
        /\ DeleteSongTx(d, k).entries = d.entries
    BY DEF DeleteSongTx, Database
  <2> QED
    BY <2>1
<1>6. ASSUME NEW ab PROVE SameLists(d, DeleteAlbumBucket(d, ab))
  <2>1. /\ DeleteAlbumBucket(d, ab).playlists = d.playlists
        /\ DeleteAlbumBucket(d, ab).entries = d.entries
    BY DEF DeleteAlbumBucket, Database
  <2> QED
    BY <2>1
<1>7. ASSUME NEW a PROVE SameLists(d, DeleteArtistBucket(d, a))
  <2>1. /\ DeleteArtistBucket(d, a).playlists = d.playlists
        /\ DeleteArtistBucket(d, a).entries = d.entries
    BY DEF DeleteArtistBucket, Database
  <2> QED
    BY <2>1
<1>8. ASSUME NEW a, NEW b PROVE SameLists(d, ProcessNewArtistTx(d, a, b))
  <2>1. /\ ProcessNewArtistTx(d, a, b).playlists = d.playlists
        /\ ProcessNewArtistTx(d, a, b).entries = d.entries
    BY DEF ProcessNewArtistTx, Database
  <2> QED
    BY <2>1
<1>9. ASSUME NEW x, NEW y PROVE SameLists(d, ProcessNewAlbumTx(d, x, y))
  <2>1. /\ ProcessNewAlbumTx(d, x, y).playlists = d.playlists
        /\ ProcessNewAlbumTx(d, x, y).entries = d.entries
    BY DEF ProcessNewAlbumTx, Database
  <2> QED
    BY <2>1
<1> QED
  BY <1>1, <1>2, <1>3, <1>4, <1>5, <1>6, <1>7, <1>8, <1>9

LEMMA UnlistLists ==
    ASSUME NEW d \in Database, NEW pl, NEW title
    PROVE  SameLists(d, UnlistTx(d, pl, title))
  BY DEF UnlistTx, Database, SameLists

\* AddFileToPlaylist gives an entry to one playlist and none to the others.
LEMMA AddFileToPlaylistLists ==
    ASSUME NEW d \in Database, NEW pl, NEW k, NEW f, NEW other \in Playlist, other # pl
    PROVE  /\ AddFileToPlaylistTx(d, pl, k, f).playlists = d.playlists
           /\ EntriesOf(AddFileToPlaylistTx(d, pl, k, f), other) \subseteq EntriesOf(d, other)
<1> DEFINE e == AddFileToPlaylistTx(d, pl, k, f)
<1>1. /\ e.playlists = d.playlists
      /\ e.entries = [d.entries EXCEPT ![<<pl, k[3]>>] = [key |-> k, path |-> f]]
  BY DEF AddFileToPlaylistTx, Database
<1> HIDE DEF e
<1>2. d.entries \in [Playlist \X TitleName -> PlaylistFile \cup {NoEntry}]
  BY DEF Database
<1>3. \A x \in Playlist \X TitleName : x[1] = other => e.entries[x] = d.entries[x]
  BY <1>1, <1>2
<1>4. EntriesOf(e, other) \subseteq EntriesOf(d, other)
  BY <1>3, EntriesShrink
<1> QED
  BY <1>1, <1>4 DEF e

\* DeletePlaylist leaves the other playlists alone.
LEMMA DeletePlaylistLists ==
    ASSUME NEW d \in Database, NEW pl \in Playlist, NEW e \in DeletePlaylistTx(d, pl),
           NEW other \in Playlist, other # pl
    PROVE  /\ other \in d.playlists => other \in e.playlists
           /\ EntriesOf(e, other) \subseteq EntriesOf(d, other)
<1>1. CASE e = DeletePlaylistBucket(d, pl)
  <2>1. /\ e.playlists = d.playlists \ {pl}
        /\ e.entries = [x \in Playlist \X TitleName |-> IF x[1] = pl THEN NoEntry ELSE d.entries[x]]
    BY <1>1 DEF DeletePlaylistBucket, Database
  <2>2. \A x \in Playlist \X TitleName : x[1] = other => e.entries[x] = d.entries[x]
    BY <2>1
  <2> QED
    BY <2>1, <2>2, EntriesShrink
<1>2. CASE e.playlists = d.playlists /\ e.entries = d.entries
  BY <1>2 DEF EntriesOf
<1>3. ASSUME NEW t \in LiveTitles(d, pl),
             e = [d EXCEPT !.songs[d.entries[<<pl, t>>].key].lists = RemoveFirst(@, pl)]
      PROVE  e.playlists = d.playlists /\ e.entries = d.entries
  BY <1>3 DEF Database
<1> QED
  BY <1>1, <1>2, <1>3 DEF DeletePlaylistTx

\* RenamePlaylist gives entries to the playlist of the new name only.
LEMMA RenamePlaylistLists ==
    ASSUME NEW d \in Database, NEW old \in Playlist, NEW new \in Playlist,
           NEW other \in Playlist, other # old
    PROVE  LET e == RenamePlaylistTx(d, old, new) IN
           /\ other \in d.playlists => other \in e.playlists
           /\ other # new => EntriesOf(e, other) \subseteq EntriesOf(d, other)
<1> DEFINE c == CopiedPlaylist(d, old, new)
           e == RenamePlaylistTx(d, old, new)
<1>1. c \in Database
  BY CopiedPlaylistType
<1>2. c.playlists = d.playlists \cup {new} /\ c.entries = CopiedEntries(d, old, new)
  BY DEF CopiedPlaylist, Database
<1> HIDE DEF c
<1>3. /\ e.playlists = c.playlists \ {old}
      /\ e.entries = [x \in Playlist \X TitleName |-> IF x[1] = old THEN NoEntry ELSE c.entries[x]]
  BY <1>1 DEF RenamePlaylistTx, DeletePlaylistBucket, Database, c
<1> HIDE DEF e
<1>4. ASSUME other # new, NEW x \in Playlist \X TitleName, x[1] = other
      PROVE  e.entries[x] = d.entries[x]
  BY <1>2, <1>3, <1>4 DEF CopiedEntries
<1>5. other # new => EntriesOf(e, other) \subseteq EntriesOf(d, other)
  BY <1>4, EntriesShrink
<1> QED
  BY <1>2, <1>3, <1>5 DEF e

----------------------------------------------------------------------------
(* What a step of Library does to the playlists and to who owes a file.    *)

LEMMA LibraryLists ==
    ASSUME ControlOK, DataOK, NEW p \in Process, Step(p)
    PROVE  \/ SameLists(db, db') /\ m3u' = m3u /\ pc[p] # "Regenerate"
           \/ AddEntry(p)
           \/ Regenerate(p)
<1>1. db \in Database /\ SameLists(db, db)
  BY SongsLeaveLists DEF DataOK
<1>2. CASE \/ MkdirNew(p) \/ CreateFile(p) \/ ReleaseTags(p) \/ RemoveFile(p)
           \/ MoveArtist(p) \/ MoveAlbum(p) \/ RenameFile(p) \/ SetMp3Tags(p)
           \/ GetMp3Tags(p) \/ DropFileInto(p)
  BY <1>1, <1>2
     DEF MkdirNew, CreateFile, ReleaseTags, RemoveFile, MoveArtist, MoveAlbum,
         RenameFile, SetMp3Tags, GetMp3Tags, DropFileInto, Syscall
<1>3. CASE ReleaseSong(p) \/ GetFilePath(p) \/ Victims(p) \/ MoveSongs(p) \/ AddPath(p)
  BY <1>1, <1>3 DEF ReleaseSong, GetFilePath, Victims, MoveSongs, AddPath, Session, files
<1>4. CASE CreateArtist(p) \/ CreateAlbum(p) \/ CreateSong(p)
  BY <1>1, <1>4, SongsLeaveLists
     DEF CreateArtist, CreateAlbum, CreateSong, Refuse, Session, files
<1>5. CASE DeleteSong(p) \/ DeleteOld(p)
  BY <1>1, <1>5, SongsLeaveLists DEF DeleteSong, DeleteOld, DeleteSongThen, Refuse, Session, files
<1>6. CASE DeleteArtist(p) \/ DeleteAlbum(p)
  BY <1>1, <1>6, SongsLeaveLists DEF DeleteArtist, DeleteAlbum, RemoveVictims, Refuse, files
<1>7. CASE NewArtist(p) \/ EndArtist(p) \/ NewAlbum(p) \/ EndAlbum(p)
  BY <1>1, <1>7, SongsLeaveLists DEF NewArtist, EndArtist, NewAlbum, EndAlbum, Session, files
<1>8. CASE Unlist(p)
  BY <1>1, <1>8, UnlistLists DEF Unlist, Session, files
<1>9. CASE CreateNew(p) \/ DropArtist(p) \/ DropAlbum(p) \/ DropSong(p)
  BY <1>1, <1>9, SongsLeaveLists
     DEF CreateNew, DropArtist, DropAlbum, DropSong, Refuse, Session, files
<1> QED
  BY <1>2, <1>3, <1>4, <1>5, <1>6, <1>7, <1>8, <1>9 DEF Step

----------------------------------------------------------------------------
(* The invariant is kept.                                                  *)

LEMMA WrittenKept ==
    ASSUME NEW pl \in Playlist, Written(pl),
           pl \in db.playlists => pl \in db'.playlists,
           EntriesOf(db', pl) \subseteq EntriesOf(db, pl),
           m3u'[pl] = m3u[pl],
           \A q \in Process : Owes(q, pl) => Owes(q, pl)'
    PROVE  Written(pl)'
  BY DEF Written

LEMMA OwedKept ==
    ASSUME NEW pl \in Playlist, Written(pl), NEW p \in Process, Owes(p, pl)',
           pl \in db.playlists => pl \in db'.playlists,
           m3u'[pl] = m3u[pl]
    PROVE  Written(pl)'
<1>1. \E q \in Process : Owes(q, pl)'
  OBVIOUS
<1> QED
  BY <1>1, Zenon DEF Written

\* What a process owes does not change with the steps of others.
LEMMA OthersOwe ==
    ASSUME ListInv, NEW p \in Process, NEW pl,
           GoesOn(p) \/ UNCHANGED <<pc, loc>>,
           (\E c : Becomes(p, c)) \/ UNCHANGED call
    PROVE  \A q \in Process : q # p /\ Owes(q, pl) => Owes(q, pl)'
<1>1. \A q \in Process : q # p => pc'[q] = pc[q] /\ loc'[q] = loc[q]
  BY DEF GoesOn, Goto, ListInv, ControlOK
<1>2. \A q \in Process : q # p => call'[q] = call[q]
  BY DEF Becomes, ListInv, CallsOK
<1> QED
  BY <1>1, <1>2 DEF Owes

LEMMA LibraryCall ==
    ASSUME ListInv, NEW p \in Process, LibraryStep(p)
    PROVE  /\ (\E c : Becomes(p, c)) \/ UNCHANGED call
           /\ call[p].step \in {"RegenerateList", "RemoveDropped"} => UNCHANGED call
  BY DEF LibraryStep, Resume, Proceed, Done

LEMMA LibraryStepWrites ==
    ASSUME ListInv, AllWritten, NEW p \in Process, LibraryStep(p)
    PROVE  AllWritten'
<1>1. Step(p) /\ ControlOK /\ DataOK /\ db \in Database
  BY DEF LibraryStep, ListInv, DataOK
<1>2. \A pl : \A q \in Process : q # p /\ Owes(q, pl) => Owes(q, pl)'
  BY <1>1, StepGoesOn, LibraryCall, OthersOwe
<1>3. \A pl : call[p].step \in {"RegenerateList", "RemoveDropped"} /\ call[p].list = pl
               => Owes(p, pl)'
  BY LibraryCall DEF Owes
<1>4. CASE SameLists(db, db') /\ m3u' = m3u /\ pc[p] # "Regenerate"
  <2> SUFFICES ASSUME NEW pl \in Playlist PROVE Written(pl)'
    BY DEF AllWritten
  <2>1. EntriesOf(db', pl) \subseteq EntriesOf(db, pl) /\ db'.playlists = db.playlists
    BY <1>4, EntriesShrink DEF SameLists
  <2>2. Owes(p, pl) => Owes(p, pl)'
    BY <1>3, <1>4 DEF Owes
  <2> QED
    BY <1>2, <1>4, <2>1, <2>2, WrittenKept DEF AllWritten
<1>5. CASE AddEntry(p)
  <2> DEFINE list == Head(loc[p].todo)
  <2>1. m3u' = m3u /\ pc[p] = "AddEntry" /\ Goto(p, "Regenerate", loc[p])
    BY <1>5 DEF AddEntry, Session, files
  <2>2. db' = db \/ db' = AddFileToPlaylistTx(db, list, loc[p].to, loc[p].path)
    BY <1>5 DEF AddEntry
  <2>3. \A pl : pl = list => Owes(p, pl)'
    BY <2>1 DEF Owes, Goto, ListInv, ControlOK
  <2> HIDE DEF list
  <2>4. db'.playlists = db.playlists
    BY <1>1, <2>2 DEF AddFileToPlaylistTx, Database
  <2> SUFFICES ASSUME NEW pl \in Playlist PROVE Written(pl)'
    BY DEF AllWritten
  <2>5. CASE pl = list
    BY <2>1, <2>3, <2>4, <2>5, OwedKept DEF AllWritten
  <2>6. CASE pl # list
    <3>1. EntriesOf(db', pl) \subseteq EntriesOf(db, pl)
      BY <1>1, <2>2, <2>6, AddFileToPlaylistLists
    <3>2. Owes(p, pl) => Owes(p, pl)'
      BY <1>3, <2>1 DEF Owes
    <3> QED
      BY <1>2, <2>1, <2>4, <3>1, <3>2, WrittenKept DEF AllWritten
  <2> QED
    BY <2>5, <2>6
<1>6. CASE Regenerate(p)
  <2> DEFINE list == Head(loc[p].todo)
  <2>1. /\ db' = db /\ pc[p] = "Regenerate"
        /\ m3u' = IF list \in db.playlists THEN [m3u EXCEPT ![list] = EntriesOf(db, list)] ELSE m3u
    BY <1>6 DEF Regenerate, Session
  <2>2. \A pl : pl # list /\ Owes(p, pl) => Owes(p, pl)'
    BY <1>3 DEF Owes
  <2> HIDE DEF list
  <2> SUFFICES ASSUME NEW pl \in Playlist PROVE Written(pl)'
    BY DEF AllWritten
  <2>3. m3u \in [Playlist -> (SUBSET PlaylistFile) \cup {NoFile}]
    BY DEF ListInv, DataOK
  <2>4. CASE pl = list
    <3>1. CASE pl \in db.playlists
      <4>1. EntriesOf(db', pl) = EntriesOf(db, pl)
        BY <2>1
      <4>2. m3u'[pl] = EntriesOf(db, pl) /\ pl \in db'.playlists
        BY <2>1, <2>3, <2>4, <3>1
      <4> QED
        BY <4>1, <4>2 DEF Written
    <3>2. CASE pl \notin db.playlists
      <4>1. m3u'[pl] = NoFile
        BY <2>1, <2>4, <3>2 DEF Written, AllWritten
      <4> QED
        BY <4>1 DEF Written
    <3> QED
      BY <3>1, <3>2
  <2>5. CASE pl # list
    <3>1. m3u'[pl] = m3u[pl]
      BY <2>1, <2>3, <2>5
    <3>2. EntriesOf(db', pl) = EntriesOf(db, pl) /\ db'.playlists = db.playlists
      BY <2>1
    <3>3. \A q \in Process : Owes(q, pl) => Owes(q, pl)'
      BY <1>2, <2>2, <2>5
    <3> QED
      BY <3>1, <3>2, <3>3, WrittenKept DEF AllWritten
  <2> QED
    BY <2>4, <2>5
<1> QED
  BY <1>1, <1>4, <1>5, <1>6, LibraryLists

\* A step of Playlists that gives no playlist an entry and touches no file.
LEMMA QuietWrites ==
    ASSUME ListInv, AllWritten, NEW p \in Process, UNCHANGED <<db, m3u>>,
           GoesOn(p) \/ UNCHANGED <<pc, loc>>,
           (\E c : Becomes(p, c)) \/ UNCHANGED call,
           pc[p] = "idle", call[p].step \notin {"RegenerateList", "RemoveDropped"}
    PROVE  AllWritten'
<1> SUFFICES ASSUME NEW pl \in Playlist PROVE Written(pl)'
  BY DEF AllWritten
<1>1. \A q \in Process : Owes(q, pl) => Owes(q, pl)'
  BY OthersOwe DEF Owes
<1>2. EntriesOf(db', pl) = EntriesOf(db, pl)
  OBVIOUS
<1> QED
  BY <1>1, <1>2, WrittenKept DEF AllWritten

LEMMA RegenerateListWrites ==
    ASSUME ListInv, AllWritten, NEW p \in Process, RegenerateList(p)
    PROVE  AllWritten'
<1> DEFINE list == call[p].list
<1>1. /\ UNCHANGED <<db, pc, loc>> /\ pc[p] = "idle" /\ Done(p)
      /\ m3u' = IF list \in db.playlists THEN [m3u EXCEPT ![list] = EntriesOf(db, list)] ELSE m3u
  BY DEF RegenerateList, ListSession, At
<1>2. \A pl : \A q \in Process : q # p /\ Owes(q, pl) => Owes(q, pl)'
  BY <1>1, OthersOwe DEF Done
<1>3. \A pl : pl # list => ~Owes(p, pl)
  BY <1>1 DEF Owes
<1> HIDE DEF list
<1>4. m3u \in [Playlist -> (SUBSET PlaylistFile) \cup {NoFile}]
  BY DEF ListInv, DataOK
<1> SUFFICES ASSUME NEW pl \in Playlist PROVE Written(pl)'
  BY DEF AllWritten
<1>5. EntriesOf(db', pl) = EntriesOf(db, pl) /\ db'.playlists = db.playlists
  BY <1>1
<1>6. CASE pl # list
  BY <1>1, <1>2, <1>3, <1>4, <1>5, <1>6, WrittenKept DEF AllWritten
<1>7. CASE pl = list /\ pl \in db.playlists
  <2>1. m3u'[pl] = EntriesOf(db, pl)
    BY <1>1, <1>4, <1>7
  <2> QED
    BY <1>5, <1>7, <2>1 DEF Written
<1>8. CASE pl = list /\ pl \notin db.playlists
  <2>1. m3u'[pl] = NoFile
    BY <1>1, <1>8 DEF Written, AllWritten
  <2> QED
    BY <2>1 DEF Written
<1> QED
  BY <1>6, <1>7, <1>8

LEMMA CreatePlaylistWrites ==
    ASSUME ListInv, AllWritten, NEW p \in Process, CreatePlaylist(p)
    PROVE  AllWritten'
<1> DEFINE name == ListCompat[call[p].to]
<1>1. /\ UNCHANGED <<pc, loc, m3u>> /\ pc[p] = "idle" /\ call[p].step = "CreatePlaylist"
      /\ \E c : Becomes(p, c)
      /\ db' = db \/ db' = CreatePlaylistTx(db, name)
  BY DEF CreatePlaylist, ListSession, At, Done, files
<1> HIDE DEF name
<1>2. db.playlists \subseteq db'.playlists /\ db'.entries = db.entries
  <2>1. db \in Database
    BY DEF ListInv, DataOK
  <2> QED
    BY <1>1, <2>1 DEF CreatePlaylistTx, Database
<1> SUFFICES ASSUME NEW pl \in Playlist PROVE Written(pl)'
  BY DEF AllWritten
<1>3. \A q \in Process : Owes(q, pl) => Owes(q, pl)'
  BY <1>1, OthersOwe DEF Owes
<1>4. EntriesOf(db', pl) = EntriesOf(db, pl)
  BY <1>2 DEF EntriesOf
<1> QED
  BY <1>1, <1>2, <1>3, <1>4, WrittenKept DEF AllWritten

LEMMA DeletePlaylistWrites ==
    ASSUME ListInv, AllWritten, NEW p \in Process, DeletePlaylist(p)
    PROVE  AllWritten'
<1> DEFINE list == call[p].list
<1>1. /\ UNCHANGED <<pc, loc>> /\ pc[p] = "idle" /\ call[p].step = "DeletePlaylist"
      /\ Done(p)
      /\ db' \in DeletePlaylistTx(db, list) /\ m3u' = [m3u EXCEPT ![list] = NoFile]
  BY DEF DeletePlaylist, ListSession, At
<1>2. list \in Playlist
  BY <1>1, CallOf DEF ListInv, ListShape
<1> HIDE DEF list
<1>3. m3u \in [Playlist -> (SUBSET PlaylistFile) \cup {NoFile}] /\ db \in Database
  BY DEF ListInv, DataOK
<1> SUFFICES ASSUME NEW pl \in Playlist PROVE Written(pl)'
  BY DEF AllWritten
<1>4. CASE pl = list
  BY <1>1, <1>3, <1>4 DEF Written
<1>5. CASE pl # list
  <2>1. /\ pl \in db.playlists => pl \in db'.playlists
        /\ EntriesOf(db', pl) \subseteq EntriesOf(db, pl)
    BY <1>1, <1>2, <1>3, <1>5, DeletePlaylistLists
  <2>2. \A q \in Process : Owes(q, pl) => Owes(q, pl)'
    BY <1>1, OthersOwe DEF Owes, Done
  <2>3. m3u'[pl] = m3u[pl]
    BY <1>1, <1>3, <1>5
  <2> QED
    BY <2>1, <2>2, <2>3, WrittenKept DEF AllWritten
<1> QED
  BY <1>4, <1>5

LEMMA RenamePlaylistWrites ==
    ASSUME ListInv, AllWritten, NEW p \in Process, RenamePlaylist(p)
    PROVE  AllWritten'
<1> DEFINE old  == call[p].list
           name == ListCompat[call[p].to]
<1>1. /\ UNCHANGED <<pc, loc>> /\ pc[p] = "idle" /\ call[p].step = "RenamePlaylist"
      /\ \E c : Becomes(p, c)
  BY DEF RenamePlaylist, ListSession, At, Done
<1>2. old \in Playlist /\ call[p].to \in Playlist
  BY <1>1, CallOf DEF ListInv, ListShape
<1>3. m3u \in [Playlist -> (SUBSET PlaylistFile) \cup {NoFile}] /\ db \in Database
  BY DEF ListInv, DataOK
<1>4. \A pl : \A q \in Process : Owes(q, pl) => Owes(q, pl)'
  BY <1>1, OthersOwe DEF Owes
<1>5. CASE UNCHANGED <<db, m3u>>
  <2> SUFFICES ASSUME NEW pl \in Playlist PROVE Written(pl)'
    BY DEF AllWritten
  <2>1. EntriesOf(db', pl) = EntriesOf(db, pl)
    BY <1>5
  <2> QED
    BY <1>4, <1>5, <2>1, WrittenKept DEF AllWritten
<1>6. CASE /\ old \in db.playlists /\ name # NoList
           /\ db' = RenamePlaylistTx(db, old, name)
           /\ m3u' = [m3u EXCEPT ![old] = NoFile]
  <2>1. name \in Playlist
    BY <1>2, <1>6, PlaylistsAssumption
  <2>2. call'[p].step = "RegenerateList" /\ call'[p].list = name
    <3>1. Becomes(p, [call[p] EXCEPT !.step = "RegenerateList", !.list = name])
      BY <1>6 DEF RenamePlaylist
    <3>2. call[p] \in Call
      BY CallOf DEF ListInv
    <3> QED
      BY <3>1, <3>2 DEF Becomes, ListInv, CallsOK, Call
  <2>3. \A pl : pl = name => Owes(p, pl)'
    BY <2>2 DEF Owes
  <2> HIDE DEF old, name
  <2> SUFFICES ASSUME NEW pl \in Playlist PROVE Written(pl)'
    BY DEF AllWritten
  <2>4. CASE pl = old
    BY <1>3, <1>6, <2>4 DEF Written
  <2>5. CASE pl # old
    <3>1. /\ pl \in db.playlists => pl \in db'.playlists
          /\ pl # name => EntriesOf(db', pl) \subseteq EntriesOf(db, pl)
      BY <1>2, <1>3, <1>6, <2>1, <2>5, RenamePlaylistLists
    <3>2. m3u'[pl] = m3u[pl]
      BY <1>3, <1>6, <2>5
    <3>3. CASE pl = name
      BY <2>3, <3>1, <3>2, <3>3, OwedKept DEF AllWritten
    <3>4. CASE pl # name
      BY <1>4, <3>1, <3>2, <3>4, WrittenKept DEF AllWritten
    <3> QED
      BY <3>3, <3>4
  <2> QED
    BY <2>4, <2>5
<1> QED
  BY <1>5, <1>6 DEF RenamePlaylist

LEMMA AddSongEntryWrites ==
    ASSUME ListInv, AllWritten, NEW p \in Process, AddSongEntry(p)
    PROVE  AllWritten'
<1> DEFINE list == call[p].list
<1>1. /\ UNCHANGED <<pc, loc, m3u>> /\ pc[p] = "idle" /\ call[p].step = "AddSongEntry"
      /\ \E step : Proceed(p, step)
  BY DEF AddSongEntry, ListSession, At, files
<1>2. /\ \A pl : \A q \in Process : q # p /\ Owes(q, pl) => Owes(q, pl)'
      /\ \A pl : ~Owes(p, pl)
  BY <1>1, OthersOwe DEF Owes, Proceed
<1>3. db \in Database
  BY DEF ListInv, DataOK
<1>4. CASE db' = db
  <2> SUFFICES ASSUME NEW pl \in Playlist PROVE Written(pl)'
    BY DEF AllWritten
  <2>1. EntriesOf(db', pl) = EntriesOf(db, pl)
    BY <1>4
  <2> QED
    BY <1>1, <1>2, <1>4, <2>1, WrittenKept DEF AllWritten
<1>5. CASE /\ list \in db.playlists /\ db' = AddFileToPlaylistTx(db, list, call[p].song, call[p].at)
           /\ Proceed(p, "RemoveDropped")
  <2>1. \A pl : pl = list => Owes(p, pl)'
    <3>1. call[p] \in Call
      BY CallOf DEF ListInv
    <3>2. call'[p].step = "RemoveDropped" /\ call'[p].list = list
      BY <1>5, <3>1 DEF Proceed, Becomes, ListInv, CallsOK, Call
    <3> QED
      BY <3>2 DEF Owes
  <2>2. db'.playlists = db.playlists
    BY <1>3, <1>5 DEF AddFileToPlaylistTx, Database
  <2> HIDE DEF list
  <2> SUFFICES ASSUME NEW pl \in Playlist PROVE Written(pl)'
    BY DEF AllWritten
  <2>3. CASE pl = list
    BY <1>1, <2>1, <2>2, <2>3, OwedKept DEF AllWritten
  <2>4. CASE pl # list
    <3>1. EntriesOf(db', pl) \subseteq EntriesOf(db, pl)
      BY <1>3, <1>5, <2>4, AddFileToPlaylistLists
    <3> QED
      BY <1>1, <1>2, <2>2, <3>1, WrittenKept DEF AllWritten
  <2> QED
    BY <2>3, <2>4
<1> QED
  BY <1>4, <1>5 DEF AddSongEntry

LEMMA RemoveDroppedWrites ==
    ASSUME ListInv, AllWritten, NEW p \in Process, RemoveDropped(p)
    PROVE  AllWritten'
<1>1. /\ UNCHANGED <<pc, loc, m3u, db>> /\ pc[p] = "idle"
      /\ \/ call[p].step = "RemoveDropped" /\ Proceed(p, "RegenerateList")
         \/ call[p].step = "DiscardDropped" /\ Done(p)
  BY DEF RemoveDropped, At
<1>2. \A pl : \A q \in Process : q # p /\ Owes(q, pl) => Owes(q, pl)'
  BY <1>1, OthersOwe DEF Done, Proceed
<1>3. ASSUME NEW pl, Owes(p, pl) PROVE Owes(p, pl)'
  <2>1. call[p].step = "RemoveDropped" /\ call[p].list = pl /\ Proceed(p, "RegenerateList")
    BY <1>1, <1>3 DEF Owes
  <2>2. call[p] \in Call
    BY CallOf DEF ListInv
  <2>3. call'[p].step = "RegenerateList" /\ call'[p].list = pl
    BY <2>1, <2>2 DEF Proceed, Becomes, ListInv, CallsOK, Call
  <2> QED
    BY <2>3 DEF Owes
<1> SUFFICES ASSUME NEW pl \in Playlist PROVE Written(pl)'
  BY DEF AllWritten
<1>4. EntriesOf(db', pl) = EntriesOf(db, pl)
  BY <1>1
<1> QED
  BY <1>1, <1>2, <1>3, <1>4, WrittenKept DEF AllWritten

----------------------------------------------------------------------------
(* The theorem.                                                            *)

LEMMA AllWrittenAtFirst == ListInit => AllWritten
<1> SUFFICES ASSUME ListInit, NEW pl \in Playlist PROVE Written(pl)
  BY DEF AllWritten
<1> QED
  BY DEF ListInit, Init, Written

LEMMA ListStepWrites ==
    ASSUME ListInv, AllWritten, NEW p \in Process, ListStep(p)
    PROVE  AllWritten'
<1>1. CASE CreatePlaylist(p) \/ DeletePlaylist(p) \/ RenamePlaylist(p) \/ RegenerateList(p)
  BY <1>1, CreatePlaylistWrites, DeletePlaylistWrites, RenamePlaylistWrites, RegenerateListWrites
<1>2. CASE AddSongEntry(p) \/ RemoveDropped(p)
  BY <1>2, AddSongEntryWrites, RemoveDroppedWrites
<1>3. CASE getPlaylistFile(p)
  <2>1. /\ UNCHANGED <<db, m3u>> /\ At(p, "getPlaylistFile")
        /\ GoesOn(p) \/ UNCHANGED <<pc, loc>>
        /\ \E c : Becomes(p, c)
    BY <1>3 DEF getPlaylistFile, Proceed, Done, GoesOn, files
  <2> QED
    BY <2>1, QuietWrites DEF At
<1>4. CASE FindSong(p)
  <2>1. /\ UNCHANGED <<db, m3u>> /\ At(p, "FindSong")
        /\ GoesOn(p) \/ UNCHANGED <<pc, loc>>
        /\ \E c : Becomes(p, c)
    BY <1>4 DEF FindSong, Proceed, GoesOn, files
  <2> QED
    BY <2>1, QuietWrites DEF At
<1>5. CASE FindFiled(p) \/ AddSongPath(p)
  <2>1. /\ UNCHANGED <<db, m3u, pc, loc>>
        /\ At(p, "FindFiled") \/ At(p, "AddSongPath")
        /\ \E c : Becomes(p, c)
    BY <1>5 DEF FindFiled, AddSongPath, ListSession, Proceed, files
  <2> QED
    BY <2>1, QuietWrites DEF At
<1> QED
  BY <1>1, <1>2, <1>3, <1>4, <1>5 DEF ListStep

LEMMA ListNextWrites ==
    ASSUME ListInv, AllWritten, [ListNext]_<<vars, listVars>>
    PROVE  AllWritten'
<1>1. ASSUME NEW p \in Process, LibraryStep(p) \/ ListStep(p)
      PROVE  AllWritten'
  BY <1>1, LibraryStepWrites, ListStepWrites
<1>2. ASSUME NEW p \in Process, NEW r \in Requests, LibraryStart(p, r)
      PROVE  AllWritten'
  <2>1. /\ UNCHANGED <<db, m3u, call>> /\ pc[p] = "idle" /\ call[p] = NoCall
        /\ GoesOn(p)
    BY <1>2 DEF LibraryStart, Start, Idle, listVars, files, GoesOn
  <2> QED
    BY <2>1, QuietWrites DEF NoCall
<1>3. ASSUME NEW p \in Process, NEW r \in ListRequests, StartList(p, r)
      PROVE  AllWritten'
  <2>1. /\ UNCHANGED <<db, m3u, pc, loc>> /\ pc[p] = "idle" /\ call[p] = NoCall
        /\ Becomes(p, r)
    BY <1>3 DEF StartList, Idle, files
  <2> QED
    BY <2>1, QuietWrites DEF NoCall
<1>4. ASSUME NEW f \in ListDrop, HandleSong(f)
      PROVE  AllWritten'
  <2>1. /\ UNCHANGED <<db, m3u, pc, loc>> /\ pc[Dispatcher] = "idle" /\ call[Dispatcher] = NoCall
        /\ (\E c : Becomes(Dispatcher, c)) \/ UNCHANGED call
    BY <1>4 DEF HandleSong, Idle
  <2>2. Dispatcher \in Process
    BY DEF Process
  <2> QED
    BY <2>1, <2>2, QuietWrites DEF NoCall
<1>5. CASE \/ \E f \in ListDrop : CreateInList(f) \/ \E t \in Content : CloseInList(f, t)
           \/ UNCHANGED <<vars, listVars>>
  <2>1. UNCHANGED <<db, m3u, pc, loc, call>>
    BY <1>5 DEF CreateInList, CloseInList, vars, listVars, files
  <2> SUFFICES ASSUME NEW pl \in Playlist PROVE Written(pl)'
    BY DEF AllWritten
  <2>2. EntriesOf(db', pl) = EntriesOf(db, pl)
    BY <2>1
  <2>3. \A q \in Process : Owes(q, pl) => Owes(q, pl)'
    BY <2>1 DEF Owes
  <2> QED
    BY <2>1, <2>2, <2>3, WrittenKept DEF AllWritten
<1> QED
  BY <1>1, <1>2, <1>3, <1>4, <1>5 DEF ListNext

LEMMA QuietOwesNothing == AllWritten => PlaylistFilesComplete
<1> SUFFICES ASSUME AllWritten, AllQuiet, NEW pl \in Playlist, m3u[pl] # NoFile
             PROVE  pl \in db.playlists /\ EntriesOf(db, pl) \subseteq m3u[pl]
  BY DEF PlaylistFilesComplete
<1>1. \A p \in Process : ~Owes(p, pl)
  BY DEF AllQuiet, Idle, NoCall, Owes
<1> QED
  BY <1>1 DEF AllWritten, Written

(***************************************************************************)
(* Whatever is renamed, dropped, filed and removed at once, when no        *)
(* handler is at work no song of a playlist is missing from the playlist's *)
(* m3u file, and no m3u file has outlived its playlist: the handlers of    *)
(* dir.go and file.go may overtake each other between the transaction and  *)
(* RegeneratePlaylistFile, and the last of them writes what is there.      *)
(***************************************************************************)
THEOREM FilesOfPlaylists == ListSpec => []PlaylistFilesComplete
<1>1. ListInit => ListInv /\ AllWritten
  BY ListInitOK, AllWrittenAtFirst
<1>2. ListInv /\ AllWritten /\ [ListNext]_<<vars, listVars>> => (ListInv /\ AllWritten)'
  BY ListNextOK, ListNextWrites
<1> QED
  BY <1>1, <1>2, QuietOwesNothing, PTL DEF ListSpec
=============================================================================
