----------------------------- MODULE Playlists -----------------------------
(***************************************************************************)
(* The playlists directory: the branches of the FUSE handlers that make,   *)
(* remove and rename a playlist or rename a song in it, files copied into  *)
(* a playlist, and DelayedHandlePlaylistSong, which files them.            *)
(*                                                                         *)
(* It is built on Library.  A handler of this module has a frame of its    *)
(* own, call[p], below the one that Library keeps for the process: it runs *)
(* its own sessions while pc[p] is "idle", and to call MoveSongs or        *)
(* HandleDrop it puts the process at the first step of that function and   *)
(* goes on when the process is "idle" again.                               *)
(*                                                                         *)
(* The directory of a playlist below MUSIC_SOURCE holds nothing but the    *)
(* files dropped into it, so only these are modelled.  When the dispatcher *)
(* takes up a file is the business of Dispatcher: here it is some time     *)
(* after the file was closed, one file at a time.                          *)
(***************************************************************************)
EXTENDS Library

CONSTANTS
    ListRequests,   \* the requests on playlists that are made
    ListDrop,       \* paths of files copied into the directories of playlists
    ListOf,         \* the playlist whose directory that is
    Content,        \* the tags of the files that are copied
    ListCompat,     \* GetCompatibleString on the names of playlists
    NoList          \* the empty name

VARIABLES
    call,     \* the frame of each process in this module
    handle    \* the files of playlists: open in a client, waiting for the dispatcher

listVars == <<call, handle>>

(***************************************************************************)
(* A handler's frame.  list is the playlist it works on, to the new name   *)
(* asked for, old and new the names of a song in the playlist, path the    *)
(* dropped file, song its place in the library and at the path it has.     *)
(***************************************************************************)
Call == [ step : {"idle", "CreatePlaylist", "DeletePlaylist", "RenamePlaylist",
                  "getPlaylistFile", "MoveSongs", "FindSong", "HandleDrop", "FindFiled",
                  "AddSongPath", "AddSongEntry", "RemoveDropped", "DiscardDropped",
                  "RegenerateList"},
          op   : {"none", "mkdir", "remove", "rename", "move", "drop"},
          list : Playlist \cup {NoList},
          to   : Playlist \cup {NoList},
          old  : TitleName \cup {NoName},
          new  : TitleName \cup {NoName},
          path : Path \cup {NoPath},
          song : SongKey \cup {<<>>},
          at   : Path \cup {NoPath} ]

NoCall == [ step |-> "idle", op |-> "none", list |-> NoList, to |-> NoList, old |-> NoName,
            new |-> NoName, path |-> NoPath, song |-> <<>>, at |-> NoPath ]

\* Dir.Mkdir, Dir.Remove and Dir.Rename in the playlists directory, and
\* Dir.Rename in the directory of a playlist.
ListRequest ==
    {[NoCall EXCEPT !.op = "mkdir", !.step = "CreatePlaylist", !.to = pl] : pl \in Playlist}
    \cup {[NoCall EXCEPT !.op = "remove", !.step = "DeletePlaylist", !.list = pl] : pl \in Playlist}
    \cup {[NoCall EXCEPT !.op = "rename", !.step = "RenamePlaylist", !.list = pq[1], !.to = pq[2]] :
             pq \in Playlist \X Playlist}
    \cup {[NoCall EXCEPT !.op = "move", !.step = "getPlaylistFile", !.list = e[1], !.old = e[2],
                         !.new = e[3]] : e \in Playlist \X TitleName \X TitleName}

ASSUME PlaylistsAssumption ==
    /\ ListRequests \subseteq ListRequest
    /\ ListDrop \subseteq DropFile
    /\ ListOf \in [ListDrop -> Playlist]
    /\ Content \subseteq Tags
    /\ NoList \notin Playlist
    /\ ListCompat \in [Playlist -> Playlist \cup {NoList}]

(***************************************************************************)
(* GetCompatibleString once more: its result does not change when it is    *)
(* applied again, and the playlists that there are have gone through it.   *)
(***************************************************************************)
ASSUME ListNamesAssumption ==
    /\ \A pl \in Playlist : ListCompat[pl] # NoList => ListCompat[ListCompat[pl]] = ListCompat[pl]
    /\ \A i \in Initial : \A pl \in i.db.playlists : ListCompat[pl] = pl

----------------------------------------------------------------------------
(* Control.                                                                *)

Idle(p) == pc[p] = "idle" /\ call[p] = NoCall

Becomes(p, c) == call' = [call EXCEPT ![p] = c]

Proceed(p, step) == Becomes(p, [call[p] EXCEPT !.step = step])

Done(p) == Becomes(p, NoCall)

\* The process is about to take a step of its own in this module.
At(p, step) == call[p].step = step /\ pc[p] = "idle" /\ UNCHANGED <<lock, started, handle>>

ListSession(p, step) == At(p, step) /\ lock = Free /\ UNCHANGED <<pc, loc>>

----------------------------------------------------------------------------
(***************************************************************************)
(* The kernel, as in Library: the playlists directory, named NoList here,  *)
(* is locked by each request that changes it, and a playlist's directory   *)
(* while it is removed, replaced or a file is renamed in it.               *)
(***************************************************************************)
ListLocks(c) ==
    CASE c.op = "mkdir"  -> {NoList}
      [] c.op = "remove" -> {NoList, c.list}
      [] c.op = "rename" -> {NoList, c.to}
      [] c.op = "move"   -> {c.list}
      [] OTHER           -> {}

\* A playlist moved onto another one is moved into it, which is allowed.
ListResolves(r) ==
    /\ r.op = "mkdir" => r.to \notin db.playlists
    /\ r.op # "mkdir" => r.list \in db.playlists
    /\ r.op = "move" => db.entries[<<r.list, r.old>>] # NoEntry

\* The locks a call holds are those of the request it began with.
StartList(p, r) ==
    /\ p \in Client /\ Idle(p) /\ started < MaxRequests
    /\ ListResolves(r)
    /\ \A q \in Process : ListLocks(r) \cap ListLocks(call[q]) = {}
    /\ Becomes(p, r)
    /\ started' = started + 1
    /\ UNCHANGED <<db, files, lock, pc, loc, handle>>

----------------------------------------------------------------------------
(* Playlists.                                                              *)

\* RegeneratePlaylistFile, the last thing that each of the handlers does.
RegenerateList(p) ==
    LET pl == call[p].list IN
    /\ ListSession(p, "RegenerateList")
    /\ m3u' = IF pl \in db.playlists THEN [m3u EXCEPT ![pl] = EntriesOf(db, pl)] ELSE m3u
    /\ Done(p)
    /\ UNCHANGED <<db, disk, dirs>>

CreatePlaylist(p) ==
    LET name == ListCompat[call[p].to] IN
    /\ ListSession(p, "CreatePlaylist")
    /\ IF name = NoList
       THEN Done(p) /\ UNCHANGED db
       ELSE /\ db' = CreatePlaylistTx(db, name)
            /\ Becomes(p, [call[p] EXCEPT !.step = "RegenerateList", !.list = name])
    /\ UNCHANGED files

\* The playlist file goes before the database is closed, whatever became of
\* the transaction.
DeletePlaylist(p) ==
    LET pl == call[p].list IN
    /\ ListSession(p, "DeletePlaylist")
    /\ db' \in DeletePlaylistTx(db, pl)
    /\ m3u' = [m3u EXCEPT ![pl] = NoFile]
    /\ Done(p)
    /\ UNCHANGED <<disk, dirs>>

\* Faulty variant: the playlist file of the old name is left where it is.
RenamePlaylistLeavesFile(p) ==
    LET old  == call[p].list
        name == ListCompat[call[p].to]
    IN
    /\ ListSession(p, "RenamePlaylist")
    /\ db' = IF old \in db.playlists /\ name # NoList THEN RenamePlaylistTx(db, old, name) ELSE db
    /\ IF old \in db.playlists /\ name = NoList
       THEN Done(p)
       ELSE Becomes(p, [call[p] EXCEPT !.step = "RegenerateList", !.list = name])
    /\ UNCHANGED files

\* A playlist that is gone is no error.
RenamePlaylist(p) ==
    LET old  == call[p].list
        name == ListCompat[call[p].to]
    IN
    /\ ListSession(p, "RenamePlaylist")
    /\ \/ /\ old \in db.playlists /\ name # NoList
          /\ db' = RenamePlaylistTx(db, old, name)
          /\ m3u' = [m3u EXCEPT ![old] = NoFile]
       \/ /\ old \notin db.playlists \/ name = NoList
          /\ UNCHANGED <<db, m3u>>
    /\ IF old \in db.playlists /\ name = NoList
       THEN Done(p)
       ELSE Becomes(p, [call[p] EXCEPT !.step = "RegenerateList", !.list = name])
    /\ UNCHANGED <<disk, dirs>>

\* RenamePlaylistSong reads the entry and moves the song that it names
\* inside its album, from the path in the entry.
getPlaylistFile(p) ==
    LET e == db.entries[<<call[p].list, call[p].old>>] IN
    /\ At(p, "getPlaylistFile") /\ lock = Free
    /\ IF e = NoEntry
       THEN Done(p) /\ UNCHANGED <<pc, loc>>
       ELSE /\ Proceed(p, "MoveSongs")
            /\ Goto(p, "MoveSongs",
                    [Blank EXCEPT !.req = [NoRequest EXCEPT !.from = e.key], !.from = e.key,
                                  !.to = <<e.key[1], e.key[2], call[p].new>>, !.path = e.path])
    /\ UNCHANGED <<db, files>>

----------------------------------------------------------------------------
(* Files in a playlist.                                                    *)

\* Dir.Create.  A name that the playlist has already opens that file instead.
CreateInList(f) ==
    LET pl == ListOf[f] IN
    /\ started < MaxRequests /\ lock = Free
    /\ pl \in db.playlists /\ db.entries[<<pl, BaseName[f]>>] = NoEntry
    /\ disk[f] = NoFile /\ handle[f] = "none"
    /\ \A q \in Process : pl \notin ListLocks(call[q])
    /\ disk' = [disk EXCEPT ![f] = Untagged]
    /\ handle' = [handle EXCEPT ![f] = "open"]
    /\ started' = started + 1
    /\ UNCHANGED <<db, dirs, m3u, lock, pc, loc, call>>

\* What the client has written is lost when the file was removed meanwhile.
CloseInList(f, tags) ==
    /\ handle[f] = "open"
    /\ disk' = Retagged(f, tags)
    /\ handle' = [handle EXCEPT ![f] = "waiting"]
    /\ UNCHANGED <<db, dirs, m3u, lock, pc, loc, call, started>>

\* DelayedHandlePlaylistSong up to its first look into the database.
HandleSong(f) ==
    LET t == TagsOf(f)
        p == Dispatcher
    IN
    /\ handle[f] = "waiting" /\ Idle(p)
    /\ handle' = [handle EXCEPT ![f] = "none"]
    /\ IF disk[f] = NoFile
       THEN UNCHANGED <<disk, call>>
       ELSE /\ disk' = [disk EXCEPT ![f] = t]
            /\ Becomes(p, [NoCall EXCEPT !.op = "drop", !.step = "FindSong", !.path = f,
                              !.list = ListOf[f],
                              !.song = <<Compat[t.artist], Compat[t.album], Compat[t.title]>>])
    /\ UNCHANGED <<db, dirs, m3u, lock, pc, loc, started>>

FindSong(p) ==
    LET f == call[p].path IN
    /\ At(p, "FindSong") /\ lock = Free
    /\ IF db.songs[call[p].song] # NoSong
       THEN Proceed(p, "AddSongPath") /\ UNCHANGED <<pc, loc>>
       ELSE /\ Proceed(p, "HandleDrop")
            /\ Goto(p, "GetMp3Tags",
                    [Blank EXCEPT !.req = [NoRequest EXCEPT !.op = "drop", !.file = f], !.path = f])
    /\ UNCHANGED <<db, files>>

FindFiled(p) ==
    /\ ListSession(p, "FindFiled")
    /\ Proceed(p, IF db.songs[call[p].song] # NoSong THEN "AddSongPath" ELSE "DiscardDropped")
    /\ UNCHANGED <<db, files>>

\* Faulty variant: the path that was found is not put in the entry.
AddSongPathForgotten(p) ==
    LET s == db.songs[call[p].song] IN
    /\ ListSession(p, "AddSongPath")
    /\ Proceed(p, IF s = NoSong THEN "DiscardDropped" ELSE "AddSongEntry")
    /\ UNCHANGED <<db, files>>

\* AddFileToPlaylist looks for the song in one session and adds it in another.
AddSongPath(p) ==
    LET s == db.songs[call[p].song] IN
    /\ ListSession(p, "AddSongPath")
    /\ IF s = NoSong
       THEN Proceed(p, "DiscardDropped")
       ELSE Becomes(p, [call[p] EXCEPT !.step = "AddSongEntry", !.at = s.path])
    /\ UNCHANGED <<db, files>>

AddSongEntry(p) ==
    LET c == call[p] IN
    /\ ListSession(p, "AddSongEntry")
    /\ IF c.list \in db.playlists /\ db.songs[c.song] # NoSong
       THEN db' = AddFileToPlaylistTx(db, c.list, c.song, c.at) /\ Proceed(p, "RemoveDropped")
       ELSE Proceed(p, "DiscardDropped") /\ UNCHANGED db
    /\ UNCHANGED files

\* Faulty variant: a file that could not be filed stays where it is.
RemoveDroppedOnSuccess(p) ==
    /\ \/ At(p, "RemoveDropped") /\ Proceed(p, "RegenerateList")
          /\ disk' = [disk EXCEPT ![call[p].path] = NoFile]
       \/ At(p, "DiscardDropped") /\ Done(p) /\ UNCHANGED disk
    /\ UNCHANGED <<db, dirs, m3u, pc, loc>>

\* The dropped file goes in any case, the m3u file follows only a success.
RemoveDropped(p) ==
    /\ \/ At(p, "RemoveDropped") /\ Proceed(p, "RegenerateList")
       \/ At(p, "DiscardDropped") /\ Done(p)
    /\ disk' = [disk EXCEPT ![call[p].path] = NoFile]
    /\ UNCHANGED <<db, dirs, m3u, pc, loc>>

----------------------------------------------------------------------------
(* MoveSongs and HandleDrop, when a handler of this module has called them.*)

\* The step with which the function returns without an error.
Succeeds(p) ==
    \/ pc[p] = "Regenerate"
    \/ /\ pc[p] = "CreateNew" /\ loc[p].to[3] \in Mp3Name
       /\ HasAlbum(db, AlbumOf(loc[p].to))
    \/ pc[p] = "DropSong" /\ HasAlbum(db, AlbumOf(loc[p].to))

Resume(p) ==
    CASE call[p].step = "MoveSongs" /\ Succeeds(p)   -> Proceed(p, "RegenerateList")
      [] call[p].step = "MoveSongs" /\ ~Succeeds(p)  -> Done(p)
      [] call[p].step = "HandleDrop" /\ Succeeds(p)  -> Proceed(p, "FindFiled")
      [] call[p].step = "HandleDrop" /\ ~Succeeds(p) -> Proceed(p, "DiscardDropped")

LibraryStep(p) ==
    /\ Step(p)
    /\ IF call[p].step \in {"MoveSongs", "HandleDrop"} /\ pc'[p] = "idle"
       THEN Resume(p)
       ELSE UNCHANGED call
    /\ UNCHANGED handle

LibraryStart(p, r) == Idle(p) /\ Start(p, r) /\ UNCHANGED listVars

----------------------------------------------------------------------------
ListStep(p) ==
    \/ CreatePlaylist(p) \/ DeletePlaylist(p) \/ RenamePlaylist(p) \/ RegenerateList(p)
    \/ getPlaylistFile(p)
    \/ FindSong(p) \/ FindFiled(p) \/ AddSongPath(p) \/ AddSongEntry(p) \/ RemoveDropped(p)

ListInit ==
    /\ Init
    /\ call = [p \in Process |-> NoCall]
    /\ handle = [f \in ListDrop |-> "none"]

AllQuiet == \A p \in Process : Idle(p)

ListNext ==
    \/ \E p \in Process : LibraryStep(p) \/ ListStep(p)
    \/ \E p \in Process, r \in Requests : LibraryStart(p, r)
    \/ \E p \in Process, r \in ListRequests : StartList(p, r)
    \/ \E f \in ListDrop : CreateInList(f) \/ HandleSong(f) \/ \E t \in Content : CloseInList(f, t)
    \/ AllQuiet /\ UNCHANGED <<vars, listVars>>

ListSpec == ListInit /\ [][ListNext]_<<vars, listVars>>

\* Clients close what they have opened; the dispatcher takes up what waits.
ListFairSpec ==
    /\ ListSpec
    /\ \A p \in Process : WF_<<vars, listVars>>(LibraryStep(p) \/ ListStep(p))
    /\ \A f \in ListDrop : /\ SF_<<vars, listVars>>(HandleSong(f))
                           /\ WF_<<vars, listVars>>(\E t \in Content : CloseInList(f, t))

----------------------------------------------------------------------------
(* Properties.                                                             *)

ListTypeOK ==
    /\ TypeOK
    /\ call \in [Process -> Call]
    /\ handle \in [ListDrop -> {"none", "open", "waiting"}]

(***************************************************************************)
(* playlistmgr/README: "MuLi regenerates the playlists every time there is *)
(* a change in one of the songs or there is a change in the playlist       *)
(* structure."  When no handler is at work, a playlist file belongs to a   *)
(* playlist, and no song that is on the playlist is missing from it,       *)
(* whichever handlers wrote the file in between.  (A song that is no       *)
(* longer on the playlist may still be in it: a MoveSongs that fails after *)
(* Unlist regenerates nothing.)                                            *)
(***************************************************************************)
PlaylistFilesComplete ==
    AllQuiet => \A pl \in Playlist : m3u[pl] # NoFile =>
        pl \in db.playlists /\ EntriesOf(db, pl) \subseteq m3u[pl]

(***************************************************************************)
(* A file that was copied into a playlist and closed does not stay in its  *)
(* directory, whatever is done to the playlist and to the song meanwhile:  *)
(* DelayedHandlePlaylistSong comes to its end, unless a handler that waits *)
(* for itself keeps the database for ever.                                 *)
(***************************************************************************)
DropsAreCleared ==
    \A f \in ListDrop :
        handle[f] = "waiting" ~> disk[f] = NoFile \/ \E p \in Process : pc[p] = "Nested"

(***************************************************************************)
(* The links from songs to playlists, and the entries that answer them,    *)
(* are changed together: each link of a song that has an entry of its own, *)
(* with the file where the song is, still has one after the next step,     *)
(* whatever handlers do to the playlist and to the song meanwhile.  The    *)
(* exceptions are the losses that the code allows:                         *)
(*   TakenOff    MoveSongs takes a song of that title off its playlists    *)
(*               before it moves it (moveManager.go:63-66);                *)
(*   TakenOver   another song of that title takes the entry, which has the *)
(*               title as its key (playlistManager.go:302, 679);           *)
(*   LeftBehind  the playlist is renamed to what GetCompatibleString makes *)
(*               its own name, and goes (686), or the song is on it twice  *)
(*               and only the first link follows (662).                    *)
(***************************************************************************)
LinksSound(k) ==
    db.songs[k] # NoSong => \A pl \in ToSet(db.songs[k].lists) :
        db.entries[<<pl, k[3]>>] = [key |-> k, path |-> db.songs[k].path]

TakenOff(k) ==
    \E p \in Process : pc[p] = "Unlist" /\ loc'[p] # loc[p] /\ loc[p].from[3] = k[3]

TakenOver(k) ==
    \E pl \in ToSet(db.songs[k].lists) :
        LET e == db'.entries[<<pl, k[3]>>] IN e # NoEntry /\ e.key # k

LeftBehind(k) ==
    \E p \in Process :
        LET old   == call[p].list
            lists == db.songs[k].lists
        IN
        /\ call[p].step = "RenamePlaylist" /\ call'[p] # call[p]
        /\ \/ ListCompat[call[p].to] = old
           \/ \E i, j \in DOMAIN lists : i # j /\ lists[i] = old /\ lists[j] = old

LinksKept ==
    [][ \A k \in SongKey :
          LinksSound(k) => LinksSound(k)' \/ TakenOff(k) \/ TakenOver(k) \/ LeftBehind(k)
      ]_<<vars, listVars>>

(***************************************************************************)
(* playlistManager.go: "RenamePlaylist moves the entire Playlist and       *)
(* changes all the links to the songs in every MuLi song."  After it no    *)
(* song has a link to the old name left.                                   *)
(***************************************************************************)
LinksFollow ==
    [][ \A p \in Process :
          LET old == call[p].list IN
          /\ call[p].step = "RenamePlaylist" /\ old \in db.playlists
          /\ call'[p].step = "RegenerateList" /\ call'[p].list # old
          => \A k \in SongKey : db'.songs[k] # NoSong => ~Contains(db'.songs[k].lists, old)
      ]_<<vars, listVars>>
=============================================================================
