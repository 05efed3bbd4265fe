------------------------------ MODULE Library ------------------------------
(***************************************************************************)
(* The FUSE handlers of MuLi at work on the database and on the music      *)
(* files, with every step at which another handler may come in between.    *)
(*                                                                         *)
(* bazil/fuse runs each request in a goroutine of its own, and dispatcher  *)
(* .go runs HandleDrop in another.  Each exported function of package      *)
(* store opens the database file (bolt.Open with no timeout: an exclusive  *)
(* flock that waits for ever), runs one transaction and closes it.  Such a *)
(* session is one step here, possible only when lock = Free; a session     *)
(* that goes on after its transaction (deleting victims, or waiting for    *)
(* itself) keeps the lock.  The system calls on the music files between    *)
(* two sessions are steps that need no lock.                               *)
(*                                                                         *)
(* A process runs one request at a time.  pc names the step it is about to *)
(* take, after the function of the source that takes it, and loc is its    *)
(* frame: the arguments and locals that are still to be read.              *)
(***************************************************************************)
EXTENDS Store

CONSTANTS
    Client,       \* FUSE requests that can be in progress at the same time
    Dispatcher,   \* the goroutine of dispatcher.go, which handles drops
    Requests,     \* the requests that are made
    Initial,      \* libraries as a scan leaves them: [db, disk, dirs]
    DropFile,     \* paths of files inside MUSIC_SOURCE/drop
    ReplaceDirs,  \* TRUE if clients rename a directory onto an existing one
    MaxRequests,  \* bound: requests in one behaviour
    Free,         \* owner of the flock when no process has the file open
    NoFile,       \* no file at a path
    Untagged,     \* a file whose tags nobody has written
    Unknown,      \* the artist and the album of a file without tags
    BaseName,     \* file names, without extension, of OtherPath
    NoPath

VARIABLES
    db,       \* the database
    disk,     \* the music files: path to tags
    dirs,     \* the directories below MUSIC_SOURCE
    m3u,      \* the playlist files: playlist to the entries written, or NoFile
    lock,     \* the process that has the database file open
    pc, loc,  \* the next step and the frame of each process
    started   \* requests so far

vars  == <<db, disk, dirs, m3u, lock, pc, loc, started>>
files == <<disk, dirs, m3u>>

Process == Client \cup {Dispatcher}

\* A place in the mounted tree: the root, an artist, an album or a song.
Node == {<<>>} \cup ArtistKey \cup AlbumKey \cup SongKey

Tags == [artist : DirName, album : DirName, title : TitleName, mp3 : BOOLEAN]

Request == [ op   : {"none", "mkdir", "create", "release", "remove", "rename", "drop"},
             from : Node,
             to   : Node,
             file : Path \cup {NoPath} ]

NoRequest == [op |-> "none", from |-> <<>>, to |-> <<>>, file |-> NoPath]

(***************************************************************************)
(* What Dir and File turn into work for package store.  Requests that they *)
(* refuse by the depth of the nodes alone (a file outside an album, an     *)
(* album moved into an album, a directory in drop) change nothing.  A song *)
(* may be moved above the albums: NoName stands for the missing names.     *)
(***************************************************************************)
WellFormed(r) ==
    \/ r.op = "mkdir" /\ Len(r.to) \in {1, 2}
    \/ r.op = "create" /\ Len(r.to) = 3
    \/ r.op = "release" /\ Len(r.from) = 3
    \/ r.op = "remove" /\ Len(r.from) \in {1, 2, 3}
    \/ /\ r.op = "rename" /\ Len(r.from) \in {1, 2, 3} /\ Len(r.to) = Len(r.from)
       /\ Len(r.to) < 3 => NoName \notin ToSet(r.to)
    \/ r.op = "drop" /\ r.file \in DropFile

\* A song of an album being moved: its key and its SongFullPath.
AlbumSong == [key : SongKey, path : Path]

Frame == [ req     : Request,
           from    : Node,                    \* the old artist, album and name
           to      : Node,                    \* the new ones
           path    : Path \cup {NoPath},      \* a file path read earlier
           albums  : Seq(DirName),            \* MoveArtist: albums to go
           songs   : SUBSET AlbumSong,        \* MoveAlbum: songs to go
           lists   : Seq(Playlist),           \* MoveSongs: the song's playlists
           todo    : Seq(Playlist),           \* those to go in the current loop
           victims : SUBSET SongStore ]       \* DeleteArtist, DeleteAlbum

Blank == [ req |-> NoRequest, from |-> <<>>, to |-> <<>>, path |-> NoPath,
           albums |-> <<>>, songs |-> {}, lists |-> <<>>, todo |-> <<>>,
           victims |-> {} ]

ASSUME LibraryAssumption ==
    /\ Requests \subseteq {r \in Request : WellFormed(r)}
    /\ DropFile \subseteq OtherPath
    /\ Dispatcher \notin Client
    /\ Free \notin Process
    /\ ReplaceDirs \in BOOLEAN
    /\ MaxRequests \in Nat
    /\ NoFile \notin Tags \cup {Untagged} /\ Untagged \notin Tags
    /\ Unknown \in DirName /\ BaseName \in [OtherPath -> TitleName]
    /\ NoPath \notin Path

(***************************************************************************)
(* A scan gives each song the path of a file it found and no other song    *)
(* that path; the files waiting in drop are not songs yet.                 *)
(***************************************************************************)
ASSUME InitialAssumption ==
    \A i \in Initial :
        /\ i.db \in Database
        /\ i.disk \in [Path -> Tags \cup {Untagged, NoFile}]
        /\ i.dirs \subseteq Node
        /\ \A ab \in i.db.albums :
              ab[1] \in i.db.artists /\ Contains(i.db.listed[ab[1]], ab[2])
        /\ \A k \in SongKey : i.db.songs[k] # NoSong =>
              /\ AlbumOf(k) \in i.db.albums
              /\ i.db.songs[k].path \in {k} \cup (OtherPath \ DropFile)
        /\ \A k, l \in SongKey : i.db.songs[k] # NoSong /\ i.db.songs[l] # NoSong =>
              (k = l \/ i.db.songs[k].path # i.db.songs[l].path)

----------------------------------------------------------------------------
(* Control.                                                                *)

Goto(p, step, frame) ==
    /\ pc' = [pc EXCEPT ![p] = step]
    /\ loc' = [loc EXCEPT ![p] = frame]

Return(p) == Goto(p, "idle", Blank)

\* An early return that has changed nothing but the frame.
Refuse(p) == Return(p) /\ UNCHANGED <<db, files>>

\* One bolt session: open, a single transaction, close.
Session(p, step) == pc[p] = step /\ lock = Free /\ UNCHANGED <<lock, started>>

\* System calls on the music files, outside any session.
Syscall(p, step) == pc[p] = step /\ UNCHANGED <<lock, started, db>>

\* A directory as the operating system reads its name: "A//s" is "A/s".
DirOf(ab) == CASE ab[1] = NoName -> <<>>
               [] ab[1] # NoName /\ ab[2] = NoName -> <<ab[1]>>
               [] OTHER -> ab

Parent(n) == IF Len(n) = 3 THEN DirOf(AlbumOf(n)) ELSE SubSeq(n, 1, Len(n) - 1)

\* MkdirAll makes the directories above as well.
MkdirAll(ab) == dirs \cup {<<ab[1]>>, ab}

Moved(from, to) == [disk EXCEPT ![from] = NoFile, ![to] = disk[from]]

\* SetMp3Tags opens the file first and does nothing when that fails.
Retagged(path, tags) ==
    [disk EXCEPT ![path] = IF @ = NoFile THEN NoFile ELSE tags]

\* The tags that GetMp3Tags finds in a file, the missing ones filled in from
\* the name of the file.
TagsOf(f) ==
    IF disk[f] = Untagged
    THEN [artist |-> Unknown, album |-> Unknown, mp3 |-> FALSE,
          title |-> IF f \in SongKey THEN f[3] ELSE BaseName[f]]
    ELSE disk[f]

\* The name of a song with these tags: only the playlist handler takes the
\* extension off a title that has it.
TitleOf(tags) == IF tags.mp3 THEN Suffixed[tags.title] ELSE tags.title

----------------------------------------------------------------------------
(***************************************************************************)
(* The kernel.  It resolves the names of a request, then keeps the parent  *)
(* directories locked, and the directory that is removed or replaced, for  *)
(* as long as the handler runs.  Release asks for no lock.  A directory    *)
(* that a handler is still making cannot be walked through.                *)
(***************************************************************************)
Exists(n) == \/ n = <<>>
             \/ Len(n) = 1 /\ n[1] \in db.artists
             \/ Len(n) = 2 /\ n \in db.albums
             \/ Len(n) = 3 /\ db.songs[n] # NoSong

Resolves(r) ==
    CASE r.op = "mkdir"  -> Exists(Parent(r.to)) /\ ~Exists(r.to)
      [] r.op = "create" -> Exists(Parent(r.to)) /\ ~Exists(r.to)
      [] r.op = "rename" -> /\ Exists(r.from) /\ Exists(Parent(r.to))
                            /\ Len(r.to) < 3 /\ ~ReplaceDirs => ~Exists(r.to)
      [] r.op = "drop"   -> TRUE
      [] OTHER           -> Exists(r.from)

KernelLocks(r) ==
    CASE r.op \in {"mkdir", "create"} -> {Parent(r.to)}
      [] r.op = "remove" -> {Parent(r.from), r.from}
      [] r.op = "rename" -> {Parent(r.from), Parent(r.to), r.to}
      [] OTHER           -> {}

\* The directories that lead to the parents a request names.
Walked(r) == IF r.op \in {"drop", "release"} THEN {}
             ELSE UNION {{SubSeq(n, 1, i) : i \in 1 .. Len(n)} :
                           n \in {Parent(m) : m \in {r.from, r.to} \ {<<>>}}}

InProgress(p) == pc[p] # "idle"

Waits(r, q) ==
    /\ InProgress(q)
    /\ \/ KernelLocks(r) \cap KernelLocks(loc[q].req) # {}
       \/ loc[q].req.op \in {"mkdir", "rename"} /\ loc[q].req.to \in Walked(r)

\* Dir.Mkdir, Dir.Create, FileHandle.Release, Dir.Remove, Dir.Rename and
\* DelayedHandleDrop choose the store function by the depth of the node.
FirstStep(r) ==
    CASE r.op = "mkdir"   -> <<"CreateArtist", "CreateAlbum">>[Len(r.to)]
      [] r.op = "create"  -> "CreateSong"
      [] r.op = "release" -> "ReleaseSong"
      [] r.op = "remove"  -> <<"DeleteArtist", "DeleteAlbum", "GetFilePath">>[Len(r.from)]
      [] r.op = "rename"  -> <<"MoveArtist", "MoveAlbum", "MoveSongs">>[Len(r.from)]
      [] r.op = "drop"    -> "GetMp3Tags"

\* Dir.Rename does not look for the song's SongFullPath: it puts together
\* the path where MuLi itself would have stored it.
FirstPath(r) == IF r.op = "rename" /\ Len(r.from) = 3 THEN r.from ELSE r.file

Start(p, r) ==
    /\ pc[p] = "idle" /\ started < MaxRequests
    /\ (r.op = "drop") <=> (p = Dispatcher)
    /\ Resolves(r) /\ \A q \in Process : ~Waits(r, q)
    /\ Goto(p, FirstStep(r), [Blank EXCEPT !.req = r, !.from = r.from,
                                           !.to = r.to, !.path = FirstPath(r)])
    /\ started' = started + 1
    /\ UNCHANGED <<db, files, lock>>

----------------------------------------------------------------------------
(* Dir.Mkdir, Dir.Create and FileHandle.Release.                           *)

CreateArtist(p) ==
    LET a == Compat[loc[p].to[1]] IN
    /\ Session(p, "CreateArtist")
    /\ \/ /\ a # NoName /\ a \notin db.artists
          /\ db' = CreateArtistTx(db, a)
          /\ Goto(p, "MkdirNew", [loc[p] EXCEPT !.to = <<a>>])
          /\ UNCHANGED files
       \/ /\ a = NoName \/ a \in db.artists
          /\ Refuse(p)

CreateAlbum(p) ==
    LET ab == <<loc[p].to[1], Compat[loc[p].to[2]]>> IN
    /\ Session(p, "CreateAlbum")
    /\ \/ /\ ab[1] \in db.artists /\ ab[2] # NoName /\ ab \notin db.albums
          /\ db' = CreateAlbumTx(db, ab)
          /\ Goto(p, "MkdirNew", [loc[p] EXCEPT !.to = ab])
          /\ UNCHANGED files
       \/ /\ ab[1] \notin db.artists \/ ab[2] = NoName \/ ab \in db.albums
          /\ Refuse(p)

MkdirNew(p) ==
    /\ Syscall(p, "MkdirNew")
    /\ dirs' = dirs \cup {<<loc[p].to[1]>>, loc[p].to}
    /\ Return(p)
    /\ UNCHANGED <<disk, m3u>>

\* Only a name with the extension .mp3 gets as far as the database.
CreateSong(p) ==
    LET to == loc[p].to
        k  == <<to[1], to[2], Compat[to[3]]>>
    IN
    /\ Session(p, "CreateSong")
    /\ \/ /\ to[3] \in Mp3Name /\ HasAlbum(db, AlbumOf(k))
          /\ db' = CreateSongTx(db, k, k)
          /\ Goto(p, "CreateFile", [loc[p] EXCEPT !.to = k])
          /\ UNCHANGED files
       \/ /\ to[3] \notin Mp3Name \/ ~HasAlbum(db, AlbumOf(k))
          /\ Refuse(p)

\* os.Create empties a file that is there already.
CreateFile(p) ==
    LET k == loc[p].to IN
    /\ Syscall(p, "CreateFile")
    /\ dirs' = MkdirAll(AlbumOf(k))
    /\ disk' = [disk EXCEPT ![k] = Untagged]
    /\ Return(p)
    /\ UNCHANGED m3u

ReleaseSong(p) ==
    LET k == loc[p].from IN
    /\ Session(p, "ReleaseSong")
    /\ IF db.songs[k] = NoSong
       THEN Return(p)
       ELSE Goto(p, "ReleaseTags", [loc[p] EXCEPT !.path = db.songs[k].path])
    /\ UNCHANGED <<db, files>>

ReleaseTags(p) ==
    LET k == loc[p].from IN
    /\ Syscall(p, "ReleaseTags")
    /\ disk' = Retagged(loc[p].path, [artist |-> k[1], album |-> k[2],
                                      title |-> k[3], mp3 |-> FALSE])
    /\ Return(p)
    /\ UNCHANGED <<dirs, m3u>>

----------------------------------------------------------------------------
(***************************************************************************)
(* Dir.Remove.  The functions that delete call DeletePlaylistSong for each *)
(* playlist of a song that they deleted, and it opens the database file    *)
(* that they still have open: the step "Nested", which nothing can take.   *)
(***************************************************************************)
GetFilePath(p) ==
    LET k == loc[p].from IN
    /\ Session(p, "GetFilePath")
    /\ IF db.songs[k] = NoSong
       THEN Return(p)
       ELSE Goto(p, "DeleteSong", [loc[p] EXCEPT !.path = db.songs[k].path])
    /\ UNCHANGED <<db, files>>

\* DeleteSong, for Dir.Remove and for MoveSongs, which go on with step next.
DeleteSongThen(p, k, next) ==
    /\ lock = Free
    /\ db' = DeleteSongTx(db, k)
    /\ IF ListsOf(db, k) # <<>>
       THEN Goto(p, "Nested", loc[p]) /\ lock' = p
       ELSE Goto(p, next, loc[p]) /\ UNCHANGED lock
    /\ UNCHANGED <<files, started>>

DeleteSong(p) ==
    LET k == loc[p].from IN
    \/ /\ pc[p] = "DeleteSong" /\ HasAlbum(db, AlbumOf(k))
       /\ DeleteSongThen(p, k, "RemoveFile")
    \/ /\ Session(p, "DeleteSong") /\ ~HasAlbum(db, AlbumOf(k))
       /\ Refuse(p)

RemoveFile(p) ==
    /\ Syscall(p, "RemoveFile")
    /\ disk' = [disk EXCEPT ![loc[p].path] = NoFile]
    /\ Return(p)
    /\ UNCHANGED <<dirs, m3u>>

\* Faulty variant: the database is closed before the files are removed.
RemoveVictimsAfterClose(p, songs) ==
    /\ IF songs = {}
       THEN Return(p)
       ELSE Goto(p, "Victims", [loc[p] EXCEPT !.victims = {db.songs[k] : k \in songs}])
    /\ UNCHANGED <<files, lock, started>>

\* Faulty variant: an artist without songs returns with the database open.
RemoveVictimsWithoutClose(p, songs) ==
    /\ IF songs = {}
       THEN Return(p)
       ELSE Goto(p, "Victims", [loc[p] EXCEPT !.victims = {db.songs[k] : k \in songs}])
    /\ lock' = p
    /\ UNCHANGED <<files, started>>

\* The loop over songList runs with the database file still open.
RemoveVictims(p, songs) ==
    /\ \/ /\ songs = {}
          /\ Return(p)
          /\ UNCHANGED lock
       \/ /\ songs # {}
          /\ Goto(p, "Victims", [loc[p] EXCEPT !.victims = {db.songs[k] : k \in songs}])
          /\ lock' = p
    /\ UNCHANGED <<files, started>>

DeleteArtist(p) ==
    LET a == loc[p].from[1] IN
    /\ pc[p] = "DeleteArtist" /\ lock = Free
    /\ db' = DeleteArtistBucket(db, a)
    /\ RemoveVictims(p, {k \in SongKey : k[1] = a /\ db.songs[k] # NoSong})

\* The songs listed are those of the album called like the artist, and when
\* there is no such album the function returns before it deletes anything.
DeleteAlbum(p) ==
    LET ab     == loc[p].from
        listed == <<ab[1], ab[1]>>
    IN
    /\ pc[p] = "DeleteAlbum" /\ lock = Free
    /\ \/ /\ HasAlbum(db, listed)
          /\ db' = DeleteAlbumBucket(db, ab)
          /\ RemoveVictims(p, SongsIn(db, listed))
       \/ /\ ~HasAlbum(db, listed)
          /\ Refuse(p)
          /\ UNCHANGED <<lock, started>>

Victims(p) ==
    /\ pc[p] = "Victims"
    /\ \E v \in loc[p].victims :
          \/ /\ v.lists # <<>>
             /\ Goto(p, "Nested", loc[p])
             /\ UNCHANGED <<disk, lock>>
          \/ /\ v.lists = <<>>
             /\ disk' = [disk EXCEPT ![v.path] = NoFile]
             /\ IF loc[p].victims = {v}
                THEN Return(p) /\ lock' = Free
                ELSE /\ Goto(p, "Victims", [loc[p] EXCEPT !.victims = @ \ {v}])
                     /\ UNCHANGED lock
    /\ UNCHANGED <<db, dirs, m3u, started>>

----------------------------------------------------------------------------
(* MoveArtist: each album of ArtistAlbums as it was when the new artist    *)
(* was made, then the old artist with all that is still in it.             *)

NextAlbum(p, f) ==
    IF f.albums = <<>>
    THEN Goto(p, "EndArtist", f)
    ELSE LET b == Head(f.albums)
         IN  Goto(p, "MoveAlbum", [f EXCEPT !.from = <<f.from[1], b>>,
                                            !.to = <<f.to[1], b>>,
                                            !.albums = Tail(@)])

\* MoveAlbum returns to Dir.Rename or to the loop of MoveArtist.
AlbumReturn(p, f) ==
    IF Len(f.req.from) = 1 THEN NextAlbum(p, f) ELSE Return(p)

MoveArtist(p) ==
    /\ Syscall(p, "MoveArtist")
    /\ dirs' = dirs \cup {loc[p].to}
    /\ Goto(p, "NewArtist", loc[p])
    /\ UNCHANGED <<disk, m3u>>

NewArtist(p) ==
    LET old == loc[p].from[1]
        new == Compat[loc[p].to[1]]
    IN
    /\ Session(p, "NewArtist")
    /\ IF old \in db.artists /\ new # NoName
       THEN /\ db' = ProcessNewArtistTx(db, new, old)
            /\ NextAlbum(p, [loc[p] EXCEPT !.albums = db.listed[old]])
       ELSE Return(p) /\ UNCHANGED db
    /\ UNCHANGED files

EndArtist(p) ==
    /\ Session(p, "EndArtist")
    /\ db' = DeleteArtistBucket(db, loc[p].from[1])
    /\ Return(p)
    /\ UNCHANGED files

----------------------------------------------------------------------------
(* MoveAlbum: the songs that were in the album when the new one was made,  *)
(* then the old album with all that is still in it.                        *)

NextSong(p, f) ==
    \/ f.songs = {} /\ Goto(p, "EndAlbum", f)
    \/ \E s \in f.songs :
          Goto(p, "MoveSongs", [f EXCEPT !.from = s.key,
                                         !.to = <<f.to[1], f.to[2], s.key[3]>>,
                                         !.path = s.path,
                                         !.songs = @ \ {s}])

\* MoveSongs returns to Dir.Rename or to the loop of MoveAlbum.
SongReturn(p, f) ==
    IF Len(f.req.from) = 3
    THEN Return(p)
    ELSE NextSong(p, [f EXCEPT !.path = NoPath, !.lists = <<>>, !.todo = <<>>])

\* os.Mkdir, unlike MkdirAll, needs the directory above.
MoveAlbum(p) ==
    LET to == loc[p].to IN
    /\ Syscall(p, "MoveAlbum")
    /\ IF to \in dirs \/ <<to[1]>> \in dirs
       THEN dirs' = dirs \cup {to} /\ Goto(p, "NewAlbum", loc[p])
       ELSE AlbumReturn(p, loc[p]) /\ UNCHANGED dirs
    /\ UNCHANGED <<disk, m3u>>

NewAlbum(p) ==
    LET f   == loc[p]
        new == <<f.to[1], Compat[f.to[2]]>>
    IN
    /\ Session(p, "NewAlbum")
    /\ IF new[1] \in db.artists /\ new[2] # NoName /\ HasAlbum(db, f.from)
       THEN /\ db' = ProcessNewAlbumTx(db, new, f.from)
            /\ NextSong(p, [f EXCEPT !.songs =
                  {[key |-> k, path |-> db.songs[k].path] : k \in SongsIn(db, f.from)}])
       ELSE AlbumReturn(p, f) /\ UNCHANGED db
    /\ UNCHANGED files

EndAlbum(p) ==
    /\ Session(p, "EndAlbum")
    /\ db' = DeleteAlbumBucket(db, AlbumOf(loc[p].from))
    /\ AlbumReturn(p, loc[p])
    /\ UNCHANGED files

----------------------------------------------------------------------------
(* MoveSongs.                                                              *)

\* GetSong; a song that cannot be read is moved as one without playlists.
MoveSongs(p) ==
    LET lists == ListsOf(db, loc[p].from) IN
    /\ Session(p, "MoveSongs")
    /\ Goto(p, IF lists = <<>> THEN "RenameFile" ELSE "Unlist",
            [loc[p] EXCEPT !.lists = lists, !.todo = lists])
    /\ UNCHANGED <<db, files>>

Unlist(p) ==
    LET rest == Tail(loc[p].todo) IN
    /\ Session(p, "Unlist")
    /\ db' = UnlistTx(db, Head(loc[p].todo), loc[p].from[3])
    /\ Goto(p, IF rest = <<>> THEN "RenameFile" ELSE "Unlist",
            [loc[p] EXCEPT !.todo = rest])
    /\ UNCHANGED files

NewFullPath(f) == <<f.to[1], f.to[2], Compat[f.to[3]]>>

\* Faulty variant: a rename that fails is logged and no more.
RenameFileUnchecked(p) ==
    LET f == loc[p] IN
    /\ Syscall(p, "RenameFile")
    /\ Goto(p, "DeleteOld", f)
    /\ disk' = IF disk[f.path] # NoFile /\ DirOf(AlbumOf(f.to)) \in dirs \cup {<<>>}
               THEN Moved(f.path, NewFullPath(f)) ELSE disk
    /\ UNCHANGED <<dirs, m3u>>

RenameFile(p) ==
    LET f == loc[p] IN
    /\ Syscall(p, "RenameFile")
    /\ IF disk[f.path] # NoFile /\ DirOf(AlbumOf(f.to)) \in dirs \cup {<<>>}
       THEN disk' = Moved(f.path, NewFullPath(f)) /\ Goto(p, "DeleteOld", f)
       ELSE SongReturn(p, f) /\ UNCHANGED disk
    /\ UNCHANGED <<dirs, m3u>>

DeleteOld(p) ==
    LET k == loc[p].from IN
    \/ /\ pc[p] = "DeleteOld" /\ HasAlbum(db, AlbumOf(k))
       /\ DeleteSongThen(p, k, "SetMp3Tags")
    \/ /\ Session(p, "DeleteOld") /\ ~HasAlbum(db, AlbumOf(k))
       /\ SongReturn(p, loc[p])
       /\ UNCHANGED <<db, files>>

\* Faulty variant: the tags keep the names the song is moved away from.
SetOldTags(p) ==
    LET f == loc[p] IN
    /\ Syscall(p, "SetMp3Tags")
    /\ disk' = Retagged(NewFullPath(f),
                        [artist |-> f.from[1], album |-> f.from[2],
                         title |-> f.to[3], mp3 |-> f.to[3] \in Mp3Name])
    /\ Goto(p, "CreateNew", f)
    /\ UNCHANGED <<dirs, m3u>>

\* The title written is the whole new file name, extension included.
SetMp3Tags(p) ==
    LET f == loc[p] IN
    /\ Syscall(p, "SetMp3Tags")
    /\ disk' = Retagged(NewFullPath(f),
                        [artist |-> f.to[1], album |-> f.to[2],
                         title |-> f.to[3], mp3 |-> f.to[3] \in Mp3Name])
    /\ Goto(p, "CreateNew", f)
    /\ UNCHANGED <<dirs, m3u>>

\* Faulty variant: the song is stored with the path it had.
CreateNewAtOldPath(p) ==
    LET f == loc[p] IN
    /\ Session(p, "CreateNew")
    /\ IF f.to[3] \in Mp3Name /\ HasAlbum(db, AlbumOf(f.to))
       THEN /\ db' = CreateSongTx(db, NewFullPath(f), f.path)
            /\ IF f.lists = <<>>
               THEN SongReturn(p, f)
               ELSE Goto(p, "AddPath", [f EXCEPT !.todo = f.lists])
       ELSE SongReturn(p, f) /\ UNCHANGED db
    /\ UNCHANGED files

CreateNew(p) ==
    LET f == loc[p] IN
    /\ Session(p, "CreateNew")
    /\ IF f.to[3] \in Mp3Name /\ HasAlbum(db, AlbumOf(f.to))
       THEN /\ db' = CreateSongTx(db, NewFullPath(f), NewFullPath(f))
            /\ IF f.lists = <<>>
               THEN SongReturn(p, f)
               ELSE Goto(p, "AddPath", [f EXCEPT !.todo = f.lists])
       ELSE SongReturn(p, f) /\ UNCHANGED db
    /\ UNCHANGED files

\* AddFileToPlaylist looks the song up by the name that was asked for, in a
\* session before the one that adds it.
AddPath(p) ==
    LET f == loc[p] IN
    /\ Session(p, "AddPath")
    /\ IF db.songs[f.to] = NoSong
       THEN Goto(p, "Regenerate", f)
       ELSE Goto(p, "AddEntry", [f EXCEPT !.path = db.songs[f.to].path])
    /\ UNCHANGED <<db, files>>

AddEntry(p) ==
    LET f == loc[p]
        pl == Head(f.todo)
    IN
    /\ Session(p, "AddEntry")
    /\ db' = IF pl \in db.playlists /\ db.songs[f.to] # NoSong
             THEN AddFileToPlaylistTx(db, pl, f.to, f.path)
             ELSE db
    /\ Goto(p, "Regenerate", f)
    /\ UNCHANGED files

\* RegeneratePlaylistFile writes the file before it closes the database.
Regenerate(p) ==
    LET f  == [loc[p] EXCEPT !.todo = Tail(@)]
        pl == Head(loc[p].todo)
    IN
    /\ Session(p, "Regenerate")
    /\ m3u' = IF pl \in db.playlists THEN [m3u EXCEPT ![pl] = EntriesOf(db, pl)] ELSE m3u
    /\ IF f.todo = <<>> THEN SongReturn(p, f) ELSE Goto(p, "AddPath", f)
    /\ UNCHANGED <<db, disk, dirs>>

----------------------------------------------------------------------------
(* HandleDrop, with an artist or an album that exists taken as it is.  The *)
(* title of the file keeps its extension, if it has one, inside the name.  *)

\* The tags cannot be read only when the file is gone; tags that are missing
\* are written into the file.
GetMp3Tags(p) ==
    LET f == loc[p].path
        t == TagsOf(f)
    IN
    /\ Syscall(p, "GetMp3Tags")
    /\ IF disk[f] = NoFile
       THEN Return(p) /\ UNCHANGED disk
       ELSE /\ disk' = [disk EXCEPT ![f] = t]
            /\ Goto(p, "DropArtist", [loc[p] EXCEPT !.to = <<t.artist, t.album, TitleOf(t)>>])
    /\ UNCHANGED <<dirs, m3u>>

DropArtist(p) ==
    LET a == Compat[loc[p].to[1]] IN
    /\ Session(p, "DropArtist")
    /\ IF a = NoName
       THEN Refuse(p)
       ELSE /\ db' = IF a \in db.artists THEN db ELSE CreateArtistTx(db, a)
            /\ Goto(p, "DropAlbum", [loc[p] EXCEPT !.to = <<a, loc[p].to[2], loc[p].to[3]>>])
            /\ UNCHANGED files

DropAlbum(p) ==
    LET ab == <<loc[p].to[1], Compat[loc[p].to[2]]>> IN
    /\ Session(p, "DropAlbum")
    /\ IF ab[2] = NoName \/ ab[1] \notin db.artists
       THEN Refuse(p)
       ELSE /\ db' = IF ab \in db.albums THEN db ELSE CreateAlbumTx(db, ab)
            /\ Goto(p, "DropFile", [loc[p] EXCEPT !.to = <<ab[1], ab[2], loc[p].to[3]>>])
            /\ UNCHANGED files

DropFileInto(p) ==
    LET f == loc[p] IN
    /\ Syscall(p, "DropFile")
    /\ dirs' = MkdirAll(AlbumOf(f.to))
    /\ IF disk[f.path] = NoFile
       THEN Return(p) /\ UNCHANGED disk
       ELSE disk' = Moved(f.path, NewFullPath(f)) /\ Goto(p, "DropSong", f)
    /\ UNCHANGED m3u

\* deleteDrop finds nothing at the old path: the file has been renamed and,
\* here, nobody drops another of the same name.
DropSong(p) ==
    LET k == NewFullPath(loc[p]) IN
    /\ Session(p, "DropSong")
    /\ db' = IF HasAlbum(db, AlbumOf(k)) THEN CreateSongTx(db, k, k) ELSE db
    /\ Return(p)
    /\ UNCHANGED files

----------------------------------------------------------------------------
Step(p) ==
    \/ CreateArtist(p) \/ CreateAlbum(p) \/ MkdirNew(p)
    \/ CreateSong(p) \/ CreateFile(p) \/ ReleaseSong(p) \/ ReleaseTags(p)
    \/ GetFilePath(p) \/ DeleteSong(p) \/ RemoveFile(p)
    \/ DeleteArtist(p) \/ DeleteAlbum(p) \/ Victims(p)
    \/ MoveArtist(p) \/ NewArtist(p) \/ EndArtist(p)
    \/ MoveAlbum(p) \/ NewAlbum(p) \/ EndAlbum(p)
    \/ MoveSongs(p) \/ Unlist(p) \/ RenameFile(p) \/ DeleteOld(p)
    \/ SetMp3Tags(p) \/ CreateNew(p) \/ AddPath(p) \/ AddEntry(p) \/ Regenerate(p)
    \/ GetMp3Tags(p) \/ DropArtist(p) \/ DropAlbum(p) \/ DropFileInto(p) \/ DropSong(p)

Quiet == \A p \in Process : pc[p] = "idle"

\* No request need ever come; one that has come must be answered.
Finished == Quiet /\ UNCHANGED vars

Init ==
    /\ \E i \in Initial : db = i.db /\ disk = i.disk /\ dirs = i.dirs
    /\ m3u = [pl \in Playlist |-> IF pl \in db.playlists THEN EntriesOf(db, pl) ELSE NoFile]
    /\ lock = Free
    /\ pc = [p \in Process |-> "idle"]
    /\ loc = [p \in Process |-> Blank]
    /\ started = 0

Next == \/ \E p \in Process : Step(p) \/ \E r \in Requests : Start(p, r)
        \/ Finished

Spec == Init /\ [][Next]_vars

\* The Go scheduler runs every goroutine that is not blocked, and a process
\* that waits for the flock gets it once nobody else wants it.
FairSpec == Spec /\ \A p \in Process : WF_vars(Step(p))

----------------------------------------------------------------------------
(* Properties.                                                             *)

\* The steps at which a process keeps the database file open between two
\* steps, or waits for a file that it has open itself.
KeepsOpen == {"Victims", "Nested"}

Steps == KeepsOpen \cup
    { "idle", "CreateArtist", "CreateAlbum", "MkdirNew", "CreateSong", "CreateFile",
      "ReleaseSong", "ReleaseTags", "GetFilePath", "DeleteSong", "RemoveFile",
      "DeleteArtist", "DeleteAlbum", "MoveArtist", "NewArtist", "EndArtist",
      "MoveAlbum", "NewAlbum", "EndAlbum", "MoveSongs", "Unlist", "RenameFile",
      "DeleteOld", "SetMp3Tags", "CreateNew", "AddPath", "AddEntry", "Regenerate",
      "GetMp3Tags", "DropArtist", "DropAlbum", "DropFile", "DropSong" }

(***************************************************************************)
(* The types, and that the flock is held exactly by the process that is    *)
(* still at work inside a session.                                         *)
(***************************************************************************)
TypeOK ==
    /\ db \in Database
    /\ disk \in [Path -> Tags \cup {Untagged, NoFile}]
    /\ dirs \subseteq Node
    /\ m3u \in [Playlist -> (SUBSET PlaylistFile) \cup {NoFile}]
    /\ pc \in [Process -> Steps]
    /\ loc \in [Process -> Frame]
    /\ started \in 0 .. MaxRequests
    /\ lock \in Process \cup {Free}
    /\ \A p \in Process : pc[p] \in KeepsOpen <=> lock = p

(***************************************************************************)
(* DeleteArtist removes the files of the artist after it has dropped the   *)
(* artist from the database.  Whatever the other handlers do meanwhile, no *)
(* file that it is still going to remove belongs to a song of the library. *)
(***************************************************************************)
VictimsAreGone(p) ==
    \A v \in loc[p].victims, k \in SongKey :
        db.songs[k] = NoSong \/ db.songs[k].path # v.path

ArtistVictimsAreGone ==
    \A p \in Process : loc[p].req.op = "remove" /\ Len(loc[p].req.from) = 1 => VictimsAreGone(p)

(***************************************************************************)
(* No two songs share a music file.  CreateSong stores every song it makes *)
(* under the path that its own names give, scanned songs keep the path of  *)
(* the file that was found, and a song that moves away frees its path:     *)
(* otherwise the removal of one song would take the file of another.       *)
(***************************************************************************)
DistinctFiles ==
    \A k, l \in SongKey : k # l /\ db.songs[k] # NoSong /\ db.songs[l] # NoSong =>
        db.songs[k].path # db.songs[l].path

(***************************************************************************)
(* store/README.md calls ArtistAlbums "an array with all the Albums this   *)
(* Artist has", and MoveArtist relies on it: an album that is not in the   *)
(* list is not moved, and is deleted with the old artist.  The one album   *)
(* that may be missing is the one MoveAlbum is emptying.                   *)
(***************************************************************************)
EmptyingAlbum == { "MoveSongs", "Unlist", "RenameFile", "DeleteOld", "SetMp3Tags",
                   "CreateNew", "AddPath", "AddEntry", "Regenerate", "EndAlbum", "Nested" }

Emptying(p, ab) ==
    /\ pc[p] \in EmptyingAlbum /\ loc[p].req.op = "rename"
    /\ Len(loc[p].req.from) < 3 /\ AlbumOf(loc[p].from) = ab

AlbumsListed ==
    \A ab \in db.albums :
        \/ Contains(db.listed[ab[1]], ab[2])
        \/ \E p \in Process : Emptying(p, ab)

(***************************************************************************)
(* When no handler is at work, the songs of the library are the music      *)
(* files: every record has its file, and every file that is not waiting in *)
(* drop can be reached through a record.                                   *)
(***************************************************************************)
SongPaths == {db.songs[k].path : k \in {l \in SongKey : db.songs[l] # NoSong}}

Inventory ==
    Quiet => SongPaths = {f \in Path \ DropFile : disk[f] # NoFile}

(***************************************************************************)
(* README: moving a song updates its tags, which "makes the Music Library  *)
(* consistent".  When no handler is at work, the tags of a file that MuLi  *)
(* has placed name the artist, the album and the song it is stored under.  *)
(***************************************************************************)
TagsFollow ==
    Quiet => \A k \in SongKey :
        db.songs[k] # NoSong /\ db.songs[k].path = k /\ disk[k] \in Tags =>
            <<disk[k].artist, disk[k].album, disk[k].title>> = k

(***************************************************************************)
(* The link from a song to a playlist is answered by an entry of that      *)
(* playlist that names the song and the file where the song is, except     *)
(* while MoveSongs has taken the song off its playlists and still has to   *)
(* delete it.                                                              *)
(***************************************************************************)
Unlisted(p, k) ==
    pc[p] \in {"Unlist", "RenameFile", "DeleteOld"} /\ loc[p].from = k

LinksHold ==
    \A k \in SongKey : db.songs[k] # NoSong =>
        \/ \A pl \in ToSet(db.songs[k].lists) :
              db.entries[<<pl, k[3]>>] = [key |-> k, path |-> db.songs[k].path]
        \/ \E p \in Process : Unlisted(p, k)

(***************************************************************************)
(* Every request is answered: no handler waits for ever.                   *)
(***************************************************************************)
RequestsReturn == \A p \in Process : InProgress(p) ~> pc[p] = "idle"
=============================================================================
