------------------------------ MODULE Restart ------------------------------
(***************************************************************************)
(* MuLi stopped and started again over the same MUSIC_SOURCE and the same  *)
(* database file: the composition of the mounted filesystem (Playlists)    *)
(* with what main.go does before it mounts.                                *)
(*                                                                         *)
(* The process may end at any moment, cleanly or not.  What it had in      *)
(* memory is lost: the handlers at work, the files that clients had open   *)
(* and those the dispatcher kept for later.  The music files, the playlist *)
(* files and the committed transactions stay.  A session whose effects are *)
(* not one transaction can be cut in two: this is the only place where the *)
(* playlist file and the database of one session come apart.               *)
(*                                                                         *)
(* InitDB keeps the database that is there.  ScanFolder stores every music *)
(* file again, ScanPlaylistFolder every playlist, and then MuLi mounts.    *)
(***************************************************************************)
EXTENDS Playlists

CONSTANTS
    Walk,      \* the place of each path in the order of filepath.Walk
    MaxStops,  \* bound: times that MuLi ends in one behaviour
    Nothing    \* nothing to compare with

VARIABLES
    start,     \* what main.go is doing
    torn,      \* the playlist files that have lost their first line
    ragged,    \* those whose last line has lost a part of its three
    stops,     \* times that MuLi has ended
    kept       \* history: the library that the last scan left, until a handler changes it

restartVars == <<start, torn, ragged, stops, kept>>
allVars == <<vars, listVars, restartVars>>

(***************************************************************************)
(* Where main.go is: todo are the paths that Walk still has to visit, read *)
(* the playlist files that ReadDir found, list the one at work.  A visited *)
(* path leaves todo when its song is stored, a playlist file leaves read   *)
(* when it is removed.                                                     *)
(***************************************************************************)
Startup == [ step : {"mounted", "ScanFolder", "StoreNewSong", "ScanPlaylistFolder", "Remove",
                     "Regenerate"},
            todo : SUBSET Path,
            read : SUBSET Playlist,
            list : Playlist \cup {NoList} ]

Phase(step, todo, read, list) == [step |-> step, todo |-> todo, read |-> read, list |-> list]

Mounted == Phase("mounted", {}, {}, NoList)

ASSUME RestartAssumption ==
    /\ Walk \in [Path -> Nat]
    /\ \A f, g \in Path : Walk[f] = Walk[g] => f = g
    /\ MaxStops \in Nat

\* The music files that Walk comes to.
Found == {f \in Path : disk[f] # NoFile}

\* main.go begins.
FromTheStart == Phase("ScanFolder", Found, {}, NoList)

----------------------------------------------------------------------------
(* The end of the process.                                                 *)

\* The outcomes of a RegeneratePlaylistFile that is cut short: no file, one
\* without its first line, or one with the lines of some songs, the last of
\* them whole or not.  (A line that ends in its title is as good as whole.)
HalfWritten(pl) ==
    /\ pl \in db.playlists
    /\ \/ m3u' = [m3u EXCEPT ![pl] = NoFile] /\ torn' = torn \ {pl} /\ ragged' = ragged \ {pl}
       \/ m3u' = [m3u EXCEPT ![pl] = {}] /\ torn' = torn \cup {pl} /\ ragged' = ragged \ {pl}
       \/ \E es \in SUBSET EntriesOf(db, pl) :
             /\ m3u' = [m3u EXCEPT ![pl] = es] /\ torn' = torn \ {pl}
             /\ \/ ragged' = ragged \ {pl}
                \/ es # EntriesOf(db, pl) /\ ragged' = ragged \cup {pl}
    /\ UNCHANGED db

\* The handlers that touch a playlist file inside a session: DeletePlaylist
\* after the commit, RenamePlaylist before it.
HalfDone(p) ==
    /\ pc[p] = "idle"
    /\ \/ /\ call[p].step = "DeletePlaylist"
          /\ db' \in DeletePlaylistTx(db, call[p].list)
          /\ UNCHANGED <<m3u, torn, ragged>>
       \/ /\ call[p].step = "RenamePlaylist" /\ call[p].list \in db.playlists
          /\ ListCompat[call[p].to] # NoList
          /\ m3u' = [m3u EXCEPT ![call[p].list] = NoFile]
          /\ torn' = torn \ {call[p].list} /\ ragged' = ragged \ {call[p].list}
          /\ UNCHANGED db
       \/ call[p].step = "RegenerateList" /\ HalfWritten(call[p].list)

Cut ==
    /\ lock = Free
    /\ \/ \E p \in Process : HalfDone(p)
       \/ \E p \in Process : pc[p] = "Regenerate" /\ HalfWritten(Head(loc[p].todo))
       \/ start.step = "Regenerate" /\ HalfWritten(ListCompat[start.list])

Stop ==
    /\ stops < MaxStops
    /\ Cut \/ UNCHANGED <<db, m3u, torn, ragged>>
    /\ stops' = stops + 1
    /\ start' = FromTheStart
    /\ kept' = IF start.step = "mounted" /\ [db |-> db', disk |-> disk] # kept
               THEN Nothing ELSE kept
    /\ lock' = Free
    /\ pc' = [p \in Process |-> "idle"]
    /\ loc' = [p \in Process |-> Blank]
    /\ call' = [p \in Process |-> NoCall]
    /\ handle' = [f \in ListDrop |-> "none"]
    /\ UNCHANGED <<disk, dirs, started>>

----------------------------------------------------------------------------
(* main.go.                                                                *)

Starting(step) ==
    start.step = step /\ UNCHANGED <<dirs, lock, pc, loc, started, call, handle, stops>>

\* The song that the tags of a file make of it.
SongOf(tags) == <<Compat[tags.artist], Compat[tags.album], Compat[TitleOf(tags)]>>

HasPlace(k) == NoName \notin {k[1], k[2]}

\* The file that Walk comes to next.
IsNext(f) == f \in start.todo /\ \A g \in start.todo : Walk[f] <= Walk[g]

\* visit: GetMp3Tags writes the tags that are missing into the file.
Visit(f) ==
    /\ Starting("ScanFolder") /\ IsNext(f)
    /\ start' = [start EXCEPT !.step = "StoreNewSong"]
    /\ disk' = [disk EXCEPT ![f] = TagsOf(f)]
    /\ UNCHANGED <<db, m3u, torn, ragged, kept>>

\* Faulty variant: the song is stored under the place its names give.
StoreByName(f) ==
    LET k == SongOf(disk[f]) IN
    /\ Starting("StoreNewSong") /\ IsNext(f)
    /\ start' = [start EXCEPT !.step = "ScanFolder", !.todo = @ \ {f}]
    /\ db' = IF HasPlace(k) THEN StoreNewSongTx(db, k, k) ELSE db
    /\ UNCHANGED <<disk, m3u, torn, ragged, kept>>

\* A bucket without a name cannot be made: the error is not looked at.
StoreNewSong(f) ==
    LET k == SongOf(disk[f]) IN
    /\ Starting("StoreNewSong") /\ IsNext(f)
    /\ start' = [start EXCEPT !.step = "ScanFolder", !.todo = @ \ {f}]
    /\ db' = IF HasPlace(k) THEN StoreNewSongTx(db, k, f) ELSE db
    /\ UNCHANGED <<disk, m3u, torn, ragged, kept>>

ScanPlaylistFolder ==
    /\ Starting("ScanFolder") /\ start.todo = {}
    /\ start' = Phase("ScanPlaylistFolder", {}, {pl \in Playlist : m3u[pl] # NoFile}, NoList)
    /\ UNCHANGED <<db, disk, m3u, torn, ragged, kept>>

\* CheckPlaylistFile: a file without its first line is left alone.
LeaveAlone(pl) ==
    /\ Starting("ScanPlaylistFolder") /\ pl \in start.read \cap torn
    /\ start' = [start EXCEPT !.read = @ \ {pl}]
    /\ UNCHANGED <<db, disk, m3u, torn, ragged, kept>>

\* ProcessPlaylist takes the lines that have more than three parts or fewer,
\* and a line with fewer is indexed out of range: main ends, and whoever
\* starts MuLi again begins anew.
ProcessPlaylistPanics(pl) ==
    /\ Starting("ScanPlaylistFolder") /\ pl \in (start.read \cap ragged) \ torn
    /\ start' = FromTheStart
    /\ UNCHANGED <<db, disk, m3u, torn, ragged, kept>>

\* visitPlaylist up to CreatePlaylist.  A line that MuLi wrote whole has three
\* parts and is not taken, so that no song is added.
visitPlaylist(pl) ==
    LET name == ListCompat[pl] IN
    /\ Starting("ScanPlaylistFolder") /\ pl \in start.read \ (torn \cup ragged)
    /\ start' = [start EXCEPT !.step = "Remove", !.list = pl]
    /\ db' = IF name = NoList THEN db ELSE CreatePlaylistTx(db, name)
    /\ UNCHANGED <<disk, m3u, torn, ragged, kept>>

\* os.Remove.
RemoveScanned ==
    LET pl == start.list IN
    /\ Starting("Remove")
    /\ start' = [start EXCEPT !.step = "Regenerate", !.read = @ \ {pl}]
    /\ m3u' = [m3u EXCEPT ![pl] = NoFile]
    /\ UNCHANGED <<db, disk, torn, ragged, kept>>

\* Faulty variant: the file is written from the lines that were taken from it.
WriteLinesTaken ==
    LET pl == ListCompat[start.list] IN
    /\ Starting("Regenerate")
    /\ start' = [start EXCEPT !.step = "ScanPlaylistFolder", !.list = NoList]
    /\ m3u' = IF pl \in db.playlists THEN [m3u EXCEPT ![pl] = {}] ELSE m3u
    /\ torn' = torn \ {pl} /\ ragged' = ragged \ {pl}
    /\ UNCHANGED <<db, disk, kept>>

RegenerateScanned ==
    LET pl == ListCompat[start.list] IN
    /\ Starting("Regenerate")
    /\ start' = [start EXCEPT !.step = "ScanPlaylistFolder", !.list = NoList]
    /\ m3u' = IF pl \in db.playlists THEN [m3u EXCEPT ![pl] = EntriesOf(db, pl)] ELSE m3u
    /\ torn' = torn \ {pl} /\ ragged' = ragged \ {pl}
    /\ UNCHANGED <<db, disk, kept>>

\* InitDispatcher and mount.
Mount ==
    /\ Starting("ScanPlaylistFolder") /\ start.read = {}
    /\ start' = Mounted
    /\ kept' = IF kept = Nothing THEN [db |-> db, disk |-> disk] ELSE kept
    /\ UNCHANGED <<db, disk, m3u, torn, ragged>>

----------------------------------------------------------------------------
\* A playlist file that a handler writes anew has all of its lines.
Rewritten(pl) ==
    \/ m3u'[pl] # m3u[pl]
    \/ /\ pl \in db.playlists
       /\ \E p \in Process :
             \/ call[p].step = "RegenerateList" /\ call[p].list = pl /\ call'[p] # call[p]
             \/ pc[p] = "Regenerate" /\ Head(loc[p].todo) = pl /\ pc'[p] # pc[p]

\* Faulty variant: requests are served while main.go scans.
ServeEarly ==
    /\ ListNext
    /\ torn' = {pl \in torn : ~Rewritten(pl)}
    /\ ragged' = {pl \in ragged : ~Rewritten(pl)}
    /\ kept' = IF kept = Nothing \/ [db |-> db', disk |-> disk'] = kept THEN kept ELSE Nothing
    /\ UNCHANGED <<start, stops>>

Serve ==
    /\ start.step = "mounted"
    /\ ListNext
    /\ torn' = {pl \in torn : ~Rewritten(pl)}
    /\ ragged' = {pl \in ragged : ~Rewritten(pl)}
    /\ kept' = IF kept = Nothing \/ [db |-> db', disk |-> disk'] = kept THEN kept ELSE Nothing
    /\ UNCHANGED <<start, stops>>

RestartInit ==
    /\ ListInit
    /\ start = Mounted /\ torn = {} /\ ragged = {} /\ stops = 0 /\ kept = Nothing

\* main.go before it mounts.
StartStep ==
    \/ \E f \in Path : Visit(f) \/ StoreNewSong(f)
    \/ ScanPlaylistFolder \/ RemoveScanned \/ RegenerateScanned \/ Mount
    \/ \E pl \in Playlist : LeaveAlone(pl) \/ ProcessPlaylistPanics(pl) \/ visitPlaylist(pl)

RestartNext == Serve \/ Stop \/ StartStep

RestartSpec == RestartInit /\ [][RestartNext]_allVars

\* Nothing that main.go does before it mounts waits for anyone else.
RestartFairSpec == RestartSpec /\ WF_allVars(StartStep)

----------------------------------------------------------------------------
(* Properties.                                                             *)

RestartTypeOK ==
    /\ ListTypeOK
    /\ start \in Startup
    /\ torn \subseteq Playlist /\ ragged \subseteq Playlist
    /\ start.step # "mounted" => AllQuiet
    /\ stops \in 0 .. MaxStops

\* MuLi has just mounted, and no handler has changed anything yet.
JustMounted == start = Mounted /\ kept # Nothing

(***************************************************************************)
(* README: MuLi "scans for all the music files" and stores what their tags *)
(* say.  However MuLi ended, and whatever it had half done, once it has    *)
(* mounted again every file has its tags filled in, and the song that they *)
(* name can be opened, in an album that its artist's list has, and is read *)
(* from a file with such tags.                                             *)
(***************************************************************************)
FilesFound ==
    JustMounted => \A f \in Path : disk[f] # NoFile =>
        /\ disk[f] \in Tags
        /\ LET k == SongOf(disk[f]) IN HasPlace(k) =>
              /\ HasAlbum(db, AlbumOf(k)) /\ Contains(db.listed[k[1]], k[2])
              /\ db.songs[k] # NoSong
              /\ disk[db.songs[k].path] # NoFile /\ SongOf(disk[db.songs[k].path]) = k

(***************************************************************************)
(* Scanning what MuLi has scanned already changes neither the database nor *)
(* a file, also when MuLi ends in the middle of it and has to begin again: *)
(* no album is listed twice, no song stored under another name.            *)
(***************************************************************************)
RescanChangesNothing == JustMounted => [db |-> db, disk |-> disk] = kept

(***************************************************************************)
(* Once MuLi has mounted, every playlist file that has its first line is   *)
(* again exactly what the database says, those that a stop left without    *)
(* some of their lines too, and none is cut inside a line: what a stopped  *)
(* RegeneratePlaylistFile or RenamePlaylist left behind is made good.  (A  *)
(* file cut inside a #MULI line keeps MuLi from mounting: MountsAgain.)    *)
(***************************************************************************)
PlaylistFilesRestored ==
    JustMounted => \A pl \in Playlist \ torn : m3u[pl] # NoFile =>
        pl \in db.playlists /\ pl \notin ragged /\ m3u[pl] = EntriesOf(db, pl)

(***************************************************************************)
(* playlistFiles.go: "ProcessPlaylist function receives the path of a      *)
(* playlist and adds all the information into the database.  It process    *)
(* every line in the file and reads all the songs in it."  So whatever     *)
(* MuLi was writing when it ended, when it is started again it comes to    *)
(* serve its files.                                                        *)
(***************************************************************************)
MountsAgain == start.step # "mounted" ~> start.step = "mounted"

(***************************************************************************)
(* README: moving a song updates its tags, which "makes the Music Library  *)
(* consistent and keeps every Song updated".  So a library whose songs     *)
(* have a file each is found again as it was: the scan gives no file to    *)
(* two songs.                                                              *)
(***************************************************************************)
FilesFoundOnce == JustMounted => DistinctFiles

=============================================================================
