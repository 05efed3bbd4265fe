------------------------------- MODULE Store -------------------------------
(***************************************************************************)
(* The BoltDB database of MuLi (package store) as a value, and each bolt   *)
(* transaction that package runs as an operator from a database to a       *)
(* database.  The operators are pure: who runs them, in which order and    *)
(* under which lock is the business of the modules that extend this one.   *)
(*                                                                         *)
(* A transaction that returns an error is rolled back by db.Update, so an  *)
(* operator here gives the effect of the transaction that succeeds and the *)
(* callers test the error conditions first.                                *)
(*                                                                         *)
(* Abstractions.  A bucket or key is a name of a small set, and            *)
(* GetCompatibleString is the function Compat on those names.  The display *)
(* names kept in the descriptions (ArtistName, AlbumName, SongName) are    *)
(* never read back by the program and are left out; the list ArtistAlbums  *)
(* is, because MoveArtist follows it.                                      *)
(***************************************************************************)
EXTENDS Naturals, Sequences, SequencesExt

CONSTANTS
    DirName,    \* names of artist and album directories, raw or compatible
    TitleName,  \* song names without the .mp3 extension, raw or compatible
    Mp3Name,    \* the TitleNames that a client asks for with the extension .mp3
    NoName,     \* the empty artist or album name of the root and artist nodes
    Playlist,   \* names of playlists
    Compat,     \* what GetCompatibleString makes of a name
    Suffixed,   \* what it makes of a song name that still ends in ".mp3"
    OtherPath,  \* paths under MUSIC_SOURCE that are not <artist>/<album>/<song>
    NoSong,     \* no such key in an album bucket
    NoEntry     \* no such key in a playlist bucket

(***************************************************************************)
(* GetCompatibleString keeps only word characters, so that applying it to  *)
(* its own result changes nothing.                                         *)
(***************************************************************************)
ASSUME NamesAssumption ==
    /\ NoName \in DirName
    /\ Mp3Name \subseteq TitleName
    /\ Compat \in [DirName \cup TitleName -> DirName \cup TitleName]
    /\ \A n \in DirName : Compat[n] \in DirName
    /\ \A n \in TitleName : Compat[n] \in TitleName
    /\ \A n \in DirName \cup TitleName : Compat[Compat[n]] = Compat[n]
    /\ Suffixed \in [TitleName -> TitleName]

ArtistKey == {<<a>> : a \in DirName}
AlbumKey  == DirName \X DirName
SongKey   == DirName \X DirName \X TitleName

ASSUME SentinelAssumption ==
    /\ OtherPath \cap SongKey = {}
    /\ NoSong \notin [path : SongKey \cup OtherPath, lists : Seq(Playlist)]
    /\ NoEntry \notin [key : SongKey, path : SongKey \cup OtherPath]

\* A file below MUSIC_SOURCE: the place MuLi gives a song is its own key.
Path == SongKey \cup OtherPath

\* The JSON value of a song: SongFullPath and Playlists.
SongStore == [path : Path, lists : Seq(Playlist)]

\* The JSON value of a song in a playlist.
PlaylistFile == [key : SongKey, path : Path]

(***************************************************************************)
(* The buckets.  artists and albums are the names of the nested buckets,   *)
(* listed the ArtistAlbums of each artist's .description, songs the keys   *)
(* of the album buckets, playlists and entries the Playlists bucket.       *)
(***************************************************************************)
Database ==
    [ artists   : SUBSET DirName,
      listed    : [DirName -> Seq(DirName)],
      albums    : SUBSET AlbumKey,
      songs     : [SongKey -> SongStore \cup {NoSong}],
      playlists : SUBSET Playlist,
      entries   : [Playlist \X TitleName -> PlaylistFile \cup {NoEntry}] ]

HasAlbum(db, ab) == ab[1] \in db.artists /\ ab \in db.albums

AlbumOf(k) == <<k[1], k[2]>>

SongsIn(db, ab) == {k \in SongKey : AlbumOf(k) = ab /\ db.songs[k] # NoSong}

\* GetSong: the playlists of a song, none when the song cannot be read.
ListsOf(db, k) == IF db.songs[k] = NoSong THEN <<>> ELSE db.songs[k].lists

\* The loop that adds an album to ArtistAlbums unless it is there already.
WithAlbum(list, b) == IF Contains(list, b) THEN list ELSE Append(list, b)

----------------------------------------------------------------------------
(* Artists, albums and songs.                                              *)

CreateArtistTx(db, a) ==
    [db EXCEPT !.artists = @ \cup {a}, !.listed[a] = <<>>]

CreateAlbumTx(db, ab) ==
    [db EXCEPT !.albums = @ \cup {ab}, !.listed[ab[1]] = WithAlbum(@, ab[2])]

\* The song is stored afresh: whatever playlists an older value had are gone.
CreateSongTx(db, k, path) ==
    [db EXCEPT !.songs[k] = [path |-> path, lists |-> <<>>]]

DeleteSongTx(db, k) == [db EXCEPT !.songs[k] = NoSong]

\* DeleteBucket on an album; the artist's description is not touched.
DeleteAlbumBucket(db, ab) ==
    [db EXCEPT !.albums = @ \ {ab},
               !.songs  = [k \in SongKey |-> IF AlbumOf(k) = ab THEN NoSong ELSE @[k]]]

\* DeleteBucket on an artist, with the albums nested in it.
DeleteArtistBucket(db, a) ==
    [db EXCEPT !.artists = @ \ {a},
               !.listed[a] = <<>>,
               !.albums = {ab \in @ : ab[1] # a},
               !.songs  = [k \in SongKey |-> IF k[1] = a THEN NoSong ELSE @[k]]]

\* Go's copy(dst, src): the elements of src overwrite the first ones of dst.
CopyInto(dst, src) ==
    [i \in 1 .. Len(dst) |-> IF i <= Len(src) THEN src[i] ELSE dst[i]]

ProcessNewArtistTx(db, new, old) ==
    [db EXCEPT !.artists = @ \cup {new},
               !.listed[new] = IF new \in db.artists
                               THEN CopyInto(@, db.listed[old])
                               ELSE db.listed[old]]

\* Faulty variant: the old artist is written back as it was read before the
\* new album was listed.
ProcessNewAlbumFromStaleList(db, new, old) ==
    [db EXCEPT !.albums = @ \cup {new},
               !.listed = [@ EXCEPT ![new[1]] = WithAlbum(@, new[2]),
                                    ![old[1]] = RemoveFirst(db.listed[old[1]], old[2])]]

\* The new album is listed before the old one is taken off its artist's list,
\* and the two artists may be the same.
ProcessNewAlbumTx(db, new, old) ==
    LET listing == [db.listed EXCEPT ![new[1]] = WithAlbum(@, new[2])]
    IN  [db EXCEPT !.albums = @ \cup {new},
                   !.listed = [listing EXCEPT ![old[1]] = RemoveFirst(@, old[2])]]

\* Faulty variant: the album is appended to the list once more at every scan.
StoreNewSongListedAgain(db, k, path) ==
    [db EXCEPT !.artists = @ \cup {k[1]},
               !.listed[k[1]] = Append(IF k[1] \in db.artists THEN @ ELSE <<>>, k[2]),
               !.albums = @ \cup {AlbumOf(k)},
               !.songs[k] = [path |-> path, lists |-> <<>>]]

\* StoreNewSong: the artist, the album and the song of a file that the scan
\* has found, each made if it is not there.  The song is stored afresh.
StoreNewSongTx(db, k, path) ==
    [db EXCEPT !.artists = @ \cup {k[1]},
               !.listed[k[1]] = WithAlbum(IF k[1] \in db.artists THEN @ ELSE <<>>, k[2]),
               !.albums = @ \cup {AlbumOf(k)},
               !.songs[k] = [path |-> path, lists |-> <<>>]]

----------------------------------------------------------------------------
(* Playlists.                                                              *)

\* DeletePlaylistSong with force: only the playlist's side of the link goes.
UnlistTx(db, pl, title) == [db EXCEPT !.entries[<<pl, title>>] = NoEntry]

\* Faulty variant: the song is linked to a playlist that does not get it.
AddLinkOnly(db, pl, k, path) ==
    [db EXCEPT !.songs[k].lists = IF Contains(@, pl) THEN @ ELSE Append(@, pl)]

\* AddFileToPlaylist: the entry, and the link back from the song.
AddFileToPlaylistTx(db, pl, k, path) ==
    [db EXCEPT !.entries[<<pl, k[3]>>] = [key |-> k, path |-> path],
               !.songs[k].lists = IF Contains(@, pl) THEN @ ELSE Append(@, pl)]

\* What RegeneratePlaylistFile writes: the entries of one playlist.
EntriesOf(db, pl) == {db.entries[<<pl, t>>] : t \in TitleName} \ {NoEntry}

\* The entries whose song can still be opened.
LiveTitles(db, pl) ==
    {t \in TitleName : LET e == db.entries[<<pl, t>>] IN
        e # NoEntry /\ HasAlbum(db, AlbumOf(e.key)) /\ db.songs[e.key] # NoSong}

CreatePlaylistTx(db, pl) == [db EXCEPT !.playlists = @ \cup {pl}]

\* DeleteBucket on a playlist.
DeletePlaylistBucket(db, pl) ==
    [db EXCEPT !.playlists = @ \ {pl},
               !.entries = [e \in Playlist \X TitleName |-> IF e[1] = pl THEN NoEntry ELSE @[e]]]

(***************************************************************************)
(* DeletePlaylist, as the set of its outcomes.  The loop over the entries  *)
(* returns when it has taken the playlist off the first song that it can   *)
(* open, and the bucket is deleted only when there is no such song.  Which *)
(* of the songs comes first is left open: it is the order of their names.  *)
(***************************************************************************)
DeletePlaylistTx(db, pl) ==
    IF LiveTitles(db, pl) = {}
    THEN {DeletePlaylistBucket(db, pl)}
    ELSE {[db EXCEPT !.songs[db.entries[<<pl, t>>].key].lists = RemoveFirst(@, pl)] :
             t \in LiveTitles(db, pl)}

\* Faulty variant: the songs keep their links to the old name.
NotRelinked(lists, old, new) == lists

\* The link is rewritten where it is first found.
Relinked(lists, old, new) ==
    IF Contains(lists, old)
    THEN LET first == Min({i \in DOMAIN lists : lists[i] = old})
         IN  [lists EXCEPT ![first] = new]
    ELSE lists

(***************************************************************************)
(* RenamePlaylist: the entries whose song can be opened are copied into    *)
(* the bucket of the new name, which may exist, and the old bucket goes,   *)
(* even when the two are one.                                              *)
(***************************************************************************)
CopiedEntries(db, old, new) ==
    [e \in Playlist \X TitleName |->
        IF e[1] = new /\ e[2] \in LiveTitles(db, old) THEN db.entries[<<old, e[2]>>]
        ELSE db.entries[e]]

RelinkedSongs(db, old, new) ==
    LET songs == {db.entries[<<old, t>>].key : t \in LiveTitles(db, old)}
    IN  [k \in SongKey |-> IF k \in songs
                           THEN [db.songs[k] EXCEPT !.lists = Relinked(@, old, new)]
                           ELSE db.songs[k]]

CopiedPlaylist(db, old, new) ==
    [db EXCEPT !.playlists = @ \cup {new},
               !.entries   = CopiedEntries(db, old, new),
               !.songs     = RelinkedSongs(db, old, new)]

RenamePlaylistTx(db, old, new) == DeletePlaylistBucket(CopiedPlaylist(db, old, new), old)
=============================================================================
