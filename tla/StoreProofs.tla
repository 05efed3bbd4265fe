---------------------------- MODULE StoreProofs ----------------------------
(***************************************************************************)
(* Lemmas about the transactions of Store: each gives a database when it   *)
(* is given one, and none gives two songs the same music file.             *)
(***************************************************************************)
EXTENDS Store, SequenceTheorems, WellFoundedInduction, TLAPS

----------------------------------------------------------------------------
(* Lists of albums.                                                        *)

LEMMA RemoveAtType ==
    ASSUME NEW S, NEW q \in Seq(S), NEW i \in 1 .. Len(q)
    PROVE  RemoveAt(q, i) \in Seq(S)
<1>1. SubSeq(q, 1, i - 1) \in Seq(S) /\ SubSeq(q, i + 1, Len(q)) \in Seq(S)
  BY SubSeqProperties
<1> QED
  BY <1>1, ConcatProperties DEF RemoveAt

LEMMA MinOfPositions ==
    ASSUME NEW I, I \subseteq Nat, I # {}
    PROVE  Min(I) \in I
<1>1. \E x \in I : \A y \in I : ~ (<<y, x>> \in OpToRel(<, Nat))
  BY NatLessThanWellFounded, WFMin
<1>2. PICK x \in I : \A y \in I : ~ (<<y, x>> \in OpToRel(<, Nat))
  BY <1>1
<1>3. ASSUME NEW y \in I PROVE x <= y
  <2>1. x \in Nat /\ y \in Nat /\ <<y, x>> \in Nat \X Nat
    OBVIOUS
  <2>2. ~(y < x)
    BY <1>2, <2>1 DEF OpToRel
  <2> QED
    BY <2>1, <2>2
<1> QED
  BY <1>3 DEF Min

LEMMA RemoveFirstType ==
    ASSUME NEW S, NEW q \in Seq(S), NEW e
    PROVE  RemoveFirst(q, e) \in Seq(S)
<1> DEFINE I == {i \in 1 .. Len(q) : q[i] = e}
<1>1. CASE I = {}
  BY <1>1 DEF RemoveFirst
<1>2. CASE I # {}
  <2>1. Min(I) \in I
    <3>1. I \subseteq Nat
      OBVIOUS
    <3> HIDE DEF I
    <3> QED
      BY <1>2, <3>1, MinOfPositions
  <2>2. SelectInSeq(q, LAMBDA v : v = e) = Min(I)
    BY <1>2 DEF SelectInSeq
  <2>3. RemoveFirst(q, e) = RemoveAt(q, Min(I))
    BY <1>2, <2>2 DEF RemoveFirst
  <2> QED
    BY <2>1, <2>3, RemoveAtType
<1> QED
  BY <1>1, <1>2

LEMMA WithAlbumType ==
    ASSUME NEW q \in Seq(DirName), NEW b \in DirName
    PROVE  WithAlbum(q, b) \in Seq(DirName)
  BY DEF WithAlbum

LEMMA CopyIntoType ==
    ASSUME NEW dst \in Seq(DirName), NEW src \in Seq(DirName)
    PROVE  CopyInto(dst, src) \in Seq(DirName)
<1>1. \A i \in 1 .. Len(dst) : (IF i <= Len(src) THEN src[i] ELSE dst[i]) \in DirName
  BY ElementOfSeq, LenProperties
<1> QED
  BY <1>1, LenProperties DEF CopyInto

----------------------------------------------------------------------------
(* Types.                                                                  *)

LEMMA CreateArtistType ==
    ASSUME NEW db \in Database, NEW a \in DirName
    PROVE  CreateArtistTx(db, a) \in Database
  BY EmptySeq DEF CreateArtistTx, Database

LEMMA CreateAlbumType ==
    ASSUME NEW db \in Database, NEW ab \in AlbumKey
    PROVE  CreateAlbumTx(db, ab) \in Database
<1>1. ab[1] \in DirName /\ ab[2] \in DirName
  BY DEF AlbumKey
<1>2. WithAlbum(db.listed[ab[1]], ab[2]) \in Seq(DirName)
  BY <1>1, WithAlbumType DEF Database
<1> QED
  BY <1>1, <1>2 DEF CreateAlbumTx, Database

LEMMA CreateSongType ==
    ASSUME NEW db \in Database, NEW k \in SongKey, NEW path \in Path
    PROVE  CreateSongTx(db, k, path) \in Database
<1>1. [path |-> path, lists |-> <<>>] \in SongStore
  BY EmptySeq DEF SongStore
<1> QED
  BY <1>1 DEF CreateSongTx, Database

LEMMA DeleteSongType ==
    ASSUME NEW db \in Database, NEW k \in SongKey
    PROVE  DeleteSongTx(db, k) \in Database
  BY DEF DeleteSongTx, Database

LEMMA DeleteAlbumType ==
    ASSUME NEW db \in Database, NEW ab
    PROVE  DeleteAlbumBucket(db, ab) \in Database
<1> DEFINE songs == [k \in SongKey |-> IF AlbumOf(k) = ab THEN NoSong ELSE db.songs[k]]
<1>1. songs \in [SongKey -> SongStore \cup {NoSong}]
  BY DEF Database
<1>2. DeleteAlbumBucket(db, ab) = [db EXCEPT !.albums = db.albums \ {ab}, !.songs = songs]
  BY DEF DeleteAlbumBucket, Database
<1> HIDE DEF songs
<1> QED
  BY <1>1, <1>2 DEF Database

LEMMA DeleteArtistType ==
    ASSUME NEW db \in Database, NEW a
    PROVE  DeleteArtistBucket(db, a) \in Database
<1> DEFINE artists == db.artists \ {a}
           listed  == [db.listed EXCEPT ![a] = <<>>]
           albums  == {ab \in db.albums : ab[1] # a}
           songs   == [k \in SongKey |-> IF k[1] = a THEN NoSong ELSE db.songs[k]]
           new     == DeleteArtistBucket(db, a)
<1>1. artists \in SUBSET DirName /\ albums \in SUBSET AlbumKey
  BY DEF Database
<1>2. listed \in [DirName -> Seq(DirName)]
  BY EmptySeq DEF Database
<1>3. songs \in [SongKey -> SongStore \cup {NoSong}]
  BY DEF Database
<1>4. new = [db EXCEPT !.artists = artists, !.listed = listed, !.albums = albums, !.songs = songs]
  BY DEF DeleteArtistBucket, Database
<1> HIDE DEF artists, listed, albums, songs, new
<1>5. new \in Database
  BY <1>1, <1>2, <1>3, <1>4 DEF Database
<1> QED
  BY <1>5 DEF new

LEMMA ProcessNewArtistType ==
    ASSUME NEW db \in Database, NEW a \in DirName, NEW old \in DirName
    PROVE  ProcessNewArtistTx(db, a, old) \in Database
<1> DEFINE list    == IF a \in db.artists THEN CopyInto(db.listed[a], db.listed[old])
                      ELSE db.listed[old]
           artists == db.artists \cup {a}
           listed  == [db.listed EXCEPT ![a] = list]
           new     == ProcessNewArtistTx(db, a, old)
<1>1. list \in Seq(DirName)
  BY CopyIntoType DEF Database
<1>2. new = [db EXCEPT !.artists = artists, !.listed = listed]
  BY DEF ProcessNewArtistTx, Database
<1> HIDE DEF list
<1>3. artists \in SUBSET DirName /\ listed \in [DirName -> Seq(DirName)]
  BY <1>1 DEF Database
<1> HIDE DEF artists, listed, new
<1>4. new \in Database
  BY <1>2, <1>3 DEF Database
<1> QED
  BY <1>4 DEF new

LEMMA ProcessNewAlbumType ==
    ASSUME NEW db \in Database, NEW ab \in AlbumKey, NEW old \in AlbumKey
    PROVE  ProcessNewAlbumTx(db, ab, old) \in Database
<1> DEFINE listing == [db.listed EXCEPT ![ab[1]] = WithAlbum(@, ab[2])]
           listed  == [listing EXCEPT ![old[1]] = RemoveFirst(@, old[2])]
           albums  == db.albums \cup {ab}
           new     == ProcessNewAlbumTx(db, ab, old)
<1>1. /\ ab[1] \in DirName /\ ab[2] \in DirName
      /\ old[1] \in DirName /\ old[2] \in DirName
  BY DEF AlbumKey
<1>2. listing \in [DirName -> Seq(DirName)]
  BY <1>1, WithAlbumType DEF Database
<1>3. listed \in [DirName -> Seq(DirName)]
  <2> HIDE DEF listing
  <2> QED
    BY <1>1, <1>2, RemoveFirstType
<1>4. albums \in SUBSET AlbumKey
  BY DEF Database
<1>5. new = [db EXCEPT !.albums = albums, !.listed = listed]
  BY DEF ProcessNewAlbumTx
<1> HIDE DEF listed, albums, new
<1>6. new \in Database
  BY <1>3, <1>4, <1>5 DEF Database
<1> QED
  BY <1>6 DEF new

LEMMA UnlistType ==
    ASSUME NEW db \in Database, NEW pl \in Playlist, NEW title \in TitleName
    PROVE  UnlistTx(db, pl, title) \in Database
  BY DEF UnlistTx, Database

LEMMA AddFileToPlaylistType ==
    ASSUME NEW db \in Database, NEW pl \in Playlist, NEW k \in SongKey, NEW path \in Path,
           db.songs[k] # NoSong
    PROVE  AddFileToPlaylistTx(db, pl, k, path) \in Database
<1> DEFINE lists == IF Contains(db.songs[k].lists, pl) THEN db.songs[k].lists
                    ELSE Append(db.songs[k].lists, pl)
           song  == [db.songs[k] EXCEPT !.lists = lists]
           entry == [key |-> k, path |-> path]
<1>1. db.songs[k] \in SongStore
  BY DEF Database
<1>2. lists \in Seq(Playlist)
  BY <1>1 DEF SongStore
<1>3. song \in SongStore
  <2> HIDE DEF lists
  <2> QED
    BY <1>1, <1>2 DEF SongStore
<1>4. entry \in PlaylistFile /\ k[3] \in TitleName
  BY DEF PlaylistFile, SongKey
<1> DEFINE songs   == [db.songs EXCEPT ![k] = song]
           entries == [db.entries EXCEPT ![<<pl, k[3]>>] = entry]
           new     == AddFileToPlaylistTx(db, pl, k, path)
<1>5. new = [db EXCEPT !.entries = entries, !.songs = songs]
  BY DEF AddFileToPlaylistTx, Database
<1> HIDE DEF song, entry
<1>6. /\ songs \in [SongKey -> SongStore \cup {NoSong}]
      /\ entries \in [Playlist \X TitleName -> PlaylistFile \cup {NoEntry}]
  BY <1>3, <1>4 DEF Database
<1> HIDE DEF songs, entries, new
<1>7. new \in Database
  BY <1>5, <1>6 DEF Database
<1> QED
  BY <1>7 DEF new

LEMMA EntriesOfType ==
    ASSUME NEW db \in Database, NEW pl \in Playlist
    PROVE  EntriesOf(db, pl) \subseteq PlaylistFile
  BY DEF EntriesOf, Database

LEMMA ListsOfType ==
    ASSUME NEW db \in Database, NEW k \in SongKey
    PROVE  ListsOf(db, k) \in Seq(Playlist)
  BY EmptySeq DEF ListsOf, Database, SongStore

----------------------------------------------------------------------------
(* Playlists.                                                              *)

LEMMA CreatePlaylistType ==
    ASSUME NEW db \in Database, NEW pl \in Playlist
    PROVE  CreatePlaylistTx(db, pl) \in Database
  BY DEF CreatePlaylistTx, Database

LEMMA DeletePlaylistBucketType ==
    ASSUME NEW db \in Database, NEW pl \in Playlist
    PROVE  DeletePlaylistBucket(db, pl) \in Database
<1> DEFINE entries == [e \in Playlist \X TitleName |->
                          IF e[1] = pl THEN NoEntry ELSE db.entries[e]]
           new     == DeletePlaylistBucket(db, pl)
<1>1. new = [db EXCEPT !.playlists = db.playlists \ {pl}, !.entries = entries]
  BY DEF DeletePlaylistBucket, Database
<1>2. entries \in [Playlist \X TitleName -> PlaylistFile \cup {NoEntry}]
  BY DEF Database
<1> HIDE DEF entries, new
<1>3. new \in Database
  BY <1>1, <1>2 DEF Database
<1> QED
  BY <1>3 DEF new

\* A song whose list of playlists is replaced.
LEMMA SongWithLists ==
    ASSUME NEW song \in SongStore, NEW lists \in Seq(Playlist)
    PROVE  /\ [song EXCEPT !.lists = lists] \in SongStore
           /\ [song EXCEPT !.lists = lists].path = song.path
  BY DEF SongStore

\* A song that an entry leads to, when it can be opened.
LEMMA LiveSong ==
    ASSUME NEW db \in Database, NEW pl \in Playlist, NEW t \in LiveTitles(db, pl)
    PROVE  /\ db.entries[<<pl, t>>].key \in SongKey
           /\ db.songs[db.entries[<<pl, t>>].key] \in SongStore
<1>1. t \in TitleName /\ db.entries[<<pl, t>>] # NoEntry
      /\ db.songs[db.entries[<<pl, t>>].key] # NoSong
  BY DEF LiveTitles
<1>2. db.entries[<<pl, t>>] \in PlaylistFile
  BY <1>1 DEF Database
<1>3. db.entries[<<pl, t>>].key \in SongKey
  BY <1>2 DEF PlaylistFile
<1> QED
  BY <1>1, <1>3 DEF Database

\* DeletePlaylist deletes the bucket, or changes the lists of one song.
LEMMA DeletePlaylistOutcome ==
    ASSUME NEW db \in Database, NEW pl \in Playlist, NEW new \in DeletePlaylistTx(db, pl)
    PROVE  \/ new = DeletePlaylistBucket(db, pl)
           \/ \E k \in SongKey :
                 /\ db.songs[k] \in SongStore
                 /\ new = [db EXCEPT !.songs = [db.songs EXCEPT
                        ![k] = [db.songs[k] EXCEPT !.lists = RemoveFirst(db.songs[k].lists, pl)]]]
<1>1. CASE LiveTitles(db, pl) = {}
  BY <1>1 DEF DeletePlaylistTx
<1>2. CASE LiveTitles(db, pl) # {}
  <2>1. PICK t \in LiveTitles(db, pl) :
           new = [db EXCEPT !.songs[db.entries[<<pl, t>>].key].lists = RemoveFirst(@, pl)]
    BY <1>2 DEF DeletePlaylistTx
  <2>2. db.entries[<<pl, t>>].key \in SongKey /\ db.songs[db.entries[<<pl, t>>].key] \in SongStore
    BY LiveSong
  <2> QED
    BY <2>1, <2>2 DEF Database
<1> QED
  BY <1>1, <1>2

LEMMA DeletePlaylistType ==
    ASSUME NEW db \in Database, NEW pl \in Playlist, NEW new \in DeletePlaylistTx(db, pl)
    PROVE  new \in Database
<1>1. ASSUME NEW k \in SongKey, db.songs[k] \in SongStore,
             new = [db EXCEPT !.songs = [db.songs EXCEPT
                      ![k] = [db.songs[k] EXCEPT !.lists = RemoveFirst(db.songs[k].lists, pl)]]]
      PROVE  new \in Database
  <2> DEFINE lists == RemoveFirst(db.songs[k].lists, pl)
             song  == [db.songs[k] EXCEPT !.lists = lists]
             songs == [db.songs EXCEPT ![k] = song]
  <2>1. db.songs[k].lists \in Seq(Playlist)
    BY <1>1 DEF SongStore
  <2>2. lists \in Seq(Playlist)
    BY <2>1, RemoveFirstType
  <2>3. new = [db EXCEPT !.songs = songs]
    BY <1>1
  <2> HIDE DEF lists
  <2>4. song \in SongStore
    BY <1>1, <2>2, SongWithLists
  <2> HIDE DEF song
  <2>5. songs \in [SongKey -> SongStore \cup {NoSong}]
    BY <2>4 DEF Database
  <2> HIDE DEF songs
  <2> QED
    BY <2>3, <2>5 DEF Database
<1> QED
  BY <1>1, DeletePlaylistOutcome, DeletePlaylistBucketType

LEMMA RelinkedType ==
    ASSUME NEW lists \in Seq(Playlist), NEW old, NEW new \in Playlist
    PROVE  Relinked(lists, old, new) \in Seq(Playlist)
<1> DEFINE first == Min({i \in DOMAIN lists : lists[i] = old})
           q     == [lists EXCEPT ![first] = new]
<1>1. Relinked(lists, old, new) \in {lists, q}
  BY DEF Relinked
<1> HIDE DEF first
<1>2. lists \in [1 .. Len(lists) -> Playlist] /\ Len(lists) \in Nat
  OBVIOUS
<1>3. q \in [1 .. Len(lists) -> Playlist]
  BY <1>2
<1> HIDE DEF q
<1>4. q \in Seq(Playlist)
  BY <1>2, <1>3, SeqDef
<1> QED
  BY <1>1, <1>4

LEMMA RelinkedSong ==
    ASSUME NEW db \in Database, NEW old \in Playlist, NEW new \in Playlist, NEW k \in SongKey
    PROVE  /\ RelinkedSongs(db, old, new)[k] \in SongStore \cup {NoSong}
           /\ db.songs[k] = NoSong => RelinkedSongs(db, old, new)[k] = NoSong
           /\ RelinkedSongs(db, old, new)[k] # NoSong =>
                 RelinkedSongs(db, old, new)[k].path = db.songs[k].path
<1> DEFINE song == RelinkedSongs(db, old, new)[k]
<1>1. CASE k \in {db.entries[<<old, t>>].key : t \in LiveTitles(db, old)}
  <2> DEFINE lists == Relinked(db.songs[k].lists, old, new)
  <2>1. db.songs[k] \in SongStore
    BY <1>1, LiveSong
  <2>2. db.songs[k].lists \in Seq(Playlist)
    BY <2>1 DEF SongStore
  <2>3. lists \in Seq(Playlist)
    BY <2>2, RelinkedType
  <2>4. song = [db.songs[k] EXCEPT !.lists = lists]
    BY <1>1 DEF RelinkedSongs
  <2>5. NoSong \notin SongStore
    BY SentinelAssumption DEF SongStore, Path
  <2> HIDE DEF lists, song
  <2>6. song \in SongStore /\ song.path = db.songs[k].path /\ db.songs[k] # NoSong
    BY <2>1, <2>3, <2>4, <2>5, SongWithLists
  <2> QED
    BY <2>6 DEF song
<1>2. CASE k \notin {db.entries[<<old, t>>].key : t \in LiveTitles(db, old)}
  <2>1. song = db.songs[k]
    BY <1>2 DEF RelinkedSongs
  <2>2. db.songs[k] \in SongStore \cup {NoSong}
    BY DEF Database
  <2> QED
    BY <2>1, <2>2
<1> QED
  BY <1>1, <1>2

LEMMA CopiedPlaylistType ==
    ASSUME NEW db \in Database, NEW old \in Playlist, NEW new \in Playlist
    PROVE  CopiedPlaylist(db, old, new) \in Database
<1>1. CopiedEntries(db, old, new) \in [Playlist \X TitleName -> PlaylistFile \cup {NoEntry}]
  BY DEF CopiedEntries, Database
<1>2. RelinkedSongs(db, old, new) \in [SongKey -> SongStore \cup {NoSong}]
  <2>1. RelinkedSongs(db, old, new) = [k \in SongKey |-> RelinkedSongs(db, old, new)[k]]
    BY DEF RelinkedSongs
  <2> QED
    BY <2>1, RelinkedSong
<1> QED
  BY <1>1, <1>2 DEF CopiedPlaylist, Database

LEMMA RenamePlaylistType ==
    ASSUME NEW db \in Database, NEW old \in Playlist, NEW new \in Playlist
    PROVE  RenamePlaylistTx(db, old, new) \in Database
  BY CopiedPlaylistType, DeletePlaylistBucketType DEF RenamePlaylistTx

----------------------------------------------------------------------------
(* Files.                                                                  *)

(***************************************************************************)
(* No song is new and none has another file: what all transactions do but  *)
(* the one that creates a song.                                            *)
(***************************************************************************)
KeepsPaths(db, new) ==
    \A k \in SongKey : new.songs[k] # NoSong =>
        db.songs[k] # NoSong /\ new.songs[k].path = db.songs[k].path

LEMMA SongsKept ==
    ASSUME NEW db, NEW new, new.songs = db.songs
    PROVE  KeepsPaths(db, new)
  BY DEF KeepsPaths

LEMMA CreateArtistKeeps ==
    ASSUME NEW db \in Database, NEW a PROVE KeepsPaths(db, CreateArtistTx(db, a))
<1>1. CreateArtistTx(db, a).songs = db.songs
  BY DEF CreateArtistTx, Database
<1> QED
  BY <1>1, SongsKept

LEMMA CreateAlbumKeeps ==
    ASSUME NEW db \in Database, NEW ab PROVE KeepsPaths(db, CreateAlbumTx(db, ab))
<1>1. CreateAlbumTx(db, ab).songs = db.songs
  BY DEF CreateAlbumTx, Database
<1> QED
  BY <1>1, SongsKept

LEMMA ProcessNewArtistKeeps ==
    ASSUME NEW db \in Database, NEW a, NEW old PROVE KeepsPaths(db, ProcessNewArtistTx(db, a, old))
<1>1. ProcessNewArtistTx(db, a, old).songs = db.songs
  BY DEF ProcessNewArtistTx, Database
<1> QED
  BY <1>1, SongsKept

LEMMA ProcessNewAlbumKeeps ==
    ASSUME NEW db \in Database, NEW ab, NEW old PROVE KeepsPaths(db, ProcessNewAlbumTx(db, ab, old))
<1>1. ProcessNewAlbumTx(db, ab, old).songs = db.songs
  BY DEF ProcessNewAlbumTx, Database
<1> QED
  BY <1>1, SongsKept

LEMMA UnlistKeeps ==
    ASSUME NEW db \in Database, NEW pl, NEW title PROVE KeepsPaths(db, UnlistTx(db, pl, title))
<1>1. UnlistTx(db, pl, title).songs = db.songs
  BY DEF UnlistTx, Database
<1> QED
  BY <1>1, SongsKept

LEMMA DeleteSongKeeps ==
    ASSUME NEW db \in Database, NEW k \in SongKey PROVE KeepsPaths(db, DeleteSongTx(db, k))
<1>1. DeleteSongTx(db, k).songs = [db.songs EXCEPT ![k] = NoSong]
  BY DEF DeleteSongTx, Database
<1> QED
  BY <1>1 DEF KeepsPaths, Database

LEMMA DeleteAlbumKeeps ==
    ASSUME NEW db \in Database, NEW ab PROVE KeepsPaths(db, DeleteAlbumBucket(db, ab))
<1>1. DeleteAlbumBucket(db, ab).songs =
        [k \in SongKey |-> IF AlbumOf(k) = ab THEN NoSong ELSE db.songs[k]]
  BY DEF DeleteAlbumBucket, Database
<1> QED
  BY <1>1 DEF KeepsPaths

LEMMA DeleteArtistKeeps ==
    ASSUME NEW db \in Database, NEW a PROVE KeepsPaths(db, DeleteArtistBucket(db, a))
<1>1. DeleteArtistBucket(db, a).songs =
        [k \in SongKey |-> IF k[1] = a THEN NoSong ELSE db.songs[k]]
  BY DEF DeleteArtistBucket, Database
<1> QED
  BY <1>1 DEF KeepsPaths

LEMMA AddFileToPlaylistKeeps ==
    ASSUME NEW db \in Database, NEW pl, NEW k \in SongKey, NEW path, db.songs[k] # NoSong
    PROVE  KeepsPaths(db, AddFileToPlaylistTx(db, pl, k, path))
<1> DEFINE lists == IF Contains(db.songs[k].lists, pl) THEN db.songs[k].lists
                    ELSE Append(db.songs[k].lists, pl)
<1>1. AddFileToPlaylistTx(db, pl, k, path).songs =
        [db.songs EXCEPT ![k] = [db.songs[k] EXCEPT !.lists = lists]]
  BY DEF AddFileToPlaylistTx, Database
<1>2. db.songs[k] \in SongStore /\ db.songs \in [SongKey -> SongStore \cup {NoSong}]
  BY DEF Database
<1> HIDE DEF lists
<1>3. [db.songs[k] EXCEPT !.lists = lists].path = db.songs[k].path
  BY <1>2 DEF SongStore
<1> QED
  BY <1>1, <1>2, <1>3 DEF KeepsPaths

LEMMA CreatePlaylistKeeps ==
    ASSUME NEW db \in Database, NEW pl PROVE KeepsPaths(db, CreatePlaylistTx(db, pl))
<1>1. CreatePlaylistTx(db, pl).songs = db.songs
  BY DEF CreatePlaylistTx, Database
<1> QED
  BY <1>1, SongsKept

LEMMA DeletePlaylistKeeps ==
    ASSUME NEW db \in Database, NEW pl \in Playlist, NEW new \in DeletePlaylistTx(db, pl)
    PROVE  KeepsPaths(db, new)
<1>1. CASE new = DeletePlaylistBucket(db, pl)
  <2>1. new.songs = db.songs
    BY <1>1 DEF DeletePlaylistBucket, Database
  <2> QED
    BY <2>1, SongsKept
<1>2. ASSUME NEW k \in SongKey, db.songs[k] \in SongStore,
             new = [db EXCEPT !.songs = [db.songs EXCEPT
                      ![k] = [db.songs[k] EXCEPT !.lists = RemoveFirst(db.songs[k].lists, pl)]]]
      PROVE  KeepsPaths(db, new)
  <2> DEFINE lists == RemoveFirst(db.songs[k].lists, pl)
             song  == [db.songs[k] EXCEPT !.lists = lists]
  <2>1. song.path = db.songs[k].path
    BY <1>2 DEF SongStore
  <2>2. new.songs = [db.songs EXCEPT ![k] = song]
    BY <1>2 DEF Database
  <2>3. db.songs[k] # NoSong
    BY <1>2, SentinelAssumption DEF SongStore, Path
  <2> HIDE DEF song
  <2> QED
    BY <2>1, <2>2, <2>3 DEF KeepsPaths, Database
<1> QED
  BY <1>1, <1>2, DeletePlaylistOutcome

LEMMA RenamePlaylistKeeps ==
    ASSUME NEW db \in Database, NEW old \in Playlist, NEW new \in Playlist
    PROVE  KeepsPaths(db, RenamePlaylistTx(db, old, new))
<1> DEFINE copied == CopiedPlaylist(db, old, new)
<1>1. copied \in Database /\ copied.songs = RelinkedSongs(db, old, new)
  BY CopiedPlaylistType DEF CopiedPlaylist, Database
<1> HIDE DEF copied
<1>2. DeletePlaylistBucket(copied, old).songs = copied.songs
  BY <1>1 DEF DeletePlaylistBucket, Database
<1>3. RenamePlaylistTx(db, old, new) = DeletePlaylistBucket(copied, old)
  BY DEF RenamePlaylistTx, copied
<1> QED
  BY <1>1, <1>2, <1>3, RelinkedSong DEF KeepsPaths

(***************************************************************************)
(* A song that is created has the file it is given, and no other changes.  *)
(***************************************************************************)
LEMMA CreateSongPaths ==
    ASSUME NEW db \in Database, NEW k \in SongKey, NEW path
    PROVE  /\ CreateSongTx(db, k, path).songs[k].path = path
           /\ \A l \in SongKey : l # k => CreateSongTx(db, k, path).songs[l] = db.songs[l]
<1>1. CreateSongTx(db, k, path).songs = [db.songs EXCEPT ![k] = [path |-> path, lists |-> <<>>]]
  BY DEF CreateSongTx, Database
<1> QED
  BY <1>1 DEF Database

----------------------------------------------------------------------------
(* The scan.                                                               *)

LEMMA WithAlbumContains ==
    ASSUME NEW q \in Seq(DirName), NEW b \in DirName
    PROVE  Contains(WithAlbum(q, b), b)
           /\ \A c : Contains(q, c) => Contains(WithAlbum(q, b), c)
<1>1. CASE Contains(q, b)
  BY <1>1 DEF WithAlbum
<1>2. CASE ~Contains(q, b)
  <2>1. WithAlbum(q, b) = Append(q, b)
    BY <1>2 DEF WithAlbum
  <2>2. /\ Len(Append(q, b)) = Len(q) + 1 /\ Append(q, b)[Len(q) + 1] = b /\ Len(q) \in Nat
        /\ \A i \in 1 .. Len(q) : Append(q, b)[i] = q[i]
    BY AppendProperties, LenProperties
  <2> QED
    BY <2>1, <2>2 DEF Contains
<1> QED
  BY <1>1, <1>2

\* The albums of the artist once the song is stored.
ListedWith(db, k) == WithAlbum(IF k[1] \in db.artists THEN db.listed[k[1]] ELSE <<>>, k[2])

\* The fields of the database once the song is stored.
NewSongStored(d, k, path, e) ==
    /\ e.artists = d.artists \cup {k[1]}
    /\ e.listed = [d.listed EXCEPT ![k[1]] = ListedWith(d, k)]
    /\ e.albums = d.albums \cup {AlbumOf(k)}
    /\ e.songs = [d.songs EXCEPT ![k] = [path |-> path, lists |-> <<>>]]
    /\ e.playlists = d.playlists
    /\ e.entries = d.entries
    /\ e = [ artists |-> e.artists, listed |-> e.listed, albums |-> e.albums,
             songs |-> e.songs, playlists |-> e.playlists, entries |-> e.entries ]

LEMMA StoreNewSongFields ==
    ASSUME NEW db \in Database, NEW k \in SongKey, NEW path
    PROVE  NewSongStored(db, k, path, StoreNewSongTx(db, k, path))
<1> DEFINE e       == StoreNewSongTx(db, k, path)
           artists == db.artists \cup {k[1]}
           listed  == [db.listed EXCEPT ![k[1]] = ListedWith(db, k)]
           albums  == db.albums \cup {AlbumOf(k)}
           songs   == [db.songs EXCEPT ![k] = [path |-> path, lists |-> <<>>]]
<1>1. e = [db EXCEPT !.artists = artists, !.listed = listed, !.albums = albums, !.songs = songs]
  BY DEF StoreNewSongTx, ListedWith, Database
<1> HIDE DEF e, artists, listed, albums, songs
<1>2. /\ e.artists = artists /\ e.listed = listed /\ e.albums = albums /\ e.songs = songs
      /\ e.playlists = db.playlists /\ e.entries = db.entries
      /\ e = [ artists |-> e.artists, listed |-> e.listed, albums |-> e.albums,
               songs |-> e.songs, playlists |-> e.playlists, entries |-> e.entries ]
  BY <1>1 DEF Database
<1>3. NewSongStored(db, k, path, e)
  BY <1>2 DEF NewSongStored, artists, listed, albums, songs
<1> QED
  BY <1>3 DEF e

LEMMA StoreNewSongType ==
    ASSUME NEW db \in Database, NEW k \in SongKey, NEW path \in Path
    PROVE  StoreNewSongTx(db, k, path) \in Database
<1> DEFINE e    == StoreNewSongTx(db, k, path)
           q    == IF k[1] \in db.artists THEN db.listed[k[1]] ELSE <<>>
<1>1. k[1] \in DirName /\ k[2] \in DirName /\ AlbumOf(k) \in AlbumKey
  BY DEF SongKey, AlbumKey, AlbumOf
<1>2. q \in Seq(DirName)
  BY <1>1, EmptySeq DEF Database
<1>3. ListedWith(db, k) \in Seq(DirName)
  <2>1. ListedWith(db, k) = WithAlbum(q, k[2])
    BY DEF ListedWith
  <2> HIDE DEF q
  <2> QED
    BY <1>1, <1>2, <2>1, WithAlbumType
<1>4. [path |-> path, lists |-> <<>>] \in SongStore
  BY EmptySeq DEF SongStore
<1>5. e = StoreNewSongTx(db, k, path)
  OBVIOUS
<1> HIDE DEF e, q
<1>6. NewSongStored(db, k, path, e)
  BY <1>5, StoreNewSongFields
<1>7. e.artists \in SUBSET DirName /\ e.albums \in SUBSET AlbumKey
  BY <1>1, <1>6 DEF NewSongStored, Database
<1>8. e.listed \in [DirName -> Seq(DirName)]
  BY <1>3, <1>6 DEF NewSongStored, Database
<1>9. e.songs \in [SongKey -> SongStore \cup {NoSong}]
  BY <1>4, <1>6 DEF NewSongStored, Database
<1>10. e.playlists \in SUBSET Playlist /\ e.entries \in [Playlist \X TitleName -> PlaylistFile \cup {NoEntry}]
  BY <1>6 DEF NewSongStored, Database
<1>11. e \in Database
  BY <1>6, <1>7, <1>8, <1>9, <1>10 DEF NewSongStored, Database
<1> QED
  BY <1>11 DEF e
=============================================================================
