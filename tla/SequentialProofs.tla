-------------------------- MODULE SequentialProofs --------------------------
(***************************************************************************)
(* One client at a time: the songs of the library are the music files, and *)
(* the tags of the files follow the names (Inventory, TagsFollow), under   *)
(* the hypothesis Sequential of module OneClient.                          *)
(*                                                                         *)
(* The argument.  Both properties speak of the moments when no handler is  *)
(* at work; the inductive invariant OrderOK says at each step of each      *)
(* handler by how much the files and the records differ (Balance) and      *)
(* which tags are still to be written (Labels).  That a handler pays what  *)
(* it owes depends on facts read at earlier steps (Carried): the song that *)
(* is deleted has its file at the path that was read; MoveArtist has every *)
(* album with a song still before it, or at hand (ArtistLoop); MoveAlbum   *)
(* has every song of the old album still before it, as it was found, or at *)
(* hand, and a directory to move it to (AlbumLoop): so that the old artist *)
(* or album is empty when it is deleted with all that is still in it.      *)
(* With one client nothing comes between; and because no request moves a   *)
(* song onto a stray, a song that is replaced by the song at hand has its  *)
(* file where that song's file goes (Unfiled).  A handler that waits for   *)
(* itself ("Nested") never returns, so it owes nothing.                    *)
(***************************************************************************)
EXTENDS LibraryTreeProofs, OneClient

Sole == CHOOSE c \in Client : Client = {c}

----------------------------------------------------------------------------
(* What a handler has in hand, step by step.                               *)

InHand == {"CreateFile", "RemoveFile", "Victims", "DeleteOld", "SetMp3Tags", "CreateNew", "Nested"}

\* The files that it has yet to make, to remove or to file.
BalanceAt(d, k, step, f, x) ==
    /\ step = "CreateFile" => (HasSong(d, x) <=> FileAt(k, x) \/ x = f.to)
    /\ step = "RemoveFile" => (HasSong(d, x) <=> FileAt(k, x) /\ x # f.path)
    /\ step = "Victims" => (HasSong(d, x) <=> FileAt(k, x) /\ \A v \in f.victims : v.path # x)
    /\ step = "DeleteOld" => (FileAt(k, x) <=> x = f.to \/ (HasSong(d, x) /\ x # f.path))
    /\ step \in {"SetMp3Tags", "CreateNew"} => (FileAt(k, x) <=> x = f.to \/ HasSong(d, x))
    /\ step \notin InHand => (HasSong(d, x) <=> FileAt(k, x))

Balance(d, k, step, f) == \A x \in Place : BalanceAt(d, k, step, f, x)

\* The tags that it has yet to write.
Untold == {"CreateFile", "DeleteOld", "SetMp3Tags"}

Labels(d, k, step, f) ==
    /\ step # "Nested" => \A l \in SongKey : Labelled(d, k, l) \/ (step \in Untold /\ l = f.to)
    /\ step = "CreateNew" /\ k[f.to] \in Tags => NamedAfter(k[f.to], f.to)

\* The song at hand has its file at the path at hand.
Held(d, f) == d.songs[f.from] # NoSong /\ d.songs[f.from].path = f.path

\* MoveArtist: each song is in an album that is still to go, or at hand, and
\* none that is in the new artist can be in the way.
ArtistLoop(d, ds, f, current) ==
    /\ f.to[1] # f.from[1] /\ f.to[1] \in d.artists /\ <<f.to[1]>> \in ds
    /\ current => f.from[2] = f.to[2]
    /\ \A k \in SongKey : d.songs[k] # NoSong /\ k[1] = f.from[1] =>
          Contains(f.albums, k[2]) \/ (current /\ k[2] = f.from[2])
    /\ \A k \in SongKey : d.songs[k] # NoSong /\ k[1] = f.to[1] => d.songs[k].path = k

\* MoveAlbum: the new album is another one, and no song in it can be in the way.
AlbumReady(d, ds, f) ==
    /\ AlbumOf(f.to) # AlbumOf(f.from) /\ f.to[2] # NoName
    /\ HasAlbum(d, AlbumOf(f.to)) /\ AlbumOf(f.to) \in ds
    /\ \A k \in SongKey : d.songs[k] # NoSong /\ AlbumOf(k) = AlbumOf(f.to) => d.songs[k].path = k

\* Each song of the old album is still to go, as it was found, or at hand.
SongsToGo(d, f, current) ==
    /\ \A s \in f.songs :
          /\ s.key \in SongKey /\ AlbumOf(s.key) = AlbumOf(f.from)
          /\ d.songs[s.key] # NoSong /\ d.songs[s.key].path = s.path
          /\ current => s.key # f.from
    /\ \A k \in SongKey : d.songs[k] # NoSong /\ AlbumOf(k) = AlbumOf(f.from) =>
          (\E s \in f.songs : s.key = k) \/ (current /\ k = f.from)

AlbumLoop(d, ds, f, current) ==
    /\ AlbumReady(d, ds, f) /\ SongsToGo(d, f, current)
    /\ current => Held(d, f)
    /\ Len(f.req.from) = 1 => ArtistLoop(d, ds, f, TRUE)

SongsLoop == MoveSongsSteps \cup {"EndAlbum"}

\* The song at hand is still in the old album, or not yet in the new one.
NotGone == {"MoveSongs", "Unlist", "RenameFile", "DeleteOld"}

Unfiled == NotGone \cup {"SetMp3Tags", "CreateNew"}

DropSteps == {"GetMp3Tags", "DropArtist", "DropAlbum", "DropFile", "DropSong"}

\* What a step relies on.
Carried(d, ds, step, f) ==
    /\ step \notin DropSteps
    /\ step = "CreateSong" => d.songs[f.to] = NoSong
    /\ step \in {"DeleteSong", "DeleteOld"} => Held(d, f)
    /\ step = "ReleaseTags" => f.path \in {f.from} \cup OtherPath
    /\ step = "DeleteAlbum" => f.from[1] = f.from[2]
    /\ step \in {"MoveArtist", "NewArtist"} => f.to[1] \notin d.artists
    /\ step = "EndArtist" => f.albums = <<>> /\ ArtistLoop(d, ds, f, FALSE)
    /\ step \in {"MoveAlbum", "NewAlbum"} =>
          IF Len(f.req.from) = 1 THEN ArtistLoop(d, ds, f, TRUE) ELSE f.to \notin d.albums
    /\ step \in {"NewArtist", "NewAlbum"} => f.to \in ds
    /\ step \in Unfiled =>
          /\ HasAlbum(d, AlbumOf(f.to))
          /\ d.songs[f.to] = NoSong \/ d.songs[f.to].path = f.to
    /\ step \in {"MoveSongs", "Unlist", "RenameFile"} /\ Len(f.req.from) = 3 => f.path = f.from
    /\ step \in NotGone /\ Len(f.req.from) # 3 => AlbumLoop(d, ds, f, TRUE)
    /\ step \in SongsLoop \ NotGone /\ Len(f.req.from) # 3 => AlbumLoop(d, ds, f, FALSE)

Orderly(d, k, ds, step, f) ==
    Balance(d, k, step, f) /\ Labels(d, k, step, f) /\ Carried(d, ds, step, f)

Order(p) == Orderly(db, disk, dirs, pc[p], loc[p])

OrderOK ==
    /\ TreeOK /\ Filed(db) /\ SongsHoused(db) /\ Named(db) /\ Strays(db) \subseteq Found
    /\ pc[Dispatcher] = "idle"
    /\ Order(Sole)

----------------------------------------------------------------------------
(* What a transaction does to the songs and to the files they claim.       *)

\* The songs are the same and lie where they did.
SamePaths(d, e) ==
    \A k \in SongKey :
        /\ e.songs[k] = NoSong <=> d.songs[k] = NoSong
        /\ d.songs[k] # NoSong => e.songs[k].path = d.songs[k].path

Removes(d, e, gone) ==
    \A k \in SongKey : e.songs[k] = IF k \in gone THEN NoSong ELSE d.songs[k]

LEMMA SamePathsHas ==
    ASSUME NEW d, NEW e, SamePaths(d, e)
    PROVE  /\ \A x : HasSong(e, x) <=> HasSong(d, x)
           /\ \A k : \A l \in SongKey : Labelled(e, k, l) <=> Labelled(d, k, l)
           /\ \A k : Settled(d, k) => Settled(e, k)
<1>1. \A x : HasSong(e, x) <=> HasSong(d, x)
  BY DEF SamePaths, HasSong
<1>2. ASSUME NEW k, NEW l \in SongKey PROVE Labelled(e, k, l) <=> Labelled(d, k, l)
  BY DEF SamePaths, Labelled
<1> QED
  BY <1>1, <1>2 DEF Settled, Even

LEMMA RemovesHas ==
    ASSUME NEW d, NEW e, NEW gone \in SUBSET SongKey, Filed(d), Removes(d, e, gone), NEW x
    PROVE  HasSong(e, x) <=>
              HasSong(d, x) /\ \A k \in gone : d.songs[k] # NoSong => d.songs[k].path # x
  BY DEF Filed, Removes, HasSong

LEMMA RemovesLabels ==
    ASSUME NEW d, NEW e, NEW gone, Removes(d, e, gone), NEW k, NEW l \in SongKey, Labelled(d, k, l)
    PROVE  Labelled(e, k, l)
  BY DEF Removes, Labelled

\* A song that is created where no other song is in the way.
LEMMA CreatesHas ==
    ASSUME NEW d \in Database, NEW k \in SongKey, d.songs[k] = NoSong \/ d.songs[k].path = k, NEW x
    PROVE  HasSong(CreateSongTx(d, k, k), x) <=> HasSong(d, x) \/ x = k
<1> DEFINE e == CreateSongTx(d, k, k)
<1>1. /\ e.songs = [d.songs EXCEPT ![k] = [path |-> k, lists |-> <<>>]]
      /\ d.songs \in [SongKey -> SongStore \cup {NoSong}]
  BY DEF CreateSongTx, Database
<1>2. /\ e.songs[k].path = k /\ e.songs[k] # NoSong
      /\ \A l \in SongKey : l # k => e.songs[l] = d.songs[l]
  <2>1. [path |-> k, lists |-> <<>>] # NoSong
    <3>1. [path |-> k, lists |-> <<>>] \in [path : SongKey \cup OtherPath, lists : Seq(Playlist)]
      OBVIOUS
    <3> QED
      BY <3>1, SentinelAssumption
  <2> QED
    BY <1>1, <2>1
<1> HIDE DEF e
<1>3. HasSong(e, x) <=> HasSong(d, x) \/ x = k
  BY <1>2 DEF HasSong
<1> QED
  BY <1>3 DEF e

\* The other transactions.
LEMMA AlbumsAddPaths ==
    ASSUME NEW d \in Database
    PROVE  /\ \A a : SamePaths(d, CreateArtistTx(d, a))
           /\ \A ab : SamePaths(d, CreateAlbumTx(d, ab))
           /\ \A new, old : SamePaths(d, ProcessNewArtistTx(d, new, old))
           /\ \A new, old : SamePaths(d, ProcessNewAlbumTx(d, new, old))
           /\ \A pl, title : SamePaths(d, UnlistTx(d, pl, title))
<1>1. \A e : e.songs = d.songs => SamePaths(d, e)
  BY DEF SamePaths
<1>2. /\ \A a : CreateArtistTx(d, a).songs = d.songs
      /\ \A ab : CreateAlbumTx(d, ab).songs = d.songs
      /\ \A new, old : ProcessNewArtistTx(d, new, old).songs = d.songs
      /\ \A new, old : ProcessNewAlbumTx(d, new, old).songs = d.songs
      /\ \A pl, title : UnlistTx(d, pl, title).songs = d.songs
  BY DEF CreateArtistTx, CreateAlbumTx, ProcessNewArtistTx, ProcessNewAlbumTx, UnlistTx, Database
<1> QED
  BY <1>1, <1>2

LEMMA DeletesRemove ==
    ASSUME NEW d \in Database
    PROVE  /\ \A k \in SongKey : Removes(d, DeleteSongTx(d, k), {k})
           /\ \A ab : Removes(d, DeleteAlbumBucket(d, ab), {k \in SongKey : AlbumOf(k) = ab})
           /\ \A a : Removes(d, DeleteArtistBucket(d, a), {k \in SongKey : k[1] = a})
<1>1. ASSUME NEW k \in SongKey PROVE Removes(d, DeleteSongTx(d, k), {k})
  <2>1. DeleteSongTx(d, k).songs = [d.songs EXCEPT ![k] = NoSong]
    BY DEF DeleteSongTx, Database
  <2>2. d.songs \in [SongKey -> SongStore \cup {NoSong}]
    BY DEF Database
  <2> QED
    BY <2>1, <2>2 DEF Removes
<1>2. ASSUME NEW ab PROVE Removes(d, DeleteAlbumBucket(d, ab), {k \in SongKey : AlbumOf(k) = ab})
  <2>1. DeleteAlbumBucket(d, ab).songs =
           [k \in SongKey |-> IF AlbumOf(k) = ab THEN NoSong ELSE d.songs[k]]
    BY DEF DeleteAlbumBucket, Database
  <2> QED
    BY <2>1 DEF Removes
<1>3. ASSUME NEW a PROVE Removes(d, DeleteArtistBucket(d, a), {k \in SongKey : k[1] = a})
  <2>1. DeleteArtistBucket(d, a).songs =
           [k \in SongKey |-> IF k[1] = a THEN NoSong ELSE d.songs[k]]
    BY DEF DeleteArtistBucket, Database
  <2> QED
    BY <2>1 DEF Removes
<1> QED
  BY <1>1, <1>2, <1>3

\* Where there was no song, nothing is lost.
LEMMA RemovesNone ==
    ASSUME NEW d, NEW e, NEW gone, Removes(d, e, gone),
           \A k \in SongKey : k \in gone => d.songs[k] = NoSong
    PROVE  SamePaths(d, e)
  BY DEF Removes, SamePaths

LEMMA AddFileSamePaths ==
    ASSUME NEW d \in Database, NEW pl \in Playlist, NEW k \in SongKey, NEW path, d.songs[k] # NoSong
    PROVE  SamePaths(d, AddFileToPlaylistTx(d, pl, k, path))
<1> DEFINE lists == IF Contains(d.songs[k].lists, pl) THEN d.songs[k].lists
                    ELSE Append(d.songs[k].lists, pl)
           song  == [d.songs[k] EXCEPT !.lists = lists]
           e     == AddFileToPlaylistTx(d, pl, k, path)
<1>1. d.songs[k] \in SongStore /\ d.songs \in [SongKey -> SongStore \cup {NoSong}]
  BY DEF Database
<1>2. lists \in Seq(Playlist)
  BY <1>1 DEF SongStore
<1>3. e.songs = [d.songs EXCEPT ![k] = song]
  BY DEF AddFileToPlaylistTx, Database
<1> HIDE DEF lists
<1>4. song \in SongStore /\ song.path = d.songs[k].path
  BY <1>1, <1>2, SongWithLists
<1> HIDE DEF song, e
<1>5. song # NoSong
  BY <1>4, SentinelAssumption DEF SongStore, Path
<1>6. SamePaths(d, e)
  BY <1>1, <1>3, <1>4, <1>5 DEF SamePaths
<1> QED
  BY <1>6 DEF e

----------------------------------------------------------------------------
(* Order from step to step.                                                *)

LEMMA OrderSettled ==
    ASSUME NEW d, NEW k, NEW ds, NEW step, NEW f, step \notin InHand, Orderly(d, k, ds, step, f)
    PROVE  Settled(d, k)
  BY DEF Orderly, Balance, BalanceAt, Labels, Untold, InHand, Settled, Even

LEMMA SettledOrder ==
    ASSUME NEW d, NEW k, NEW ds, NEW step, NEW f, step \notin InHand, Settled(d, k), Carried(d, ds, step, f)
    PROVE  Orderly(d, k, ds, step, f)
  BY DEF Orderly, Balance, BalanceAt, Labels, InHand, Settled, Even

LEMMA GotoOrder ==
    ASSUME ControlOK, NEW p \in Process, NEW step, NEW f, Goto(p, step, f),
           Orderly(db', disk', dirs', step, f)
    PROVE  Order(p)'
<1>1. pc'[p] = step /\ loc'[p] = f
  BY DEF Goto, ControlOK
<1> QED
  BY <1>1 DEF Order

\* Steps that rely on nothing.
Plain == {"idle", "CreateArtist", "CreateAlbum", "MkdirNew", "ReleaseSong", "GetFilePath", "DeleteArtist"}

LEMMA PlainOrder ==
    ASSUME NEW d, NEW k, NEW ds, NEW step \in Plain, NEW f, Settled(d, k)
    PROVE  Orderly(d, k, ds, step, f)
<1>1. step \notin InHand
  BY DEF Plain, InHand
<1>2. Carried(d, ds, step, f)
  BY DEF Plain, Carried, DropSteps, NotGone, Unfiled, SongsLoop, MoveSongsSteps
<1> QED
  BY <1>1, <1>2, SettledOrder

LEMMA ReturnOrder ==
    ASSUME ControlOK, NEW p \in Process, Return(p), Settled(db', disk')
    PROVE  Order(p)'
<1>1. Orderly(db', disk', dirs', "idle", Blank)
  BY PlainOrder DEF Plain
<1> QED
  BY <1>1, GotoOrder DEF Return

\* A step to "Nested" is the last, and owes nothing.
LEMMA NestedOrder ==
    ASSUME ControlOK, NEW p \in Process, NEW f, Goto(p, "Nested", f)
    PROVE  Order(p)'
<1>1. Orderly(db', disk', dirs', "Nested", f)
  BY DEF Orderly, Balance, BalanceAt, Labels, InHand, Carried, DropSteps, NotGone, Unfiled,
         SongsLoop, MoveSongsSteps
<1> QED
  BY <1>1, GotoOrder

----------------------------------------------------------------------------
(* The loops of MoveArtist and MoveAlbum.                                  *)

\* Frames that are at the same place of the loops.
SameLoop(f, g) ==
    g.req = f.req /\ g.from = f.from /\ g.to = f.to /\ g.albums = f.albums /\ g.songs = f.songs

LEMMA ArtistLoopKept ==
    ASSUME NEW d, NEW e, NEW ds, NEW es, NEW f, NEW g, NEW current,
           ArtistLoop(d, ds, f, current),
           KeepsPaths(d, e), d.artists \subseteq e.artists, ds \subseteq es,
           g.from[1] = f.from[1], g.from[2] = f.from[2], g.to[1] = f.to[1], g.to[2] = f.to[2],
           g.albums = f.albums
    PROVE  ArtistLoop(e, es, g, current)
  BY DEF ArtistLoop, KeepsPaths

\* The album at hand has been emptied.
LEMMA ArtistLoopGone ==
    ASSUME NEW d, NEW ds, NEW f, ArtistLoop(d, ds, f, TRUE),
           \A k \in SongKey : AlbumOf(k) = AlbumOf(f.from) => d.songs[k] = NoSong
    PROVE  ArtistLoop(d, ds, f, FALSE)
  BY DEF ArtistLoop, AlbumOf

LEMMA SamePathsKeeps ==
    ASSUME NEW d, NEW e, SamePaths(d, e)
    PROVE  KeepsPaths(d, e)
  BY DEF SamePaths, KeepsPaths

LEMMA AlbumLoopKept ==
    ASSUME NEW d, NEW e, NEW ds, NEW es, NEW f, NEW g, NEW current,
           AlbumLoop(d, ds, f, current),
           SamePaths(d, e), d.artists \subseteq e.artists, d.albums \subseteq e.albums,
           ds \subseteq es, SameLoop(f, g), current => f.from \in SongKey /\ g.path = f.path
    PROVE  AlbumLoop(e, es, g, current)
<1>1. Len(g.req.from) = 1 => ArtistLoop(e, es, g, TRUE)
  BY SamePathsKeeps, ArtistLoopKept DEF AlbumLoop, SameLoop
<1>2. current => Held(e, g)
  BY DEF AlbumLoop, SameLoop, SamePaths, Held
<1>3. AlbumReady(e, es, g)
  BY DEF AlbumLoop, AlbumReady, SameLoop, SamePaths, HasAlbum
<1>4. SongsToGo(e, g, current)
  BY DEF AlbumLoop, SongsToGo, SameLoop, SamePaths
<1> QED
  BY <1>1, <1>2, <1>3, <1>4 DEF AlbumLoop

LEMMA ContainsTail ==
    ASSUME NEW S, NEW s \in Seq(S), s # <<>>, NEW x, Contains(s, x)
    PROVE  x = Head(s) \/ Contains(Tail(s), x)
<1>1. PICK i \in 1 .. Len(s) : s[i] = x
  BY DEF Contains
<1>2. CASE i = 1
  BY <1>1, <1>2, HeadTailProperties
<1>3. CASE i # 1
  <2>1. /\ Len(Tail(s)) = Len(s) - 1 /\ Len(s) \in Nat
        /\ \A j \in 1 .. Len(Tail(s)) : Tail(s)[j] = s[j + 1]
    BY HeadTailProperties, LenProperties
  <2>2. i - 1 \in 1 .. Len(Tail(s)) /\ (i - 1) + 1 = i
    BY <1>3, <2>1
  <2>3. Tail(s)[i - 1] = x
    BY <1>1, <2>1, <2>2
  <2> QED
    BY <2>2, <2>3 DEF Contains
<1> QED
  BY <1>2, <1>3

LEMMA NoneContained == \A x : ~Contains(<<>>, x)
  BY DEF Contains

LEMMA NextAlbumOrder ==
    ASSUME ControlOK, NEW p \in Process, NEW f \in Frame, Len(f.req.from) = 1, NextAlbum(p, f),
           Settled(db', disk'), ArtistLoop(db', dirs', f, FALSE)
    PROVE  Order(p)'
<1>1. CASE f.albums = <<>>
  <2>1. Goto(p, "EndArtist", f)
    BY <1>1 DEF NextAlbum
  <2>2. Carried(db', dirs', "EndArtist", f)
    BY <1>1 DEF Carried, DropSteps, NotGone, Unfiled, SongsLoop, MoveSongsSteps
  <2>3. Orderly(db', disk', dirs', "EndArtist", f)
    BY <2>2, SettledOrder DEF InHand
  <2> QED
    BY <2>1, <2>3, GotoOrder
<1>2. CASE f.albums # <<>>
  <2> DEFINE b == Head(f.albums)
             g == [f EXCEPT !.from = <<f.from[1], b>>, !.to = <<f.to[1], b>>, !.albums = Tail(@)]
  <2>1. Goto(p, "MoveAlbum", g)
    BY <1>2 DEF NextAlbum
  <2>2. /\ g.req = f.req /\ g.from = <<f.from[1], b>> /\ g.to = <<f.to[1], b>>
        /\ g.albums = Tail(f.albums) /\ f.albums \in Seq(DirName)
    BY DEF Frame
  <2>3. \A x : Contains(f.albums, x) => x = b \/ Contains(Tail(f.albums), x)
    BY <1>2, <2>2, ContainsTail
  <2> HIDE DEF b, g
  <2>4. g.from[1] = f.from[1] /\ g.from[2] = b /\ g.to[1] = f.to[1] /\ g.to[2] = b
    BY <2>2
  <2>5. ArtistLoop(db', dirs', g, TRUE)
    BY <2>2, <2>3, <2>4 DEF ArtistLoop
  <2>6. Carried(db', dirs', "MoveAlbum", g)
    BY <2>2, <2>5 DEF Carried, DropSteps, NotGone, Unfiled, SongsLoop, MoveSongsSteps
  <2>7. Orderly(db', disk', dirs', "MoveAlbum", g)
    BY <2>6, SettledOrder DEF InHand
  <2> QED
    BY <2>1, <2>7, GotoOrder
<1> QED
  BY <1>1, <1>2

LEMMA AlbumReturnOrder ==
    ASSUME ControlOK, NEW p \in Process, NEW f \in Frame, AlbumReturn(p, f), Settled(db', disk'),
           Len(f.req.from) = 1 => ArtistLoop(db', dirs', f, FALSE)
    PROVE  Order(p)'
  BY NextAlbumOrder, ReturnOrder DEF AlbumReturn

LEMMA NextSongOrder ==
    ASSUME ControlOK, NEW p \in Process, NEW f \in Frame, Len(f.req.from) # 3, NextSong(p, f),
           f.to \in AlbumKey \cup SongKey, Settled(db', disk'), AlbumLoop(db', dirs', f, FALSE)
    PROVE  Order(p)'
<1>1. CASE f.songs = {} /\ Goto(p, "EndAlbum", f)
  <2>1. Carried(db', dirs', "EndAlbum", f)
    BY DEF Carried, DropSteps, NotGone, Unfiled, SongsLoop, MoveSongsSteps
  <2>2. Orderly(db', disk', dirs', "EndAlbum", f)
    BY <2>1, SettledOrder DEF InHand
  <2> QED
    BY <1>1, <2>2, GotoOrder
<1>2. ASSUME NEW s \in f.songs,
             Goto(p, "MoveSongs", [f EXCEPT !.from = s.key,
                                            !.to = <<f.to[1], f.to[2], s.key[3]>>,
                                            !.path = s.path,
                                            !.songs = @ \ {s}])
      PROVE  Order(p)'
  <2> DEFINE g == [f EXCEPT !.from = s.key, !.to = <<f.to[1], f.to[2], s.key[3]>>,
                            !.path = s.path, !.songs = @ \ {s}]
  <2>1. /\ g.req = f.req /\ g.from = s.key /\ g.to = <<f.to[1], f.to[2], s.key[3]>>
        /\ g.path = s.path /\ g.songs = f.songs \ {s} /\ g.albums = f.albums
        /\ f.songs \subseteq AlbumSong
    BY DEF Frame
  <2>2. Goto(p, "MoveSongs", g)
    BY <1>2
  <2> HIDE DEF g
  <2>3. /\ g.from \in SongKey /\ AlbumOf(g.from) = AlbumOf(f.from) /\ AlbumOf(g.to) = AlbumOf(f.to)
        /\ g.from[1] = f.from[1] /\ g.from[2] = f.from[2] /\ g.to[1] = f.to[1] /\ g.to[2] = f.to[2]
    BY <2>1 DEF AlbumLoop, SongsToGo, AlbumOf
  <2>4. Held(db', g)
    BY <2>1 DEF AlbumLoop, SongsToGo, Held
  <2>5. \A t \in g.songs : t.key # g.from
    <3>1. SUFFICES ASSUME NEW t \in g.songs, t.key = s.key PROVE FALSE
      BY <2>1
    <3>2. t.path = s.path
      BY <2>1, <3>1 DEF AlbumLoop, SongsToGo
    <3> QED
      BY <2>1, <3>1, <3>2 DEF AlbumSong
  <2>6. SongsToGo(db', g, TRUE)
    BY <2>1, <2>3, <2>5 DEF AlbumLoop, SongsToGo
  <2>7. AlbumReady(db', dirs', g)
    BY <2>3 DEF AlbumLoop, AlbumReady
  <2>8. Len(g.req.from) = 1 => ArtistLoop(db', dirs', g, TRUE)
    <3>1. KeepsPaths(db', db')
      BY DEF KeepsPaths
    <3> QED
      BY <2>1, <2>3, <3>1, ArtistLoopKept DEF AlbumLoop
  <2>9. AlbumLoop(db', dirs', g, TRUE)
    BY <2>4, <2>6, <2>7, <2>8 DEF AlbumLoop
  <2>10. db'.songs[g.to] = NoSong \/ db'.songs[g.to].path = g.to
    <3>1. g.to \in SongKey
      <4>1. f.to[1] \in DirName /\ f.to[2] \in DirName /\ s.key[3] \in TitleName
        BY <2>1, <2>3, KeyParts
      <4> QED
        BY <2>1, <4>1 DEF SongKey
    <3> QED
      BY <2>3, <3>1 DEF AlbumLoop, AlbumReady
  <2>11. HasAlbum(db', AlbumOf(g.to))
    BY <2>3 DEF AlbumLoop, AlbumReady
  <2>12. Carried(db', dirs', "MoveSongs", g)
    BY <2>1, <2>9, <2>10, <2>11 DEF Carried, DropSteps, NotGone, Unfiled, SongsLoop, MoveSongsSteps
  <2>13. Orderly(db', disk', dirs', "MoveSongs", g)
    BY <2>12, SettledOrder DEF InHand
  <2> QED
    BY <2>2, <2>13, GotoOrder
<1> QED
  BY <1>1, <1>2 DEF NextSong

LEMMA SongReturnOrder ==
    ASSUME ControlOK, NEW p \in Process, NEW f \in Frame, SongReturn(p, f),
           f.to \in AlbumKey \cup SongKey, Settled(db', disk'),
           Len(f.req.from) # 3 => AlbumLoop(db', dirs', f, FALSE)
    PROVE  Order(p)'
<1>1. CASE Len(f.req.from) = 3
  BY <1>1, ReturnOrder DEF SongReturn
<1>2. CASE Len(f.req.from) # 3
  <2> DEFINE g == [f EXCEPT !.path = NoPath, !.lists = <<>>, !.todo = <<>>]
  <2>1. g \in Frame /\ SameLoop(f, g)
    <3>1. NoPath \in Path \cup {NoPath} /\ <<>> \in Seq(Playlist)
      OBVIOUS
    <3>2. g \in Frame
      BY <3>1 DEF Frame
    <3>3. SameLoop(f, g)
      BY DEF Frame, SameLoop
    <3> QED
      BY <3>2, <3>3
  <2>2. NextSong(p, g)
    BY <1>2 DEF SongReturn
  <2> HIDE DEF g
  <2>3. SamePaths(db', db')
    BY DEF SamePaths
  <2>4. AlbumLoop(db', dirs', g, FALSE)
    BY <1>2, <2>1, <2>3, AlbumLoopKept
  <2>5. Len(g.req.from) # 3 /\ g.to \in AlbumKey \cup SongKey
    BY <1>2, <2>1 DEF SameLoop
  <2> QED
    BY <2>1, <2>2, <2>4, <2>5, NextSongOrder
<1> QED
  BY <1>1, <1>2

----------------------------------------------------------------------------
(* The steps of the one client.                                            *)

LEMMA SoleClient ==
    ASSUME Sequential
    PROVE  /\ Client = {Sole} /\ Process = {Sole, Dispatcher}
           /\ Sole \in Process /\ Sole # Dispatcher
  BY LibraryAssumption DEF Sequential, Sole, Process

LEMMA SameNames ==
    ASSUME Sequential
    PROVE  (\A n \in DirName : Compat[n] = n) /\ (\A n \in TitleName : Compat[n] = n)
  BY DEF Sequential

LEMMA OrderOf ==
    ASSUME Sequential, OrderOK
    PROVE  /\ ControlOK /\ DataOK /\ db \in Database /\ DiskOK(disk) /\ Filed(db)
           /\ loc[Sole] \in Frame /\ Shape(pc[Sole], loc[Sole])
           /\ Orderly(db, disk, dirs, pc[Sole], loc[Sole])
           /\ Carried(db, dirs, pc[Sole], loc[Sole])
           /\ pc[Sole] \notin InHand => Settled(db, disk)
  BY SoleClient, FrameOf, OrderSettled DEF OrderOK, TreeOK, DataOK, Order, Orderly

LEMMA MkdirOrder ==
    ASSUME Sequential, OrderOK, CreateArtist(Sole) \/ CreateAlbum(Sole) \/ MkdirNew(Sole)
    PROVE  Order(Sole)'
<1>1. pc[Sole] \in {"CreateArtist", "CreateAlbum", "MkdirNew"}
  BY DEF CreateArtist, CreateAlbum, MkdirNew, Session, Syscall
<1>2. Settled(db, disk) /\ db \in Database /\ ControlOK /\ Sole \in Process
  BY <1>1, OrderOf, SoleClient DEF InHand
<1>3. disk' = disk /\ SamePaths(db, db')
  <2>1. SamePaths(db, db)
    BY DEF SamePaths
  <2> QED
    BY <1>2, <2>1, AlbumsAddPaths DEF CreateArtist, CreateAlbum, MkdirNew, Refuse, files, Syscall
<1>4. Settled(db', disk')
  BY <1>2, <1>3, SamePathsHas
<1>5. Return(Sole) \/ \E f : Goto(Sole, "MkdirNew", f)
  BY DEF CreateArtist, CreateAlbum, MkdirNew, Refuse
<1> QED
  BY <1>2, <1>4, <1>5, ReturnOrder, GotoOrder, PlainOrder DEF Plain

LEMMA CreateSongOrder ==
    ASSUME Sequential, OrderOK, CreateSong(Sole)
    PROVE  Order(Sole)'
<1> DEFINE f == loc[Sole]
           k == <<f.to[1], f.to[2], Compat[f.to[3]]>>
           g == [f EXCEPT !.to = k]
<1>1. /\ pc[Sole] = "CreateSong" /\ ControlOK /\ Sole \in Process /\ db \in Database
      /\ Settled(db, disk) /\ f \in Frame /\ f.to \in SongKey /\ db.songs[f.to] = NoSong
  BY OrderOf, SoleClient DEF CreateSong, Session, Shape, Carried, InHand
<1>2. k = f.to /\ disk' = disk
  BY <1>1, KeyParts, SameNames DEF CreateSong, files, Refuse
<1>3. \/ Return(Sole) /\ db' = db
      \/ Goto(Sole, "CreateFile", g) /\ db' = CreateSongTx(db, k, k)
  BY DEF CreateSong, Refuse
<1>4. CASE Return(Sole) /\ db' = db
  BY <1>1, <1>2, <1>4, ReturnOrder
<1>5. CASE Goto(Sole, "CreateFile", g) /\ db' = CreateSongTx(db, k, k)
  <2>1. g.to = k
    BY <1>1 DEF Frame
  <2> HIDE DEF f, k, g
  <2>2. \A x : HasSong(db', x) <=> HasSong(db, x) \/ x = k
    BY <1>1, <1>2, <1>5, CreatesHas
  <2>3. \A l \in SongKey : l # k => db'.songs[l] = db.songs[l]
    BY <1>1, <1>2, <1>5, CreateSongPaths
  <2>4. Balance(db', disk', "CreateFile", g)
    BY <1>1, <1>2, <2>1, <2>2 DEF Balance, BalanceAt, InHand, Settled, Even
  <2>5. Labels(db', disk', "CreateFile", g)
    BY <1>1, <1>2, <2>1, <2>3 DEF Labels, Untold, Settled, Labelled
  <2>6. Carried(db', dirs', "CreateFile", g)
    BY DEF Carried, DropSteps, NotGone, Unfiled, SongsLoop, MoveSongsSteps
  <2> QED
    BY <1>1, <1>5, <2>4, <2>5, <2>6, GotoOrder DEF Orderly
<1> QED
  BY <1>3, <1>4, <1>5

LEMMA CreateFileOrder ==
    ASSUME Sequential, OrderOK, CreateFile(Sole)
    PROVE  Order(Sole)'
<1> DEFINE k == loc[Sole].to
<1>1. /\ pc[Sole] = "CreateFile" /\ ControlOK /\ Sole \in Process /\ DiskOK(disk)
      /\ k \in SongKey /\ Orderly(db, disk, dirs, "CreateFile", loc[Sole])
  BY OrderOf, SoleClient DEF CreateFile, Syscall, Shape
<1>2. db' = db /\ disk' = [disk EXCEPT ![k] = Untagged] /\ Return(Sole)
  BY DEF CreateFile, Syscall
<1>3. \A x \in Path : disk'[x] = IF x = k THEN Untagged ELSE disk[x]
  BY <1>2, <1>1 DEF DiskOK
<1>4. Untagged # NoFile /\ Untagged \notin Tags
  BY LibraryAssumption
<1>5. Even(db', disk')
  BY <1>1, <1>2, <1>3, <1>4 DEF Even, FileAt, Orderly, Balance, BalanceAt, Place
<1>6. ASSUME NEW l \in SongKey PROVE Labelled(db', disk', l)
  BY <1>1, <1>2, <1>3, <1>4 DEF Orderly, Labels, Labelled, Path
<1> QED
  BY <1>1, <1>2, <1>5, <1>6, ReturnOrder DEF Settled

LEMMA ReleaseOrder ==
    ASSUME Sequential, OrderOK, ReleaseSong(Sole) \/ GetFilePath(Sole)
    PROVE  Order(Sole)'
<1> DEFINE f == loc[Sole]
           g == [f EXCEPT !.path = db.songs[f.from].path]
<1>1. /\ pc[Sole] \in {"ReleaseSong", "GetFilePath"} /\ ControlOK /\ Sole \in Process
      /\ Settled(db, disk) /\ f \in Frame /\ f.from \in SongKey /\ Filed(db)
  BY OrderOf, SoleClient DEF ReleaseSong, GetFilePath, Session, Shape, InHand
<1>2. db' = db /\ disk' = disk
  BY DEF ReleaseSong, GetFilePath, files
<1>3. \/ Return(Sole)
      \/ db.songs[f.from] # NoSong /\ \E step \in {"ReleaseTags", "DeleteSong"} : Goto(Sole, step, g)
  BY DEF ReleaseSong, GetFilePath
<1>4. ASSUME db.songs[f.from] # NoSong, NEW step \in {"ReleaseTags", "DeleteSong"}, Goto(Sole, step, g)
      PROVE  Order(Sole)'
  <2>1. g.path = db.songs[f.from].path /\ g.from = f.from
    BY <1>1 DEF Frame
  <2> HIDE DEF g, f
  <2>2. g.path \in {g.from} \cup OtherPath
    BY <1>1, <1>4, <2>1 DEF Filed
  <2>3. Held(db', g)
    BY <1>2, <1>4, <2>1 DEF Held
  <2>4. Carried(db', dirs', step, g)
    BY <2>2, <2>3 DEF Carried, DropSteps, NotGone, Unfiled, SongsLoop, MoveSongsSteps
  <2>5. Orderly(db', disk', dirs', step, g)
    BY <1>1, <1>2, <2>4, SettledOrder DEF InHand
  <2> QED
    BY <1>1, <1>4, <2>5, GotoOrder
<1> QED
  BY <1>1, <1>2, <1>3, <1>4, ReturnOrder

\* Tags that are written into a file that is there or not.
LEMMA RetaggedAt ==
    ASSUME NEW path, NEW tags \in Tags, DiskOK(disk), NEW x \in Path
    PROVE  /\ FileAt(Retagged(path, tags), x) <=> FileAt(disk, x)
           /\ Retagged(path, tags)[x] = IF x = path /\ FileAt(disk, x) THEN tags ELSE disk[x]
<1>1. tags # NoFile
  BY LibraryAssumption
<1> QED
  BY <1>1 DEF Retagged, FileAt, DiskOK

LEMMA ReleaseTagsOrder ==
    ASSUME Sequential, OrderOK, ReleaseTags(Sole)
    PROVE  Order(Sole)'
<1> DEFINE k == loc[Sole].from
           path == loc[Sole].path
           tags == [artist |-> k[1], album |-> k[2], title |-> k[3], mp3 |-> FALSE]
<1>1. /\ pc[Sole] = "ReleaseTags" /\ ControlOK /\ Sole \in Process /\ DiskOK(disk)
      /\ k \in SongKey /\ Settled(db, disk) /\ path \in {k} \cup OtherPath
  BY OrderOf, SoleClient DEF ReleaseTags, Syscall, Shape, Carried, InHand
<1>2. db' = db /\ disk' = Retagged(path, tags) /\ Return(Sole)
  BY DEF ReleaseTags, Syscall
<1>3. tags \in Tags /\ NamedAfter(tags, k)
  BY <1>1, KeyParts DEF Tags, NamedAfter
<1> HIDE DEF tags, path, k
<1>4. Even(db', disk')
  BY <1>1, <1>2, <1>3, RetaggedAt DEF Settled, Even, Place
<1>5. ASSUME NEW l \in SongKey PROVE Labelled(db', disk', l)
  <2>1. disk'[l] = disk[l] \/ (l = path /\ disk'[l] = tags)
    BY <1>1, <1>2, <1>3, RetaggedAt DEF Path
  <2>2. l = path => l = k
    BY <1>1, SentinelAssumption
  <2> QED
    BY <1>1, <1>2, <1>3, <2>1, <2>2 DEF Settled, Labelled
<1> QED
  BY <1>1, <1>2, <1>4, <1>5, ReturnOrder DEF Settled

\* The song at hand is deleted, and claims its file no longer.
LEMMA DeletesHeld ==
    ASSUME NEW d \in Database, Filed(d), NEW f, f.from \in SongKey, Held(d, f),
           NEW e, e = DeleteSongTx(d, f.from)
    PROVE  /\ \A x : HasSong(e, x) <=> HasSong(d, x) /\ x # f.path
           /\ \A k : \A l \in SongKey : Labelled(d, k, l) => Labelled(e, k, l)
<1>1. Removes(d, e, {f.from})
  BY DeletesRemove
<1>2. \A x : HasSong(e, x) <=> HasSong(d, x) /\ \A k \in {f.from} : d.songs[k] # NoSong => d.songs[k].path # x
  BY <1>1, RemovesHas
<1> QED
  BY <1>1, <1>2, RemovesLabels DEF Held

LEMMA DeleteSongOrder ==
    ASSUME Sequential, OrderOK, DeleteSong(Sole)
    PROVE  Order(Sole)'
<1> DEFINE f == loc[Sole]
<1>1. /\ pc[Sole] = "DeleteSong" /\ ControlOK /\ Sole \in Process /\ db \in Database /\ Filed(db)
      /\ Settled(db, disk) /\ f.from \in SongKey /\ Held(db, f)
  BY OrderOf, SoleClient DEF DeleteSong, Session, Shape, Carried, InHand
<1>2. \/ Return(Sole) /\ db' = db /\ disk' = disk
      \/ DeleteSongThen(Sole, f.from, "RemoveFile")
  BY DEF DeleteSong, Refuse, files
<1>3. CASE DeleteSongThen(Sole, f.from, "RemoveFile")
  <2>1. /\ db' = DeleteSongTx(db, f.from) /\ disk' = disk
        /\ Goto(Sole, "Nested", f) \/ Goto(Sole, "RemoveFile", f)
    BY <1>3 DEF DeleteSongThen, files
  <2> HIDE DEF f
  <2>2. /\ \A x : HasSong(db', x) <=> HasSong(db, x) /\ x # f.path
        /\ \A l \in SongKey : Labelled(db, disk, l) => Labelled(db', disk, l)
    BY <1>1, <2>1, DeletesHeld
  <2>3. Balance(db', disk', "RemoveFile", f)
    BY <1>1, <2>1, <2>2 DEF Balance, BalanceAt, InHand, Settled, Even
  <2>4. Labels(db', disk', "RemoveFile", f)
    BY <1>1, <2>1, <2>2 DEF Labels, Settled
  <2>5. Carried(db', dirs', "RemoveFile", f)
    BY DEF Carried, DropSteps, NotGone, Unfiled, SongsLoop, MoveSongsSteps
  <2> QED
    BY <1>1, <2>1, <2>3, <2>4, <2>5, GotoOrder, NestedOrder DEF Orderly
<1> QED
  BY <1>1, <1>2, <1>3, ReturnOrder

LEMMA RemoveFileOrder ==
    ASSUME Sequential, OrderOK, RemoveFile(Sole)
    PROVE  Order(Sole)'
<1> DEFINE path == loc[Sole].path
<1>1. /\ pc[Sole] = "RemoveFile" /\ ControlOK /\ Sole \in Process /\ DiskOK(disk)
      /\ Orderly(db, disk, dirs, "RemoveFile", loc[Sole])
  BY OrderOf, SoleClient DEF RemoveFile, Syscall
<1>2. db' = db /\ disk' = [disk EXCEPT ![path] = NoFile] /\ Return(Sole)
  BY DEF RemoveFile, Syscall
<1>3. \A x \in Path : disk'[x] = IF x = path THEN NoFile ELSE disk[x]
  BY <1>1, <1>2 DEF DiskOK
<1>4. Even(db', disk')
  BY <1>1, <1>2, <1>3 DEF Even, FileAt, Orderly, Balance, BalanceAt, Place
<1>5. ASSUME NEW l \in SongKey PROVE Labelled(db', disk', l)
  BY <1>1, <1>2, <1>3, LibraryAssumption DEF Orderly, Labels, Labelled, Path, Untold
<1> QED
  BY <1>1, <1>2, <1>4, <1>5, ReturnOrder DEF Settled

LEMMA RemoveVictimsOrder ==
    ASSUME ControlOK, NEW p \in Process, Settled(db, disk), Filed(db),
           NEW gone \in SUBSET SongKey, Removes(db, db', gone),
           RemoveVictims(p, {k \in gone : db.songs[k] # NoSong})
    PROVE  Order(p)'
<1> DEFINE songs == {k \in gone : db.songs[k] # NoSong}
           g     == [loc[p] EXCEPT !.victims = {db.songs[k] : k \in songs}]
<1>1. disk' = disk
  BY DEF RemoveVictims, files
<1>2. CASE songs = {} /\ Return(p)
  <2>1. SamePaths(db, db')
    BY <1>2, RemovesNone
  <2> QED
    BY <1>1, <1>2, <2>1, SamePathsHas, ReturnOrder
<1>3. CASE Goto(p, "Victims", g)
  <2>1. loc[p] \in Frame
    BY DEF ControlOK
  <2>2. g.victims = {db.songs[k] : k \in songs}
    BY <2>1 DEF Frame
  <2> HIDE DEF g
  <2>3. ASSUME NEW x
        PROVE  (\A v \in g.victims : v.path # x) <=>
                  \A k \in gone : db.songs[k] # NoSong => db.songs[k].path # x
    BY <2>2
  <2>4. ASSUME NEW x \in Place
        PROVE  HasSong(db', x) <=> FileAt(disk, x) /\ \A v \in g.victims : v.path # x
    BY <2>3, RemovesHas DEF Settled, Even
  <2>5. Balance(db', disk', "Victims", g)
    BY <1>1, <2>4 DEF Balance, BalanceAt, InHand
  <2>6. Labels(db', disk', "Victims", g)
    BY <1>1, RemovesLabels DEF Labels, Settled
  <2>7. Carried(db', dirs', "Victims", g)
    BY DEF Carried, DropSteps, NotGone, Unfiled, SongsLoop, MoveSongsSteps
  <2> QED
    BY <1>3, <2>5, <2>6, <2>7, GotoOrder DEF Orderly
<1> QED
  BY <1>2, <1>3 DEF RemoveVictims

LEMMA DeleteArtistOrder ==
    ASSUME Sequential, OrderOK, DeleteArtist(Sole)
    PROVE  Order(Sole)'
<1> DEFINE a    == loc[Sole].from[1]
           gone == {k \in SongKey : k[1] = a}
<1>1. /\ pc[Sole] = "DeleteArtist" /\ ControlOK /\ Sole \in Process /\ db \in Database
      /\ Filed(db) /\ Settled(db, disk)
  BY OrderOf, SoleClient DEF DeleteArtist, InHand
<1>2. /\ db' = DeleteArtistBucket(db, a)
      /\ RemoveVictims(Sole, {k \in SongKey : k[1] = a /\ db.songs[k] # NoSong})
  BY DEF DeleteArtist
<1>3. {k \in SongKey : k[1] = a /\ db.songs[k] # NoSong} = {k \in gone : db.songs[k] # NoSong}
  OBVIOUS
<1>4. Removes(db, db', gone) /\ gone \in SUBSET SongKey
  BY <1>1, <1>2, DeletesRemove
<1> HIDE DEF gone
<1> QED
  BY <1>1, <1>2, <1>3, <1>4, RemoveVictimsOrder

LEMMA DeleteAlbumOrder ==
    ASSUME Sequential, OrderOK, DeleteAlbum(Sole)
    PROVE  Order(Sole)'
<1> DEFINE ab   == loc[Sole].from
           gone == {k \in SongKey : AlbumOf(k) = ab}
<1>1. /\ pc[Sole] = "DeleteAlbum" /\ ControlOK /\ Sole \in Process /\ db \in Database
      /\ Filed(db) /\ Settled(db, disk) /\ ab \in AlbumKey /\ ab[1] = ab[2]
  BY OrderOf, SoleClient DEF DeleteAlbum, InHand, Shape, Carried, Refuse
<1>2. <<ab[1], ab[1]>> = ab
  BY <1>1, KeyParts
<1>3. \/ Return(Sole) /\ db' = db /\ disk' = disk
      \/ db' = DeleteAlbumBucket(db, ab) /\ RemoveVictims(Sole, SongsIn(db, ab))
  BY <1>2 DEF DeleteAlbum, Refuse, files
<1>4. SongsIn(db, ab) = {k \in gone : db.songs[k] # NoSong}
  BY DEF SongsIn
<1>5. CASE db' = DeleteAlbumBucket(db, ab) /\ RemoveVictims(Sole, SongsIn(db, ab))
  <2>1. Removes(db, db', gone) /\ gone \in SUBSET SongKey
    BY <1>1, <1>5, DeletesRemove
  <2> HIDE DEF gone
  <2> QED
    BY <1>1, <1>4, <1>5, <2>1, RemoveVictimsOrder
<1> QED
  BY <1>1, <1>3, <1>5, ReturnOrder

LEMMA VictimsOrder ==
    ASSUME Sequential, OrderOK, Victims(Sole)
    PROVE  Order(Sole)'
<1> DEFINE f == loc[Sole]
<1>1. /\ pc[Sole] = "Victims" /\ ControlOK /\ Sole \in Process /\ DiskOK(disk)
      /\ f \in Frame /\ Orderly(db, disk, dirs, "Victims", f) /\ db' = db
  BY OrderOf, SoleClient DEF Victims
<1>2. PICK v \in f.victims :
         \/ Goto(Sole, "Nested", f)
         \/ /\ disk' = [disk EXCEPT ![v.path] = NoFile]
            /\ \/ f.victims = {v} /\ Return(Sole)
               \/ Goto(Sole, "Victims", [f EXCEPT !.victims = @ \ {v}])
  BY DEF Victims
<1>3. CASE Goto(Sole, "Nested", f)
  BY <1>1, <1>3, NestedOrder
<1>4. ASSUME disk' = [disk EXCEPT ![v.path] = NoFile]
      PROVE  /\ \A x \in Place : HasSong(db', x) <=> FileAt(disk', x) /\ \A w \in f.victims \ {v} : w.path # x
             /\ \A l \in SongKey : Labelled(db', disk', l)
  <2>1. \A x \in Path : disk'[x] = IF x = v.path THEN NoFile ELSE disk[x]
    BY <1>1, <1>4 DEF DiskOK
  <2>2. ASSUME NEW x \in Place
        PROVE  HasSong(db', x) <=> FileAt(disk', x) /\ \A w \in f.victims \ {v} : w.path # x
    BY <1>1, <2>1 DEF Orderly, Balance, BalanceAt, FileAt, Place
  <2>3. ASSUME NEW l \in SongKey PROVE Labelled(db', disk', l)
    BY <1>1, <2>1, LibraryAssumption DEF Orderly, Labels, Labelled, Path, Untold
  <2> QED
    BY <2>2, <2>3
<1>5. CASE disk' = [disk EXCEPT ![v.path] = NoFile] /\ f.victims = {v} /\ Return(Sole)
  <2>1. f.victims \ {v} = {}
    BY <1>5
  <2> QED
    BY <1>1, <1>4, <1>5, <2>1, ReturnOrder DEF Settled, Even
<1>6. CASE /\ disk' = [disk EXCEPT ![v.path] = NoFile]
           /\ Goto(Sole, "Victims", [f EXCEPT !.victims = @ \ {v}])
  <2> DEFINE g == [f EXCEPT !.victims = @ \ {v}]
  <2>1. g.victims = f.victims \ {v}
    BY <1>1 DEF Frame
  <2>2. Goto(Sole, "Victims", g)
    BY <1>6
  <2> HIDE DEF f, g
  <2>3. Balance(db', disk', "Victims", g)
    BY <1>4, <1>6, <2>1 DEF Balance, BalanceAt, InHand
  <2>4. Labels(db', disk', "Victims", g)
    BY <1>4, <1>6 DEF Labels
  <2>5. Carried(db', dirs', "Victims", g)
    BY DEF Carried, DropSteps, NotGone, Unfiled, SongsLoop, MoveSongsSteps
  <2> QED
    BY <1>1, <2>2, <2>3, <2>4, <2>5, GotoOrder DEF Orderly
<1> QED
  BY <1>2, <1>3, <1>5, <1>6

LEMMA MoveArtistOrder ==
    ASSUME Sequential, OrderOK, MoveArtist(Sole)
    PROVE  Order(Sole)'
<1> DEFINE f == loc[Sole]
<1>1. /\ pc[Sole] = "MoveArtist" /\ ControlOK /\ Sole \in Process
      /\ Settled(db, disk) /\ f.to[1] \notin db.artists
  BY OrderOf, SoleClient DEF MoveArtist, Syscall, Carried, InHand
<1>2. db' = db /\ disk' = disk /\ f.to \in dirs' /\ Goto(Sole, "NewArtist", f)
  BY DEF MoveArtist, Syscall
<1> HIDE DEF f
<1>3. Carried(db', dirs', "NewArtist", f)
  BY <1>1, <1>2 DEF Carried, DropSteps, NotGone, Unfiled, SongsLoop, MoveSongsSteps
<1>4. Orderly(db', disk', dirs', "NewArtist", f)
  BY <1>1, <1>2, <1>3, SettledOrder DEF InHand
<1> QED
  BY <1>1, <1>2, <1>4, GotoOrder

\* Every song of an artist is in an album on its list: nobody empties one.
LEMMA SongsListed ==
    ASSUME Sequential, OrderOK, pc[Sole] \notin EmptyingAlbum,
           NEW k \in SongKey, db.songs[k] # NoSong
    PROVE  Contains(db.listed[k[1]], k[2]) /\ k[1] \in db.artists
<1>1. AlbumOf(k) \in db.albums /\ Housed(db) /\ AlbumsListed /\ pc[Dispatcher] = "idle"
  BY DEF OrderOK, SongsHoused, TreeOK
<1>2. \A q \in Process : ~Emptying(q, AlbumOf(k))
  BY <1>1, SoleClient DEF Emptying, EmptyingAlbum
<1>3. Contains(db.listed[AlbumOf(k)[1]], AlbumOf(k)[2]) /\ AlbumOf(k)[1] \in db.artists
  BY <1>1, <1>2 DEF AlbumsListed, Housed
<1> QED
  BY <1>3 DEF AlbumOf

LEMMA NewArtistOrder ==
    ASSUME Sequential, OrderOK, NewArtist(Sole)
    PROVE  Order(Sole)'
<1> DEFINE f   == loc[Sole]
           old == f.from[1]
           new == f.to[1]
           g   == [f EXCEPT !.albums = db.listed[old]]
<1>1. /\ pc[Sole] = "NewArtist" /\ ControlOK /\ DataOK /\ Sole \in Process /\ db \in Database
      /\ Settled(db, disk) /\ new \notin db.artists /\ f.to \in dirs
      /\ f \in Frame /\ f.to \in ArtistKey /\ f.from \in ArtistKey
  BY OrderOf, SoleClient DEF NewArtist, Session, Carried, InHand, Shape
<1>2. Len(f.req.from) = 1
  BY <1>1 DEF OrderOK, TreeOK, Errands, Errand, RenameOf
<1>3. Compat[new] = new /\ f.to = <<new>>
  BY <1>1, SameNames, KeyParts DEF ArtistKey
<1>4. \/ Return(Sole) /\ db' = db /\ disk' = disk
      \/ /\ old \in db.artists /\ db' = ProcessNewArtistTx(db, new, old) /\ disk' = disk /\ dirs' = dirs
         /\ NextAlbum(Sole, g)
  BY <1>3 DEF NewArtist, files
<1>5. CASE /\ old \in db.artists /\ db' = ProcessNewArtistTx(db, new, old) /\ disk' = disk /\ dirs' = dirs
           /\ NextAlbum(Sole, g)
  <2>1. SamePaths(db, db') /\ db'.artists = db.artists \cup {new}
    BY <1>1, <1>5, AlbumsAddPaths DEF ProcessNewArtistTx, Database
  <2>2. g \in Frame /\ g.req = f.req /\ g.from = f.from /\ g.to = f.to /\ g.albums = db.listed[old]
    BY <1>1, LoopFrames DEF Frame
  <2>3. \A k \in SongKey : db.songs[k] # NoSong => Contains(db.listed[k[1]], k[2]) /\ k[1] \in db.artists
    BY <1>1, SongsListed DEF EmptyingAlbum
  <2> HIDE DEF g
  <2>4. ArtistLoop(db', dirs', g, FALSE)
    BY <1>1, <1>3, <1>5, <2>1, <2>2, <2>3 DEF ArtistLoop, SamePaths
  <2>5. Settled(db', disk')
    BY <1>1, <1>5, <2>1, SamePathsHas
  <2> QED
    BY <1>1, <1>2, <1>5, <2>2, <2>4, <2>5, NextAlbumOrder
<1> QED
  BY <1>1, <1>4, <1>5, ReturnOrder

LEMMA EndArtistOrder ==
    ASSUME Sequential, OrderOK, EndArtist(Sole)
    PROVE  Order(Sole)'
<1> DEFINE f == loc[Sole]
<1>1. /\ pc[Sole] = "EndArtist" /\ ControlOK /\ Sole \in Process /\ db \in Database
      /\ Settled(db, disk) /\ f.albums = <<>> /\ ArtistLoop(db, dirs, f, FALSE)
  BY OrderOf, SoleClient DEF EndArtist, Session, Carried, InHand
<1>2. db' = DeleteArtistBucket(db, f.from[1]) /\ disk' = disk /\ Return(Sole)
  BY DEF EndArtist, files
<1>3. \A k \in SongKey : k[1] = f.from[1] => db.songs[k] = NoSong
  BY <1>1, NoneContained DEF ArtistLoop
<1>4. SamePaths(db, db')
  <2> DEFINE gone == {k \in SongKey : k[1] = f.from[1]}
  <2>1. Removes(db, db', gone)
    BY <1>1, <1>2, DeletesRemove
  <2>2. \A k \in SongKey : k \in gone => db.songs[k] = NoSong
    BY <1>3
  <2> HIDE DEF gone
  <2> QED
    BY <2>1, <2>2, RemovesNone
<1> QED
  BY <1>1, <1>2, <1>4, SamePathsHas, ReturnOrder

LEMMA MoveAlbumOrder ==
    ASSUME Sequential, OrderOK, MoveAlbum(Sole)
    PROVE  Order(Sole)'
<1> DEFINE f == loc[Sole]
<1>1. /\ pc[Sole] = "MoveAlbum" /\ ControlOK /\ Sole \in Process /\ f \in Frame
      /\ Settled(db, disk)
      /\ IF Len(f.req.from) = 1 THEN ArtistLoop(db, dirs, f, TRUE) ELSE f.to \notin db.albums
  BY OrderOf, SoleClient DEF MoveAlbum, Syscall, Carried, InHand
<1>2. /\ db' = db /\ disk' = disk
      /\ \/ dirs' = dirs \cup {f.to} /\ Goto(Sole, "NewAlbum", f)
         \/ <<f.to[1]>> \notin dirs /\ AlbumReturn(Sole, f)
  BY DEF MoveAlbum, Syscall
<1> HIDE DEF f
<1>3. CASE dirs' = dirs \cup {f.to} /\ Goto(Sole, "NewAlbum", f)
  <2>1. Len(f.req.from) = 1 => ArtistLoop(db', dirs', f, TRUE)
    <3>1. KeepsPaths(db, db)
      BY DEF KeepsPaths
    <3> QED
      BY <1>1, <1>2, <1>3, <3>1, ArtistLoopKept
  <2>2. Carried(db', dirs', "NewAlbum", f)
    BY <1>1, <1>2, <1>3, <2>1 DEF Carried, DropSteps, NotGone, Unfiled, SongsLoop, MoveSongsSteps
  <2>3. Orderly(db', disk', dirs', "NewAlbum", f)
    BY <1>1, <1>2, <2>2, SettledOrder DEF InHand
  <2> QED
    BY <1>1, <1>3, <2>3, GotoOrder
<1>4. CASE <<f.to[1]>> \notin dirs /\ AlbumReturn(Sole, f)
  <2>1. Len(f.req.from) # 1
    BY <1>1, <1>4 DEF ArtistLoop
  <2> QED
    BY <1>1, <1>2, <1>4, <2>1, AlbumReturnOrder
<1> QED
  BY <1>2, <1>3, <1>4

LEMMA NewAlbumOrder ==
    ASSUME Sequential, OrderOK, NewAlbum(Sole)
    PROVE  Order(Sole)'
<1> DEFINE f     == loc[Sole]
           songs == {[key |-> k, path |-> db.songs[k].path] : k \in SongsIn(db, f.from)}
           g     == [f EXCEPT !.songs = songs]
<1>1. /\ pc[Sole] = "NewAlbum" /\ ControlOK /\ DataOK /\ Sole \in Process /\ db \in Database
      /\ Settled(db, disk) /\ f \in Frame /\ f.to \in AlbumKey /\ f.from \in AlbumKey
      /\ f.to \in dirs
      /\ IF Len(f.req.from) = 1 THEN ArtistLoop(db, dirs, f, TRUE) ELSE f.to \notin db.albums
  BY OrderOf, SoleClient DEF NewAlbum, Session, Carried, InHand, Shape
<1>2. /\ Len(f.req.from) # 3 /\ Housed(db) /\ SongsHoused(db) /\ Named(db)
  <2>1. Errand("NewAlbum", f)
    BY <1>1 DEF OrderOK, TreeOK, Errands
  <2> QED
    BY <2>1 DEF OrderOK, TreeOK, Errand, RenameOf
<1>3. /\ <<f.to[1], Compat[f.to[2]]>> = f.to /\ Compat[f.to[2]] = f.to[2]
      /\ AlbumOf(f.to) = f.to /\ AlbumOf(f.from) = f.from
  BY <1>1, SameNames, KeyParts DEF AlbumOf
<1>4. /\ disk' = disk /\ dirs' = dirs
      /\ \/ /\ f.to[1] \in db.artists /\ f.to[2] # NoName /\ HasAlbum(db, f.from)
            /\ db' = ProcessNewAlbumTx(db, f.to, f.from) /\ NextSong(Sole, g)
         \/ /\ f.to[1] \notin db.artists \/ f.to[2] = NoName \/ ~HasAlbum(db, f.from)
            /\ db' = db /\ AlbumReturn(Sole, f)
  BY <1>3 DEF NewAlbum, files
<1>5. CASE /\ f.to[1] \in db.artists /\ f.to[2] # NoName /\ HasAlbum(db, f.from)
           /\ db' = ProcessNewAlbumTx(db, f.to, f.from) /\ NextSong(Sole, g)
  <2>1. /\ SamePaths(db, db') /\ db'.artists = db.artists
        /\ db'.albums = db.albums \cup {f.to}
    BY <1>1, <1>5, AlbumsAddPaths DEF ProcessNewAlbumTx, Database
  <2>2. /\ g \in Frame /\ g.req = f.req /\ g.from = f.from /\ g.to = f.to
        /\ g.albums = f.albums /\ g.songs = songs
    BY <1>1, LoopFrames DEF Frame
  <2> HIDE DEF g
  <2>3. AlbumReady(db', dirs', g)
    <3>1. f.to # f.from
      BY <1>1, <1>5 DEF ArtistLoop, HasAlbum
    <3>2. \A k \in SongKey : db.songs[k] # NoSong /\ AlbumOf(k) = f.to => db.songs[k].path = k
      <4>1. CASE Len(f.req.from) = 1
        <5>1. \A k \in SongKey : AlbumOf(k) = f.to => k[1] = f.to[1]
          BY <1>3 DEF AlbumOf
        <5> QED
          BY <1>1, <4>1, <5>1 DEF ArtistLoop
      <4>2. CASE Len(f.req.from) # 1
        BY <1>1, <1>2, <4>2 DEF SongsHoused
      <4> QED
        BY <4>1, <4>2
    <3>3. HasAlbum(db', f.to)
      BY <1>5, <2>1 DEF HasAlbum
    <3> QED
      BY <1>1, <1>3, <1>4, <1>5, <2>1, <2>2, <3>1, <3>2, <3>3 DEF AlbumReady, SamePaths
  <2>4. SongsToGo(db', g, FALSE)
    <3>1. ASSUME NEW s \in songs
          PROVE  /\ s.key \in SongKey /\ AlbumOf(s.key) = f.from
                 /\ db.songs[s.key] # NoSong /\ db.songs[s.key].path = s.path
      BY DEF SongsIn
    <3>2. ASSUME NEW k \in SongKey, db.songs[k] # NoSong, AlbumOf(k) = f.from
          PROVE  \E s \in songs : s.key = k
      <4>1. [key |-> k, path |-> db.songs[k].path] \in songs
        BY <3>2 DEF SongsIn
      <4> QED
        BY <4>1
    <3> HIDE DEF songs
    <3> QED
      BY <1>3, <2>1, <2>2, <3>1, <3>2 DEF SongsToGo, SamePaths
  <2>5. Len(g.req.from) = 1 => ArtistLoop(db', dirs', g, TRUE)
    BY <1>1, <1>4, <2>1, <2>2, SamePathsKeeps, ArtistLoopKept
  <2>6. AlbumLoop(db', dirs', g, FALSE)
    BY <2>3, <2>4, <2>5 DEF AlbumLoop
  <2>7. Settled(db', disk')
    BY <1>1, <1>4, <2>1, SamePathsHas
  <2>8. g.to \in AlbumKey \cup SongKey /\ Len(g.req.from) # 3
    BY <1>1, <1>2, <2>2
  <2> QED
    BY <1>1, <1>5, <2>2, <2>6, <2>7, <2>8, NextSongOrder
<1>6. CASE /\ f.to[1] \notin db.artists \/ f.to[2] = NoName \/ ~HasAlbum(db, f.from)
           /\ db' = db /\ AlbumReturn(Sole, f)
  <2>1. ASSUME Len(f.req.from) = 1 PROVE ArtistLoop(db', dirs', f, FALSE)
    <3>1. ArtistLoop(db, dirs, f, TRUE)
      BY <1>1, <2>1
    <3>2. f.from \notin db.albums
      BY <1>2, <1>6, <3>1 DEF ArtistLoop, Named, Housed, HasAlbum
    <3>3. \A k \in SongKey : AlbumOf(k) = AlbumOf(f.from) => db.songs[k] = NoSong
      BY <1>2, <1>3, <3>2 DEF SongsHoused
    <3> QED
      BY <1>4, <1>6, <3>1, <3>3, ArtistLoopGone
  <2> QED
    BY <1>1, <1>4, <1>6, <2>1, AlbumReturnOrder
<1> QED
  BY <1>4, <1>5, <1>6

LEMMA EndAlbumOrder ==
    ASSUME Sequential, OrderOK, EndAlbum(Sole)
    PROVE  Order(Sole)'
<1> DEFINE f    == loc[Sole]
           gone == {k \in SongKey : AlbumOf(k) = AlbumOf(f.from)}
<1>1. pc[Sole] = "EndAlbum"
  BY DEF EndAlbum, Session
<1>2. Errand("EndAlbum", f)
  BY <1>1, SoleClient DEF OrderOK, TreeOK, Errands
<1>3. f.songs = {} /\ Len(f.req.from) # 3
  BY <1>2 DEF Errand, RenameOf, MoveSongsSteps
<1>4. /\ ControlOK /\ Sole \in Process /\ db \in Database /\ f \in Frame
      /\ Settled(db, disk) /\ AlbumLoop(db, dirs, f, FALSE)
  BY <1>1, <1>3, OrderOf, SoleClient DEF Carried, InHand, SongsLoop, NotGone
<1>5. /\ db' = DeleteAlbumBucket(db, AlbumOf(f.from)) /\ disk' = disk /\ dirs' = dirs
      /\ AlbumReturn(Sole, f)
  BY DEF EndAlbum, files
<1>6. \A k \in SongKey : AlbumOf(k) = AlbumOf(f.from) => db.songs[k] = NoSong
  BY <1>3, <1>4 DEF AlbumLoop, SongsToGo
<1>7. SamePaths(db, db') /\ db'.artists = db.artists
  <2>1. Removes(db, db', gone)
    BY <1>4, <1>5, DeletesRemove
  <2>2. \A k \in SongKey : k \in gone => db.songs[k] = NoSong
    BY <1>6
  <2>3. db'.artists = db.artists
    BY <1>4, <1>5 DEF DeleteAlbumBucket, Database
  <2> HIDE DEF gone
  <2> QED
    BY <2>1, <2>2, <2>3, RemovesNone
<1>8. ASSUME Len(f.req.from) = 1 PROVE ArtistLoop(db', dirs', f, FALSE)
  <2>1. ArtistLoop(db, dirs, f, FALSE)
    BY <1>4, <1>6, <1>8, ArtistLoopGone DEF AlbumLoop
  <2> QED
    BY <1>5, <1>7, <2>1, SamePathsKeeps, ArtistLoopKept
<1>9. Settled(db', disk')
  BY <1>4, <1>5, <1>7, SamePathsHas
<1> QED
  BY <1>4, <1>5, <1>8, <1>9, AlbumReturnOrder

----------------------------------------------------------------------------
(* The steps of MoveSongs.                                                 *)

LEMMA SongStepOf ==
    ASSUME Sequential, OrderOK, pc[Sole] \in MoveSongsSteps, NEW f, f = loc[Sole]
    PROVE  /\ f \in Frame /\ f.from \in SongKey /\ f.to \in SongKey /\ f.path \in Path
           /\ NewFullPath(f) = f.to
           /\ Carried(db, dirs, pc[Sole], f)
<1>1. f \in Frame /\ f.from \in SongKey /\ f.to \in SongKey /\ f.path \in Path
  BY OrderOf, SoleClient, MovingFrame DEF Moving
<1>2. f.to[3] \in TitleName /\ f.to = <<f.to[1], f.to[2], f.to[3]>>
  BY <1>1, KeyParts
<1> QED
  BY <1>1, <1>2, SameNames, OrderOf DEF NewFullPath

\* Between reading the song's playlists and moving its file.
LEMMA UnlistCarried ==
    ASSUME NEW d, NEW e, NEW ds, NEW f, NEW g,
           NEW from \in {"MoveSongs", "Unlist"}, NEW to \in {"Unlist", "RenameFile"},
           Carried(d, ds, from, f), SamePaths(d, e), e.artists = d.artists, e.albums = d.albums,
           SameLoop(f, g), g.path = f.path, f.from \in SongKey, f.to \in SongKey
    PROVE  Carried(e, ds, to, g)
<1>1. HasAlbum(e, AlbumOf(g.to)) /\ (e.songs[g.to] = NoSong \/ e.songs[g.to].path = g.to)
  BY DEF Carried, Unfiled, NotGone, SameLoop, SamePaths, HasAlbum
<1>2. Len(g.req.from) = 3 => g.path = g.from
  BY DEF Carried, SameLoop
<1>3. Len(g.req.from) # 3 => AlbumLoop(e, ds, g, TRUE)
  <2>1. Len(g.req.from) # 3 => AlbumLoop(d, ds, f, TRUE)
    BY DEF Carried, NotGone, SameLoop
  <2> QED
    BY <2>1, AlbumLoopKept
<1> QED
  BY <1>1, <1>2, <1>3 DEF Carried, DropSteps, NotGone, Unfiled, SongsLoop, MoveSongsSteps

LEMMA UnlistOrder ==
    ASSUME Sequential, OrderOK, MoveSongs(Sole) \/ Unlist(Sole)
    PROVE  Order(Sole)'
<1> DEFINE f == loc[Sole]
<1>1. pc[Sole] \in {"MoveSongs", "Unlist"}
  BY DEF MoveSongs, Unlist, Session
<1>2. /\ f \in Frame /\ f.from \in SongKey /\ f.to \in SongKey /\ Carried(db, dirs, pc[Sole], f)
  BY <1>1, SongStepOf DEF MoveSongsSteps
<1>3. ControlOK /\ Sole \in Process /\ db \in Database /\ Settled(db, disk)
  BY <1>1, OrderOf, SoleClient DEF InHand
<1>4. disk' = disk /\ dirs' = dirs
  BY DEF MoveSongs, Unlist, files
<1>5. SamePaths(db, db') /\ db'.artists = db.artists /\ db'.albums = db.albums
  <2>1. db' = db \/ \E pl, title : db' = UnlistTx(db, pl, title)
    BY DEF MoveSongs, Unlist
  <2>2. SamePaths(db, db)
    BY DEF SamePaths
  <2>3. SamePaths(db, db')
    BY <1>3, <2>1, <2>2, AlbumsAddPaths
  <2>4. db'.artists = db.artists /\ db'.albums = db.albums
    BY <1>3, <2>1 DEF UnlistTx, Database
  <2> QED
    BY <2>3, <2>4
<1>6. \E to, g : /\ to \in {"Unlist", "RenameFile"} /\ Goto(Sole, to, g)
                 /\ SameLoop(f, g) /\ g.path = f.path
  <2>1. \A lists, todo : LET g == [f EXCEPT !.lists = lists, !.todo = todo] IN
           SameLoop(f, g) /\ g.path = f.path
    BY <1>2 DEF SameLoop, Frame
  <2>2. \A todo : LET g == [f EXCEPT !.todo = todo] IN SameLoop(f, g) /\ g.path = f.path
    BY <1>2 DEF SameLoop, Frame
  <2>3. \E to \in {"Unlist", "RenameFile"} :
           \/ \E lists : Goto(Sole, to, [f EXCEPT !.lists = lists, !.todo = lists])
           \/ \E todo : Goto(Sole, to, [f EXCEPT !.todo = todo])
    <3>1. CASE MoveSongs(Sole)
      BY <3>1 DEF MoveSongs
    <3>2. CASE Unlist(Sole)
      BY <3>2 DEF Unlist
    <3> QED
      BY <3>1, <3>2
  <2>4. PICK to \in {"Unlist", "RenameFile"} :
           \/ \E lists : Goto(Sole, to, [f EXCEPT !.lists = lists, !.todo = lists])
           \/ \E todo : Goto(Sole, to, [f EXCEPT !.todo = todo])
    BY <2>3
  <2> HIDE DEF f
  <2>5. CASE \E lists : Goto(Sole, to, [f EXCEPT !.lists = lists, !.todo = lists])
    <3>1. PICK lists : Goto(Sole, to, [f EXCEPT !.lists = lists, !.todo = lists])
      BY <2>5
    <3> WITNESS to, [f EXCEPT !.lists = lists, !.todo = lists]
    <3> QED
      BY <2>1, <3>1
  <2>6. CASE \E todo : Goto(Sole, to, [f EXCEPT !.todo = todo])
    <3>1. PICK todo : Goto(Sole, to, [f EXCEPT !.todo = todo])
      BY <2>6
    <3> WITNESS to, [f EXCEPT !.todo = todo]
    <3> QED
      BY <2>2, <3>1
  <2> QED
    BY <2>4, <2>5, <2>6
<1>7. Settled(db', disk')
  BY <1>3, <1>4, <1>5, SamePathsHas
<1> HIDE DEF f
<1>8. PICK to, g : /\ to \in {"Unlist", "RenameFile"} /\ Goto(Sole, to, g)
                   /\ SameLoop(f, g) /\ g.path = f.path
  BY <1>6
<1>9. Carried(db', dirs', to, g)
  BY <1>1, <1>2, <1>4, <1>5, <1>8, UnlistCarried
<1>10. Orderly(db', disk', dirs', to, g)
  BY <1>7, <1>8, <1>9, SettledOrder DEF InHand
<1> QED
  BY <1>3, <1>8, <1>10, GotoOrder

\* A file that is moved from one path to another.
LEMMA MovedAt ==
    ASSUME NEW from \in Path, NEW to \in SongKey, DiskOK(disk), NEW x \in Path
    PROVE  Moved(from, to)[x] = IF x = to THEN disk[from] ELSE IF x = from THEN NoFile ELSE disk[x]
  BY DEF Moved, DiskOK, Path

\* The file of the song at hand can be moved: it is there, and so is the
\* directory to move it to.
LEMMA HeldFile ==
    ASSUME Sequential, OrderOK, pc[Sole] = "RenameFile", NEW f, f = loc[Sole], Len(f.req.from) # 3
    PROVE  disk[f.path] # NoFile /\ DirOf(AlbumOf(f.to)) \in dirs \cup {<<>>}
<1>1. f.from \in SongKey /\ AlbumLoop(db, dirs, f, TRUE) /\ Settled(db, disk) /\ Filed(db)
  BY SongStepOf, OrderOf DEF Carried, NotGone, MoveSongsSteps, InHand
<1>2. f.path \in Place /\ HasSong(db, f.path)
  BY <1>1, NotInDrop DEF AlbumLoop, Held, Filed, HasSong, Place, Path
<1>3. disk[f.path] # NoFile
  BY <1>1, <1>2 DEF Settled, Even, FileAt
<1>4. f.to[2] # NoName /\ AlbumOf(f.to) \in dirs
  BY <1>1 DEF AlbumLoop, AlbumReady
<1>5. DirOf(AlbumOf(f.to)) \in dirs \cup {<<>>}
  <2>1. AlbumOf(f.to)[1] = f.to[1] /\ AlbumOf(f.to)[2] = f.to[2]
    BY DEF AlbumOf
  <2>2. CASE f.to[1] = NoName
    BY <2>1, <2>2 DEF DirOf
  <2>3. CASE f.to[1] # NoName
    BY <1>4, <2>1, <2>3 DEF DirOf
  <2> QED
    BY <2>2, <2>3
<1> QED
  BY <1>3, <1>5

LEMMA RenameFileOrder ==
    ASSUME Sequential, OrderOK, RenameFile(Sole)
    PROVE  Order(Sole)'
<1> DEFINE f == loc[Sole]
<1>1. pc[Sole] = "RenameFile"
  BY DEF RenameFile, Syscall
<1>2. /\ f \in Frame /\ f.from \in SongKey /\ f.to \in SongKey /\ f.path \in Path
      /\ NewFullPath(f) = f.to /\ Carried(db, dirs, "RenameFile", f)
  BY <1>1, SongStepOf DEF MoveSongsSteps
<1>3. ControlOK /\ Sole \in Process /\ db \in Database /\ Settled(db, disk) /\ Filed(db) /\ DiskOK(disk)
  BY <1>1, OrderOf, SoleClient DEF InHand
<1>4. /\ db' = db /\ dirs' = dirs
      /\ \/ disk[f.path] # NoFile /\ disk' = Moved(f.path, f.to) /\ Goto(Sole, "DeleteOld", f)
         \/ /\ ~(disk[f.path] # NoFile /\ DirOf(AlbumOf(f.to)) \in dirs \cup {<<>>})
            /\ disk' = disk /\ SongReturn(Sole, f)
  BY <1>2 DEF RenameFile, Syscall
<1>5. CASE /\ ~(disk[f.path] # NoFile /\ DirOf(AlbumOf(f.to)) \in dirs \cup {<<>>})
           /\ disk' = disk /\ SongReturn(Sole, f)
  <2>1. Len(f.req.from) = 3
    BY <1>1, <1>5, HeldFile
  <2> QED
    BY <1>2, <1>3, <1>4, <1>5, <2>1, SongReturnOrder
<1>6. CASE disk[f.path] # NoFile /\ disk' = Moved(f.path, f.to) /\ Goto(Sole, "DeleteOld", f)
  <2> HIDE DEF f
  <2>1. \A x \in Path : disk'[x] = IF x = f.to THEN disk[f.path] ELSE IF x = f.path THEN NoFile ELSE disk[x]
    BY <1>2, <1>3, <1>6, MovedAt
  <2>2. Balance(db', disk', "DeleteOld", f)
    <3>1. ASSUME NEW x \in Place
          PROVE  FileAt(disk', x) <=> x = f.to \/ (HasSong(db, x) /\ x # f.path)
      BY <1>3, <1>6, <2>1 DEF Settled, Even, FileAt, Place
    <3> QED
      BY <1>4, <3>1 DEF Balance, BalanceAt, InHand
  <2>3. Labels(db', disk', "DeleteOld", f)
    <3>1. ASSUME NEW l \in SongKey, l # f.to PROVE Labelled(db, disk', l)
      BY <1>3, <2>1, <3>1, LibraryAssumption DEF Settled, Labelled, Path
    <3> QED
      BY <1>4, <3>1 DEF Labels, Untold
  <2>4. Held(db, f)
    <3>1. CASE Len(f.req.from) # 3
      BY <1>2, <3>1 DEF Carried, NotGone, AlbumLoop
    <3>2. CASE Len(f.req.from) = 3
      <4>1. f.path = f.from
        BY <1>2, <3>2 DEF Carried
      <4>2. HasSong(db, f.from)
        BY <1>2, <1>3, <1>6, <4>1, NotInDrop DEF Settled, Even, FileAt, Place
      <4> QED
        BY <1>2, <1>3, <4>1, <4>2, SentinelAssumption DEF HasSong, Filed, Held
    <3> QED
      BY <3>1, <3>2
  <2>5. Carried(db', dirs', "DeleteOld", f)
    BY <1>2, <1>4, <2>4 DEF Carried, DropSteps, NotGone, Unfiled, SongsLoop, MoveSongsSteps
  <2> QED
    BY <1>3, <1>6, <2>2, <2>3, <2>5, GotoOrder DEF Orderly
<1> QED
  BY <1>4, <1>5, <1>6

\* The song at hand has left the old album.
LEMMA AlbumLoopGone ==
    ASSUME NEW d, NEW e, NEW ds, NEW f, AlbumLoop(d, ds, f, TRUE), f.from \in SongKey,
           Removes(d, e, {f.from}), e.artists = d.artists, e.albums = d.albums
    PROVE  AlbumLoop(e, ds, f, FALSE)
<1>1. KeepsPaths(d, e)
  BY DEF Removes, KeepsPaths
<1>2. Len(f.req.from) = 1 => ArtistLoop(e, ds, f, TRUE)
  BY <1>1, ArtistLoopKept DEF AlbumLoop
<1>3. AlbumReady(e, ds, f)
  BY DEF AlbumLoop, AlbumReady, Removes, HasAlbum
<1>4. SongsToGo(e, f, FALSE)
  BY DEF AlbumLoop, SongsToGo, Removes
<1> QED
  BY <1>2, <1>3, <1>4 DEF AlbumLoop

LEMMA DeleteOldOrder ==
    ASSUME Sequential, OrderOK, DeleteOld(Sole)
    PROVE  Order(Sole)'
<1> DEFINE f == loc[Sole]
<1>1. pc[Sole] = "DeleteOld"
  BY DEF DeleteOld, Session
<1>2. /\ f.from \in SongKey /\ f.to \in SongKey /\ Carried(db, dirs, "DeleteOld", f) /\ Held(db, f)
  BY <1>1, SongStepOf DEF MoveSongsSteps, Carried
<1>3. /\ ControlOK /\ Sole \in Process /\ db \in Database /\ Filed(db)
      /\ Orderly(db, disk, dirs, "DeleteOld", f)
  BY <1>1, OrderOf, SoleClient
<1>4. HasAlbum(db, AlbumOf(f.from))
  BY <1>2 DEF OrderOK, TreeOK, SongsHoused, Housed, HasAlbum, Held
<1>5. DeleteSongThen(Sole, f.from, "SetMp3Tags")
  BY <1>4 DEF DeleteOld
<1>6. /\ db' = DeleteSongTx(db, f.from) /\ disk' = disk /\ dirs' = dirs
      /\ Goto(Sole, "Nested", f) \/ Goto(Sole, "SetMp3Tags", f)
  BY <1>5 DEF DeleteSongThen, files
<1> HIDE DEF f
<1>7. /\ \A x : HasSong(db', x) <=> HasSong(db, x) /\ x # f.path
      /\ \A l \in SongKey : Labelled(db, disk, l) => Labelled(db', disk, l)
  BY <1>2, <1>3, <1>6, DeletesHeld
<1>8. Balance(db', disk', "SetMp3Tags", f)
  BY <1>3, <1>6, <1>7 DEF Orderly, Balance, BalanceAt, InHand
<1>9. Labels(db', disk', "SetMp3Tags", f)
  BY <1>3, <1>6, <1>7 DEF Orderly, Labels, Untold
<1>10. Carried(db', dirs', "SetMp3Tags", f)
  <2>1. Removes(db, db', {f.from}) /\ db'.artists = db.artists /\ db'.albums = db.albums
    <3>1. db'.artists = db.artists /\ db'.albums = db.albums
      BY <1>3, <1>6 DEF DeleteSongTx, Database
    <3> QED
      BY <1>2, <1>3, <1>6, <3>1, DeletesRemove
  <2>2. HasAlbum(db', AlbumOf(f.to)) /\ (db'.songs[f.to] = NoSong \/ db'.songs[f.to].path = f.to)
    BY <1>2, <2>1 DEF Carried, Unfiled, NotGone, HasAlbum, Removes
  <2>3. Len(f.req.from) # 3 => AlbumLoop(db', dirs', f, FALSE)
    BY <1>2, <1>6, <2>1, AlbumLoopGone DEF Carried, NotGone
  <2> QED
    BY <2>2, <2>3 DEF Carried, DropSteps, NotGone, Unfiled, SongsLoop, MoveSongsSteps
<1> QED
  BY <1>3, <1>6, <1>8, <1>9, <1>10, GotoOrder, NestedOrder DEF Orderly

LEMMA SetMp3TagsOrder ==
    ASSUME Sequential, OrderOK, SetMp3Tags(Sole)
    PROVE  Order(Sole)'
<1> DEFINE f    == loc[Sole]
           tags == [artist |-> f.to[1], album |-> f.to[2],
                    title |-> f.to[3], mp3 |-> f.to[3] \in Mp3Name]
<1>1. pc[Sole] = "SetMp3Tags"
  BY DEF SetMp3Tags, Syscall
<1>2. f.to \in SongKey /\ NewFullPath(f) = f.to /\ Carried(db, dirs, "SetMp3Tags", f)
  BY <1>1, SongStepOf DEF MoveSongsSteps
<1>3. /\ ControlOK /\ Sole \in Process /\ DiskOK(disk)
      /\ Orderly(db, disk, dirs, "SetMp3Tags", f)
  BY <1>1, OrderOf, SoleClient
<1>4. /\ db' = db /\ disk' = Retagged(f.to, tags) /\ dirs' = dirs
      /\ Goto(Sole, "CreateNew", f)
  BY <1>2 DEF SetMp3Tags, Syscall
<1>5. tags \in Tags /\ NamedAfter(tags, f.to)
  BY <1>2, KeyParts DEF Tags, NamedAfter
<1> HIDE DEF tags, f
<1>6. /\ \A x \in Path : FileAt(disk', x) <=> FileAt(disk, x)
      /\ \A x \in Path : disk'[x] = IF x = f.to /\ FileAt(disk, x) THEN tags ELSE disk[x]
  BY <1>3, <1>4, <1>5, RetaggedAt
<1>7. FileAt(disk, f.to)
  BY <1>2, <1>3, NotInDrop DEF Orderly, Balance, BalanceAt, Place
<1>8. Balance(db', disk', "CreateNew", f)
  BY <1>3, <1>4, <1>6 DEF Orderly, Balance, BalanceAt, InHand, Place
<1>9. Labels(db', disk', "CreateNew", f)
  <2>1. disk'[f.to] = tags
    BY <1>2, <1>6, <1>7 DEF Path
  <2>2. ASSUME NEW l \in SongKey PROVE Labelled(db', disk', l)
    BY <1>3, <1>4, <1>5, <1>6, <2>1 DEF Orderly, Labels, Untold, Labelled, Path
  <2> QED
    BY <1>5, <2>1, <2>2 DEF Labels
<1>10. Carried(db', dirs', "CreateNew", f)
  BY <1>2, <1>4 DEF Carried, DropSteps, NotGone, Unfiled, SongsLoop, MoveSongsSteps
<1> QED
  BY <1>3, <1>4, <1>8, <1>9, <1>10, GotoOrder DEF Orderly

\* The song at hand is in the new album.
LEMMA AlbumLoopFiled ==
    ASSUME NEW d \in Database, NEW ds, NEW f, AlbumLoop(d, ds, f, FALSE), f.to \in SongKey,
           NEW e, e = CreateSongTx(d, f.to, f.to)
    PROVE  AlbumLoop(e, ds, f, FALSE)
<1>1. /\ e.songs[f.to].path = f.to
      /\ \A k \in SongKey : k # f.to => e.songs[k] = d.songs[k]
  BY CreateSongPaths
<1>2. e.artists = d.artists /\ e.albums = d.albums
  BY DEF CreateSongTx, Database
<1>3. AlbumReady(e, ds, f)
  BY <1>1, <1>2 DEF AlbumLoop, AlbumReady, HasAlbum
<1>4. SongsToGo(e, f, FALSE)
  BY <1>1 DEF AlbumLoop, AlbumReady, SongsToGo
<1>5. ArtistLoop(d, ds, f, TRUE) => ArtistLoop(e, ds, f, TRUE)
  BY <1>1, <1>2 DEF ArtistLoop
<1> QED
  BY <1>3, <1>4, <1>5 DEF AlbumLoop

LEMMA CreateNewOrder ==
    ASSUME Sequential, OrderOK, CreateNew(Sole)
    PROVE  Order(Sole)'
<1> DEFINE f == loc[Sole]
           g == [f EXCEPT !.todo = f.lists]
<1>1. pc[Sole] = "CreateNew"
  BY DEF CreateNew, Session
<1>2. f \in Frame /\ f.to \in SongKey /\ NewFullPath(f) = f.to /\ Carried(db, dirs, "CreateNew", f)
  BY <1>1, SongStepOf DEF MoveSongsSteps
<1>3. /\ ControlOK /\ Sole \in Process /\ db \in Database
      /\ Orderly(db, disk, dirs, "CreateNew", f)
  BY <1>1, OrderOf, SoleClient
<1>4. f.to[3] \in Mp3Name /\ HasAlbum(db, AlbumOf(f.to))
  BY <1>2, KeyParts DEF Sequential, Carried, Unfiled
<1>5. /\ db' = CreateSongTx(db, f.to, f.to) /\ disk' = disk /\ dirs' = dirs
      /\ SongReturn(Sole, f) \/ Goto(Sole, "AddPath", g)
  BY <1>2, <1>4 DEF CreateNew, files
<1>6. SameLoop(f, g)
  BY <1>2 DEF Frame, SameLoop
<1> HIDE DEF f, g
<1>7. Even(db', disk')
  <2>1. \A x : HasSong(db', x) <=> HasSong(db, x) \/ x = f.to
    BY <1>2, <1>3, <1>5, CreatesHas DEF Carried, Unfiled
  <2> QED
    BY <1>3, <1>5, <2>1 DEF Orderly, Balance, BalanceAt, Even
<1>8. ASSUME NEW l \in SongKey PROVE Labelled(db', disk', l)
  <2>1. l # f.to => db'.songs[l] = db.songs[l]
    BY <1>2, <1>3, <1>5, CreateSongPaths
  <2>2. Labelled(db, disk, l) /\ (disk[f.to] \in Tags => NamedAfter(disk[f.to], f.to))
    BY <1>3 DEF Orderly, Labels, Untold
  <2> QED
    BY <1>5, <2>1, <2>2 DEF Labelled
<1>9. Settled(db', disk')
  BY <1>7, <1>8 DEF Settled
<1>10. Len(f.req.from) # 3 => AlbumLoop(db', dirs', f, FALSE)
  BY <1>2, <1>3, <1>5, AlbumLoopFiled DEF Carried, SongsLoop, MoveSongsSteps, NotGone
<1>11. CASE Goto(Sole, "AddPath", g)
  <2>1. Len(g.req.from) # 3 => AlbumLoop(db', dirs', g, FALSE)
    <3>1. SamePaths(db', db')
      BY DEF SamePaths
    <3> QED
      BY <1>6, <1>10, <3>1, AlbumLoopKept DEF SameLoop
  <2>2. Carried(db', dirs', "AddPath", g)
    BY <2>1 DEF Carried, DropSteps, NotGone, Unfiled, SongsLoop, MoveSongsSteps
  <2>3. Orderly(db', disk', dirs', "AddPath", g)
    BY <1>9, <2>2, SettledOrder DEF InHand
  <2> QED
    BY <1>3, <1>11, <2>3, GotoOrder
<1> QED
  BY <1>2, <1>3, <1>5, <1>9, <1>10, <1>11, SongReturnOrder

\* The loop over the playlists that get the song back.
Relisting == {"AddPath", "AddEntry", "Regenerate"}

LEMMA RelistGoto ==
    ASSUME Sequential, OrderOK, pc[Sole] \in Relisting, NEW f, f = loc[Sole],
           NEW to \in Relisting, NEW g, SameLoop(f, g), Goto(Sole, to, g),
           SamePaths(db, db'), db'.artists = db.artists, db'.albums = db.albums,
           disk' = disk, dirs' = dirs
    PROVE  Order(Sole)'
<1>1. /\ ControlOK /\ Sole \in Process /\ Settled(db, disk) /\ Carried(db, dirs, pc[Sole], f)
  BY OrderOf, SoleClient DEF InHand, Relisting
<1>2. Len(g.req.from) # 3 => AlbumLoop(db', dirs', g, FALSE)
  <2>1. Len(g.req.from) # 3 => AlbumLoop(db, dirs, f, FALSE)
    BY <1>1 DEF Carried, SongsLoop, MoveSongsSteps, NotGone, SameLoop, Relisting
  <2> QED
    BY <2>1, AlbumLoopKept
<1>3. Carried(db', dirs', to, g)
  BY <1>2 DEF Carried, DropSteps, NotGone, Unfiled, SongsLoop, MoveSongsSteps, Relisting
<1>4. Settled(db', disk')
  BY <1>1, SamePathsHas
<1>5. Orderly(db', disk', dirs', to, g)
  BY <1>3, <1>4, SettledOrder DEF InHand, Relisting
<1> QED
  BY <1>1, <1>5, GotoOrder

LEMMA SameDatabasePaths ==
    ASSUME db' = db
    PROVE  SamePaths(db, db') /\ db'.artists = db.artists /\ db'.albums = db.albums
  BY DEF SamePaths

LEMMA AddPathOrder ==
    ASSUME Sequential, OrderOK, AddPath(Sole)
    PROVE  Order(Sole)'
<1> DEFINE f == loc[Sole]
           g == [f EXCEPT !.path = db.songs[f.to].path]
<1>1. pc[Sole] = "AddPath" /\ db' = db /\ disk' = disk /\ dirs' = dirs
  BY DEF AddPath, Session, files
<1>2. f \in Frame
  BY <1>1, SongStepOf DEF MoveSongsSteps
<1>3. SameLoop(f, g) /\ SameLoop(f, f)
  BY <1>2 DEF Frame, SameLoop
<1>4. Goto(Sole, "Regenerate", f) \/ Goto(Sole, "AddEntry", g)
  BY DEF AddPath
<1> HIDE DEF f, g
<1> QED
  BY <1>1, <1>3, <1>4, RelistGoto, SameDatabasePaths DEF Relisting, f

LEMMA AddEntryOrder ==
    ASSUME Sequential, OrderOK, AddEntry(Sole)
    PROVE  Order(Sole)'
<1> DEFINE f  == loc[Sole]
           pl == Head(f.todo)
<1>1. pc[Sole] = "AddEntry" /\ disk' = disk /\ dirs' = dirs
  BY DEF AddEntry, Session, files
<1>2. f \in Frame /\ f.to \in SongKey /\ db \in Database
  BY <1>1, SongStepOf, OrderOf DEF MoveSongsSteps
<1>3. Goto(Sole, "Regenerate", f) /\ SameLoop(f, f)
  BY DEF AddEntry, SameLoop
<1>4. \/ db' = db
      \/ /\ pl \in db.playlists /\ db.songs[f.to] # NoSong
         /\ db' = AddFileToPlaylistTx(db, pl, f.to, f.path)
  BY DEF AddEntry
<1> HIDE DEF f, pl
<1>5. SamePaths(db, db') /\ db'.artists = db.artists /\ db'.albums = db.albums
  <2>1. CASE pl \in db.playlists /\ db.songs[f.to] # NoSong /\ db' = AddFileToPlaylistTx(db, pl, f.to, f.path)
    <3>1. pl \in Playlist
      BY <1>2, <2>1 DEF Database
    <3>2. db'.artists = db.artists /\ db'.albums = db.albums
      BY <1>2, <2>1 DEF AddFileToPlaylistTx, Database
    <3> QED
      BY <1>2, <2>1, <3>1, <3>2, AddFileSamePaths
  <2> QED
    BY <1>4, <2>1, SameDatabasePaths
<1> QED
  BY <1>1, <1>3, <1>5, RelistGoto DEF Relisting, f

LEMMA RegenerateOrder ==
    ASSUME Sequential, OrderOK, Regenerate(Sole)
    PROVE  Order(Sole)'
<1> DEFINE f == loc[Sole]
           g == [f EXCEPT !.todo = Tail(@)]
<1>1. pc[Sole] = "Regenerate" /\ db' = db /\ disk' = disk /\ dirs' = dirs
  BY DEF Regenerate, Session
<1>2. /\ f \in Frame /\ f.to \in SongKey /\ f.todo # <<>>
      /\ Carried(db, dirs, "Regenerate", f)
  BY <1>1, SongStepOf, OrderOf DEF MoveSongsSteps, Shape
<1>3. ControlOK /\ Sole \in Process /\ Settled(db, disk)
  BY <1>1, OrderOf, SoleClient DEF InHand
<1>4. g \in Frame /\ SameLoop(f, g)
  <2>1. f.todo \in Seq(Playlist)
    BY <1>2 DEF Frame
  <2>2. Tail(f.todo) \in Seq(Playlist)
    BY <1>2, <2>1
  <2> QED
    BY <1>2, <2>2 DEF Frame, SameLoop
<1>5. SongReturn(Sole, g) \/ Goto(Sole, "AddPath", g)
  BY DEF Regenerate
<1> HIDE DEF f, g
<1>6. CASE Goto(Sole, "AddPath", g)
  BY <1>1, <1>4, <1>6, RelistGoto, SameDatabasePaths DEF Relisting, f
<1>7. CASE SongReturn(Sole, g)
  <2>1. Len(g.req.from) # 3 => AlbumLoop(db', dirs', g, FALSE)
    <3>1. Len(g.req.from) # 3 => AlbumLoop(db, dirs, f, FALSE)
      BY <1>2, <1>4 DEF Carried, SongsLoop, MoveSongsSteps, NotGone, SameLoop
    <3> QED
      BY <1>1, <1>4, <3>1, AlbumLoopKept, SameDatabasePaths
  <2>2. g.to \in AlbumKey \cup SongKey
    BY <1>2, <1>4 DEF SameLoop
  <2> QED
    BY <1>1, <1>3, <1>4, <1>7, <2>1, <2>2, SongReturnOrder
<1> QED
  BY <1>5, <1>6, <1>7

----------------------------------------------------------------------------
(* The beginning of a request.                                             *)

LEMMA FirstStepOf ==
    ASSUME NEW r \in Requests, r.op # "drop"
    PROVE  \/ FirstStep(r) \in Plain
           \/ FirstStep(r) = "CreateSong" /\ r.op = "create" /\ Len(r.to) = 3
           \/ FirstStep(r) = "DeleteAlbum" /\ r.op = "remove" /\ Len(r.from) = 2
           \/ FirstStep(r) = "MoveArtist" /\ r.op = "rename" /\ Len(r.from) = 1 /\ Len(r.to) = 1
           \/ FirstStep(r) = "MoveAlbum" /\ r.op = "rename" /\ Len(r.from) = 2 /\ Len(r.to) = 2
           \/ FirstStep(r) = "MoveSongs" /\ r.op = "rename" /\ Len(r.from) = 3 /\ Len(r.to) = 3
<1>1. WellFormed(r)
  BY LibraryAssumption
<1>2. CASE r.op = "mkdir"
  <2>1. CASE Len(r.to) = 1
    BY <1>2, <2>1 DEF FirstStep, Plain
  <2>2. CASE Len(r.to) = 2
    BY <1>2, <2>2 DEF FirstStep, Plain
  <2> QED
    BY <1>1, <1>2, <2>1, <2>2 DEF WellFormed
<1>3. CASE r.op = "remove"
  <2>1. CASE Len(r.from) = 1
    BY <1>3, <2>1 DEF FirstStep, Plain
  <2>2. CASE Len(r.from) = 2
    BY <1>3, <2>2 DEF FirstStep
  <2>3. CASE Len(r.from) = 3
    BY <1>3, <2>3 DEF FirstStep, Plain
  <2> QED
    BY <1>1, <1>3, <2>1, <2>2, <2>3 DEF WellFormed
<1>4. CASE r.op = "rename"
  <2>1. Len(r.to) = Len(r.from) /\ Len(r.from) \in {1, 2, 3}
    BY <1>1, <1>4 DEF WellFormed
  <2>2. CASE Len(r.from) = 1
    BY <1>4, <2>1, <2>2 DEF FirstStep
  <2>3. CASE Len(r.from) = 2
    BY <1>4, <2>1, <2>3 DEF FirstStep
  <2>4. CASE Len(r.from) = 3
    BY <1>4, <2>1, <2>4 DEF FirstStep
  <2> QED
    BY <2>1, <2>2, <2>3, <2>4
<1>5. CASE r.op = "create"
  BY <1>1, <1>5 DEF WellFormed, FirstStep
<1>6. CASE r.op = "release"
  BY <1>6 DEF FirstStep, Plain
<1> QED
  BY <1>1, <1>2, <1>3, <1>4, <1>5, <1>6 DEF WellFormed

\* What the kernel and the hypotheses see to when a request begins.
LEMMA FirstCarried ==
    ASSUME Sequential, OrderOK, NEW r \in Requests, Resolves(r), NEW f, f.req = r,
           f.from = r.from, f.to = r.to, f.path = FirstPath(r), FirstStep(r) \notin Plain
    PROVE  Carried(db, dirs, FirstStep(r), f)
<1>1. /\ r.op # "drop" /\ r \in Request /\ ~ReplaceDirs /\ NoName \notin ToSet(r.to)
      /\ r.op = "remove" /\ Len(r.from) = 2 => r.from[1] = r.from[2]
      /\ r.op = "rename" => r.to \notin Found
  BY LibraryAssumption DEF Sequential
<1>2. r.to \in Node /\ r.from \in Node
  BY <1>1 DEF Request
<1>3. CASE FirstStep(r) = "CreateSong" /\ r.op = "create" /\ Len(r.to) = 3
  <2>1. db.songs[f.to] = NoSong
    BY <1>3 DEF Resolves, Exists
  <2> QED
    BY <1>3, <2>1 DEF Carried, DropSteps, NotGone, Unfiled, SongsLoop, MoveSongsSteps
<1>4. CASE FirstStep(r) = "DeleteAlbum" /\ r.op = "remove" /\ Len(r.from) = 2
  BY <1>1, <1>4 DEF Carried, DropSteps, NotGone, Unfiled, SongsLoop, MoveSongsSteps
<1>5. CASE FirstStep(r) = "MoveArtist" /\ r.op = "rename" /\ Len(r.from) = 1 /\ Len(r.to) = 1
  <2>1. f.to[1] \notin db.artists
    BY <1>1, <1>5 DEF Resolves, Exists
  <2> QED
    BY <1>5, <2>1 DEF Carried, DropSteps, NotGone, Unfiled, SongsLoop, MoveSongsSteps
<1>6. CASE FirstStep(r) = "MoveAlbum" /\ r.op = "rename" /\ Len(r.from) = 2 /\ Len(r.to) = 2
  <2>1. f.to \notin db.albums
    BY <1>1, <1>6 DEF Resolves, Exists
  <2> QED
    BY <1>6, <2>1 DEF Carried, DropSteps, NotGone, Unfiled, SongsLoop, MoveSongsSteps
<1>7. CASE FirstStep(r) = "MoveSongs" /\ r.op = "rename" /\ Len(r.from) = 3 /\ Len(r.to) = 3
  <2>1. r.to \in SongKey /\ r.to = <<r.to[1], r.to[2], r.to[3]>>
    BY <1>2, <1>7, NodeByLength, KeyParts
  <2>2. r.to[1] # NoName /\ r.to[2] # NoName
    BY <1>1, <1>7 DEF ToSet
  <2>3. Parent(r.to) = AlbumOf(r.to)
    <3>1. AlbumOf(r.to)[1] = r.to[1] /\ AlbumOf(r.to)[2] = r.to[2]
      BY DEF AlbumOf
    <3> QED
      BY <1>7, <2>2, <3>1 DEF Parent, DirOf
  <2>4. HasAlbum(db, AlbumOf(f.to))
    <3>1. Exists(AlbumOf(r.to))
      BY <1>7, <2>3 DEF Resolves
    <3>2. AlbumOf(r.to) \in db.albums
      BY <3>1 DEF Exists, AlbumOf
    <3> QED
      BY <3>2 DEF OrderOK, TreeOK, Housed, HasAlbum
  <2>5. db.songs[f.to] = NoSong \/ db.songs[f.to].path = f.to
    BY <1>1, <1>7, <2>1 DEF OrderOK, Strays
  <2>6. f.path = f.from
    BY <1>7 DEF FirstPath
  <2> QED
    BY <1>7, <2>4, <2>5, <2>6 DEF Carried, DropSteps, NotGone, Unfiled, SongsLoop, MoveSongsSteps
<1> QED
  BY <1>1, <1>3, <1>4, <1>5, <1>6, <1>7, FirstStepOf

LEMMA StartOrder ==
    ASSUME Sequential, OrderOK, NEW r \in Requests, Start(Sole, r)
    PROVE  Order(Sole)'
<1> DEFINE f == [Blank EXCEPT !.req = r, !.from = r.from, !.to = r.to, !.path = FirstPath(r)]
<1>1. /\ pc[Sole] = "idle" /\ Resolves(r) /\ Goto(Sole, FirstStep(r), f)
      /\ db' = db /\ disk' = disk /\ dirs' = dirs
  BY DEF Start, files
<1>2. f.req = r /\ f.from = r.from /\ f.to = r.to /\ f.path = FirstPath(r)
  BY DEF Blank
<1> HIDE DEF f
<1>3. ControlOK /\ Sole \in Process /\ Settled(db, disk)
  BY <1>1, OrderOf, SoleClient DEF InHand
<1>4. CASE FirstStep(r) \in Plain
  BY <1>1, <1>3, <1>4, PlainOrder, GotoOrder
<1>5. CASE FirstStep(r) \notin Plain
  <2>1. Carried(db, dirs, FirstStep(r), f)
    BY <1>1, <1>2, <1>5, FirstCarried
  <2>2. FirstStep(r) \notin InHand
    BY <1>5, FirstStepOf DEF InHand, Sequential
  <2> QED
    BY <1>1, <1>3, <2>1, <2>2, SettledOrder, GotoOrder
<1> QED
  BY <1>4, <1>5

LEMMA NothingDropped ==
    ASSUME Sequential, OrderOK
    PROVE  ~(\/ GetMp3Tags(Sole) \/ DropArtist(Sole) \/ DropAlbum(Sole) \/ DropFileInto(Sole)
             \/ DropSong(Sole))
<1>1. pc[Sole] \notin DropSteps
  BY OrderOf DEF Carried
<1> QED
  BY <1>1 DEF GetMp3Tags, DropArtist, DropAlbum, DropFileInto, DropSong, Session, Syscall, DropSteps

LEMMA StepOrder ==
    ASSUME Sequential, OrderOK, Step(Sole)
    PROVE  Order(Sole)'
<1>1. CASE \/ CreateArtist(Sole) \/ CreateAlbum(Sole) \/ MkdirNew(Sole)
           \/ CreateSong(Sole) \/ CreateFile(Sole) \/ ReleaseSong(Sole) \/ ReleaseTags(Sole)
           \/ GetFilePath(Sole) \/ DeleteSong(Sole) \/ RemoveFile(Sole)
           \/ DeleteArtist(Sole) \/ DeleteAlbum(Sole) \/ Victims(Sole)
  BY <1>1, MkdirOrder, CreateSongOrder, CreateFileOrder, ReleaseOrder, ReleaseTagsOrder,
     DeleteSongOrder, RemoveFileOrder, DeleteArtistOrder, DeleteAlbumOrder, VictimsOrder
<1>2. CASE \/ MoveArtist(Sole) \/ NewArtist(Sole) \/ EndArtist(Sole)
           \/ MoveAlbum(Sole) \/ NewAlbum(Sole) \/ EndAlbum(Sole)
  BY <1>2, MoveArtistOrder, NewArtistOrder, EndArtistOrder, MoveAlbumOrder, NewAlbumOrder,
     EndAlbumOrder
<1>3. CASE \/ MoveSongs(Sole) \/ Unlist(Sole) \/ RenameFile(Sole) \/ DeleteOld(Sole)
           \/ SetMp3Tags(Sole) \/ CreateNew(Sole) \/ AddPath(Sole) \/ AddEntry(Sole)
           \/ Regenerate(Sole)
  BY <1>3, UnlistOrder, RenameFileOrder, DeleteOldOrder, SetMp3TagsOrder, CreateNewOrder,
     AddPathOrder, AddEntryOrder, RegenerateOrder
<1> QED
  BY <1>1, <1>2, <1>3, NothingDropped DEF Step

----------------------------------------------------------------------------
(* What the steps rely on beside the order of the files.                   *)

\* A new album has a name.
LEMMA StepNames ==
    ASSUME ControlOK, DataOK, Named(db), NEW p \in Process, Step(p)
    PROVE  Named(db')
<1>1. db \in Database
  BY DEF DataOK
<1>2. db'.albums \subseteq db.albums => Named(db')
  BY DEF Named
<1>3. CASE \/ MkdirNew(p) \/ CreateFile(p) \/ ReleaseTags(p) \/ RemoveFile(p)
           \/ MoveArtist(p) \/ MoveAlbum(p) \/ RenameFile(p) \/ SetMp3Tags(p)
           \/ GetMp3Tags(p) \/ DropFileInto(p)
  BY <1>2, <1>3
     DEF MkdirNew, CreateFile, ReleaseTags, RemoveFile, MoveArtist, MoveAlbum,
         RenameFile, SetMp3Tags, GetMp3Tags, DropFileInto, Syscall
<1>4. CASE \/ ReleaseSong(p) \/ GetFilePath(p) \/ Victims(p) \/ MoveSongs(p)
           \/ AddPath(p) \/ Regenerate(p)
  BY <1>2, <1>4 DEF ReleaseSong, GetFilePath, Victims, MoveSongs, AddPath, Regenerate
<1>5. CASE CreateArtist(p) \/ DropArtist(p) \/ NewArtist(p)
  <2>1. \/ db' = db \/ \E a : db' = CreateArtistTx(db, a)
        \/ \E new, old : db' = ProcessNewArtistTx(db, new, old)
    BY <1>5 DEF CreateArtist, DropArtist, NewArtist, Refuse
  <2>2. \A a : CreateArtistTx(db, a).albums = db.albums
    BY <1>1 DEF CreateArtistTx, Database
  <2>3. \A new, old : ProcessNewArtistTx(db, new, old).albums = db.albums
    BY <1>1 DEF ProcessNewArtistTx, Database
  <2> QED
    BY <1>2, <2>1, <2>2, <2>3
<1>6. CASE CreateAlbum(p) \/ DropAlbum(p)
  <2>1. db' = db \/ \E ab : ab[2] # NoName /\ db' = CreateAlbumTx(db, ab)
    BY <1>6 DEF CreateAlbum, DropAlbum, Refuse
  <2>2. \A ab : CreateAlbumTx(db, ab).albums = db.albums \cup {ab}
    BY <1>1 DEF CreateAlbumTx, Database
  <2> QED
    BY <1>2, <2>1, <2>2 DEF Named
<1>7. CASE NewAlbum(p)
  <2>1. db' = db \/ \E new, old : new[2] # NoName /\ db' = ProcessNewAlbumTx(db, new, old)
    BY <1>7 DEF NewAlbum
  <2>2. \A new, old : ProcessNewAlbumTx(db, new, old).albums = db.albums \cup {new}
    BY <1>1 DEF ProcessNewAlbumTx, Database
  <2> QED
    BY <1>2, <2>1, <2>2 DEF Named
<1>8. CASE CreateSong(p) \/ CreateNew(p) \/ DropSong(p) \/ DeleteSong(p) \/ DeleteOld(p)
  <2>1. \/ db' = db \/ \E k, path : db' = CreateSongTx(db, k, path)
        \/ \E k : db' = DeleteSongTx(db, k)
    BY <1>8 DEF CreateSong, CreateNew, DropSong, DeleteSong, DeleteOld, DeleteSongThen, Refuse
  <2>2. /\ \A k, path : CreateSongTx(db, k, path).albums = db.albums
        /\ \A k : DeleteSongTx(db, k).albums = db.albums
    BY <1>1 DEF CreateSongTx, DeleteSongTx, Database
  <2> QED
    BY <1>2, <2>1, <2>2
<1>9. CASE DeleteArtist(p) \/ EndArtist(p) \/ DeleteAlbum(p) \/ EndAlbum(p)
  <2>1. \/ db' = db \/ \E a : db' = DeleteArtistBucket(db, a)
        \/ \E ab : db' = DeleteAlbumBucket(db, ab)
    BY <1>9 DEF DeleteArtist, EndArtist, DeleteAlbum, EndAlbum, Refuse
  <2>2. /\ \A a : DeleteArtistBucket(db, a).albums \subseteq db.albums
        /\ \A ab : DeleteAlbumBucket(db, ab).albums \subseteq db.albums
    BY <1>1 DEF DeleteArtistBucket, DeleteAlbumBucket, Database
  <2> QED
    BY <1>2, <2>1, <2>2
<1>10. CASE Unlist(p) \/ AddEntry(p)
  <2>1. \/ db' = db \/ \E pl, title : db' = UnlistTx(db, pl, title)
        \/ \E pl, k, path : db' = AddFileToPlaylistTx(db, pl, k, path)
    BY <1>10 DEF Unlist, AddEntry
  <2>2. /\ \A pl, title : UnlistTx(db, pl, title).albums = db.albums
        /\ \A pl, k, path : AddFileToPlaylistTx(db, pl, k, path).albums = db.albums
    BY <1>1 DEF UnlistTx, AddFileToPlaylistTx, Database
  <2> QED
    BY <1>2, <2>1, <2>2
<1> QED
  BY <1>3, <1>4, <1>5, <1>6, <1>7, <1>8, <1>9, <1>10 DEF Step

LEMMA StepSongsHoused ==
    ASSUME ControlOK, DataOK, SongsHoused(db), NEW p \in Process, Step(p)
    PROVE  SongsHoused(db')
<1>1. CASE LeavesLinks(db, db')
  BY <1>1 DEF LeavesLinks
<1>2. CASE Unlist(p)
  <2>1. PICK pl, title : db' = UnlistTx(db, pl, title)
    BY <1>2 DEF Unlist
  <2>2. db'.songs = db.songs /\ db'.albums = db.albums
    BY <2>1 DEF UnlistTx, DataOK, Database
  <2> QED
    BY <2>2 DEF SongsHoused
<1>3. CASE AddEntry(p)
  <2> DEFINE pl == Head(loc[p].todo)
             to == loc[p].to
             e  == AddFileToPlaylistTx(db, pl, to, loc[p].path)
  <2>1. pc[p] = "AddEntry"
    BY <1>3 DEF AddEntry, Session
  <2>2. pl \in Playlist /\ to \in SongKey /\ db \in Database
    BY <2>1, HeadOfTodo DEF DataOK
  <2>3. db' = db \/ (db.songs[to] # NoSong /\ db' = e)
    BY <1>3 DEF AddEntry
  <2>4. db.songs[to] # NoSong => SamePaths(db, e)
    <3> HIDE DEF pl, to
    <3> QED
      BY <2>2, AddFileSamePaths
  <2>5. e.albums = db.albums
    BY <2>2 DEF AddFileToPlaylistTx, Database
  <2> HIDE DEF e, pl, to
  <2> QED
    BY <2>3, <2>4, <2>5 DEF SongsHoused, SamePaths
<1> QED
  BY <1>1, <1>2, <1>3, StepLinks

\* A song that is created lies where MuLi puts it.
LEMMA NextStrays ==
    ASSUME ControlOK, DataOK, [Next]_vars
    PROVE  Strays(db') \subseteq Strays(db)
<1>1. CASE KeepsPaths(db, db')
  BY <1>1 DEF KeepsPaths, Strays
<1>2. ASSUME NEW k \in SongKey, CreatesAt(k) PROVE Strays(db') \subseteq Strays(db)
  BY <1>2, CreateSongPaths DEF CreatesAt, Strays, DataOK
<1> QED
  BY <1>1, <1>2, NextPaths DEF PathsStep, Creates

\* MoveArtist has made a directory for an artist that is not there.
LEMMA TargetNew ==
    ASSUME Sequential, OrderOK
    PROVE  TargetsFree
<1>1. ASSUME pc[Sole] = "NewArtist" PROVE Compat[loc[Sole].to[1]] \notin db.artists
  <2>1. loc[Sole].to \in ArtistKey /\ loc[Sole].to[1] \notin db.artists
    BY <1>1, OrderOf DEF Shape, Carried
  <2>2. loc[Sole].to[1] \in DirName
    BY <2>1 DEF ArtistKey
  <2> QED
    BY <2>1, <2>2, SameNames
<1>2. pc[Dispatcher] # "NewArtist"
  BY DEF OrderOK
<1> QED
  BY <1>1, <1>2, SoleClient DEF TargetsFree, TargetFree

LEMMA SoleStep ==
    ASSUME Sequential, OrderOK, [Next]_vars
    PROVE  Step(Sole) \/ (\E r \in Requests : Start(Sole, r)) \/ UNCHANGED vars
<1>1. ~Step(Dispatcher)
  BY StepBusy, SoleClient DEF OrderOK
<1>2. \A r \in Requests : ~Start(Dispatcher, r)
  BY DEF Start, Sequential
<1> QED
  BY <1>1, <1>2, SoleClient DEF Next, Finished

LEMMA NextOrder ==
    ASSUME Sequential, OrderOK, [Next]_vars
    PROVE  OrderOK'
<1>1. TreeOK /\ ControlOK /\ DataOK /\ db \in Database
  BY OrderOf DEF OrderOK
<1>2. TreeOK'
  BY <1>1, TargetNew, NextTree
<1>3. Filed(db')
  BY <1>1, NextFiled DEF OrderOK, Filed
<1>4. SongsHoused(db')
  BY <1>1, SoleStep, SoleClient, StepSongsHoused DEF OrderOK, Start, vars
<1>5. Named(db')
  BY <1>1, SoleStep, SoleClient, StepNames DEF OrderOK, Start, vars
<1>6. Strays(db') \subseteq Found
  BY <1>1, NextStrays DEF OrderOK
<1>7. pc'[Dispatcher] = "idle"
  <2>1. ASSUME Step(Sole) \/ \E r \in Requests : Start(Sole, r) PROVE pc'[Dispatcher] = pc[Dispatcher]
    BY <1>1, <2>1, SoleClient, StepLocal, GoesOnLocal DEF Start, GoesOn, Local
  <2> QED
    BY <2>1, SoleStep DEF OrderOK, vars
<1>8. Order(Sole)'
  <2>1. UNCHANGED vars => Order(Sole)'
    BY DEF vars, OrderOK, Order
  <2> QED
    BY <2>1, SoleStep, StepOrder, StartOrder
<1> QED
  BY <1>2, <1>3, <1>4, <1>5, <1>6, <1>7, <1>8 DEF OrderOK, Filed, SongsHoused, Named, Strays

LEMMA InitOrder ==
    ASSUME Sequential, Init
    PROVE  OrderOK
<1>1. PICK i \in Initial : db = i.db /\ disk = i.disk
  BY DEF Init
<1>2. TreeOK /\ Filed(db)
  BY InitTree, InitFiled
<1>3. SongsHoused(db)
  BY <1>1, InitialAssumption DEF SongsHoused
<1>4. Named(db) /\ Settled(db, disk)
  BY <1>1 DEF Sequential
<1>5. Strays(db) \subseteq Found
  BY <1>1 DEF Found
<1>6. /\ pc[Dispatcher] = "idle" /\ pc[Sole] = "idle"
      /\ Sole \in Process
  BY SoleClient DEF Init
<1>7. Order(Sole)
  BY <1>4, <1>6, PlainOrder DEF Plain, Order
<1> QED
  BY <1>2, <1>3, <1>4, <1>5, <1>6, <1>7 DEF OrderOK

LEMMA QuietOrder ==
    ASSUME Sequential, OrderOK, Quiet
    PROVE  Settled(db, disk) /\ Filed(db)
<1>1. pc[Sole] = "idle"
  BY SoleClient DEF Quiet
<1> QED
  BY <1>1, OrderOf DEF InHand

----------------------------------------------------------------------------
(***************************************************************************)
(* Between the requests of one client the songs of the library are the     *)
(* music files: no record is left without its file and no file without a   *)
(* record, whatever the client made, released, removed and renamed, and in *)
(* whatever order, as long as its requests are among those of Sequential.  *)
(***************************************************************************)
THEOREM InventoryHolds ==
    ASSUME Sequential
    PROVE  Spec => []Inventory
<1>1. OrderOK => Inventory
  <2> SUFFICES ASSUME OrderOK, Quiet
               PROVE  SongPaths = {f \in Path \ DropFile : disk[f] # NoFile}
    BY DEF Inventory
  <2>1. Settled(db, disk) /\ Filed(db)
    BY QuietOrder
  <2>2. \A x : x \in SongPaths <=> HasSong(db, x)
    BY DEF SongPaths, HasSong
  <2>3. \A x : HasSong(db, x) => x \in Place
    BY <2>1, NotInDrop DEF HasSong, Filed, Place, Path
  <2> QED
    BY <2>1, <2>2, <2>3 DEF Settled, Even, FileAt, Place
<1>2. Init => OrderOK
  BY InitOrder
<1>3. OrderOK /\ [Next]_vars => OrderOK'
  BY NextOrder
<1> QED
  BY <1>1, <1>2, <1>3, PTL DEF Spec

(***************************************************************************)
(* Between the requests of one client a file in the place where MuLi puts  *)
(* a song has the tags of that place, if it has any: Release writes them   *)
(* into the file of a new song, and a move rewrites them before the song   *)
(* is stored under its new names.                                          *)
(***************************************************************************)
THEOREM TagsFollowHolds ==
    ASSUME Sequential
    PROVE  Spec => []TagsFollow
<1>1. OrderOK => TagsFollow
  BY QuietOrder DEF TagsFollow, Settled, Labelled, NamedAfter
<1>2. Init => OrderOK
  BY InitOrder
<1>3. OrderOK /\ [Next]_vars => OrderOK'
  BY NextOrder
<1> QED
  BY <1>1, <1>2, <1>3, PTL DEF Spec
=============================================================================
