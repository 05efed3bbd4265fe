---------------------------- MODULE ShelfProofs ----------------------------
(***************************************************************************)
(* One client at a time: Library implements Shelf (ImplementsShelf), under *)
(* the hypotheses Sequential and Furnished of module OneClient.            *)
(*                                                                         *)
(* The argument.  Result is what Shelf says that a request makes of the    *)
(* tree.  From the moment that a request is asked to the moment that it is *)
(* answered, the Result of the tree as it is now stays the Result of the   *)
(* tree as it was (Promise): each session changes the tree in a way that   *)
(* the request is going to change it anyway, and a song that has left an   *)
(* old album and not yet come to the new one is counted where it was       *)
(* (InTransit).  And when the handler returns, nothing is left to do       *)
(* (Fixed): so the tree is the Result of what it was.  That nothing is     *)
(* left rests on what the handler has found and where it is going (Aimed), *)
(* on every artist and album having its directory (HasDirs), so that no    *)
(* rename fails half way, and on what OrderOK says of the songs.           *)
(***************************************************************************)
EXTENDS SequentialProofs

----------------------------------------------------------------------------
(* What a request makes of a tree.                                         *)

\* The database as a shelf.
Tree(d) == [ artists |-> d.artists,
             albums  |-> d.albums,
             songs   |-> {k \in SongKey : d.songs[k] # NoSong},
             strays  |-> Strays(d) ]

MadeArtist(t, a) ==
    [ artists |-> t.artists \cup {a}, albums |-> t.albums, songs |-> t.songs, strays |-> t.strays ]

MadeAlbum(t, x) ==
    [ artists |-> t.artists, albums |-> t.albums \cup {x}, songs |-> t.songs, strays |-> t.strays ]

MadeSongs(t, ks) ==
    [ artists |-> t.artists, albums |-> t.albums, songs |-> t.songs \cup ks, strays |-> t.strays ]

RemovedArtist(t, a) ==
    [ artists |-> t.artists \ {a},
      albums  |-> {x \in t.albums : x[1] # a},
      songs   |-> {k \in t.songs : k[1] # a},
      strays  |-> {k \in t.strays : k[1] # a} ]

RemovedAlbum(t, x) ==
    [ artists |-> t.artists,
      albums  |-> t.albums \ {x},
      songs   |-> {k \in t.songs : AlbumOf(k) # x},
      strays  |-> {k \in t.strays : AlbumOf(k) # x} ]

RemovedSong(t, k) ==
    [ artists |-> t.artists, albums |-> t.albums,
      songs   |-> t.songs \ {k}, strays |-> t.strays \ {k} ]

\* Where an album and a song go when artist a becomes b, and a song when
\* album x becomes y.
AlbumTo(a, b, x) == IF x[1] = a THEN <<b, x[2]>> ELSE x

SongTo(a, b, k) == IF k[1] = a THEN <<b, k[2], k[3]>> ELSE k

SongInto(x, y, k) == IF AlbumOf(k) = x THEN <<y[1], y[2], k[3]>> ELSE k

RenamedArtist(t, a, b) ==
    [ artists |-> (t.artists \ {a}) \cup {b},
      albums  |-> {AlbumTo(a, b, x) : x \in t.albums},
      songs   |-> {SongTo(a, b, k) : k \in t.songs},
      strays  |-> {k \in t.strays : k[1] # a} ]

RenamedAlbum(t, x, y) ==
    [ artists |-> t.artists,
      albums  |-> (t.albums \ {x}) \cup {y},
      songs   |-> {SongInto(x, y, k) : k \in t.songs},
      strays  |-> {k \in t.strays : AlbumOf(k) # x} ]

RenamedSong(t, k, l) ==
    [ artists |-> t.artists, albums |-> t.albums,
      songs   |-> IF k \in t.strays THEN t.songs ELSE (t.songs \ {k}) \cup {l},
      strays  |-> IF k \in t.strays THEN t.strays ELSE t.strays \ {l} ]

Asks(r, op, n) == r.op = op /\ Len(r.from) = n

Makes(r, n) == r.op = "mkdir" /\ Len(r.to) = n

Result(t, r) ==
    CASE Makes(r, 1)          -> MadeArtist(t, r.to[1])
      [] Makes(r, 2)          -> MadeAlbum(t, r.to)
      [] r.op = "create"      -> MadeSongs(t, {r.to})
      [] r.op = "release"     -> t
      [] Asks(r, "remove", 1) -> RemovedArtist(t, r.from[1])
      [] Asks(r, "remove", 2) -> RemovedAlbum(t, r.from)
      [] Asks(r, "remove", 3) -> RemovedSong(t, r.from)
      [] Asks(r, "rename", 1) -> RenamedArtist(t, r.from[1], r.to[1])
      [] Asks(r, "rename", 2) -> RenamedAlbum(t, r.from, r.to)
      [] Asks(r, "rename", 3) -> RenamedSong(t, r.from, r.to)

\* Nothing is left to do for r.
Fixed(t, r) == Result(t, r) = t

LEMMA Results ==
    ASSUME NEW t, NEW r
    PROVE  /\ Makes(r, 1) => Result(t, r) = MadeArtist(t, r.to[1])
           /\ Makes(r, 2) => Result(t, r) = MadeAlbum(t, r.to)
           /\ r.op = "create" => Result(t, r) = MadeSongs(t, {r.to})
           /\ r.op = "release" => Result(t, r) = t
           /\ Asks(r, "remove", 1) => Result(t, r) = RemovedArtist(t, r.from[1])
           /\ Asks(r, "remove", 2) => Result(t, r) = RemovedAlbum(t, r.from)
           /\ Asks(r, "remove", 3) => Result(t, r) = RemovedSong(t, r.from)
           /\ Asks(r, "rename", 1) => Result(t, r) = RenamedArtist(t, r.from[1], r.to[1])
           /\ Asks(r, "rename", 2) => Result(t, r) = RenamedAlbum(t, r.from, r.to)
           /\ Asks(r, "rename", 3) => Result(t, r) = RenamedSong(t, r.from, r.to)
  BY DEF Result, Makes, Asks

\* The requests of the one client.
LEMMA RequestKinds ==
    ASSUME Sequential, NEW r \in Requests
    PROVE  /\ r \in Request /\ r # NoRequest /\ NoName \notin ToSet(r.to)
           /\ \/ Makes(r, 1) \/ Makes(r, 2)
              \/ r.op = "create" /\ Len(r.to) = 3
              \/ r.op = "release" /\ Len(r.from) = 3
              \/ Asks(r, "remove", 1) \/ Asks(r, "remove", 2) \/ Asks(r, "remove", 3)
              \/ \E n \in {1, 2, 3} : Asks(r, "rename", n) /\ Len(r.to) = n
  BY LibraryAssumption DEF Sequential, WellFormed, NoRequest, Asks, Makes

\* How Shelf names the album of a song, and puts a song into another one.
LEMMA OnAlbum ==
    ASSUME NEW k \in SongKey
    PROVE  /\ Promised!On(k) = AlbumOf(k)
           /\ \A y \in AlbumKey : Append(y, k[3]) = <<y[1], y[2], k[3]>>
<1> DEFINE S == DirName \cup TitleName
<1>1. k[1] \in DirName /\ k[2] \in DirName /\ k[3] \in TitleName /\ k = <<k[1], k[2], k[3]>>
  BY KeyParts
<1>2. SubSeq(k, 1, 2) = <<k[1], k[2]>>
  <2>1. \A i \in 1 .. 2 : k[i] \in S
    <3>1. \A i \in 1 .. 2 : i = 1 \/ i = 2
      OBVIOUS
    <3> QED
      BY <1>1, <3>1
  <2>2. /\ SubSeq(k, 1, 2) \in Seq(S) /\ Len(SubSeq(k, 1, 2)) = 2
        /\ SubSeq(k, 1, 2)[1] = k[1] /\ SubSeq(k, 1, 2)[2] = k[2]
    BY <2>1, SubSeqProperties
  <2>3. <<k[1], k[2]>> \in Seq(S) /\ Len(<<k[1], k[2]>>) = 2
    BY <1>1
  <2>4. \A i \in 1 .. 2 : SubSeq(k, 1, 2)[i] = <<k[1], k[2]>>[i]
    BY <2>2
  <2> HIDE DEF S
  <2> QED
    BY <2>2, <2>3, <2>4, SeqEqual
<1>3. ASSUME NEW y \in AlbumKey PROVE Append(y, k[3]) = <<y[1], y[2], k[3]>>
  <2>1. y[1] \in S /\ y[2] \in S /\ k[3] \in S /\ y = <<y[1], y[2]>>
    BY <1>1, KeyParts
  <2> HIDE DEF S
  <2>2. y \in Seq(S) /\ Len(y) = 2
    <3>1. <<y[1], y[2]>> \in Seq(S) /\ Len(<<y[1], y[2]>>) = 2
      BY <2>1
    <3> QED
      BY <2>1, <3>1
  <2>3. /\ Append(y, k[3]) \in Seq(S) /\ Len(Append(y, k[3])) = 3
        /\ Append(y, k[3])[1] = y[1] /\ Append(y, k[3])[2] = y[2] /\ Append(y, k[3])[3] = k[3]
    BY <2>1, <2>2, AppendProperties
  <2>4. <<y[1], y[2], k[3]>> \in Seq(S) /\ Len(<<y[1], y[2], k[3]>>) = 3
    BY <2>1
  <2>5. \A i \in 1 .. 3 : Append(y, k[3])[i] = <<y[1], y[2], k[3]>>[i]
    BY <2>3
  <2> QED
    BY <2>3, <2>4, <2>5, SeqEqual
<1> QED
  BY <1>2, <1>3 DEF Promised!On, AlbumOf

\* When the request is answered the shelf is the Result of what it was.
LEMMA AnswerGives ==
    ASSUME Sequential, NEW r \in Requests, Asked = r, Asked' = NoRequest,
           between.songs \subseteq SongKey, between.strays \subseteq SongKey,
           between' = Result(between, r)
    PROVE  Promised!Answer
<1>0. Asked # NoRequest
  BY RequestKinds
<1>1. CASE Makes(r, 1)
  <2>1. between' = MadeArtist(between, r.to[1])
    BY <1>1, Results
  <2>2. Promised!MakeArtist
    BY <1>1, <2>1 DEF Makes, MadeArtist, Promised!MakeArtist
  <2> QED
    BY <1>0, <2>2 DEF Promised!Answer
<1>2. CASE Makes(r, 2)
  <2>1. between' = MadeAlbum(between, r.to)
    BY <1>2, Results
  <2>2. Promised!MakeAlbum
    BY <1>2, <2>1 DEF Makes, MadeAlbum, Promised!MakeAlbum
  <2> QED
    BY <1>0, <2>2 DEF Promised!Answer
<1>3. CASE r.op = "create"
  <2>1. between' = MadeSongs(between, {r.to})
    BY <1>3, Results
  <2>2. Promised!MakeSong
    BY <1>3, <2>1 DEF MadeSongs, Promised!MakeSong
  <2> QED
    BY <1>0, <2>2 DEF Promised!Answer
<1>4. CASE r.op = "release"
  <2>1. between' = between
    BY <1>4, Results
  <2>2. Promised!CloseSong
    BY <1>4, <2>1 DEF Promised!CloseSong, Promised!shelf
  <2> QED
    BY <1>0, <2>2 DEF Promised!Answer
<1>5. CASE Asks(r, "remove", 1)
  <2>1. between' = RemovedArtist(between, r.from[1])
    BY <1>5, Results
  <2>2. Promised!RemoveArtist
    BY <1>5, <2>1 DEF Asks, RemovedArtist, Promised!RemoveArtist
  <2> QED
    BY <1>0, <2>2 DEF Promised!Answer
<1>6. CASE Asks(r, "remove", 2)
  <2>1. between' = RemovedAlbum(between, r.from)
    BY <1>6, Results
  <2>2. Promised!RemoveAlbum
    BY <1>6, <2>1, OnAlbum DEF Asks, RemovedAlbum, Promised!RemoveAlbum
  <2> QED
    BY <1>0, <2>2 DEF Promised!Answer
<1>7. CASE Asks(r, "remove", 3)
  <2>1. between' = RemovedSong(between, r.from)
    BY <1>7, Results
  <2>2. Promised!RemoveSong
    BY <1>7, <2>1 DEF Asks, RemovedSong, Promised!RemoveSong
  <2> QED
    BY <1>0, <2>2 DEF Promised!Answer
<1>8. CASE Asks(r, "rename", 1)
  <2>1. between' = RenamedArtist(between, r.from[1], r.to[1])
    BY <1>8, Results
  <2>2. Promised!RenameArtist
    BY <1>8, <2>1 DEF Asks, RenamedArtist, AlbumTo, SongTo, Promised!RenameArtist
  <2> QED
    BY <1>0, <2>2 DEF Promised!Answer
<1>9. CASE Asks(r, "rename", 2) /\ Len(r.to) = 2
  <2>1. between' = RenamedAlbum(between, r.from, r.to)
    BY <1>9, Results
  <2>2. r.to \in AlbumKey
    BY <1>9, RequestKinds, NodeByLength DEF Request
  <2> DEFINE Into(k) == IF Promised!On(k) = r.from THEN Append(r.to, k[3]) ELSE k
  <2>3. /\ \A k \in between.songs : Into(k) = SongInto(r.from, r.to, k)
        /\ \A k \in between.strays : Promised!On(k) = AlbumOf(k)
    BY <2>2, OnAlbum DEF SongInto
  <2> HIDE DEF Into
  <2>4. /\ between'.songs = {Into(k) : k \in between.songs}
        /\ between'.strays = {k \in between.strays : Promised!On(k) # r.from}
    BY <2>1, <2>3 DEF RenamedAlbum
  <2> USE DEF Into
  <2>5. Promised!RenameAlbum
    BY <1>9, <2>1, <2>4 DEF Asks, RenamedAlbum, Promised!RenameAlbum
  <2> QED
    BY <1>0, <2>5 DEF Promised!Answer
<1>10. CASE Asks(r, "rename", 3)
  <2>1. between' = RenamedSong(between, r.from, r.to)
    BY <1>10, Results
  <2>2. Promised!RenameSong
    BY <1>10, <2>1 DEF Asks, RenamedSong, Promised!RenameSong
  <2> QED
    BY <1>0, <2>2 DEF Promised!Answer
<1>11. \/ Makes(r, 1) \/ Makes(r, 2) \/ r.op = "create" \/ r.op = "release"
       \/ Asks(r, "remove", 1) \/ Asks(r, "remove", 2) \/ Asks(r, "remove", 3)
       \/ Asks(r, "rename", 1) \/ (Asks(r, "rename", 2) /\ Len(r.to) = 2) \/ Asks(r, "rename", 3)
  BY RequestKinds
<1> QED
  BY <1>1, <1>2, <1>3, <1>4, <1>5, <1>6, <1>7, <1>8, <1>9, <1>10, <1>11

----------------------------------------------------------------------------
(* What a handler still has to do, step by step.                           *)

\* The song that has left the old album of a directory that is renamed.
InTransit(step, f) ==
    IF step \in {"SetMp3Tags", "CreateNew"} /\ Len(f.req.from) # 3 THEN {f.from} ELSE {}

Whole(d, step, f) == MadeSongs(Tree(d), InTransit(step, f))

\* Each artist and album has its directory, but the one that is being made.
HasDirs(d, ds, step, f) ==
    /\ \A a \in d.artists : <<a>> \in ds \/ (step = "MkdirNew" /\ f.to = <<a>>)
    /\ \A x \in d.albums : x \in ds \/ (step = "MkdirNew" /\ f.to = x)

\* The steps of MoveSongs up to the one that stores the song again.
ToFile == NotGone \cup {"SetMp3Tags", "CreateNew"}

\* The steps at which the frame names what the request names.
Straight(step, r) ==
    \/ step \in {"CreateArtist", "CreateAlbum", "CreateSong", "GetFilePath", "DeleteSong",
                 "DeleteArtist", "DeleteAlbum", "MoveArtist", "NewArtist"}
    \/ step \in {"MoveAlbum", "NewAlbum"} /\ Len(r.from) = 2
    \/ step \in ToFile /\ Len(r.from) = 3

\* The request that a step is for, where Errand does not say it.
Serves(step, r) ==
    /\ step = "CreateAlbum" => Makes(r, 2)
    /\ step = "CreateSong" => r.op = "create"
    /\ step \in {"ReleaseSong", "ReleaseTags"} => r.op = "release"
    /\ step \in {"GetFilePath", "DeleteSong"} => Asks(r, "remove", 3)
    /\ step = "DeleteAlbum" => Asks(r, "remove", 2)
    /\ step = "DeleteArtist" => Asks(r, "remove", 1)
    /\ step = "EndArtist" => Asks(r, "rename", 1)

\* What the handler has found, and no step since has taken away.
Finds(d, step, f) ==
    /\ step = "CreateAlbum" => f.to[1] \in d.artists
    /\ step = "CreateSong" => HasAlbum(d, AlbumOf(f.to))
    /\ step \in {"MoveArtist", "NewArtist"} => f.from[1] \in d.artists
    /\ step \in {"MoveAlbum", "NewAlbum"} /\ Len(f.req.from) = 2 =>
          f.from \in d.albums /\ f.to[1] \in d.artists
    /\ step \in {"MoveSongs", "Unlist", "RenameFile"} /\ Len(f.req.from) = 3 =>
          d.songs[f.from] # NoSong
    /\ step = "DeleteOld" /\ Len(f.req.from) = 3 => f.path = f.from
    /\ step \in {"SetMp3Tags", "CreateNew"} /\ Len(f.req.from) = 3 => d.songs[f.from] = NoSong

\* The albums of the old artist are still to go, or at hand.
AlbumsToGo(d, f, current) ==
    \A x \in d.albums : x[1] = f.from[1] =>
        Contains(f.albums, x[2]) \/ (current /\ x[2] = f.from[2])

\* What the renaming of an artist is at, and where it takes the song at hand.
ArtistAim(d, step, f) ==
    LET a == f.req.from[1]
        b == f.req.to[1]
    IN
    /\ f.from[1] = a /\ f.to[1] = b
    /\ AlbumsToGo(d, f, step # "EndArtist")
    /\ step \in MoveSongsSteps => f.to = SongTo(a, b, f.from)

AlbumAim(step, f) ==
    /\ AlbumOf(f.from) = f.req.from /\ AlbumOf(f.to) = f.req.to
    /\ step \in MoveSongsSteps => f.to = SongInto(f.req.from, f.req.to, f.from)

InLoop == SongsLoop \cup {"MoveAlbum", "NewAlbum", "EndArtist"}

\* The steps after the last one that changes the tree.
DoneSteps == {"MkdirNew", "CreateFile", "RemoveFile", "Victims"}

Done(step, r) == step \in DoneSteps \/ (step \in Relisting /\ Len(r.from) = 3)

Aimed(d, step, f) ==
    /\ Straight(step, f.req) => f.from = f.req.from /\ f.to = f.req.to
    /\ Serves(step, f.req)
    /\ Finds(d, step, f)
    /\ step \in InLoop /\ Len(f.req.from) = 1 => ArtistAim(d, step, f)
    /\ step \in InLoop /\ Len(f.req.from) = 2 => AlbumAim(step, f)
    /\ Done(step, f.req) => Fixed(Tree(d), f.req)

Promise(b, d, step, f) ==
    /\ b.songs \subseteq SongKey /\ b.strays \subseteq SongKey
    /\ step = "idle" => b = Tree(d)
    /\ step # "idle" => f.req \in Requests
    /\ step \notin {"idle", "Nested"} =>
          Result(b, f.req) = Result(Whole(d, step, f), f.req) /\ Aimed(d, step, f)

ShelfOK ==
    /\ OrderOK
    /\ HasDirs(db, dirs, pc[Sole], loc[Sole])
    /\ Promise(between, db, pc[Sole], loc[Sole])

----------------------------------------------------------------------------
(* What the transactions make of the tree.                                 *)

LEMMA SameTrees ==
    ASSUME NEW d, NEW e, SamePaths(d, e), e.artists = d.artists, e.albums = d.albums
    PROVE  Tree(e) = Tree(d)
<1>1. {k \in SongKey : e.songs[k] # NoSong} = {k \in SongKey : d.songs[k] # NoSong}
  BY DEF SamePaths
<1>2. Strays(e) = Strays(d)
  BY DEF SamePaths, Strays
<1> QED
  BY <1>1, <1>2 DEF Tree

LEMMA CreateTrees ==
    ASSUME NEW d \in Database
    PROVE  /\ \A a : Tree(CreateArtistTx(d, a)) = MadeArtist(Tree(d), a)
           /\ \A x : Tree(CreateAlbumTx(d, x)) = MadeAlbum(Tree(d), x)
           /\ \A new, old : Tree(ProcessNewArtistTx(d, new, old)) = MadeArtist(Tree(d), new)
           /\ \A new, old : Tree(ProcessNewAlbumTx(d, new, old)) = MadeAlbum(Tree(d), new)
           /\ \A pl, title : Tree(UnlistTx(d, pl, title)) = Tree(d)
<1>1. ASSUME NEW e, SamePaths(d, e), NEW a, e.artists = d.artists \cup {a}, e.albums = d.albums
      PROVE  Tree(e) = MadeArtist(Tree(d), a)
  BY <1>1 DEF SamePaths, Tree, Strays, MadeArtist
<1>2. ASSUME NEW e, SamePaths(d, e), NEW x, e.artists = d.artists, e.albums = d.albums \cup {x}
      PROVE  Tree(e) = MadeAlbum(Tree(d), x)
  BY <1>2 DEF SamePaths, Tree, Strays, MadeAlbum
<1>3. ASSUME NEW a PROVE Tree(CreateArtistTx(d, a)) = MadeArtist(Tree(d), a)
  <2> DEFINE e == CreateArtistTx(d, a)
  <2>1. SamePaths(d, e) /\ e.artists = d.artists \cup {a} /\ e.albums = d.albums
    BY AlbumsAddPaths DEF CreateArtistTx, Database
  <2> HIDE DEF e
  <2>2. Tree(e) = MadeArtist(Tree(d), a)
    BY <1>1, <2>1
  <2> QED
    BY <2>2 DEF e
<1>4. ASSUME NEW x PROVE Tree(CreateAlbumTx(d, x)) = MadeAlbum(Tree(d), x)
  <2> DEFINE e == CreateAlbumTx(d, x)
  <2>1. SamePaths(d, e) /\ e.artists = d.artists /\ e.albums = d.albums \cup {x}
    BY AlbumsAddPaths DEF CreateAlbumTx, Database
  <2> HIDE DEF e
  <2>2. Tree(e) = MadeAlbum(Tree(d), x)
    BY <1>2, <2>1
  <2> QED
    BY <2>2 DEF e
<1>5. ASSUME NEW new, NEW old PROVE Tree(ProcessNewArtistTx(d, new, old)) = MadeArtist(Tree(d), new)
  <2> DEFINE e == ProcessNewArtistTx(d, new, old)
  <2>1. SamePaths(d, e) /\ e.artists = d.artists \cup {new} /\ e.albums = d.albums
    BY AlbumsAddPaths DEF ProcessNewArtistTx, Database
  <2> HIDE DEF e
  <2>2. Tree(e) = MadeArtist(Tree(d), new)
    BY <1>1, <2>1
  <2> QED
    BY <2>2 DEF e
<1>6. ASSUME NEW new, NEW old PROVE Tree(ProcessNewAlbumTx(d, new, old)) = MadeAlbum(Tree(d), new)
  <2> DEFINE e == ProcessNewAlbumTx(d, new, old)
  <2>1. SamePaths(d, e) /\ e.artists = d.artists /\ e.albums = d.albums \cup {new}
    BY AlbumsAddPaths DEF ProcessNewAlbumTx, Database
  <2> HIDE DEF e
  <2>2. Tree(e) = MadeAlbum(Tree(d), new)
    BY <1>2, <2>1
  <2> QED
    BY <2>2 DEF e
<1>7. ASSUME NEW pl, NEW title PROVE Tree(UnlistTx(d, pl, title)) = Tree(d)
  <2> DEFINE e == UnlistTx(d, pl, title)
  <2>1. SamePaths(d, e) /\ e.artists = d.artists /\ e.albums = d.albums
    BY AlbumsAddPaths DEF UnlistTx, Database
  <2> HIDE DEF e
  <2>2. Tree(e) = Tree(d)
    BY <2>1, SameTrees
  <2> QED
    BY <2>2 DEF e
<1> QED
  BY <1>3, <1>4, <1>5, <1>6, <1>7

\* A song that is created lies where MuLi puts it.
LEMMA CreateSongTree ==
    ASSUME NEW d \in Database, NEW k \in SongKey, NEW e, e = CreateSongTx(d, k, k)
    PROVE  /\ Tree(e).artists = Tree(d).artists /\ Tree(e).albums = Tree(d).albums
           /\ Tree(e).songs = Tree(d).songs \cup {k} /\ Tree(e).strays = Tree(d).strays \ {k}
<1>1. e.artists = d.artists /\ e.albums = d.albums
  BY DEF CreateSongTx, Database
<1>2. /\ e.songs[k] # NoSong /\ e.songs[k].path = k
      /\ \A l \in SongKey : l # k => e.songs[l] = d.songs[l]
  <2>1. [path |-> k, lists |-> <<>>] # NoSong
    <3>1. [path |-> k, lists |-> <<>>] \in [path : SongKey \cup OtherPath, lists : Seq(Playlist)]
      OBVIOUS
    <3> QED
      BY <3>1, SentinelAssumption
  <2> QED
    BY <2>1 DEF CreateSongTx, Database
<1>3. Strays(e) = Strays(d) \ {k}
  BY <1>2 DEF Strays
<1> QED
  BY <1>1, <1>2, <1>3 DEF Tree

LEMMA DeleteTrees ==
    ASSUME NEW d \in Database
    PROVE  /\ \A k \in SongKey : Tree(DeleteSongTx(d, k)) = RemovedSong(Tree(d), k)
           /\ \A x : Tree(DeleteAlbumBucket(d, x)) = RemovedAlbum(Tree(d), x)
           /\ \A a : Tree(DeleteArtistBucket(d, a)) = RemovedArtist(Tree(d), a)
<1>1. ASSUME NEW e, NEW gone, Removes(d, e, gone)
      PROVE  /\ {k \in SongKey : e.songs[k] # NoSong} = {k \in SongKey : d.songs[k] # NoSong /\ k \notin gone}
             /\ Strays(e) = {k \in Strays(d) : k \notin gone}
  BY <1>1 DEF Removes, Strays
<1>2. ASSUME NEW k \in SongKey PROVE Tree(DeleteSongTx(d, k)) = RemovedSong(Tree(d), k)
  <2> DEFINE e == DeleteSongTx(d, k)
  <2>1. Removes(d, e, {k}) /\ e.artists = d.artists /\ e.albums = d.albums
    BY DeletesRemove DEF DeleteSongTx, Database
  <2> HIDE DEF e
  <2>2. /\ {l \in SongKey : e.songs[l] # NoSong} = {l \in SongKey : d.songs[l] # NoSong} \ {k}
        /\ Strays(e) = Strays(d) \ {k}
    BY <2>1 DEF Removes, Strays
  <2>3. Tree(e) = RemovedSong(Tree(d), k)
    BY <2>1, <2>2 DEF Tree, RemovedSong
  <2> QED
    BY <2>3 DEF e
<1>3. ASSUME NEW x PROVE Tree(DeleteAlbumBucket(d, x)) = RemovedAlbum(Tree(d), x)
  <2> DEFINE e == DeleteAlbumBucket(d, x)
             gone == {k \in SongKey : AlbumOf(k) = x}
  <2>1. Removes(d, e, gone) /\ e.artists = d.artists /\ e.albums = d.albums \ {x}
    BY DeletesRemove DEF DeleteAlbumBucket, Database
  <2> HIDE DEF e
  <2>2. /\ {k \in SongKey : e.songs[k] # NoSong} = {k \in SongKey : d.songs[k] # NoSong /\ k \notin gone}
        /\ Strays(e) = {k \in Strays(d) : k \notin gone}
    BY <1>1, <2>1
  <2>3. Tree(e) = RemovedAlbum(Tree(d), x)
    BY <2>1, <2>2 DEF Tree, RemovedAlbum, Strays
  <2> QED
    BY <2>3 DEF e
<1>4. ASSUME NEW a PROVE Tree(DeleteArtistBucket(d, a)) = RemovedArtist(Tree(d), a)
  <2> DEFINE e == DeleteArtistBucket(d, a)
             gone == {k \in SongKey : k[1] = a}
  <2>1. Removes(d, e, gone) /\ e.artists = d.artists \ {a} /\ e.albums = {x \in d.albums : x[1] # a}
    <3>1. Removes(d, e, gone)
      BY DeletesRemove
    <3>2. e.artists = d.artists \ {a} /\ e.albums = {x \in d.albums : x[1] # a}
      BY DEF DeleteArtistBucket, Database
    <3> QED
      BY <3>1, <3>2
  <2> HIDE DEF e
  <2>2. /\ {k \in SongKey : e.songs[k] # NoSong} = {k \in SongKey : d.songs[k] # NoSong /\ k \notin gone}
        /\ Strays(e) = {k \in Strays(d) : k \notin gone}
    BY <1>1, <2>1
  <2>3. Tree(e) = RemovedArtist(Tree(d), a)
    BY <2>1, <2>2 DEF Tree, RemovedArtist, Strays
  <2> QED
    BY <2>3 DEF e
<1> QED
  BY <1>2, <1>3, <1>4

----------------------------------------------------------------------------
(* Each artist and each album has its directory.                           *)

\* A step that makes neither, and that is not about to make a directory.
Builds == {"CreateArtist", "CreateAlbum", "MkdirNew", "NewArtist", "NewAlbum"}

LEMMA StepShrinks ==
    ASSUME Sequential, OrderOK, Step(Sole), pc[Sole] \notin Builds
    PROVE  db'.artists \subseteq db.artists /\ db'.albums \subseteq db.albums /\ dirs \subseteq dirs'
<1>1. db \in Database
  BY OrderOf
<1>2. ~(\/ CreateArtist(Sole) \/ CreateAlbum(Sole) \/ MkdirNew(Sole) \/ NewArtist(Sole)
        \/ NewAlbum(Sole))
  BY DEF CreateArtist, CreateAlbum, MkdirNew, NewArtist, NewAlbum, Session, Syscall, Builds
<1>3. CASE \/ CreateFile(Sole) \/ ReleaseTags(Sole) \/ RemoveFile(Sole) \/ MoveArtist(Sole)
           \/ MoveAlbum(Sole) \/ RenameFile(Sole) \/ SetMp3Tags(Sole)
  BY <1>3 DEF CreateFile, ReleaseTags, RemoveFile, MoveArtist, MoveAlbum, RenameFile, SetMp3Tags,
              Syscall, MkdirAll
<1>4. CASE \/ ReleaseSong(Sole) \/ GetFilePath(Sole) \/ Victims(Sole) \/ MoveSongs(Sole)
           \/ AddPath(Sole) \/ Regenerate(Sole)
  BY <1>4 DEF ReleaseSong, GetFilePath, Victims, MoveSongs, AddPath, Regenerate, files
<1>5. CASE \/ CreateSong(Sole) \/ CreateNew(Sole) \/ DeleteSong(Sole) \/ DeleteOld(Sole)
           \/ Unlist(Sole) \/ AddEntry(Sole)
  <2>1. /\ dirs' = dirs
        /\ \/ db' = db \/ \E k, path : db' = CreateSongTx(db, k, path)
           \/ \E k : db' = DeleteSongTx(db, k)
           \/ \E pl, title : db' = UnlistTx(db, pl, title)
           \/ \E pl, k, path : db' = AddFileToPlaylistTx(db, pl, k, path)
    BY <1>5 DEF CreateSong, CreateNew, DeleteSong, DeleteOld, DeleteSongThen, Refuse, Unlist,
                AddEntry, files
  <2>2. \/ db' = db
        \/ db'.artists = db.artists /\ db'.albums = db.albums
    BY <1>1, <2>1 DEF CreateSongTx, DeleteSongTx, UnlistTx, AddFileToPlaylistTx, Database
  <2> QED
    BY <2>1, <2>2
<1>6. CASE DeleteArtist(Sole) \/ EndArtist(Sole) \/ DeleteAlbum(Sole) \/ EndAlbum(Sole)
  <2>1. /\ dirs' = dirs
        /\ \/ db' = db \/ \E a : db' = DeleteArtistBucket(db, a)
           \/ \E ab : db' = DeleteAlbumBucket(db, ab)
    BY <1>6 DEF DeleteArtist, EndArtist, DeleteAlbum, EndAlbum, Refuse, RemoveVictims, files
  <2>2. /\ \A a : /\ DeleteArtistBucket(db, a).artists \subseteq db.artists
                  /\ DeleteArtistBucket(db, a).albums \subseteq db.albums
        /\ \A ab : /\ DeleteAlbumBucket(db, ab).artists = db.artists
                   /\ DeleteAlbumBucket(db, ab).albums \subseteq db.albums
    BY <1>1 DEF DeleteArtistBucket, DeleteAlbumBucket, Database
  <2> QED
    BY <2>1, <2>2
<1> QED
  BY <1>2, <1>3, <1>4, <1>5, <1>6, NothingDropped DEF Step

LEMMA StepDirs ==
    ASSUME Sequential, OrderOK, HasDirs(db, dirs, pc[Sole], loc[Sole]), Step(Sole)
    PROVE  HasDirs(db', dirs', pc'[Sole], loc'[Sole])
<1> DEFINE f == loc[Sole]
<1>1. /\ ControlOK /\ db \in Database /\ Sole \in Process /\ f \in Frame /\ Shape(pc[Sole], f)
      /\ Carried(db, dirs, pc[Sole], f)
  BY OrderOf, SoleClient
<1>2. CASE pc[Sole] \notin Builds
  BY <1>2, StepShrinks DEF HasDirs, Builds
<1>3. CASE MkdirNew(Sole)
  <2>1. db' = db /\ dirs' = dirs \cup {<<f.to[1]>>, f.to}
    BY <1>3 DEF MkdirNew, Syscall
  <2> QED
    BY <2>1 DEF HasDirs
<1>4. CASE CreateArtist(Sole)
  <2> DEFINE a == Compat[f.to[1]]
             g == [f EXCEPT !.to = <<a>>]
  <2>1. /\ dirs' = dirs /\ pc[Sole] = "CreateArtist"
        /\ \/ db' = db
           \/ db' = CreateArtistTx(db, a) /\ Goto(Sole, "MkdirNew", g)
    BY <1>4 DEF CreateArtist, Refuse, files, Session
  <2>2. CASE db' = CreateArtistTx(db, a) /\ Goto(Sole, "MkdirNew", g)
    <3>1. g.to = <<a>>
      BY <1>1 DEF Frame
    <3>2. pc'[Sole] = "MkdirNew" /\ loc'[Sole] = g
      BY <1>1, <2>2 DEF Goto, ControlOK
    <3>3. db'.artists = db.artists \cup {a} /\ db'.albums = db.albums
      BY <1>1, <2>2 DEF CreateArtistTx, Database
    <3> HIDE DEF a, g
    <3> QED
      BY <2>1, <3>1, <3>2, <3>3 DEF HasDirs
  <2> QED
    BY <2>1, <2>2 DEF HasDirs
<1>5. CASE CreateAlbum(Sole)
  <2> DEFINE x == <<f.to[1], Compat[f.to[2]]>>
             g == [f EXCEPT !.to = x]
  <2>1. /\ dirs' = dirs /\ pc[Sole] = "CreateAlbum"
        /\ \/ db' = db
           \/ db' = CreateAlbumTx(db, x) /\ Goto(Sole, "MkdirNew", g)
    BY <1>5 DEF CreateAlbum, Refuse, files, Session
  <2>2. CASE db' = CreateAlbumTx(db, x) /\ Goto(Sole, "MkdirNew", g)
    <3>1. g.to = x
      BY <1>1 DEF Frame
    <3>2. pc'[Sole] = "MkdirNew" /\ loc'[Sole] = g
      BY <1>1, <2>2 DEF Goto, ControlOK
    <3>3. db'.artists = db.artists /\ db'.albums = db.albums \cup {x}
      BY <1>1, <2>2 DEF CreateAlbumTx, Database
    <3> HIDE DEF x, g
    <3> QED
      BY <2>1, <3>1, <3>2, <3>3 DEF HasDirs
  <2> QED
    BY <2>1, <2>2 DEF HasDirs
<1>6. CASE NewArtist(Sole)
  <2>1. pc[Sole] = "NewArtist" /\ dirs' = dirs
    BY <1>6 DEF NewArtist, Session, files
  <2>2. f.to \in ArtistKey /\ f.to \in dirs
    BY <1>1, <2>1 DEF Shape, Carried
  <2>3. Compat[f.to[1]] = f.to[1] /\ f.to = <<f.to[1]>>
    BY <2>2, SameNames, KeyParts DEF ArtistKey
  <2>4. db' = db \/ db' = ProcessNewArtistTx(db, f.to[1], f.from[1])
    BY <1>6, <2>3 DEF NewArtist
  <2>5. db'.artists \subseteq db.artists \cup {f.to[1]} /\ db'.albums = db.albums
    BY <1>1, <2>4 DEF ProcessNewArtistTx, Database
  <2> QED
    BY <2>1, <2>2, <2>3, <2>5 DEF HasDirs
<1>7. CASE NewAlbum(Sole)
  <2>1. pc[Sole] = "NewAlbum" /\ dirs' = dirs
    BY <1>7 DEF NewAlbum, Session, files
  <2>2. f.to \in AlbumKey /\ f.to \in dirs
    BY <1>1, <2>1 DEF Shape, Carried
  <2>3. <<f.to[1], Compat[f.to[2]]>> = f.to
    BY <2>2, SameNames, KeyParts
  <2>4. db' = db \/ db' = ProcessNewAlbumTx(db, f.to, f.from)
    BY <1>7, <2>3 DEF NewAlbum
  <2>5. db'.artists = db.artists /\ db'.albums \subseteq db.albums \cup {f.to}
    BY <1>1, <2>4 DEF ProcessNewAlbumTx, Database
  <2> QED
    BY <2>1, <2>2, <2>5 DEF HasDirs
<1>8. pc[Sole] \in Builds => \/ MkdirNew(Sole) \/ CreateArtist(Sole) \/ CreateAlbum(Sole)
                             \/ NewArtist(Sole) \/ NewAlbum(Sole)
  BY NothingDropped DEF Builds, Step, CreateSong, CreateFile, ReleaseSong, ReleaseTags, GetFilePath,
     DeleteSong, RemoveFile, DeleteArtist, DeleteAlbum, Victims, MoveArtist, EndArtist, MoveAlbum,
     EndAlbum, MoveSongs, Unlist, RenameFile, DeleteOld, SetMp3Tags, CreateNew, AddPath, AddEntry,
     Regenerate, Session, Syscall
<1> QED
  BY <1>2, <1>3, <1>4, <1>5, <1>6, <1>7, <1>8

----------------------------------------------------------------------------
(* The promise from step to step.                                          *)

\* The tree t is as good as what it was when the request was asked.
Kept(t) == Result(t, loc[Sole].req) = Result(between, loc[Sole].req)

\* The handler goes on and keeps the promise, or has fulfilled it.
Advance ==
    \/ \E step, g : /\ Goto(Sole, step, g) /\ step # "idle" /\ g.req = loc[Sole].req
                    /\ Promise(between, db', step, g)
    \/ Return(Sole) /\ Tree(db') = Result(between, loc[Sole].req)

LEMMA WholeTree ==
    ASSUME NEW d, NEW step, NEW f, step \notin {"SetMp3Tags", "CreateNew"} \/ Len(f.req.from) = 3
    PROVE  Whole(d, step, f) = Tree(d)
<1>1. InTransit(step, f) = {}
  BY DEF InTransit
<1> QED
  BY <1>1 DEF Whole, MadeSongs, Tree

LEMMA PromiseOf ==
    ASSUME Sequential, ShelfOK, pc[Sole] \notin {"idle", "Nested"}, NEW f, f = loc[Sole]
    PROVE  /\ f \in Frame /\ f.req \in Requests /\ f.req \in Request
           /\ Kept(Whole(db, pc[Sole], f))
           /\ pc[Sole] \notin {"SetMp3Tags", "CreateNew"} \/ Len(f.req.from) = 3 => Kept(Tree(db))
           /\ Aimed(db, pc[Sole], f)
<1>1. /\ f \in Frame /\ f.req \in Requests /\ f.req \in Request /\ Aimed(db, pc[Sole], f)
      /\ Kept(Whole(db, pc[Sole], f))
  BY OrderOf, RequestKinds DEF ShelfOK, Promise, Kept
<1> QED
  BY <1>1, WholeTree

LEMMA AdvanceTo ==
    ASSUME Sequential, ShelfOK, pc[Sole] \notin {"idle", "Nested"},
           NEW step, step \notin {"idle", "Nested"}, NEW g, Goto(Sole, step, g),
           g.req = loc[Sole].req, Kept(Whole(db', step, g)), Aimed(db', step, g)
    PROVE  Advance
<1>1. Promise(between, db', step, g)
  BY DEF ShelfOK, Promise, Kept
<1> QED
  BY <1>1 DEF Advance

LEMMA AdvanceNested ==
    ASSUME Sequential, ShelfOK, pc[Sole] \notin {"idle", "Nested"},
           NEW g, Goto(Sole, "Nested", g), g.req = loc[Sole].req
    PROVE  Advance
<1>1. Promise(between, db', "Nested", g)
  BY DEF ShelfOK, Promise
<1> QED
  BY <1>1 DEF Advance

LEMMA AdvanceEnd ==
    ASSUME Return(Sole), Kept(Tree(db')), Fixed(Tree(db'), loc[Sole].req)
    PROVE  Advance
  BY DEF Advance, Kept, Fixed

LEMMA DoneAimed ==
    ASSUME NEW d, NEW step \in DoneSteps, NEW g, Fixed(Tree(d), g.req)
    PROVE  Aimed(d, step, g)
  BY DEF Aimed, Straight, Serves, Finds, InLoop, SongsLoop, MoveSongsSteps, ToFile, NotGone, DoneSteps

\* What a request other than a rename asks for needs to be done only once.
LEMMA DoneOnce ==
    ASSUME Sequential, NEW r \in Requests, r.op # "rename", NEW t, NEW u, u = Result(t, r)
    PROVE  Fixed(u, r)
<1>1. CASE Makes(r, 1)
  <2>1. u = MadeArtist(t, r.to[1]) /\ Result(u, r) = MadeArtist(u, r.to[1])
    BY <1>1, Results
  <2> QED
    BY <2>1 DEF MadeArtist, Fixed
<1>2. CASE Makes(r, 2)
  <2>1. u = MadeAlbum(t, r.to) /\ Result(u, r) = MadeAlbum(u, r.to)
    BY <1>2, Results
  <2> QED
    BY <2>1 DEF MadeAlbum, Fixed
<1>3. CASE r.op = "create"
  <2>1. u = MadeSongs(t, {r.to}) /\ Result(u, r) = MadeSongs(u, {r.to})
    BY <1>3, Results
  <2> QED
    BY <2>1 DEF MadeSongs, Fixed
<1>4. CASE r.op = "release"
  <2>1. Result(u, r) = u
    BY <1>4, Results
  <2> QED
    BY <2>1 DEF Fixed
<1>5. CASE Asks(r, "remove", 1)
  <2>1. u = RemovedArtist(t, r.from[1]) /\ Result(u, r) = RemovedArtist(u, r.from[1])
    BY <1>5, Results
  <2>2. /\ u.artists \ {r.from[1]} = u.artists
        /\ \A x \in u.albums : x[1] # r.from[1]
        /\ \A k \in u.songs : k[1] # r.from[1]
        /\ \A k \in u.strays : k[1] # r.from[1]
    BY <2>1 DEF RemovedArtist
  <2>3. /\ {x \in u.albums : x[1] # r.from[1]} = u.albums
        /\ {k \in u.songs : k[1] # r.from[1]} = u.songs
        /\ {k \in u.strays : k[1] # r.from[1]} = u.strays
    BY <2>2
  <2>4. u = [artists |-> u.artists, albums |-> u.albums, songs |-> u.songs, strays |-> u.strays]
    BY <2>1 DEF RemovedArtist
  <2> QED
    BY <2>1, <2>2, <2>3, <2>4 DEF RemovedArtist, Fixed
<1>6. CASE Asks(r, "remove", 2)
  <2>1. u = RemovedAlbum(t, r.from) /\ Result(u, r) = RemovedAlbum(u, r.from)
    BY <1>6, Results
  <2> QED
    BY <2>1 DEF RemovedAlbum, Fixed
<1>7. CASE Asks(r, "remove", 3)
  <2>1. u = RemovedSong(t, r.from) /\ Result(u, r) = RemovedSong(u, r.from)
    BY <1>7, Results
  <2> QED
    BY <2>1 DEF RemovedSong, Fixed
<1> QED
  BY <1>1, <1>2, <1>3, <1>4, <1>5, <1>6, <1>7, RequestKinds DEF Asks

\* The session that does all that is asked for.
LEMMA DoesAll ==
    ASSUME Sequential, ShelfOK, pc[Sole] \notin {"idle", "Nested"}, loc[Sole].req.op # "rename",
           Kept(Tree(db)), Tree(db') = Result(Tree(db), loc[Sole].req)
    PROVE  Kept(Tree(db')) /\ Fixed(Tree(db'), loc[Sole].req)
<1>1. Fixed(Tree(db'), loc[Sole].req)
  BY PromiseOf, DoneOnce
<1> QED
  BY <1>1 DEF Fixed, Kept

\* A session that changes nothing of the tree.
LEMMA SameTreeKept ==
    ASSUME Kept(Tree(db)), db' = db
    PROVE  Kept(Tree(db'))
  OBVIOUS

----------------------------------------------------------------------------
(* The steps that make, close and remove.                                  *)

\* The last step of a request that changes nothing of the tree any more.
LEMMA DoneOf ==
    ASSUME Sequential, ShelfOK, pc[Sole] \in DoneSteps, db' = db
    PROVE  Kept(Tree(db')) /\ Fixed(Tree(db'), loc[Sole].req)
<1>1. pc[Sole] \notin {"idle", "Nested", "SetMp3Tags", "CreateNew"}
  BY DEF DoneSteps
<1> QED
  BY <1>1, PromiseOf DEF Aimed, Done

LEMMA LastAdvance ==
    ASSUME Sequential, ShelfOK,
           MkdirNew(Sole) \/ CreateFile(Sole) \/ RemoveFile(Sole)
    PROVE  Advance
<1>1. pc[Sole] \in DoneSteps /\ db' = db /\ Return(Sole)
  BY DEF MkdirNew, CreateFile, RemoveFile, Syscall, DoneSteps
<1> QED
  BY <1>1, DoneOf, AdvanceEnd

\* A session that does all, with what may follow it.
LEMMA DoneAdvance ==
    ASSUME Sequential, ShelfOK, pc[Sole] \notin {"idle", "Nested"},
           Kept(Tree(db')) /\ Fixed(Tree(db'), loc[Sole].req),
           \/ Return(Sole)
           \/ \E step \in DoneSteps \cup {"Nested"} : \E g : Goto(Sole, step, g) /\ g.req = loc[Sole].req
    PROVE  Advance
<1>1. ASSUME NEW step \in DoneSteps, NEW g, Goto(Sole, step, g), g.req = loc[Sole].req
      PROVE  Advance
  <2>1. Aimed(db', step, g)
    BY <1>1, DoneAimed
  <2>2. step \notin {"idle", "Nested", "SetMp3Tags", "CreateNew"}
    BY DEF DoneSteps
  <2>3. Whole(db', step, g) = Tree(db')
    BY <2>2, WholeTree
  <2> QED
    BY <1>1, <2>1, <2>2, <2>3, AdvanceTo
<1> QED
  BY <1>1, AdvanceEnd, AdvanceNested

LEMMA CreateArtistAdvance ==
    ASSUME Sequential, ShelfOK, CreateArtist(Sole)
    PROVE  Advance
<1> DEFINE f == loc[Sole]
           a == f.to[1]
           g == [f EXCEPT !.to = <<a>>]
<1>1. pc[Sole] = "CreateArtist" /\ OrderOK
  BY DEF CreateArtist, Session, ShelfOK
<1>2. /\ f \in Frame /\ f.req \in Requests /\ f.to = f.req.to /\ f.to \in ArtistKey
      /\ Kept(Tree(db)) /\ db \in Database
  BY <1>1, PromiseOf, OrderOf DEF Aimed, Straight, Shape
<1>3. Makes(f.req, 1)
  BY <1>1, SoleClient DEF OrderOK, TreeOK, Errands, Errand, Makes
<1>4. a # NoName /\ Compat[a] = a
  <2>1. a \in DirName
    BY <1>2, KeyParts
  <2>2. a \in ToSet(f.req.to)
    BY <1>2, <1>3 DEF Makes, ToSet
  <2> QED
    BY <1>2, <2>1, <2>2, SameNames, RequestKinds
<1>5. \/ a \notin db.artists /\ db' = CreateArtistTx(db, a) /\ Goto(Sole, "MkdirNew", g)
      \/ a \in db.artists /\ db' = db /\ Return(Sole)
  BY <1>4 DEF CreateArtist, Refuse
<1>6. g.req = f.req
  BY <1>2 DEF Frame
<1>7. Tree(db') = Result(Tree(db), f.req)
  <2>1. Result(Tree(db), f.req) = MadeArtist(Tree(db), a)
    BY <1>2, <1>3, Results
  <2>2. CASE db' = CreateArtistTx(db, a)
    BY <1>2, <2>1, <2>2, CreateTrees
  <2>3. CASE a \in db.artists /\ db' = db
    <3>1. db.artists \cup {a} = db.artists
      BY <2>3
    <3> QED
      BY <2>1, <2>3, <3>1 DEF MadeArtist, Tree
  <2> QED
    BY <1>5, <2>2, <2>3
<1>8. Kept(Tree(db')) /\ Fixed(Tree(db'), f.req)
  BY <1>1, <1>2, <1>3, <1>7, DoesAll DEF Makes
<1> HIDE DEF g
<1> QED
  BY <1>1, <1>5, <1>6, <1>8, DoneAdvance DEF DoneSteps

LEMMA CreateAlbumAdvance ==
    ASSUME Sequential, ShelfOK, CreateAlbum(Sole)
    PROVE  Advance
<1> DEFINE f == loc[Sole]
           x == f.to
           g == [f EXCEPT !.to = x]
<1>1. pc[Sole] = "CreateAlbum" /\ OrderOK
  BY DEF CreateAlbum, Session, ShelfOK
<1>2. /\ f \in Frame /\ f.req \in Requests /\ x = f.req.to /\ x \in AlbumKey
      /\ Kept(Tree(db)) /\ db \in Database /\ x[1] \in db.artists /\ Makes(f.req, 2)
  BY <1>1, PromiseOf, OrderOf DEF Aimed, Straight, Shape, Finds, Serves
<1>3. x[2] # NoName /\ x = <<x[1], Compat[x[2]]>>
  <2>1. x[2] \in DirName /\ x = <<x[1], x[2]>>
    BY <1>2, KeyParts
  <2>2. x[2] \in ToSet(f.req.to)
    BY <1>2 DEF Makes, ToSet
  <2> QED
    BY <1>2, <2>1, <2>2, SameNames, RequestKinds
<1>4. \/ x \notin db.albums /\ db' = CreateAlbumTx(db, x) /\ Goto(Sole, "MkdirNew", g)
      \/ x \in db.albums /\ db' = db /\ Return(Sole)
  <2>1. Compat[x[2]] = x[2]
    BY <1>2, KeyParts, SameNames
  <2> QED
    BY <1>2, <1>3, <2>1 DEF CreateAlbum, Refuse
<1>5. g.req = f.req
  BY <1>2 DEF Frame
<1>6. Tree(db') = Result(Tree(db), f.req)
  <2>1. Result(Tree(db), f.req) = MadeAlbum(Tree(db), x)
    BY <1>2, Results
  <2>2. CASE db' = CreateAlbumTx(db, x)
    BY <1>2, <2>1, <2>2, CreateTrees
  <2>3. CASE x \in db.albums /\ db' = db
    <3>1. db.albums \cup {x} = db.albums
      BY <2>3
    <3> QED
      BY <2>1, <2>3, <3>1 DEF MadeAlbum, Tree
  <2> QED
    BY <1>4, <2>2, <2>3
<1>7. Kept(Tree(db')) /\ Fixed(Tree(db'), f.req)
  BY <1>1, <1>2, <1>6, DoesAll DEF Makes
<1> HIDE DEF g
<1> QED
  BY <1>1, <1>4, <1>5, <1>7, DoneAdvance DEF DoneSteps

LEMMA CreateSongAdvance ==
    ASSUME Sequential, ShelfOK, CreateSong(Sole)
    PROVE  Advance
<1> DEFINE f == loc[Sole]
           k == f.to
           g == [f EXCEPT !.to = k]
<1>1. pc[Sole] = "CreateSong" /\ OrderOK
  BY DEF CreateSong, Session, ShelfOK
<1>2. /\ f \in Frame /\ f.req \in Requests /\ k = f.req.to /\ k \in SongKey
      /\ Kept(Tree(db)) /\ db \in Database /\ HasAlbum(db, AlbumOf(k)) /\ f.req.op = "create"
      /\ db.songs[k] = NoSong
  BY <1>1, PromiseOf, OrderOf DEF Aimed, Straight, Shape, Finds, Serves, Carried
<1>3. k[3] \in Mp3Name /\ k = <<k[1], k[2], Compat[k[3]]>>
  BY <1>2, KeyParts, SameNames DEF Sequential
<1>4. db' = CreateSongTx(db, k, k) /\ Goto(Sole, "CreateFile", g)
  BY <1>2, <1>3 DEF CreateSong
<1>5. g.req = f.req
  BY <1>2 DEF Frame
<1>6. Tree(db') = Result(Tree(db), f.req)
  <2>1. Result(Tree(db), f.req) = MadeSongs(Tree(db), {k})
    BY <1>2, Results
  <2>2. k \notin Strays(db)
    BY <1>2 DEF Strays
  <2>3. Tree(db).strays \ {k} = Tree(db).strays
    BY <2>2 DEF Tree
  <2>4. /\ Tree(db').artists = Tree(db).artists /\ Tree(db').albums = Tree(db).albums
        /\ Tree(db').songs = Tree(db).songs \cup {k} /\ Tree(db').strays = Tree(db).strays
    <3> HIDE DEF k
    <3>1. /\ Tree(db').artists = Tree(db).artists /\ Tree(db').albums = Tree(db).albums
          /\ Tree(db').songs = Tree(db).songs \cup {k} /\ Tree(db').strays = Tree(db).strays \ {k}
      BY <1>2, <1>4, CreateSongTree
    <3> QED
      BY <2>3, <3>1
  <2> QED
    BY <2>1, <2>4 DEF MadeSongs, Tree
<1>7. Kept(Tree(db')) /\ Fixed(Tree(db'), f.req)
  BY <1>1, <1>2, <1>6, DoesAll
<1> HIDE DEF g
<1> QED
  BY <1>1, <1>4, <1>5, <1>7, DoneAdvance DEF DoneSteps

LEMMA ReleaseAdvance ==
    ASSUME Sequential, ShelfOK, ReleaseSong(Sole) \/ ReleaseTags(Sole)
    PROVE  Advance
<1> DEFINE f == loc[Sole]
           g == [f EXCEPT !.path = db.songs[f.from].path]
<1>1. pc[Sole] \in {"ReleaseSong", "ReleaseTags"} /\ db' = db
  BY DEF ReleaseSong, ReleaseTags, Session, Syscall
<1>2. f \in Frame /\ f.req \in Requests /\ Kept(Tree(db)) /\ f.req.op = "release"
  BY <1>1, PromiseOf DEF Aimed, Serves
<1>3. Kept(Tree(db')) /\ Fixed(Tree(db'), f.req)
  BY <1>1, <1>2, Results DEF Fixed
<1>4. Return(Sole) \/ Goto(Sole, "ReleaseTags", g)
  BY DEF ReleaseSong, ReleaseTags
<1>5. g.req = f.req
  BY <1>2 DEF Frame
<1> HIDE DEF g
<1>6. Aimed(db', "ReleaseTags", g)
  BY <1>2, <1>5 DEF Aimed, Straight, Serves, Finds, InLoop, SongsLoop, MoveSongsSteps, ToFile,
                    NotGone, Done, DoneSteps, Relisting
<1>7. Whole(db', "ReleaseTags", g) = Tree(db')
  BY WholeTree
<1> QED
  BY <1>1, <1>3, <1>4, <1>5, <1>6, <1>7, AdvanceEnd, AdvanceTo

LEMMA GetFilePathAdvance ==
    ASSUME Sequential, ShelfOK, GetFilePath(Sole)
    PROVE  Advance
<1> DEFINE f == loc[Sole]
           k == f.from
           g == [f EXCEPT !.path = db.songs[k].path]
<1>1. pc[Sole] = "GetFilePath" /\ db' = db
  BY DEF GetFilePath, Session
<1>2. /\ f \in Frame /\ f.req \in Requests /\ Kept(Tree(db)) /\ Asks(f.req, "remove", 3)
      /\ f.from = f.req.from /\ f.to = f.req.to
  BY <1>1, PromiseOf DEF Aimed, Serves, Straight
<1>3. \/ db.songs[k] = NoSong /\ Return(Sole)
      \/ Goto(Sole, "DeleteSong", g)
  BY DEF GetFilePath
<1>4. g.req = f.req /\ g.from = f.from /\ g.to = f.to
  BY <1>2 DEF Frame
<1>5. CASE db.songs[k] = NoSong /\ Return(Sole)
  <2>1. Result(Tree(db), f.req) = RemovedSong(Tree(db), k)
    <3>1. Asks(f.req, "remove", 3) => Result(Tree(db), f.req) = RemovedSong(Tree(db), f.req.from)
      BY Results
    <3> QED
      BY <1>2, <3>1
  <2>2. k \notin Tree(db).songs /\ k \notin Tree(db).strays
    BY <1>5 DEF Tree, Strays
  <2>3. Tree(db).songs \ {k} = Tree(db).songs /\ Tree(db).strays \ {k} = Tree(db).strays
    BY <2>2
  <2>4. RemovedSong(Tree(db), k) = Tree(db)
    BY <2>3 DEF RemovedSong, Tree
  <2> QED
    BY <1>1, <1>2, <1>5, <2>1, <2>4, AdvanceEnd DEF Fixed
<1>6. CASE Goto(Sole, "DeleteSong", g)
  <2> HIDE DEF g
  <2>1. Aimed(db', "DeleteSong", g)
    BY <1>2, <1>4 DEF Aimed, Straight, Serves, Finds, InLoop, SongsLoop, MoveSongsSteps, Done,
                      DoneSteps, Relisting
  <2>2. Whole(db', "DeleteSong", g) = Tree(db')
    BY WholeTree
  <2> QED
    BY <1>1, <1>2, <1>4, <1>6, <2>1, <2>2, AdvanceTo
<1> QED
  BY <1>3, <1>5, <1>6

LEMMA DeleteSongAdvance ==
    ASSUME Sequential, ShelfOK, DeleteSong(Sole)
    PROVE  Advance
<1> DEFINE f == loc[Sole]
           k == f.from
<1>1. pc[Sole] = "DeleteSong" /\ OrderOK
  BY DEF DeleteSong, Session, ShelfOK
<1>2. /\ f \in Frame /\ f.req \in Requests /\ Kept(Tree(db)) /\ Asks(f.req, "remove", 3)
      /\ k = f.req.from /\ k \in SongKey /\ Held(db, f) /\ db \in Database
  BY <1>1, PromiseOf, OrderOf DEF Aimed, Serves, Straight, Shape, Carried
<1>3. HasAlbum(db, AlbumOf(k))
  BY <1>1, <1>2 DEF OrderOK, TreeOK, SongsHoused, Housed, HasAlbum, Held
<1>4. db' = DeleteSongTx(db, k) /\ (Goto(Sole, "Nested", f) \/ Goto(Sole, "RemoveFile", f))
  BY <1>3 DEF DeleteSong, DeleteSongThen
<1>5. Tree(db') = Result(Tree(db), f.req)
  <2>1. Asks(f.req, "remove", 3) => Result(Tree(db), f.req) = RemovedSong(Tree(db), f.req.from)
    BY Results
  <2> QED
    BY <1>2, <1>4, <2>1, DeleteTrees
<1>6. Kept(Tree(db')) /\ Fixed(Tree(db'), f.req)
  BY <1>1, <1>2, <1>5, DoesAll DEF Asks
<1> QED
  BY <1>1, <1>4, <1>6, DoneAdvance DEF DoneSteps

LEMMA RemoveVictimsGoto ==
    ASSUME Sequential, ShelfOK, NEW songs, RemoveVictims(Sole, songs)
    PROVE  \/ Return(Sole)
           \/ \E g : Goto(Sole, "Victims", g) /\ g.req = loc[Sole].req
<1> DEFINE f == loc[Sole]
           g == [f EXCEPT !.victims = {db.songs[k] : k \in songs}]
<1>1. Return(Sole) \/ Goto(Sole, "Victims", g)
  BY DEF RemoveVictims
<1>2. g.req = f.req
  BY OrderOf DEF ShelfOK, Frame
<1> HIDE DEF g
<1> QED
  BY <1>1, <1>2

LEMMA DeleteArtistAdvance ==
    ASSUME Sequential, ShelfOK, DeleteArtist(Sole)
    PROVE  Advance
<1> DEFINE f == loc[Sole]
<1>1. pc[Sole] = "DeleteArtist"
  BY DEF DeleteArtist
<1>2. /\ f.req \in Requests /\ Kept(Tree(db)) /\ Asks(f.req, "remove", 1)
      /\ f.from = f.req.from /\ db \in Database
  BY <1>1, PromiseOf, OrderOf DEF Aimed, Serves, Straight, ShelfOK
<1>3. /\ db' = DeleteArtistBucket(db, f.from[1])
      /\ \E songs : RemoveVictims(Sole, songs)
  BY DEF DeleteArtist
<1>4. Tree(db') = Result(Tree(db), f.req)
  <2>1. Asks(f.req, "remove", 1) => Result(Tree(db), f.req) = RemovedArtist(Tree(db), f.req.from[1])
    BY Results
  <2> QED
    BY <1>2, <1>3, <2>1, DeleteTrees
<1>5. Kept(Tree(db')) /\ Fixed(Tree(db'), f.req)
  BY <1>1, <1>2, <1>4, DoesAll DEF Asks
<1>6. Return(Sole) \/ \E g : Goto(Sole, "Victims", g) /\ g.req = f.req
  BY <1>3, RemoveVictimsGoto
<1> QED
  BY <1>1, <1>5, <1>6, DoneAdvance DEF DoneSteps

LEMMA DeleteAlbumAdvance ==
    ASSUME Sequential, ShelfOK, DeleteAlbum(Sole)
    PROVE  Advance
<1> DEFINE f == loc[Sole]
           x == f.from
<1>1. pc[Sole] = "DeleteAlbum" /\ OrderOK
  BY DEF DeleteAlbum, Session, ShelfOK
<1>2. /\ f.req \in Requests /\ Kept(Tree(db)) /\ Asks(f.req, "remove", 2)
      /\ x = f.req.from /\ db \in Database /\ x \in AlbumKey /\ x[1] = x[2]
  BY <1>1, PromiseOf, OrderOf DEF Aimed, Serves, Straight, Shape, Carried
<1>3. <<x[1], x[1]>> = x
  BY <1>2, KeyParts
<1>4. \/ db' = DeleteAlbumBucket(db, x) /\ \E songs : RemoveVictims(Sole, songs)
      \/ ~HasAlbum(db, x) /\ db' = db /\ Return(Sole)
  BY <1>3 DEF DeleteAlbum, Refuse
<1>5. Result(Tree(db), f.req) = RemovedAlbum(Tree(db), x)
  <2>1. Asks(f.req, "remove", 2) => Result(Tree(db), f.req) = RemovedAlbum(Tree(db), f.req.from)
    BY Results
  <2> QED
    BY <1>2, <2>1
<1>6. Tree(db') = Result(Tree(db), f.req)
  <2>1. CASE db' = DeleteAlbumBucket(db, x)
    BY <1>2, <1>5, <2>1, DeleteTrees
  <2>2. CASE ~HasAlbum(db, x) /\ db' = db
    <3>1. x \notin db.albums
      BY <1>1, <2>2 DEF OrderOK, TreeOK, Housed, HasAlbum
    <3>2. \A k \in SongKey : db.songs[k] # NoSong => AlbumOf(k) # x
      BY <1>1, <3>1 DEF OrderOK, SongsHoused
    <3>3. /\ Tree(db).albums \ {x} = Tree(db).albums
          /\ {k \in Tree(db).songs : AlbumOf(k) # x} = Tree(db).songs
          /\ {k \in Tree(db).strays : AlbumOf(k) # x} = Tree(db).strays
      BY <3>1, <3>2 DEF Tree, Strays
    <3> QED
      BY <1>5, <2>2, <3>3 DEF RemovedAlbum, Tree
  <2> QED
    BY <1>4, <2>1, <2>2
<1>7. Kept(Tree(db')) /\ Fixed(Tree(db'), f.req)
  BY <1>1, <1>2, <1>6, DoesAll DEF Asks
<1>8. Return(Sole) \/ \E g : Goto(Sole, "Victims", g) /\ g.req = f.req
  BY <1>4, RemoveVictimsGoto
<1> QED
  BY <1>1, <1>7, <1>8, DoneAdvance DEF DoneSteps

LEMMA VictimsAdvance ==
    ASSUME Sequential, ShelfOK, Victims(Sole)
    PROVE  Advance
<1> DEFINE f == loc[Sole]
<1>1. pc[Sole] = "Victims" /\ db' = db /\ f \in Frame
  BY OrderOf DEF Victims, ShelfOK
<1>2. Kept(Tree(db')) /\ Fixed(Tree(db'), f.req)
  BY <1>1, DoneOf DEF DoneSteps
<1>3. \A rest : [f EXCEPT !.victims = rest].req = f.req
  BY <1>1 DEF Frame
<1>4. \/ Return(Sole) \/ Goto(Sole, "Nested", f)
      \/ \E rest : Goto(Sole, "Victims", [f EXCEPT !.victims = rest])
  <2>1. \A v : [f EXCEPT !.victims = @ \ {v}] = [f EXCEPT !.victims = f.victims \ {v}]
    BY <1>1 DEF Frame
  <2> QED
    BY <2>1 DEF Victims
<1> HIDE DEF f
<1>5. \/ Return(Sole)
      \/ \E step \in DoneSteps \cup {"Nested"} : \E g : Goto(Sole, step, g) /\ g.req = f.req
  <2>1. CASE Goto(Sole, "Nested", f)
    BY <2>1 DEF DoneSteps
  <2>2. ASSUME NEW rest, Goto(Sole, "Victims", [f EXCEPT !.victims = rest])
        PROVE  \E step \in DoneSteps \cup {"Nested"} : \E g : Goto(Sole, step, g) /\ g.req = f.req
    <3> DEFINE g == [f EXCEPT !.victims = rest]
    <3>1. Goto(Sole, "Victims", g) /\ g.req = f.req
      BY <1>3, <2>2
    <3> HIDE DEF g
    <3> QED
      BY <3>1 DEF DoneSteps
  <2> QED
    BY <1>4, <2>1, <2>2
<1> QED
  BY <1>1, <1>2, <1>5, DoneAdvance DEF f

----------------------------------------------------------------------------
(* The loops of MoveArtist and MoveAlbum.                                  *)

\* Where the loops are going from any of their steps.
Heading(d, f) ==
    /\ Len(f.req.from) = 1 =>
          /\ f.from[1] = f.req.from[1] /\ f.to[1] = f.req.to[1] /\ f.from[2] = f.to[2]
          /\ AlbumsToGo(d, f, TRUE)
    /\ Len(f.req.from) = 2 => AlbumOf(f.from) = f.req.from /\ AlbumOf(f.to) = f.req.to

LEMMA NextAlbumAdvance ==
    ASSUME Sequential, ShelfOK, pc[Sole] \notin {"idle", "Nested"}, NEW f \in Frame,
           f.req = loc[Sole].req, RenameOf(f, {1}), NextAlbum(Sole, f), Kept(Tree(db')),
           f.from[1] = f.req.from[1], f.to[1] = f.req.to[1], AlbumsToGo(db', f, FALSE)
    PROVE  Advance
<1>1. ASSUME NEW step \in {"EndArtist", "MoveAlbum"}, NEW g, g.req = f.req,
             ArtistAim(db', step, g), Goto(Sole, step, g)
      PROVE  Advance
  <2>1. Aimed(db', step, g)
    BY <1>1 DEF Aimed, Straight, Serves, Finds, InLoop, SongsLoop, MoveSongsSteps, ToFile, NotGone,
                Done, DoneSteps, Relisting, RenameOf, Asks
  <2>2. Whole(db', step, g) = Tree(db')
    BY <1>1, WholeTree
  <2> QED
    BY <1>1, <2>1, <2>2, AdvanceTo
<1>2. CASE f.albums = <<>>
  <2>1. Goto(Sole, "EndArtist", f)
    BY <1>2 DEF NextAlbum
  <2>2. ArtistAim(db', "EndArtist", f)
    BY DEF ArtistAim, MoveSongsSteps, RenameOf
  <2> QED
    BY <1>1, <2>1, <2>2
<1>3. CASE f.albums # <<>>
  <2> DEFINE b == Head(f.albums)
             g == [f EXCEPT !.from = <<f.from[1], b>>, !.to = <<f.to[1], b>>, !.albums = Tail(@)]
  <2>1. Goto(Sole, "MoveAlbum", g)
    BY <1>3 DEF NextAlbum
  <2>2. /\ g.req = f.req /\ g.from = <<f.from[1], b>> /\ g.to = <<f.to[1], b>>
        /\ g.albums = Tail(f.albums) /\ f.albums \in Seq(DirName)
    BY DEF Frame
  <2>3. \A x : Contains(f.albums, x) => x = b \/ Contains(Tail(f.albums), x)
    BY <1>3, <2>2, ContainsTail
  <2> HIDE DEF b, g
  <2>4. g.from[1] = f.from[1] /\ g.from[2] = b /\ g.to[1] = f.to[1]
    BY <2>2
  <2>5. AlbumsToGo(db', g, TRUE)
    BY <2>2, <2>3, <2>4 DEF AlbumsToGo
  <2>6. ArtistAim(db', "MoveAlbum", g)
    BY <2>2, <2>4, <2>5 DEF ArtistAim, MoveSongsSteps
  <2> QED
    BY <1>1, <2>1, <2>2, <2>6
<1> QED
  BY <1>2, <1>3

LEMMA AlbumReturnAdvance ==
    ASSUME Sequential, ShelfOK, pc[Sole] \notin {"idle", "Nested"}, NEW f \in Frame,
           f.req = loc[Sole].req, RenameOf(f, {1, 2}), AlbumReturn(Sole, f), Kept(Tree(db')),
           Len(f.req.from) = 1 =>
              f.from[1] = f.req.from[1] /\ f.to[1] = f.req.to[1] /\ AlbumsToGo(db', f, FALSE),
           Len(f.req.from) # 1 => Fixed(Tree(db'), f.req)
    PROVE  Advance
<1>1. CASE Len(f.req.from) = 1
  BY <1>1, NextAlbumAdvance DEF AlbumReturn, RenameOf
<1>2. CASE Len(f.req.from) # 1
  BY <1>2, AdvanceEnd DEF AlbumReturn
<1> QED
  BY <1>1, <1>2

LEMMA NextSongAdvance ==
    ASSUME Sequential, ShelfOK, pc[Sole] \notin {"idle", "Nested"}, NEW f \in Frame,
           f.req = loc[Sole].req, Len(f.req.from) # 3, NextSong(Sole, f), Kept(Tree(db')),
           Heading(db', f), OneAlbum(f)
    PROVE  Advance
<1>1. ASSUME NEW step \in {"EndAlbum", "MoveSongs"}, NEW g, g.req = f.req, Goto(Sole, step, g),
             Len(g.req.from) = 1 => ArtistAim(db', step, g),
             Len(g.req.from) = 2 => AlbumAim(step, g)
      PROVE  Advance
  <2>1. Aimed(db', step, g)
    BY <1>1 DEF Aimed, Straight, Serves, Finds, InLoop, SongsLoop, MoveSongsSteps, ToFile, NotGone,
                Done, DoneSteps, Relisting
  <2>2. Whole(db', step, g) = Tree(db')
    BY <1>1, WholeTree
  <2> QED
    BY <1>1, <2>1, <2>2, AdvanceTo
<1>2. CASE f.songs = {} /\ Goto(Sole, "EndAlbum", f)
  BY <1>1, <1>2 DEF Heading, ArtistAim, AlbumAim, MoveSongsSteps
<1>3. ASSUME NEW s \in f.songs,
             Goto(Sole, "MoveSongs", [f EXCEPT !.from = s.key,
                                               !.to = <<f.to[1], f.to[2], s.key[3]>>,
                                               !.path = s.path,
                                               !.songs = @ \ {s}])
      PROVE  Advance
  <2> DEFINE g == [f EXCEPT !.from = s.key, !.to = <<f.to[1], f.to[2], s.key[3]>>,
                            !.path = s.path, !.songs = @ \ {s}]
  <2>1. /\ g.req = f.req /\ g.from = s.key /\ g.to = <<f.to[1], f.to[2], s.key[3]>>
        /\ g.albums = f.albums
    BY DEF Frame
  <2>2. Goto(Sole, "MoveSongs", g)
    BY <1>3
  <2> HIDE DEF g
  <2>3. AlbumOf(s.key) = AlbumOf(f.from)
    BY DEF OneAlbum
  <2>4. /\ g.from[1] = f.from[1] /\ g.from[2] = f.from[2] /\ g.to[1] = f.to[1] /\ g.to[2] = f.to[2]
        /\ g.to[3] = g.from[3]
    BY <2>1, <2>3 DEF AlbumOf
  <2>5. ASSUME Len(g.req.from) = 1 PROVE ArtistAim(db', "MoveSongs", g)
    <3>1. AlbumsToGo(db', g, TRUE)
      BY <2>1, <2>4, <2>5 DEF Heading, AlbumsToGo
    <3>2. g.to = SongTo(g.req.from[1], g.req.to[1], g.from)
      BY <2>1, <2>4, <2>5 DEF Heading, SongTo
    <3> QED
      BY <2>1, <2>4, <2>5, <3>1, <3>2 DEF Heading, ArtistAim
  <2>6. ASSUME Len(g.req.from) = 2 PROVE AlbumAim("MoveSongs", g)
    <3>1. AlbumOf(g.from) = g.req.from /\ AlbumOf(g.to) = g.req.to
      BY <2>1, <2>4, <2>6 DEF Heading, AlbumOf
    <3>2. g.req.to[1] = f.to[1] /\ g.req.to[2] = f.to[2]
      BY <2>4, <3>1 DEF AlbumOf
    <3>3. g.to = SongInto(g.req.from, g.req.to, g.from)
      BY <2>1, <3>1, <3>2 DEF SongInto
    <3> QED
      BY <3>1, <3>3 DEF AlbumAim
  <2> QED
    BY <1>1, <2>1, <2>2, <2>5, <2>6
<1> QED
  BY <1>2, <1>3 DEF NextSong

LEMMA HeadingKept ==
    ASSUME NEW d, NEW e, NEW f, NEW g, SameLoop(f, g), e.albums \subseteq d.albums, Heading(d, f)
    PROVE  Heading(e, g)
  BY DEF SameLoop, Heading, AlbumsToGo

LEMMA SongReturnAdvance ==
    ASSUME Sequential, ShelfOK, pc[Sole] \notin {"idle", "Nested"}, NEW f \in Frame,
           f.req = loc[Sole].req, SongReturn(Sole, f), Kept(Tree(db')),
           Len(f.req.from) = 3 => Fixed(Tree(db'), f.req),
           Len(f.req.from) # 3 => Heading(db', f) /\ OneAlbum(f)
    PROVE  Advance
<1>1. CASE Len(f.req.from) = 3
  BY <1>1, AdvanceEnd DEF SongReturn
<1>2. CASE Len(f.req.from) # 3
  <2> DEFINE g == [f EXCEPT !.path = NoPath, !.lists = <<>>, !.todo = <<>>]
  <2>1. g \in Frame
    BY EmptySeq DEF Frame
  <2>2. SameLoop(f, g)
    BY DEF Frame, SameLoop
  <2>3. NextSong(Sole, g)
    BY <1>2 DEF SongReturn
  <2> HIDE DEF g
  <2>4. Heading(db', g) /\ OneAlbum(g)
    BY <1>2, <2>2, HeadingKept DEF SameLoop, OneAlbum
  <2> QED
    BY <1>2, <2>1, <2>2, <2>3, <2>4, NextSongAdvance DEF SameLoop
<1> QED
  BY <1>1, <1>2

----------------------------------------------------------------------------
(* The steps that rename an artist and an album.                           *)

LEMMA RenameRequest ==
    ASSUME Sequential, NEW r \in Requests, r.op = "rename"
    PROVE  /\ Len(r.from) \in {1, 2, 3} /\ Len(r.to) = Len(r.from)
           /\ Len(r.from) = 1 => /\ r.to[1] # NoName
                                 /\ \A t : Result(t, r) = RenamedArtist(t, r.from[1], r.to[1])
           /\ Len(r.from) = 2 => /\ r.to[1] # NoName /\ r.to[2] # NoName
                                 /\ \A t : Result(t, r) = RenamedAlbum(t, r.from, r.to)
           /\ Len(r.from) = 3 => \A t : Result(t, r) = RenamedSong(t, r.from, r.to)
<1>1. /\ NoName \notin ToSet(r.to) /\ Len(r.from) \in {1, 2, 3} /\ Len(r.to) = Len(r.from)
  BY RequestKinds DEF Makes, Asks
<1>2. \A n \in {1, 2, 3} : Len(r.from) = n => Asks(r, "rename", n)
  BY DEF Asks
<1>3. /\ Len(r.from) = 1 => \A t : Result(t, r) = RenamedArtist(t, r.from[1], r.to[1])
      /\ Len(r.from) = 2 => \A t : Result(t, r) = RenamedAlbum(t, r.from, r.to)
      /\ Len(r.from) = 3 => \A t : Result(t, r) = RenamedSong(t, r.from, r.to)
  BY <1>2, Results
<1>4. /\ Len(r.from) = 1 => r.to[1] # NoName
      /\ Len(r.from) = 2 => r.to[1] # NoName /\ r.to[2] # NoName
  BY <1>1 DEF ToSet
<1> QED
  BY <1>1, <1>3, <1>4

\* Every album is on the list of its artist: nobody empties one.
LEMMA AlbumsOnList ==
    ASSUME Sequential, OrderOK, pc[Sole] \notin EmptyingAlbum, NEW x \in db.albums
    PROVE  Contains(db.listed[x[1]], x[2])
<1>1. \A q \in Process : ~Emptying(q, x)
  BY SoleClient DEF OrderOK, Emptying, EmptyingAlbum
<1> QED
  BY <1>1 DEF OrderOK, TreeOK, AlbumsListed

LEMMA MoveArtistAdvance ==
    ASSUME Sequential, ShelfOK, MoveArtist(Sole)
    PROVE  Advance
<1> DEFINE f == loc[Sole]
<1>1. pc[Sole] = "MoveArtist" /\ db' = db /\ Goto(Sole, "NewArtist", f)
  BY DEF MoveArtist, Syscall
<1>2. Kept(Tree(db)) /\ Aimed(db, "MoveArtist", f)
  BY <1>1, PromiseOf
<1>3. Aimed(db, "NewArtist", f)
  BY <1>2 DEF Aimed, Straight, Serves, Finds, InLoop, SongsLoop, MoveSongsSteps, Done, DoneSteps,
              Relisting
<1>4. Whole(db, "NewArtist", f) = Tree(db)
  BY WholeTree
<1> QED
  BY <1>1, <1>2, <1>3, <1>4, AdvanceTo

LEMMA NewArtistAdvance ==
    ASSUME Sequential, ShelfOK, NewArtist(Sole)
    PROVE  Advance
<1> DEFINE f == loc[Sole]
           a == f.from[1]
           b == f.to[1]
           g == [f EXCEPT !.albums = db.listed[a]]
<1>1. pc[Sole] = "NewArtist" /\ OrderOK /\ ControlOK /\ DataOK /\ db \in Database /\ Sole \in Process
  BY OrderOf, SoleClient DEF NewArtist, Session, ShelfOK
<1>2. /\ f \in Frame /\ f.req \in Requests /\ f.from = f.req.from /\ f.to = f.req.to
      /\ Kept(Tree(db)) /\ a \in db.artists /\ f.to \in ArtistKey
  BY <1>1, PromiseOf, OrderOf DEF Aimed, Straight, Finds, Shape
<1>3. f.req.op = "rename" /\ Len(f.req.from) = 1
  BY <1>1 DEF OrderOK, TreeOK, Errands, Errand, RenameOf
<1>4. b # NoName /\ Compat[b] = b /\ \A t : Result(t, f.req) = RenamedArtist(t, a, b)
  BY <1>2, <1>3, RenameRequest, SameNames, KeyParts
<1>5. db' = ProcessNewArtistTx(db, b, a) /\ NextAlbum(Sole, g)
  BY <1>2, <1>4 DEF NewArtist
<1>6. /\ g \in Frame /\ g.req = f.req /\ g.from = f.from /\ g.to = f.to
      /\ g.albums = db.listed[a]
  BY <1>1, <1>2, LoopFrames DEF Frame
<1>7. db'.albums = db.albums
  BY <1>1, <1>5 DEF ProcessNewArtistTx, Database
<1>8. AlbumsToGo(db', g, FALSE)
  <2>1. \A x \in db.albums : Contains(db.listed[x[1]], x[2])
    BY <1>1, AlbumsOnList DEF EmptyingAlbum
  <2> HIDE DEF g
  <2> QED
    BY <1>6, <1>7, <2>1 DEF AlbumsToGo
<1>9. Kept(Tree(db'))
  <2>1. Tree(db') = MadeArtist(Tree(db), b)
    BY <1>1, <1>5, CreateTrees
  <2>2. RenamedArtist(Tree(db'), a, b) = RenamedArtist(Tree(db), a, b)
    <3> HIDE DEF a, b
    <3>1. /\ (Tree(db').artists \ {a}) \cup {b} = (Tree(db).artists \ {a}) \cup {b}
          /\ Tree(db').albums = Tree(db).albums /\ Tree(db').songs = Tree(db).songs
          /\ Tree(db').strays = Tree(db).strays
      BY <2>1 DEF MadeArtist
    <3> QED
      BY <3>1 DEF RenamedArtist
  <2> QED
    BY <1>2, <1>4, <2>2 DEF Kept
<1> HIDE DEF g
<1> QED
  BY <1>1, <1>2, <1>3, <1>5, <1>6, <1>8, <1>9, NextAlbumAdvance DEF RenameOf

LEMMA EndArtistAdvance ==
    ASSUME Sequential, ShelfOK, EndArtist(Sole)
    PROVE  Advance
<1> DEFINE f == loc[Sole]
           a == f.req.from[1]
           b == f.req.to[1]
           T == Tree(db)
<1>1. pc[Sole] = "EndArtist" /\ OrderOK /\ db \in Database
  BY OrderOf DEF EndArtist, Session, ShelfOK
<1>2. /\ f.req \in Requests /\ Kept(T) /\ Aimed(db, "EndArtist", f)
      /\ f.albums = <<>> /\ ArtistLoop(db, dirs, f, FALSE)
  BY <1>1, PromiseOf, OrderOf DEF Carried
<1>3. /\ f.req.op = "rename" /\ Len(f.req.from) = 1
      /\ f.from[1] = a /\ f.to[1] = b /\ AlbumsToGo(db, f, FALSE)
  BY <1>2 DEF Aimed, Serves, Asks, ArtistAim, InLoop
<1>4. /\ \A x \in db.albums : x[1] # a
      /\ \A k \in SongKey : db.songs[k] # NoSong => k[1] # a
      /\ b # a /\ b \in db.artists
  BY <1>2, <1>3, NoneContained DEF AlbumsToGo, ArtistLoop
<1>5. db' = DeleteArtistBucket(db, a) /\ Return(Sole)
  BY <1>3 DEF EndArtist
<1>6. Tree(db') = RemovedArtist(T, a)
  BY <1>1, <1>5, DeleteTrees
<1>7. Result(T, f.req) = RenamedArtist(T, a, b)
  BY <1>2, <1>3, RenameRequest
<1>8. RenamedArtist(T, a, b) = RemovedArtist(T, a)
  <2>1. (T.artists \ {a}) \cup {b} = T.artists \ {a}
    BY <1>4 DEF Tree
  <2>2. /\ \A x \in T.albums : AlbumTo(a, b, x) = x /\ x[1] # a
        /\ \A k \in T.songs : SongTo(a, b, k) = k /\ k[1] # a
    BY <1>4 DEF Tree, AlbumTo, SongTo
  <2> HIDE DEF T, a, b
  <2>3. /\ {AlbumTo(a, b, x) : x \in T.albums} = {x \in T.albums : x[1] # a}
        /\ {SongTo(a, b, k) : k \in T.songs} = {k \in T.songs : k[1] # a}
    BY <2>2
  <2> QED
    BY <2>1, <2>3 DEF RenamedArtist, RemovedArtist
<1> QED
  BY <1>2, <1>5, <1>6, <1>7, <1>8 DEF Advance, Kept

LEMMA MoveAlbumAdvance ==
    ASSUME Sequential, ShelfOK, MoveAlbum(Sole)
    PROVE  Advance
<1> DEFINE f == loc[Sole]
<1>1. pc[Sole] = "MoveAlbum" /\ db' = db /\ OrderOK
  BY DEF MoveAlbum, Syscall, ShelfOK
<1>2. /\ Kept(Tree(db)) /\ Aimed(db, "MoveAlbum", f)
      /\ Len(f.req.from) = 1 => ArtistLoop(db, dirs, f, TRUE)
  BY <1>1, PromiseOf, OrderOf DEF Carried
<1>3. Len(f.req.from) \in {1, 2}
  BY <1>1, SoleClient DEF OrderOK, TreeOK, Errands, Errand, RenameOf
<1>4. <<f.to[1]>> \in dirs
  <2>1. CASE Len(f.req.from) = 1
    BY <1>2, <2>1 DEF ArtistLoop
  <2>2. CASE Len(f.req.from) = 2
    BY <1>1, <1>2, <2>2 DEF Aimed, Finds, ShelfOK, HasDirs
  <2> QED
    BY <1>3, <2>1, <2>2
<1>5. Goto(Sole, "NewAlbum", f)
  BY <1>4 DEF MoveAlbum
<1>6. Aimed(db, "NewAlbum", f)
  BY <1>2 DEF Aimed, Straight, Serves, Finds, InLoop, ToFile, NotGone, SongsLoop, MoveSongsSteps,
              ArtistAim, AlbumAim, Done, DoneSteps, Relisting
<1>7. Whole(db, "NewAlbum", f) = Tree(db)
  BY WholeTree
<1> QED
  BY <1>1, <1>2, <1>5, <1>6, <1>7, AdvanceTo

\* Trees that the renaming of an artist does not tell apart.
LEMMA SameRenamedArtist ==
    ASSUME NEW t, NEW u, NEW a, NEW b, u.artists = t.artists,
           {AlbumTo(a, b, x) : x \in u.albums} = {AlbumTo(a, b, x) : x \in t.albums},
           {SongTo(a, b, k) : k \in u.songs} = {SongTo(a, b, k) : k \in t.songs},
           {k \in u.strays : k[1] # a} = {k \in t.strays : k[1] # a}
    PROVE  RenamedArtist(u, a, b) = RenamedArtist(t, a, b)
  BY DEF RenamedArtist

\* The old album and the new one go to the same place.
LEMMA TwinAlbums ==
    ASSUME NEW x \in AlbumKey, NEW y \in AlbumKey, x[2] = y[2]
    PROVE  AlbumTo(x[1], y[1], x) = y /\ AlbumTo(x[1], y[1], y) = y
  BY KeyParts DEF AlbumTo

LEMMA NewAlbumAdvance ==
    ASSUME Sequential, ShelfOK, NewAlbum(Sole)
    PROVE  Advance
<1> DEFINE f     == loc[Sole]
           a     == f.req.from[1]
           b     == f.req.to[1]
           songs == {[key |-> k, path |-> db.songs[k].path] : k \in SongsIn(db, f.from)}
           g     == [f EXCEPT !.songs = songs]
<1>1. /\ pc[Sole] = "NewAlbum" /\ OrderOK /\ ControlOK /\ DataOK /\ Sole \in Process
      /\ db \in Database /\ f \in Frame
      /\ f.to \in AlbumKey /\ f.from \in AlbumKey
      /\ Len(f.req.from) = 1 => ArtistLoop(db, dirs, f, TRUE)
  BY OrderOf, SoleClient DEF NewAlbum, Session, Carried, Shape, ShelfOK
<1>2. RenameOf(f, {1, 2}) /\ Housed(db) /\ Named(db)
  <2>1. Errand("NewAlbum", f)
    BY <1>1, SoleClient DEF OrderOK, TreeOK, Errands
  <2> QED
    BY <1>1, <2>1 DEF OrderOK, TreeOK, Errand
<1>3. f.req \in Requests /\ Kept(Tree(db)) /\ Aimed(db, "NewAlbum", f)
  BY <1>1, PromiseOf
<1>4. /\ <<f.to[1], Compat[f.to[2]]>> = f.to /\ Compat[f.to[2]] = f.to[2]
      /\ AlbumOf(f.to) = f.to /\ AlbumOf(f.from) = f.from
  BY <1>1, SameNames, KeyParts DEF AlbumOf
<1>5. /\ Len(f.req.from) = 1 =>
            /\ f.from[1] = a /\ f.to[1] = b /\ AlbumsToGo(db, f, TRUE)
            /\ f.from[2] = f.to[2] /\ a # b /\ b \in db.artists
      /\ Len(f.req.from) = 2 => /\ f.from = f.req.from /\ f.to = f.req.to
                                /\ f.from \in db.albums /\ f.to[1] \in db.artists
  BY <1>1, <1>3 DEF Aimed, Straight, Finds, InLoop, ArtistAim, ArtistLoop
<1>6. \/ /\ HasAlbum(db, f.from)
         /\ db' = ProcessNewAlbumTx(db, f.to, f.from) /\ NextSong(Sole, g)
      \/ /\ f.to[1] \notin db.artists \/ f.to[2] = NoName \/ ~HasAlbum(db, f.from)
         /\ db' = db /\ AlbumReturn(Sole, f)
  BY <1>4 DEF NewAlbum
<1>7. CASE HasAlbum(db, f.from) /\ db' = ProcessNewAlbumTx(db, f.to, f.from) /\ NextSong(Sole, g)
  <2>1. Tree(db') = MadeAlbum(Tree(db), f.to)
    BY <1>1, <1>7, CreateTrees
  <2>2. db'.albums = db.albums \cup {f.to}
    BY <1>1, <1>7 DEF ProcessNewAlbumTx, Database
  <2>3. /\ g \in Frame /\ g.req = f.req /\ g.from = f.from /\ g.to = f.to
        /\ g.albums = f.albums /\ g.songs = songs
    BY <1>1, LoopFrames DEF Frame
  <2>4. \A s \in songs : AlbumOf(s.key) = f.from
    BY DEF SongsIn
  <2> HIDE DEF g, songs, a, b, f
  <2>5. OneAlbum(g)
    BY <1>4, <2>3, <2>4 DEF OneAlbum
  <2>6. Heading(db', g)
    <3>1. ASSUME Len(f.req.from) = 1 PROVE AlbumsToGo(db', g, TRUE)
      BY <1>5, <2>2, <2>3, <3>1 DEF AlbumsToGo
    <3> QED
      BY <1>4, <1>5, <2>3, <3>1 DEF Heading, a, b
  <2>7. Kept(Tree(db'))
    <3>1. CASE Len(f.req.from) = 1
      <4>1. \A t : Result(t, f.req) = RenamedArtist(t, a, b)
        BY <1>2, <1>3, <3>1, RenameRequest DEF RenameOf, a, b
      <4>2. Tree(db').albums = Tree(db).albums \cup {f.to} /\ f.from \in Tree(db).albums
        BY <1>7, <2>1 DEF MadeAlbum, Tree, HasAlbum
      <4>3. {AlbumTo(a, b, z) : z \in Tree(db').albums} = {AlbumTo(a, b, z) : z \in Tree(db).albums}
        <5>1. AlbumTo(a, b, f.from) = f.to /\ AlbumTo(a, b, f.to) = f.to
          BY <1>1, <1>5, <3>1, TwinAlbums
        <5> QED
          BY <4>2, <5>1
      <4>4. /\ Tree(db').artists = Tree(db).artists /\ Tree(db').songs = Tree(db).songs
            /\ Tree(db').strays = Tree(db).strays
        BY <2>1 DEF MadeAlbum
      <4>5. RenamedArtist(Tree(db'), a, b) = RenamedArtist(Tree(db), a, b)
        BY <4>3, <4>4, SameRenamedArtist
      <4> QED
        BY <1>3, <4>1, <4>5 DEF Kept, f
    <3>2. CASE Len(f.req.from) = 2
      <4>1. \A t : Result(t, f.req) = RenamedAlbum(t, f.from, f.to)
        BY <1>2, <1>3, <1>5, <3>2, RenameRequest DEF RenameOf
      <4>2. (Tree(db').albums \ {f.from}) \cup {f.to} = (Tree(db).albums \ {f.from}) \cup {f.to}
        BY <2>1 DEF MadeAlbum
      <4>3. RenamedAlbum(Tree(db'), f.from, f.to) = RenamedAlbum(Tree(db), f.from, f.to)
        BY <2>1, <4>2 DEF MadeAlbum, RenamedAlbum
      <4> QED
        BY <1>3, <4>1, <4>3 DEF Kept, f
    <3> QED
      BY <1>2, <3>1, <3>2 DEF RenameOf
  <2> QED
    BY <1>1, <1>2, <1>7, <2>3, <2>5, <2>6, <2>7, NextSongAdvance DEF RenameOf, f
<1>8. CASE /\ f.to[1] \notin db.artists \/ f.to[2] = NoName \/ ~HasAlbum(db, f.from)
           /\ db' = db /\ AlbumReturn(Sole, f)
  <2>1. Len(f.req.from) = 1
    <3> SUFFICES ASSUME Len(f.req.from) = 2 PROVE FALSE
      BY <1>2 DEF RenameOf
    <3>1. f.to[2] # NoName
      BY <1>2, <1>3, <1>5, RenameRequest DEF RenameOf
    <3> QED
      BY <1>2, <1>5, <1>8, <3>1 DEF Housed, HasAlbum
  <2>2. f.from \notin db.albums
    BY <1>2, <1>5, <1>8, <2>1 DEF Named, Housed, HasAlbum
  <2>3. \A x \in db.albums : x[1] = f.from[1] /\ x[2] = f.from[2] => x = f.from
    BY <1>1, KeyParts DEF Database
  <2>4. AlbumsToGo(db', f, FALSE)
    BY <1>5, <1>8, <2>1, <2>2, <2>3 DEF AlbumsToGo
  <2> QED
    BY <1>1, <1>2, <1>3, <1>5, <1>8, <2>1, <2>4, AlbumReturnAdvance
<1> QED
  BY <1>6, <1>7, <1>8

LEMMA EndAlbumAdvance ==
    ASSUME Sequential, ShelfOK, EndAlbum(Sole)
    PROVE  Advance
<1> DEFINE f == loc[Sole]
           a == f.req.from[1]
           b == f.req.to[1]
           x == AlbumOf(f.from)
           y == AlbumOf(f.to)
           T == Tree(db)
<1>1. pc[Sole] = "EndAlbum" /\ OrderOK /\ db \in Database /\ f \in Frame
  BY OrderOf DEF EndAlbum, Session, ShelfOK
<1>2. f.songs = {} /\ RenameOf(f, {1, 2}) /\ Len(f.req.from) # 3
  <2>1. Errand("EndAlbum", f)
    BY <1>1, SoleClient DEF OrderOK, TreeOK, Errands
  <2> QED
    BY <2>1 DEF Errand, RenameOf, MoveSongsSteps
<1>3. /\ f.req \in Requests /\ Kept(T) /\ Aimed(db, "EndAlbum", f)
      /\ AlbumLoop(db, dirs, f, FALSE)
      /\ f.from \in AlbumKey \cup SongKey /\ f.to \in AlbumKey \cup SongKey
  <2>1. f.req \in Requests /\ Kept(T) /\ Aimed(db, "EndAlbum", f)
    BY <1>1, PromiseOf
  <2>2. Carried(db, dirs, "EndAlbum", f) /\ Shape("EndAlbum", f)
    BY <1>1, OrderOf
  <2>3. AlbumLoop(db, dirs, f, FALSE)
    BY <1>2, <2>2 DEF Carried, SongsLoop, NotGone
  <2>4. f.from \in AlbumKey \cup SongKey /\ f.to \in AlbumKey \cup SongKey
    BY <2>2 DEF Shape
  <2> QED
    BY <2>1, <2>3, <2>4
<1>4. /\ db' = DeleteAlbumBucket(db, x) /\ AlbumReturn(Sole, f)
      /\ Tree(db') = RemovedAlbum(T, x) /\ db'.albums = db.albums \ {x}
  BY <1>1, DeleteTrees DEF EndAlbum, DeleteAlbumBucket, Database
<1>5. /\ \A k \in T.songs : AlbumOf(k) # x
      /\ \A k \in T.strays : AlbumOf(k) # x
      /\ x # y /\ y \in T.albums
  BY <1>2, <1>3 DEF AlbumLoop, AlbumReady, HasAlbum, SongsToGo, Tree, Strays
<1>6. x \in AlbumKey /\ y \in AlbumKey /\ x[1] = f.from[1] /\ x[2] = f.from[2] /\ y[1] = f.to[1] /\ y[2] = f.to[2]
  BY <1>3, KeyParts DEF AlbumOf, AlbumKey
<1>7. /\ Len(f.req.from) = 1 => /\ f.from[1] = a /\ f.to[1] = b /\ AlbumsToGo(db, f, TRUE)
                                /\ f.from[2] = f.to[2] /\ a # b
      /\ Len(f.req.from) = 2 => x = f.req.from /\ y = f.req.to
  BY <1>3 DEF Aimed, InLoop, SongsLoop, ArtistAim, AlbumAim, AlbumLoop, ArtistLoop
<1> HIDE DEF x, y, T
<1>8. /\ {k \in T.songs : AlbumOf(k) # x} = T.songs
      /\ {k \in T.strays : AlbumOf(k) # x} = T.strays
  BY <1>5
<1>9. /\ Tree(db').artists = T.artists /\ Tree(db').albums = T.albums \ {x}
      /\ Tree(db').songs = T.songs /\ Tree(db').strays = T.strays
  BY <1>4, <1>8 DEF RemovedAlbum
<1>10. CASE Len(f.req.from) = 1
  <2>1. \A t : Result(t, f.req) = RenamedArtist(t, a, b)
    BY <1>2, <1>3, <1>10, RenameRequest DEF RenameOf
  <2> HIDE DEF a, b
  <2>2. {AlbumTo(a, b, z) : z \in Tree(db').albums} = {AlbumTo(a, b, z) : z \in T.albums}
    <3>1. AlbumTo(a, b, x) = y /\ AlbumTo(a, b, y) = y
      BY <1>6, <1>7, <1>10, TwinAlbums
    <3> QED
      BY <1>5, <1>9, <3>1
  <2>3. RenamedArtist(Tree(db'), a, b) = RenamedArtist(T, a, b)
    BY <1>9, <2>2, SameRenamedArtist
  <2>4. Kept(Tree(db'))
    BY <1>3, <2>1, <2>3 DEF Kept
  <2>5. \A z \in db.albums : z[1] = f.from[1] /\ z[2] = f.from[2] => z = x
    <3>1. db.albums \subseteq AlbumKey
      BY <1>1 DEF Database
    <3> QED
      BY <1>6, <3>1, KeyParts
  <2>6. AlbumsToGo(db', f, FALSE)
    BY <1>4, <1>7, <1>10, <2>5 DEF AlbumsToGo
  <2> QED
    BY <1>1, <1>2, <1>4, <1>7, <1>10, <2>4, <2>6, AlbumReturnAdvance DEF a, b
<1>11. CASE Len(f.req.from) = 2
  <2> HIDE DEF a, b
  <2>1. \A t : Result(t, f.req) = RenamedAlbum(t, x, y)
    BY <1>2, <1>3, <1>7, <1>11, RenameRequest DEF RenameOf
  <2>2. /\ (Tree(db').albums \ {x}) \cup {y} = (T.albums \ {x}) \cup {y}
        /\ (Tree(db').albums \ {x}) \cup {y} = Tree(db').albums
    BY <1>5, <1>9
  <2>3. RenamedAlbum(Tree(db'), x, y) = RenamedAlbum(T, x, y)
    BY <1>9, <2>2 DEF RenamedAlbum
  <2>4. {SongInto(x, y, k) : k \in T.songs} = T.songs
    <3>1. \A k \in T.songs : SongInto(x, y, k) = k
      BY <1>5 DEF SongInto
    <3> QED
      BY <3>1
  <2>5. Tree(db') = [artists |-> T.artists, albums |-> T.albums \ {x}, songs |-> T.songs, strays |-> T.strays]
    BY <1>4, <1>8 DEF RemovedAlbum
  <2>6. RenamedAlbum(Tree(db'), x, y) = Tree(db')
    BY <1>8, <1>9, <2>2, <2>4, <2>5 DEF RenamedAlbum
  <2>7. Kept(Tree(db')) /\ Fixed(Tree(db'), f.req)
    BY <1>3, <2>1, <2>3, <2>6 DEF Kept, Fixed
  <2> QED
    <3>1. pc[Sole] \notin {"idle", "Nested"}
      BY <1>1
    <3> HIDE DEF f
    <3> QED
      BY <1>1, <1>2, <1>4, <1>11, <2>7, <3>1, AlbumReturnAdvance DEF f
<1> QED
  BY <1>2, <1>10, <1>11 DEF RenameOf

----------------------------------------------------------------------------
(* The steps of MoveSongs.                                                 *)

\* Which songs the renaming of an artist or an album moves, and where to.
Leaves(r, k) == IF Len(r.from) = 1 THEN k[1] = r.from[1] ELSE AlbumOf(k) = r.from

GoesTo(r, k) ==
    IF Len(r.from) = 1 THEN SongTo(r.from[1], r.to[1], k) ELSE SongInto(r.from, r.to, k)

\* Trees that it does not tell apart.
LEMMA SameRenamed ==
    ASSUME Sequential, NEW r \in Requests, r.op = "rename", Len(r.from) # 3,
           NEW t, NEW u, u.artists = t.artists, u.albums = t.albums,
           {GoesTo(r, k) : k \in u.songs} = {GoesTo(r, k) : k \in t.songs},
           {k \in u.strays : ~Leaves(r, k)} = {k \in t.strays : ~Leaves(r, k)}
    PROVE  Result(u, r) = Result(t, r)
<1>1. CASE Len(r.from) = 1
  <2>1. /\ \A k : GoesTo(r, k) = SongTo(r.from[1], r.to[1], k)
        /\ \A k : Leaves(r, k) <=> k[1] = r.from[1]
    BY <1>1 DEF GoesTo, Leaves
  <2>2. RenamedArtist(u, r.from[1], r.to[1]) = RenamedArtist(t, r.from[1], r.to[1])
    BY <2>1 DEF RenamedArtist
  <2> QED
    BY <1>1, <2>2, RenameRequest
<1>2. CASE Len(r.from) = 2
  <2>1. /\ \A k : GoesTo(r, k) = SongInto(r.from, r.to, k)
        /\ \A k : Leaves(r, k) <=> AlbumOf(k) = r.from
    BY <1>2 DEF GoesTo, Leaves
  <2>2. RenamedAlbum(u, r.from, r.to) = RenamedAlbum(t, r.from, r.to)
    BY <2>1 DEF RenamedAlbum
  <2> QED
    BY <1>2, <2>2, RenameRequest
<1> QED
  BY <1>1, <1>2, RenameRequest

LEMMA SongAim ==
    ASSUME Sequential, ShelfOK, pc[Sole] \in MoveSongsSteps, NEW f, f = loc[Sole]
    PROVE  /\ f \in Frame /\ f.req \in Requests /\ f.req.op = "rename"
           /\ f.from \in SongKey /\ f.to \in SongKey /\ f.path \in Path /\ NewFullPath(f) = f.to
           /\ Carried(db, dirs, pc[Sole], f) /\ Aimed(db, pc[Sole], f)
           /\ Kept(Whole(db, pc[Sole], f))
           /\ Len(f.req.from) # 3 =>
                 /\ Len(f.req.from) \in {1, 2} /\ Heading(db, f) /\ OneAlbum(f)
                 /\ Leaves(f.req, f.from)
                 /\ GoesTo(f.req, f.from) = f.to /\ GoesTo(f.req, f.to) = f.to
<1>1. OrderOK /\ pc[Sole] \notin {"idle", "Nested"}
  BY DEF ShelfOK, MoveSongsSteps
<1>2. /\ f \in Frame /\ f.req \in Requests /\ f.from \in SongKey /\ f.to \in SongKey
      /\ f.path \in Path /\ NewFullPath(f) = f.to /\ Carried(db, dirs, pc[Sole], f)
      /\ Aimed(db, pc[Sole], f) /\ Kept(Whole(db, pc[Sole], f))
  BY <1>1, PromiseOf, SongStepOf
<1>3. RenameOf(f, {1, 2, 3}) /\ (RenameOf(f, {1, 2}) => OneAlbum(f))
  BY <1>1, SoleClient DEF OrderOK, TreeOK, Errands, Errand
<1>4. ASSUME Len(f.req.from) # 3
      PROVE  /\ AlbumOf(f.to) # AlbumOf(f.from)
             /\ Len(f.req.from) = 1 => ArtistLoop(db, dirs, f, TRUE)
  <2>1. AlbumLoop(db, dirs, f, TRUE) \/ AlbumLoop(db, dirs, f, FALSE)
    BY <1>2, <1>4 DEF Carried, SongsLoop
  <2> QED
    BY <2>1 DEF AlbumLoop, AlbumReady
<1>5. pc[Sole] \in InLoop /\ pc[Sole] # "EndArtist"
  BY DEF InLoop, SongsLoop, MoveSongsSteps
<1>6. ASSUME Len(f.req.from) = 1
      PROVE  /\ Heading(db, f) /\ Leaves(f.req, f.from)
             /\ GoesTo(f.req, f.from) = f.to /\ GoesTo(f.req, f.to) = f.to
  <2>1. ArtistAim(db, pc[Sole], f)
    BY <1>2, <1>5, <1>6 DEF Aimed
  <2>2. ArtistLoop(db, dirs, f, TRUE)
    <3>1. Len(f.req.from) # 3
      BY <1>6
    <3> QED
      BY <1>4, <1>6, <3>1
  <2> QED
    BY <1>5, <1>6, <2>1, <2>2 DEF ArtistAim, ArtistLoop, Heading, Leaves, GoesTo, SongTo
<1>7. ASSUME Len(f.req.from) = 2
      PROVE  /\ Heading(db, f) /\ Leaves(f.req, f.from)
             /\ GoesTo(f.req, f.from) = f.to /\ GoesTo(f.req, f.to) = f.to
  <2>1. AlbumAim(pc[Sole], f) /\ AlbumOf(f.to) # AlbumOf(f.from)
    BY <1>2, <1>4, <1>5, <1>7 DEF Aimed
  <2> QED
    BY <1>7, <2>1 DEF AlbumAim, Heading, Leaves, GoesTo, SongInto
<1> QED
  BY <1>2, <1>3, <1>6, <1>7 DEF RenameOf

\* One step of MoveSongs after another.
LEMMA SongStepAimed ==
    ASSUME NEW d, NEW e, NEW f, NEW g, NEW from \in MoveSongsSteps, NEW to \in MoveSongsSteps,
           Aimed(d, from, f), SameLoop(f, g), e.albums \subseteq d.albums,
           to \in ToFile => from \in ToFile,
           Len(g.req.from) = 3 => Finds(e, to, g),
           Len(g.req.from) = 3 /\ to \in Relisting => Fixed(Tree(e), g.req)
    PROVE  Aimed(e, to, g)
<1>1. from \in InLoop /\ to \in InLoop /\ from # "EndArtist" /\ to # "EndArtist"
  BY DEF InLoop, SongsLoop, MoveSongsSteps
<1>2. Straight(to, g.req) => Len(g.req.from) = 3 /\ Straight(from, f.req)
  BY DEF Straight, SameLoop, MoveSongsSteps
<1>3. Serves(to, g.req) /\ (Len(g.req.from) # 3 => Finds(e, to, g))
  BY DEF Serves, Finds, MoveSongsSteps
<1>4. Len(g.req.from) = 1 => ArtistAim(e, to, g)
  <2>1. Len(g.req.from) = 1 => ArtistAim(d, from, f)
    BY <1>1 DEF Aimed, SameLoop
  <2> QED
    BY <1>1, <2>1 DEF ArtistAim, AlbumsToGo, SameLoop
<1>5. Len(g.req.from) = 2 => AlbumAim(to, g)
  <2>1. Len(g.req.from) = 2 => AlbumAim(from, f)
    BY <1>1 DEF Aimed, SameLoop
  <2> QED
    BY <2>1 DEF AlbumAim, SameLoop
<1>6. Done(to, g.req) => Fixed(Tree(e), g.req)
  BY DEF Done, DoneSteps, MoveSongsSteps
<1>7. Straight(to, g.req) => g.from = g.req.from /\ g.to = g.req.to
  BY <1>2 DEF Aimed, SameLoop
<1> QED
  BY <1>3, <1>4, <1>5, <1>6, <1>7 DEF Aimed

LEMMA UnlistAdvance ==
    ASSUME Sequential, ShelfOK, MoveSongs(Sole) \/ Unlist(Sole)
    PROVE  Advance
<1> DEFINE f     == loc[Sole]
           lists == ListsOf(db, f.from)
           g     == [f EXCEPT !.lists = lists, !.todo = lists]
           h     == [f EXCEPT !.todo = Tail(f.todo)]
<1>1. pc[Sole] \in {"MoveSongs", "Unlist"} /\ db \in Database
  BY OrderOf DEF MoveSongs, Unlist, Session, ShelfOK
<1>2. /\ f \in Frame /\ f.from \in SongKey /\ Aimed(db, pc[Sole], f) /\ Kept(Tree(db))
  BY <1>1, SongAim, WholeTree DEF MoveSongsSteps
<1>3. SamePaths(db, db') /\ db'.artists = db.artists /\ db'.albums = db.albums
  <2>1. db' = db \/ \E pl, title : db' = UnlistTx(db, pl, title)
    BY DEF MoveSongs, Unlist
  <2>2. SamePaths(db, db)
    BY DEF SamePaths
  <2>3. SamePaths(db, db')
    BY <1>1, <2>1, <2>2, AlbumsAddPaths
  <2>4. db'.artists = db.artists /\ db'.albums = db.albums
    BY <1>1, <2>1 DEF UnlistTx, Database
  <2> QED
    BY <2>3, <2>4
<1>4. SameLoop(f, g) /\ SameLoop(f, h)
  BY <1>2 DEF Frame, SameLoop
<1>5. \E step \in {"Unlist", "RenameFile"} : Goto(Sole, step, g) \/ Goto(Sole, step, h)
  BY DEF MoveSongs, Unlist
<1> HIDE DEF f, g, h
<1>6. ASSUME NEW step \in {"Unlist", "RenameFile"}, NEW k, SameLoop(f, k), Goto(Sole, step, k)
      PROVE  Advance
  <2>1. Len(k.req.from) = 3 => Finds(db', step, k)
    BY <1>1, <1>2, <1>3, <1>6 DEF Aimed, Finds, SameLoop, SamePaths
  <2>2. Aimed(db', step, k)
    BY <1>1, <1>2, <1>3, <1>6, <2>1, SongStepAimed DEF MoveSongsSteps, ToFile, NotGone, Relisting
  <2>3. Whole(db', step, k) = Tree(db')
    BY <1>6, WholeTree
  <2>4. Tree(db') = Tree(db)
    BY <1>3, SameTrees
  <2> QED
    BY <1>1, <1>2, <1>6, <2>2, <2>3, <2>4, AdvanceTo DEF SameLoop, f
<1> QED
  BY <1>4, <1>5, <1>6

\* Between two albums or two artists no file operation fails; a song that is
\* renamed alone stays where it is when its file is somewhere else.
LEMMA RenameFileAdvance ==
    ASSUME Sequential, ShelfOK, RenameFile(Sole)
    PROVE  Advance
<1> DEFINE f == loc[Sole]
<1>1. pc[Sole] = "RenameFile" /\ db' = db /\ OrderOK
  BY DEF RenameFile, Syscall, ShelfOK
<1>2. /\ f \in Frame /\ f.req \in Requests /\ f.req.op = "rename" /\ f.from \in SongKey /\ f.to \in SongKey
      /\ Carried(db, dirs, "RenameFile", f) /\ Aimed(db, "RenameFile", f) /\ Kept(Tree(db))
  BY <1>1, SongAim, WholeTree DEF MoveSongsSteps
<1>3. Settled(db, disk) /\ Filed(db)
  BY <1>1, OrderOf DEF InHand
<1>4. CASE Goto(Sole, "DeleteOld", f)
  <2>1. SameLoop(f, f)
    BY DEF SameLoop
  <2>2. Len(f.req.from) = 3 => Finds(db', "DeleteOld", f)
    BY <1>2 DEF Carried, Finds
  <2> HIDE DEF f
  <2>3. Aimed(db', "DeleteOld", f)
    BY <1>1, <1>2, <2>1, <2>2, SongStepAimed DEF MoveSongsSteps, ToFile, NotGone, Relisting
  <2>4. Whole(db', "DeleteOld", f) = Tree(db')
    BY WholeTree
  <2> QED
    BY <1>1, <1>2, <1>4, <2>3, <2>4, AdvanceTo DEF f
<1>5. CASE /\ ~(disk[f.path] # NoFile /\ DirOf(AlbumOf(f.to)) \in dirs \cup {<<>>})
           /\ SongReturn(Sole, f)
  <2>1. Len(f.req.from) = 3
    BY <1>1, <1>5, HeldFile
  <2>2. f.path = f.from /\ db.songs[f.from] # NoSong /\ f.from = f.req.from
    BY <1>2, <2>1 DEF Carried, Aimed, Finds, Straight, ToFile, NotGone
  <2>3. DirOf(AlbumOf(f.to)) \in dirs \cup {<<>>}
    <3>1. AlbumOf(f.to) \in db.albums
      BY <1>2 DEF Carried, Unfiled, NotGone, HasAlbum
    <3>2. AlbumOf(f.to) \in dirs /\ AlbumOf(f.to)[2] # NoName
      BY <1>1, <3>1 DEF ShelfOK, HasDirs, OrderOK, Named
    <3> QED
      BY <3>2 DEF DirOf
  <2>4. f.from \in Strays(db)
    <3>1. ~FileAt(disk, f.from) /\ f.from \in Place
      BY <1>2, <1>5, <2>2, <2>3, NotInDrop DEF FileAt, Place
    <3>2. ~HasSong(db, f.from)
      BY <1>3, <3>1 DEF Settled, Even
    <3> QED
      BY <1>2, <2>2, <3>2 DEF HasSong, Strays
  <2>5. Fixed(Tree(db), f.req)
    <3>1. Result(Tree(db), f.req) = RenamedSong(Tree(db), f.req.from, f.req.to)
      BY <1>2, <2>1, RenameRequest
    <3> QED
      BY <2>2, <2>4, <3>1 DEF RenamedSong, Tree, Fixed
  <2> QED
    BY <1>1, <1>2, <1>5, <2>1, <2>5, SongReturnAdvance
<1> QED
  BY <1>4, <1>5 DEF RenameFile

LEMMA DeleteOldAdvance ==
    ASSUME Sequential, ShelfOK, DeleteOld(Sole)
    PROVE  Advance
<1> DEFINE f == loc[Sole]
           T == Tree(db)
<1>1. pc[Sole] = "DeleteOld" /\ OrderOK /\ db \in Database
  BY OrderOf DEF DeleteOld, Session, ShelfOK
<1>2. /\ f \in Frame /\ f.req \in Requests /\ f.req.op = "rename" /\ f.from \in SongKey
      /\ Carried(db, dirs, "DeleteOld", f) /\ Aimed(db, "DeleteOld", f) /\ Kept(T)
      /\ Held(db, f)
  <2>1. /\ f \in Frame /\ f.req \in Requests /\ f.req.op = "rename" /\ f.from \in SongKey
        /\ Carried(db, dirs, "DeleteOld", f) /\ Aimed(db, "DeleteOld", f) /\ Kept(T)
    BY <1>1, SongAim, WholeTree DEF MoveSongsSteps
  <2> QED
    BY <2>1 DEF Carried
<1>3. HasAlbum(db, AlbumOf(f.from))
  BY <1>1, <1>2 DEF OrderOK, TreeOK, SongsHoused, Housed, HasAlbum, Held
<1>4. db' = DeleteSongTx(db, f.from) /\ (Goto(Sole, "Nested", f) \/ Goto(Sole, "SetMp3Tags", f))
  BY <1>3 DEF DeleteOld, DeleteSongThen
<1>5. CASE Goto(Sole, "Nested", f)
  BY <1>1, <1>5, AdvanceNested
<1>6. CASE Goto(Sole, "SetMp3Tags", f)
  <2> DEFINE W == Whole(db', "SetMp3Tags", f)
  <2>1. /\ Tree(db') = RemovedSong(T, f.from) /\ db'.albums = db.albums
        /\ db'.songs[f.from] = NoSong
    <3>1. Removes(db, db', {f.from})
      BY <1>1, <1>2, <1>4, DeletesRemove
    <3> QED
      BY <1>1, <1>2, <1>4, <3>1, DeleteTrees DEF Removes, DeleteSongTx, Database
  <2>2. Aimed(db', "SetMp3Tags", f)
    <3>1. SameLoop(f, f)
      BY DEF SameLoop
    <3>2. Finds(db', "SetMp3Tags", f)
      BY <2>1 DEF Finds
    <3> HIDE DEF f
    <3> QED
      BY <1>2, <2>1, <3>1, <3>2, SongStepAimed DEF MoveSongsSteps, ToFile, NotGone, Relisting
  <2>3. Kept(W)
    <3>1. CASE Len(f.req.from) = 3
      <4>1. f.path = f.from /\ f.from = f.req.from
        BY <1>2, <3>1 DEF Aimed, Finds, Straight, ToFile, NotGone
      <4>2. f.from \notin T.strays
        BY <1>2, <4>1 DEF Held, Tree, Strays
      <4>3. W = Tree(db')
        BY <3>1, WholeTree
      <4>4. \A t : Result(t, f.req) = RenamedSong(t, f.from, f.req.to)
        BY <1>2, <3>1, <4>1, RenameRequest
      <4> HIDE DEF T, W
      <4>5. /\ W.artists = T.artists /\ W.albums = T.albums
            /\ W.songs = T.songs \ {f.from} /\ W.strays = T.strays
        BY <2>1, <4>2, <4>3 DEF RemovedSong
      <4>6. RenamedSong(W, f.from, f.req.to) = RenamedSong(T, f.from, f.req.to)
        BY <4>2, <4>5 DEF RenamedSong
      <4> QED
        BY <1>2, <4>4, <4>6 DEF Kept
    <3>2. CASE Len(f.req.from) # 3
      <4>1. Leaves(f.req, f.from)
        BY <1>1, <3>2, SongAim DEF MoveSongsSteps
      <4>2. f.from \in T.songs
        BY <1>2 DEF Held, Tree
      <4>3. W = MadeSongs(RemovedSong(T, f.from), {f.from})
        BY <2>1, <3>2 DEF Whole, InTransit
      <4> HIDE DEF T, W
      <4>4. /\ W.artists = T.artists /\ W.albums = T.albums
            /\ W.songs = T.songs /\ W.strays = T.strays \ {f.from}
        BY <4>2, <4>3 DEF RemovedSong, MadeSongs
      <4>5. {k \in W.strays : ~Leaves(f.req, k)} = {k \in T.strays : ~Leaves(f.req, k)}
        BY <4>1, <4>4
      <4>6. Result(W, f.req) = Result(T, f.req)
        BY <1>2, <3>2, <4>4, <4>5, SameRenamed
      <4> QED
        BY <1>2, <4>6 DEF Kept
    <3> QED
      BY <3>1, <3>2
  <2> QED
    BY <1>1, <1>6, <2>2, <2>3, AdvanceTo
<1> QED
  BY <1>4, <1>5, <1>6

LEMMA SetMp3TagsAdvance ==
    ASSUME Sequential, ShelfOK, SetMp3Tags(Sole)
    PROVE  Advance
<1> DEFINE f == loc[Sole]
<1>1. pc[Sole] = "SetMp3Tags" /\ db' = db /\ Goto(Sole, "CreateNew", f)
  BY DEF SetMp3Tags, Syscall
<1>2. Aimed(db, "SetMp3Tags", f) /\ Kept(Whole(db, "SetMp3Tags", f))
  BY <1>1, SongAim DEF MoveSongsSteps
<1>3. Aimed(db, "CreateNew", f)
  <2>1. SameLoop(f, f) /\ (Len(f.req.from) = 3 => Finds(db, "CreateNew", f))
    BY <1>2 DEF SameLoop, Aimed, Finds
  <2> HIDE DEF f
  <2> QED
    BY <1>2, <2>1, SongStepAimed DEF MoveSongsSteps, ToFile, NotGone, Relisting
<1>4. Whole(db, "CreateNew", f) = Whole(db, "SetMp3Tags", f)
  BY DEF Whole, InTransit
<1> QED
  BY <1>1, <1>2, <1>3, <1>4, AdvanceTo

\* The song at hand is stored again, in the place where it was going.
LEMMA CreateNewAdvance ==
    ASSUME Sequential, ShelfOK, CreateNew(Sole)
    PROVE  Advance
<1> DEFINE f == loc[Sole]
           g == [f EXCEPT !.todo = f.lists]
           T == Tree(db)
           U == Tree(db')
           W == Whole(db, "CreateNew", f)
<1>1. pc[Sole] = "CreateNew" /\ db \in Database
  BY OrderOf DEF CreateNew, Session, ShelfOK
<1>2. /\ f \in Frame /\ f.req \in Requests /\ f.req.op = "rename"
      /\ f.from \in SongKey /\ f.to \in SongKey /\ NewFullPath(f) = f.to
      /\ Carried(db, dirs, "CreateNew", f) /\ Aimed(db, "CreateNew", f) /\ Kept(W)
  BY <1>1, SongAim DEF MoveSongsSteps
<1>3. /\ f.to[3] \in Mp3Name /\ HasAlbum(db, AlbumOf(f.to))
      /\ db.songs[f.to] = NoSong \/ db.songs[f.to].path = f.to
  BY <1>2, KeyParts DEF Sequential, Carried, Unfiled
<1>4. /\ db' = CreateSongTx(db, f.to, f.to)
      /\ SongReturn(Sole, f) \/ Goto(Sole, "AddPath", g)
  BY <1>2, <1>3 DEF CreateNew
<1>5. SameLoop(f, f) /\ SameLoop(f, g)
  BY <1>2 DEF Frame, SameLoop
<1>6. db'.albums = db.albums
  BY <1>1, <1>4 DEF CreateSongTx, Database
<1> HIDE DEF g
<1>7. /\ U.artists = T.artists /\ U.albums = T.albums
      /\ U.songs = T.songs \cup {f.to} /\ U.strays = T.strays /\ f.to \notin T.strays
  <2>1. f.to \notin T.strays
    BY <1>3 DEF Tree, Strays
  <2> HIDE DEF f
  <2>2. /\ U.artists = T.artists /\ U.albums = T.albums
        /\ U.songs = T.songs \cup {f.to} /\ U.strays = T.strays \ {f.to}
    BY <1>1, <1>2, <1>4, CreateSongTree
  <2> HIDE DEF T, U
  <2> QED
    BY <2>1, <2>2
<1>8. ASSUME Len(f.req.from) = 3 PROVE Kept(U) /\ Fixed(U, f.req)
  <2>1. f.from = f.req.from /\ f.to = f.req.to /\ db.songs[f.from] = NoSong
    BY <1>2, <1>8 DEF Aimed, Finds, Straight, ToFile
  <2>2. f.from \notin T.songs /\ f.from \notin T.strays
    BY <2>1 DEF Tree, Strays
  <2>3. W = T
    BY <1>8, WholeTree
  <2>4. \A t : Result(t, f.req) = RenamedSong(t, f.from, f.to)
    BY <1>2, <1>8, <2>1, RenameRequest
  <2>5. U = [artists |-> U.artists, albums |-> U.albums, songs |-> U.songs, strays |-> U.strays]
    BY DEF Tree
  <2> HIDE DEF T, U, W
  <2>6. RenamedSong(T, f.from, f.to) = U
    <3>1. /\ (T.songs \ {f.from}) \cup {f.to} = U.songs
          /\ T.strays \ {f.to} = U.strays
      BY <1>7, <2>2
    <3> QED
      BY <1>7, <2>2, <2>5, <3>1 DEF RenamedSong
  <2>7. RenamedSong(U, f.from, f.to) = U
    <3>1. /\ (U.songs \ {f.from}) \cup {f.to} = U.songs
          /\ U.strays \ {f.to} = U.strays /\ f.from \notin U.strays
      BY <1>7, <2>2
    <3> QED
      BY <2>5, <3>1 DEF RenamedSong
  <2> QED
    BY <1>2, <2>3, <2>4, <2>6, <2>7 DEF Kept, Fixed
<1>9. ASSUME Len(f.req.from) # 3 PROVE Kept(U) /\ Heading(db', f) /\ OneAlbum(f)
  <2>1. /\ Heading(db, f) /\ OneAlbum(f)
        /\ GoesTo(f.req, f.from) = f.to /\ GoesTo(f.req, f.to) = f.to
    BY <1>1, <1>9, SongAim DEF MoveSongsSteps
  <2>2. Heading(db', f)
    BY <1>5, <1>6, <2>1, HeadingKept
  <2>3. W = MadeSongs(T, {f.from})
    BY <1>9 DEF Whole, InTransit
  <2> HIDE DEF T, U, W
  <2>4. /\ W.artists = T.artists /\ W.albums = T.albums
        /\ W.songs = T.songs \cup {f.from} /\ W.strays = T.strays
    BY <2>3 DEF MadeSongs
  <2>5. {GoesTo(f.req, k) : k \in U.songs} = {GoesTo(f.req, k) : k \in W.songs}
    BY <1>7, <2>1, <2>4
  <2>6. Result(U, f.req) = Result(W, f.req)
    BY <1>2, <1>7, <1>9, <2>4, <2>5, SameRenamed
  <2> QED
    BY <1>2, <2>1, <2>2, <2>6 DEF Kept
<1>10. CASE SongReturn(Sole, f)
  BY <1>1, <1>2, <1>8, <1>9, <1>10, SongReturnAdvance
<1>11. CASE Goto(Sole, "AddPath", g)
  <2>1. g.req = f.req
    BY <1>5 DEF SameLoop
  <2> HIDE DEF f
  <2>2. Aimed(db', "AddPath", g)
    <3>1. Finds(db', "AddPath", g)
      BY DEF Finds
    <3> QED
      BY <1>2, <1>5, <1>6, <1>8, <2>1, <3>1, SongStepAimed DEF MoveSongsSteps, ToFile, NotGone, Relisting
  <2>3. Whole(db', "AddPath", g) = U
    BY WholeTree
  <2>4. Kept(U)
    BY <1>8, <1>9
  <2> QED
    BY <1>1, <1>11, <2>1, <2>2, <2>3, <2>4, AdvanceTo DEF f
<1> QED
  BY <1>4, <1>10, <1>11

\* The steps that put the song back on its playlists leave the tree alone.
LEMMA RelistAdvance ==
    ASSUME Sequential, ShelfOK, pc[Sole] \in Relisting,
           SamePaths(db, db'), db'.artists = db.artists, db'.albums = db.albums,
           NEW g, SameLoop(loc[Sole], g),
           \/ g \in Frame /\ SongReturn(Sole, g)
           \/ \E to \in Relisting : Goto(Sole, to, g)
    PROVE  Advance
<1> DEFINE f == loc[Sole]
<1>1. pc[Sole] \in MoveSongsSteps /\ pc[Sole] \notin {"idle", "Nested", "SetMp3Tags", "CreateNew"}
  BY DEF Relisting, MoveSongsSteps
<1>2. /\ Aimed(db, pc[Sole], f) /\ Kept(Tree(db))
      /\ Len(f.req.from) # 3 => Heading(db, f) /\ OneAlbum(f)
  BY <1>1, SongAim, WholeTree
<1>3. Tree(db') = Tree(db) /\ g.req = f.req
  BY SameTrees DEF SameLoop
<1>4. Len(g.req.from) = 3 => Fixed(Tree(db'), g.req)
  BY <1>2, <1>3 DEF Aimed, Done
<1>5. CASE g \in Frame /\ SongReturn(Sole, g)
  <2>1. Len(g.req.from) # 3 => Heading(db', g) /\ OneAlbum(g)
    BY <1>2, <1>3, HeadingKept DEF SameLoop, OneAlbum
  <2> QED
    BY <1>1, <1>2, <1>3, <1>4, <1>5, <2>1, SongReturnAdvance
<1>6. ASSUME NEW to \in Relisting, Goto(Sole, to, g) PROVE Advance
  <2>1. to \in MoveSongsSteps /\ to \notin ToFile /\ to \notin {"idle", "Nested", "SetMp3Tags", "CreateNew"}
    BY DEF Relisting, MoveSongsSteps, ToFile, NotGone
  <2>2. Finds(db', to, g)
    BY DEF Finds, Relisting
  <2>3. Aimed(db', to, g)
    BY <1>1, <1>2, <1>4, <2>1, <2>2, SongStepAimed
  <2>4. Whole(db', to, g) = Tree(db')
    BY <2>1, WholeTree
  <2> QED
    BY <1>1, <1>2, <1>3, <1>6, <2>1, <2>3, <2>4, AdvanceTo
<1> QED
  BY <1>5, <1>6

LEMMA AddPathAdvance ==
    ASSUME Sequential, ShelfOK, AddPath(Sole)
    PROVE  Advance
<1> DEFINE f == loc[Sole]
           g == [f EXCEPT !.path = db.songs[f.to].path]
<1>1. pc[Sole] = "AddPath" /\ db' = db /\ f \in Frame
  BY OrderOf DEF AddPath, Session, ShelfOK
<1>2. SameLoop(f, g) /\ SameLoop(f, f)
  BY <1>1 DEF Frame, SameLoop
<1>3. Goto(Sole, "Regenerate", f) \/ Goto(Sole, "AddEntry", g)
  BY DEF AddPath
<1> HIDE DEF f, g
<1> QED
  BY <1>1, <1>2, <1>3, RelistAdvance, SameDatabasePaths DEF Relisting, f

LEMMA AddEntryAdvance ==
    ASSUME Sequential, ShelfOK, AddEntry(Sole)
    PROVE  Advance
<1> DEFINE f  == loc[Sole]
           pl == Head(f.todo)
<1>1. pc[Sole] = "AddEntry" /\ f \in Frame /\ f.to \in SongKey /\ db \in Database
  BY SongAim, OrderOf DEF AddEntry, Session, ShelfOK, MoveSongsSteps
<1>2. Goto(Sole, "Regenerate", f) /\ SameLoop(f, f)
  BY DEF AddEntry, SameLoop
<1>3. \/ db' = db
      \/ /\ pl \in db.playlists /\ db.songs[f.to] # NoSong
         /\ db' = AddFileToPlaylistTx(db, pl, f.to, f.path)
  BY DEF AddEntry
<1> HIDE DEF f, pl
<1>4. SamePaths(db, db') /\ db'.artists = db.artists /\ db'.albums = db.albums
  <2>1. CASE pl \in db.playlists /\ db.songs[f.to] # NoSong /\ db' = AddFileToPlaylistTx(db, pl, f.to, f.path)
    <3>1. pl \in Playlist
      BY <1>1, <2>1 DEF Database
    <3>2. db'.artists = db.artists /\ db'.albums = db.albums
      BY <1>1, <2>1 DEF AddFileToPlaylistTx, Database
    <3> QED
      BY <1>1, <2>1, <3>1, <3>2, AddFileSamePaths
  <2> QED
    BY <1>3, <2>1, SameDatabasePaths
<1> QED
  BY <1>1, <1>2, <1>4, RelistAdvance DEF Relisting, f

LEMMA RegenerateAdvance ==
    ASSUME Sequential, ShelfOK, Regenerate(Sole)
    PROVE  Advance
<1> DEFINE f == loc[Sole]
           g == [f EXCEPT !.todo = Tail(@)]
<1>1. pc[Sole] = "Regenerate" /\ db' = db /\ OrderOK
  BY DEF Regenerate, Session, ShelfOK
<1>2. f \in Frame /\ f.todo # <<>>
  BY <1>1, OrderOf DEF Shape
<1>3. g \in Frame /\ SameLoop(f, g)
  <2>1. f.todo \in Seq(Playlist)
    BY <1>2 DEF Frame
  <2>2. Tail(f.todo) \in Seq(Playlist)
    BY <1>2, <2>1
  <2> QED
    BY <1>2, <2>2 DEF Frame, SameLoop
<1>4. SongReturn(Sole, g) \/ Goto(Sole, "AddPath", g)
  BY DEF Regenerate
<1> HIDE DEF f, g
<1> QED
  BY <1>1, <1>3, <1>4, RelistAdvance, SameDatabasePaths DEF Relisting, f

LEMMA StepAdvance ==
    ASSUME Sequential, ShelfOK, Step(Sole)
    PROVE  Advance
<1>1. CASE \/ CreateArtist(Sole) \/ CreateAlbum(Sole) \/ MkdirNew(Sole)
           \/ CreateSong(Sole) \/ CreateFile(Sole) \/ ReleaseSong(Sole) \/ ReleaseTags(Sole)
           \/ GetFilePath(Sole) \/ DeleteSong(Sole) \/ RemoveFile(Sole)
           \/ DeleteArtist(Sole) \/ DeleteAlbum(Sole) \/ Victims(Sole)
  BY <1>1, CreateArtistAdvance, CreateAlbumAdvance, LastAdvance, CreateSongAdvance, ReleaseAdvance,
     GetFilePathAdvance, DeleteSongAdvance, DeleteArtistAdvance, DeleteAlbumAdvance, VictimsAdvance
<1>2. CASE \/ MoveArtist(Sole) \/ NewArtist(Sole) \/ EndArtist(Sole)
           \/ MoveAlbum(Sole) \/ NewAlbum(Sole) \/ EndAlbum(Sole)
  BY <1>2, MoveArtistAdvance, NewArtistAdvance, EndArtistAdvance, MoveAlbumAdvance, NewAlbumAdvance,
     EndAlbumAdvance
<1>3. CASE \/ MoveSongs(Sole) \/ Unlist(Sole) \/ RenameFile(Sole) \/ DeleteOld(Sole)
           \/ SetMp3Tags(Sole) \/ CreateNew(Sole) \/ AddPath(Sole) \/ AddEntry(Sole)
           \/ Regenerate(Sole)
  BY <1>3, UnlistAdvance, RenameFileAdvance, DeleteOldAdvance, SetMp3TagsAdvance, CreateNewAdvance,
     AddPathAdvance, AddEntryAdvance, RegenerateAdvance
<1> QED
  BY <1>1, <1>2, <1>3, NothingDropped DEF Step, ShelfOK

----------------------------------------------------------------------------
(* The request, when it is asked.                                          *)

LEMMA AboveNode ==
    ASSUME NEW n \in Node, Len(n) \in {1, 2, 3}, NoName \notin ToSet(n)
    PROVE  /\ Parent(n) = Promised!Above(n) /\ Len(Parent(n)) = Len(n) - 1
           /\ Len(n) = 2 => Parent(n)[1] = n[1]
           /\ Len(n) = 3 => Parent(n) = AlbumOf(n)
<1>1. CASE Len(n) \in {1, 2}
  <2> DEFINE S == DirName \cup TitleName
             m == SubSeq(n, 1, Len(n) - 1)
  <2>1. n \in Seq(S) /\ 1 \in Int /\ Len(n) - 1 \in Int
    <3>1. CASE Len(n) = 1
      <4>1. n = <<n[1]>> /\ n[1] \in S
        BY <3>1, NodeByLength, KeyParts DEF ArtistKey
      <4> HIDE DEF S
      <4>2. <<n[1]>> \in Seq(S)
        BY <4>1
      <4>3. n \in Seq(S)
        BY <4>1, <4>2, Zenon
      <4> QED
        BY <3>1, <4>3
    <3>2. CASE Len(n) = 2
      <4>1. n = <<n[1], n[2]>> /\ n[1] \in S /\ n[2] \in S
        BY <3>2, NodeByLength, KeyParts
      <4> HIDE DEF S
      <4>2. <<n[1], n[2]>> \in Seq(S)
        BY <4>1
      <4>3. n \in Seq(S)
        BY <4>1, <4>2, Zenon
      <4> QED
        BY <3>2, <4>3
    <3> QED
      BY <1>1, <3>1, <3>2
  <2>2. \A i \in 1 .. Len(n) - 1 : n[i] \in S
    BY <2>1, <1>1
  <2>3. Len(n) # 3 /\ Parent(n) = m /\ Parent(n) = Promised!Above(n)
    BY <1>1 DEF Parent, Promised!Above
  <2> HIDE DEF S
  <2>4. /\ Len(m) = IF 1 <= Len(n) - 1 THEN (Len(n) - 1) - 1 + 1 ELSE 0
        /\ \A i \in 1 .. (Len(n) - 1) - 1 + 1 : m[i] = n[1 + i - 1]
    BY <2>1, <2>2, SubSeqProperties
  <2>5. Len(m) = Len(n) - 1 /\ (Len(n) = 2 => m[1] = n[1])
    BY <1>1, <2>4
  <2> QED
    BY <2>3, <2>5
<1>2. CASE Len(n) = 3
  <2>1. n \in SongKey /\ n = <<n[1], n[2], n[3]>>
    BY <1>2, NodeByLength, KeyParts
  <2>2. n[1] # NoName /\ n[2] # NoName
    BY <1>2 DEF ToSet
  <2>3. Parent(n) = AlbumOf(n)
    <3>1. AlbumOf(n)[1] = n[1] /\ AlbumOf(n)[2] = n[2]
      BY DEF AlbumOf
    <3> QED
      BY <1>2, <2>2, <3>1 DEF Parent, DirOf
  <2>4. Promised!Above(n) = AlbumOf(n)
    <3>1. Promised!Above(n) = Promised!On(n)
      BY <1>2 DEF Promised!Above, Promised!On
    <3> QED
      BY <2>1, <3>1, OnAlbum
  <2>5. Len(AlbumOf(n)) = 2
    BY DEF AlbumOf
  <2> QED
    BY <1>2, <2>3, <2>4, <2>5
<1> QED
  BY <1>1, <1>2

LEMMA SeesTree ==
    ASSUME between = Tree(db), NEW n, Len(n) = 3 => n \in SongKey
    PROVE  Promised!There(n) <=> Exists(n)
  BY DEF Promised!There, Exists, Tree

\* What the kernel resolves, Shelf calls possible.
LEMMA ResolvedPossible ==
    ASSUME Sequential, between = Tree(db), NEW r \in Requests, Resolves(r)
    PROVE  Promised!Possible(r)
<1>1. r \in Request /\ r.from \in Node /\ r.to \in Node /\ NoName \notin ToSet(r.to)
  BY RequestKinds DEF Request
<1>2. Promised!There(r.from) <=> Exists(r.from)
  BY <1>1, NodeByLength, SeesTree
<1>3. Promised!There(r.to) <=> Exists(r.to)
  BY <1>1, NodeByLength, SeesTree
<1>4. Len(r.to) \in {1, 2, 3} => (Promised!There(Promised!Above(r.to)) <=> Exists(Parent(r.to)))
  <2> SUFFICES ASSUME Len(r.to) \in {1, 2, 3}
               PROVE  Promised!There(Promised!Above(r.to)) <=> Exists(Parent(r.to))
    OBVIOUS
  <2>1. Parent(r.to) = Promised!Above(r.to) /\ Len(Parent(r.to)) = Len(r.to) - 1
    BY <1>1, AboveNode
  <2>2. Len(Parent(r.to)) # 3
    <3>1. CASE Len(r.to) = 1
      BY <2>1, <3>1
    <3>2. CASE Len(r.to) = 2
      BY <2>1, <3>2
    <3>3. CASE Len(r.to) = 3
      BY <2>1, <3>3
    <3> QED
      BY <3>1, <3>2, <3>3
  <2> QED
    BY <2>1, <2>2, SeesTree
<1>5. /\ r.op \in {"mkdir", "create", "rename"} => Len(r.to) \in {1, 2, 3}
      /\ r.op \in {"mkdir", "create", "rename", "release", "remove"}
  BY RequestKinds DEF Asks, Makes
<1>6. CASE r.op \in {"mkdir", "create"}
  BY <1>3, <1>4, <1>5, <1>6 DEF Resolves, Promised!Possible
<1>7. CASE r.op = "rename"
  <2>1. ~ReplaceDirs
    BY DEF Sequential
  <2> QED
    BY <1>2, <1>3, <1>4, <1>5, <1>7, <2>1 DEF Resolves, Promised!Possible
<1>8. CASE r.op \in {"release", "remove"}
  BY <1>2, <1>8 DEF Resolves, Promised!Possible
<1> QED
  BY <1>5, <1>6, <1>7, <1>8

LEMMA FirstAimed ==
    ASSUME Sequential, OrderOK, NEW r \in Requests, Resolves(r), NEW f, f.req = r,
           f.from = r.from, f.to = r.to
    PROVE  /\ Aimed(db, FirstStep(r), f)
           /\ FirstStep(r) \notin {"idle", "Nested", "SetMp3Tags", "CreateNew"}
<1> USE DEF Straight, Serves, Finds, InLoop, SongsLoop, MoveSongsSteps, ToFile, NotGone, DoneSteps,
            Done, Relisting
<1>1. r \in Request /\ r.from \in Node /\ r.to \in Node /\ NoName \notin ToSet(r.to)
  BY RequestKinds DEF Request
<1>2. CASE Makes(r, 1)
  <2>1. FirstStep(r) = "CreateArtist"
    BY <1>2 DEF Makes, FirstStep
  <2> QED
    BY <2>1 DEF Aimed
<1>3. CASE Makes(r, 2)
  <2>1. FirstStep(r) = "CreateAlbum"
    BY <1>3 DEF Makes, FirstStep
  <2>2. f.to[1] \in db.artists
    <3>1. Len(Parent(r.to)) = 1 /\ Parent(r.to)[1] = r.to[1]
      <4>1. Len(r.to) \in {1, 2, 3} /\ Len(r.to) = 2
        BY <1>3 DEF Makes
      <4>2. Len(Parent(r.to)) = 2 - 1 /\ Parent(r.to)[1] = r.to[1]
        BY <1>1, <4>1, AboveNode
      <4> QED
        BY <4>2
    <3>2. Exists(Parent(r.to))
      BY <1>3 DEF Makes, Resolves
    <3> QED
      BY <3>1, <3>2 DEF Exists
  <2> QED
    BY <1>3, <2>1, <2>2 DEF Aimed
<1>4. CASE r.op = "create" /\ Len(r.to) = 3
  <2>1. FirstStep(r) = "CreateSong"
    BY <1>4 DEF FirstStep
  <2>2. HasAlbum(db, AlbumOf(f.to))
    <3>1. Exists(AlbumOf(r.to))
      BY <1>1, <1>4, AboveNode DEF Resolves
    <3>2. AlbumOf(r.to) \in db.albums
      BY <3>1 DEF Exists, AlbumOf
    <3> QED
      BY <3>2 DEF OrderOK, TreeOK, Housed, HasAlbum
  <2> QED
    BY <1>4, <2>1, <2>2 DEF Aimed
<1>5. CASE r.op = "release" /\ Len(r.from) = 3
  <2>1. FirstStep(r) = "ReleaseSong"
    BY <1>5 DEF FirstStep
  <2> QED
    BY <1>5, <2>1 DEF Aimed
<1>6. CASE Asks(r, "remove", 1)
  <2>1. FirstStep(r) = "DeleteArtist"
    BY <1>6 DEF Asks, FirstStep
  <2> QED
    BY <1>6, <2>1 DEF Aimed
<1>7. CASE Asks(r, "remove", 2)
  <2>1. FirstStep(r) = "DeleteAlbum"
    BY <1>7 DEF Asks, FirstStep
  <2> QED
    BY <1>7, <2>1 DEF Aimed
<1>8. CASE Asks(r, "remove", 3)
  <2>1. FirstStep(r) = "GetFilePath"
    BY <1>8 DEF Asks, FirstStep
  <2> QED
    BY <1>8, <2>1 DEF Aimed
<1>9. CASE Asks(r, "rename", 1)
  <2>1. FirstStep(r) = "MoveArtist"
    BY <1>9 DEF Asks, FirstStep
  <2>2. f.from[1] \in db.artists
    BY <1>9 DEF Asks, Resolves, Exists
  <2> QED
    BY <2>1, <2>2 DEF Aimed
<1>10. CASE Asks(r, "rename", 2) /\ Len(r.to) = 2
  <2>1. FirstStep(r) = "MoveAlbum"
    BY <1>10 DEF Asks, FirstStep
  <2>2. f.from \in db.albums
    BY <1>10 DEF Asks, Resolves, Exists
  <2>3. f.to[1] \in db.artists
    <3>1. Len(Parent(r.to)) = 1 /\ Parent(r.to)[1] = r.to[1]
      <4>1. Len(r.to) \in {1, 2, 3} /\ Len(r.to) = 2
        BY <1>10
      <4>2. Len(Parent(r.to)) = 2 - 1 /\ Parent(r.to)[1] = r.to[1]
        BY <1>1, <4>1, AboveNode
      <4> QED
        BY <4>2
    <3>2. Exists(Parent(r.to))
      BY <1>10 DEF Asks, Resolves
    <3> QED
      BY <3>1, <3>2 DEF Exists
  <2>4. AlbumOf(f.from) = f.from /\ AlbumOf(f.to) = f.to
    BY <1>1, <1>10, NodeByLength, KeyParts DEF Asks, AlbumOf
  <2>5. AlbumAim("MoveAlbum", f)
    BY <2>4 DEF AlbumAim
  <2> QED
    BY <1>10, <2>1, <2>2, <2>3, <2>5 DEF Asks, Aimed
<1>11. CASE Asks(r, "rename", 3)
  <2>1. FirstStep(r) = "MoveSongs" /\ Len(f.req.from) = 3
    BY <1>11 DEF Asks, FirstStep
  <2>2. db.songs[f.from] # NoSong
    BY <1>11 DEF Asks, Resolves, Exists
  <2> QED
    BY <2>1, <2>2 DEF Aimed
<1> QED
  BY <1>2, <1>3, <1>4, <1>5, <1>6, <1>7, <1>8, <1>9, <1>10, <1>11, RequestKinds

----------------------------------------------------------------------------
(* Library implements Shelf.                                               *)

\* Between two requests no song has lost its file.
LEMMA ShownTree ==
    ASSUME NEW d, NEW k, Settled(d, k), Filed(d)
    PROVE  Shown(d, k) = Tree(d)
<1> DEFINE there == {l \in SongKey : d.songs[l] # NoSong}
<1>1. \A l \in there : k[d.songs[l].path] # NoFile
  <2> SUFFICES ASSUME NEW l \in SongKey, d.songs[l] # NoSong PROVE k[d.songs[l].path] # NoFile
    OBVIOUS
  <2>1. d.songs[l].path \in Place
    BY NotInDrop DEF Filed, Place, Path
  <2>2. HasSong(d, d.songs[l].path)
    BY DEF HasSong
  <2> QED
    BY <2>1, <2>2 DEF Settled, Even, FileAt
<1>2. {l \in there : d.songs[l].path # l \/ k[l] = NoFile} = Strays(d)
  BY <1>1 DEF Strays
<1> QED
  BY <1>2 DEF Shown, Tree

LEMMA QuietTree ==
    ASSUME Sequential, OrderOK, Quiet
    PROVE  Shown(db, disk) = Tree(db)
  BY QuietOrder, ShownTree

LEMMA AskedOf ==
    ASSUME Sequential
    PROVE  /\ Asked = IF pc[Sole] = "idle" THEN NoRequest ELSE loc[Sole].req
           /\ Asked' = IF pc'[Sole] = "idle" THEN NoRequest ELSE loc'[Sole].req
<1>1. Client = {Sole}
  BY SoleClient
<1>2. Asked = IF pc[Sole] = "idle" THEN NoRequest ELSE loc[Sole].req
  <2>1. {p \in Client : pc[p] # "idle"} = IF pc[Sole] = "idle" THEN {} ELSE {Sole}
    BY <1>1
  <2> QED
    BY <2>1 DEF Asked
<1>3. Asked' = IF pc'[Sole] = "idle" THEN NoRequest ELSE loc'[Sole].req
  <2>1. {p \in Client : pc'[p] # "idle"} = IF pc'[Sole] = "idle" THEN {} ELSE {Sole}
    BY <1>1
  <2> QED
    BY <2>1 DEF Asked
<1> QED
  BY <1>2, <1>3

LEMMA QuietOf ==
    ASSUME Sequential, OrderOK'
    PROVE  /\ Quiet' <=> pc'[Sole] = "idle"
           /\ Quiet' => Shown(db, disk)' = Tree(db')
<1>1. Quiet' <=> pc'[Sole] = "idle"
  BY SoleClient DEF OrderOK, Quiet
<1>2. Quiet' => Settled(db', disk') /\ Filed(db')
  <2>1. pc'[Sole] = "idle" => pc'[Sole] \notin InHand
    BY DEF InHand
  <2> QED
    BY <1>1, <2>1, OrderSettled DEF OrderOK, Order, Filed
<1>3. Shown(db, disk)' = Shown(db', disk')
  BY DEF Shown
<1> QED
  BY <1>1, <1>2, <1>3, ShownTree

\* A history variable.
Remember == between' = IF Quiet' THEN Shown(db, disk)' ELSE between

LEMMA TreeSongs ==
    ASSUME NEW d
    PROVE  Tree(d).songs \subseteq SongKey /\ Tree(d).strays \subseteq SongKey
  BY DEF Tree, Strays

LEMMA ShelfBegins ==
    ASSUME Sequential, Furnished, SequentialInit
    PROVE  ShelfOK /\ Promised!ShelfInit
<1>1. PICK i \in Initial : db = i.db /\ disk = i.disk /\ dirs = i.dirs
  BY DEF SequentialInit, Init
<1>2. OrderOK
  BY InitOrder DEF SequentialInit
<1>3. pc[Sole] = "idle"
  BY SoleClient DEF SequentialInit, Init
<1>4. HasDirs(db, dirs, pc[Sole], loc[Sole])
  BY <1>1 DEF Furnished, HasDirs
<1>5. between = Tree(db)
  <2>1. Settled(db, disk) /\ Filed(db)
    BY <1>2, <1>3, OrderOf DEF InHand
  <2> QED
    BY <2>1, ShownTree DEF SequentialInit
<1>6. Promise(between, db, pc[Sole], loc[Sole])
  BY <1>3, <1>5, TreeSongs DEF Promise
<1>7. Promised!ShelfInit
  <2>1. Asked = NoRequest
    BY <1>3, AskedOf
  <2>2. between = Shown(i.db, i.disk)
    BY <1>1 DEF SequentialInit
  <2> QED
    BY <2>1, <2>2 DEF Promised!ShelfInit
<1> QED
  BY <1>2, <1>4, <1>6, <1>7 DEF ShelfOK

\* A request is asked.
LEMMA StartShelf ==
    ASSUME Sequential, ShelfOK, OrderOK', Remember, NEW r \in Requests, Start(Sole, r)
    PROVE  ShelfOK' /\ Promised!Ask(r)
<1> DEFINE f == [Blank EXCEPT !.req = r, !.from = r.from, !.to = r.to, !.path = FirstPath(r)]
<1>1. /\ pc[Sole] = "idle" /\ Resolves(r) /\ Goto(Sole, FirstStep(r), f)
      /\ db' = db /\ dirs' = dirs
  BY DEF Start, files
<1>2. f.req = r /\ f.from = r.from /\ f.to = r.to
  BY DEF Blank
<1> HIDE DEF f
<1>3. /\ Aimed(db, FirstStep(r), f)
      /\ FirstStep(r) \notin {"idle", "Nested", "SetMp3Tags", "CreateNew"}
  BY <1>1, <1>2, FirstAimed DEF ShelfOK
<1>4. pc'[Sole] = FirstStep(r) /\ loc'[Sole] = f
  BY <1>1, OrderOf, SoleClient DEF ShelfOK, Goto, ControlOK
<1>5. between = Tree(db) /\ between.songs \subseteq SongKey /\ between.strays \subseteq SongKey
  BY <1>1 DEF ShelfOK, Promise
<1>6. between' = between
  BY <1>3, <1>4, QuietOf DEF Remember
<1>7. HasDirs(db', dirs', pc'[Sole], loc'[Sole])
  BY <1>1 DEF ShelfOK, HasDirs
<1>8. Promise(between', db', pc'[Sole], loc'[Sole])
  <2>1. Whole(db, FirstStep(r), f) = Tree(db)
    BY <1>3, WholeTree
  <2> QED
    BY <1>1, <1>2, <1>3, <1>4, <1>5, <1>6, <2>1 DEF Promise
<1>9. Promised!Ask(r)
  <2>1. Asked = NoRequest /\ Asked' = r
    BY <1>1, <1>2, <1>3, <1>4, AskedOf
  <2>2. Promised!Possible(r)
    BY <1>1, <1>5, ResolvedPossible
  <2> QED
    BY <1>6, <2>1, <2>2 DEF Promised!Ask, Promised!shelf
<1> QED
  BY <1>7, <1>8, <1>9 DEF ShelfOK

\* The handler works on the request, and answers it with its last step.
LEMMA StepShelf ==
    ASSUME Sequential, ShelfOK, OrderOK', Remember, Step(Sole)
    PROVE  ShelfOK' /\ (Promised!Answer \/ UNCHANGED <<Promised!shelf, Asked>>)
<1>1. HasDirs(db', dirs', pc'[Sole], loc'[Sole])
  BY StepDirs DEF ShelfOK
<1>2. /\ pc[Sole] # "idle" /\ Asked = loc[Sole].req /\ loc[Sole].req \in Requests
      /\ between.songs \subseteq SongKey /\ between.strays \subseteq SongKey
  BY StepBusy, SoleClient, AskedOf DEF ShelfOK, Promise
<1>3. ControlOK /\ Sole \in Process
  BY OrderOf, SoleClient DEF ShelfOK
<1>4. ASSUME NEW step, NEW g, Goto(Sole, step, g), step # "idle", g.req = loc[Sole].req,
             Promise(between, db', step, g)
      PROVE  ShelfOK' /\ UNCHANGED <<Promised!shelf, Asked>>
  <2>1. pc'[Sole] = step /\ loc'[Sole] = g
    BY <1>3, <1>4 DEF Goto, ControlOK
  <2>2. between' = between
    BY <1>4, <2>1, QuietOf DEF Remember
  <2>3. Asked' = Asked
    BY <1>2, <1>4, <2>1, AskedOf
  <2>4. Promise(between', db', pc'[Sole], loc'[Sole])
    BY <1>4, <2>1, <2>2
  <2> QED
    BY <1>1, <2>2, <2>3, <2>4 DEF ShelfOK, Promised!shelf
<1>5. ASSUME Return(Sole), Tree(db') = Result(between, loc[Sole].req)
      PROVE  ShelfOK' /\ Promised!Answer
  <2>1. pc'[Sole] = "idle"
    BY <1>3, <1>5 DEF Return, Goto, ControlOK
  <2>2. between' = Tree(db')
    BY <2>1, QuietOf DEF Remember
  <2>3. Asked' = NoRequest
    BY <2>1, AskedOf
  <2>4. Promise(between', db', pc'[Sole], loc'[Sole])
    BY <2>1, <2>2, TreeSongs DEF Promise
  <2>5. Promised!Answer
    BY <1>2, <1>5, <2>2, <2>3, AnswerGives
  <2> QED
    BY <1>1, <2>4, <2>5 DEF ShelfOK
<1> QED
  BY <1>4, <1>5, StepAdvance DEF Advance

LEMMA NextShelf ==
    ASSUME Sequential, ShelfOK, [SequentialNext]_<<vars, between>>
    PROVE  ShelfOK' /\ [Promised!ShelfNext]_<<Promised!shelf, Asked>>
<1>1. [Next]_vars
  BY DEF SequentialNext
<1>2. OrderOK'
  BY <1>1, NextOrder DEF ShelfOK
<1>3. CASE UNCHANGED vars
  <2>1. Quiet' => between = Tree(db)
    BY <1>2, <1>3, QuietOf DEF vars, ShelfOK, Promise
  <2>2. between' = between
    BY <1>2, <1>3, <2>1, QuietOf DEF SequentialNext, vars
  <2>3. HasDirs(db', dirs', pc'[Sole], loc'[Sole]) /\ Promise(between', db', pc'[Sole], loc'[Sole])
    BY <1>3, <2>2 DEF ShelfOK, vars
  <2>4. Asked' = Asked
    BY <1>3, AskedOf DEF vars
  <2> QED
    BY <1>2, <2>2, <2>3, <2>4 DEF ShelfOK, Promised!shelf
<1>4. CASE ~UNCHANGED vars
  <2>1. Remember
    BY <1>4 DEF SequentialNext, Remember
  <2> QED
    BY <1>1, <1>2, <1>4, <2>1, SoleStep, StepShelf, StartShelf DEF ShelfOK, Promised!ShelfNext
<1> QED
  BY <1>3, <1>4

(***************************************************************************)
(* Library implements Shelf: for any library that a scan can leave, each   *)
(* artist and album with its directory, and any requests of one client     *)
(* that are among those of Sequential.  However many sessions and system   *)
(* calls the handlers of dir.go, objectmanager.go and moveManager.go take, *)
(* a request that is answered has had its whole effect on the tree, and no *)
(* other.  That it is answered is not stated here, nor is it always true:  *)
(* see RequestsReturn.                                                     *)
(***************************************************************************)
THEOREM ShelfImplemented ==
    ASSUME Sequential, Furnished
    PROVE  SequentialSpec => ImplementsShelf
<1>1. SequentialInit => ShelfOK /\ Promised!ShelfInit
  BY ShelfBegins
<1>2. ShelfOK /\ [SequentialNext]_<<vars, between>> =>
         ShelfOK' /\ [Promised!ShelfNext]_<<Promised!shelf, Asked>>
  BY NextShelf
<1> QED
  BY <1>1, <1>2, PTL DEF SequentialSpec, ImplementsShelf, Promised!ShelfSpec
=============================================================================
