------------------------- MODULE LibraryTreeProofs -------------------------
(***************************************************************************)
(* What Library keeps of the trees in the database, whichever handlers are *)
(* at work at once: the list of albums of each artist, in two theorems,    *)
(* and the links between songs and playlists, in a third (below).          *)
(*                                                                         *)
(* The argument.  A transaction lists an album together with making it,    *)
(* and one that drops an album from a list drops its bucket as well        *)
(* (ListsStep), with two exceptions.  ProcessNewAlbum takes the old album  *)
(* off the list while its bucket is still there; but the frames of         *)
(* MoveAlbum name that album until EndAlbum has deleted it (Errands,       *)
(* KeepsEmptying), whoever works beside it.  And ProcessNewArtist          *)
(* overwrites the list of an artist that it finds at the new name: this    *)
(* the first theorem rules out by hypothesis (TargetsFree), and the second *)
(* derives from the names that are asked for (TargetsApart): the locks on  *)
(* the root keep the handlers that make artists apart (AtRoot).            *)
(***************************************************************************)
EXTENDS LibraryProofs

----------------------------------------------------------------------------
(* The lists of albums, and what each transaction does to them.            *)

\* An album bucket is nested in the bucket of its artist.
Housed(d) == \A ab \in d.albums : ab[1] \in d.artists

Listed(d, ab) == Contains(d.listed[ab[1]], ab[2])

\* The albums of e are listed there, or are albums of d that e lists if d did.
KeepsLists(d, e) ==
    \A ab \in e.albums : Listed(e, ab) \/ (ab \in d.albums /\ ~Listed(d, ab))

\* The transaction leaves artists and albums alone.
SameTree(d, e) == e.artists = d.artists /\ e.albums = d.albums /\ e.listed = d.listed

LEMMA SameTreeKeeps ==
    ASSUME NEW d, NEW e, SameTree(d, e)
    PROVE  KeepsLists(d, e) /\ (Housed(d) => Housed(e))
  BY DEF SameTree, KeepsLists, Listed, Housed

LEMMA CreateArtistLists ==
    ASSUME NEW d \in Database, Housed(d), NEW a \in DirName, a \notin d.artists
    PROVE  KeepsLists(d, CreateArtistTx(d, a)) /\ Housed(CreateArtistTx(d, a))
<1> DEFINE e == CreateArtistTx(d, a)
<1>1. /\ e.artists = d.artists \cup {a} /\ e.albums = d.albums
      /\ \A b \in DirName : b # a => e.listed[b] = d.listed[b]
  BY DEF CreateArtistTx, Database
<1> HIDE DEF e
<1>2. \A ab \in e.albums : ab[1] \in DirName /\ ab[1] # a
  BY <1>1, KeyParts DEF Housed, Database
<1>3. KeepsLists(d, e) /\ Housed(e)
  BY <1>1, <1>2 DEF KeepsLists, Listed, Housed
<1> QED
  BY <1>3 DEF e

LEMMA CreateAlbumLists ==
    ASSUME NEW d \in Database, Housed(d), NEW ab \in AlbumKey, ab[1] \in d.artists
    PROVE  KeepsLists(d, CreateAlbumTx(d, ab)) /\ Housed(CreateAlbumTx(d, ab))
<1> DEFINE e == CreateAlbumTx(d, ab)
<1>0. ab[1] \in DirName /\ ab[2] \in DirName /\ ab = <<ab[1], ab[2]>>
  BY KeyParts
<1>1. /\ e.artists = d.artists /\ e.albums = d.albums \cup {ab}
      /\ e.listed[ab[1]] = WithAlbum(d.listed[ab[1]], ab[2])
      /\ \A b \in DirName : b # ab[1] => e.listed[b] = d.listed[b]
  BY <1>0 DEF CreateAlbumTx, Database
<1>2. /\ Contains(e.listed[ab[1]], ab[2])
      /\ \A c : Contains(d.listed[ab[1]], c) => Contains(e.listed[ab[1]], c)
  BY <1>0, <1>1, WithAlbumContains DEF Database
<1> HIDE DEF e
<1>3. ASSUME NEW x \in e.albums PROVE Listed(e, x) \/ (x \in d.albums /\ ~Listed(d, x))
  <2>1. x \in AlbumKey /\ x[1] \in DirName
    BY <1>1, KeyParts DEF Database
  <2> QED
    BY <1>1, <1>2, <2>1 DEF Listed
<1>4. KeepsLists(d, e) /\ Housed(e)
  BY <1>1, <1>3 DEF KeepsLists, Housed
<1> QED
  BY <1>4 DEF e

LEMMA DeleteAlbumLists ==
    ASSUME NEW d \in Database, Housed(d), NEW ab
    PROVE  /\ KeepsLists(d, DeleteAlbumBucket(d, ab)) /\ Housed(DeleteAlbumBucket(d, ab))
           /\ ab \notin DeleteAlbumBucket(d, ab).albums
<1> DEFINE e == DeleteAlbumBucket(d, ab)
<1>1. e.artists = d.artists /\ e.albums = d.albums \ {ab} /\ e.listed = d.listed
  BY DEF DeleteAlbumBucket, Database
<1> HIDE DEF e
<1>2. KeepsLists(d, e) /\ Housed(e) /\ ab \notin e.albums
  BY <1>1 DEF KeepsLists, Listed, Housed
<1> QED
  BY <1>2 DEF e

LEMMA DeleteArtistLists ==
    ASSUME NEW d \in Database, Housed(d), NEW a
    PROVE  KeepsLists(d, DeleteArtistBucket(d, a)) /\ Housed(DeleteArtistBucket(d, a))
<1> DEFINE e == DeleteArtistBucket(d, a)
<1>1. /\ e.artists = d.artists \ {a} /\ e.albums = {ab \in d.albums : ab[1] # a}
      /\ \A b \in DirName : b # a => e.listed[b] = d.listed[b]
  BY DEF DeleteArtistBucket, Database
<1> HIDE DEF e
<1>2. \A ab \in e.albums : ab \in AlbumKey /\ ab[1] \in DirName
  BY <1>1, KeyParts DEF Database
<1>3. KeepsLists(d, e) /\ Housed(e)
  BY <1>1, <1>2 DEF KeepsLists, Listed, Housed
<1> QED
  BY <1>3 DEF e

LEMMA ProcessNewArtistLists ==
    ASSUME NEW d \in Database, Housed(d), NEW new \in DirName, NEW old \in DirName,
           new \notin d.artists
    PROVE  KeepsLists(d, ProcessNewArtistTx(d, new, old)) /\ Housed(ProcessNewArtistTx(d, new, old))
<1> DEFINE e == ProcessNewArtistTx(d, new, old)
<1>1. /\ e.artists = d.artists \cup {new} /\ e.albums = d.albums
      /\ \A b \in DirName : b # new => e.listed[b] = d.listed[b]
  BY DEF ProcessNewArtistTx, Database
<1> HIDE DEF e
<1>2. \A ab \in e.albums : ab[1] \in DirName /\ ab[1] # new
  BY <1>1, KeyParts DEF Housed, Database
<1>3. KeepsLists(d, e) /\ Housed(e)
  BY <1>1, <1>2 DEF KeepsLists, Listed, Housed
<1> QED
  BY <1>3 DEF e

\* Nothing but the element at m goes when it is removed.
LEMMA RemoveAtContains ==
    ASSUME NEW S, NEW q \in Seq(S), NEW m \in 1 .. Len(q), NEW i \in 1 .. Len(q), i # m
    PROVE  Contains(RemoveAt(q, m), q[i])
<1> DEFINE front == SubSeq(q, 1, m - 1)
           back  == SubSeq(q, m + 1, Len(q))
           r     == front \o back
<1>1. /\ front \in Seq(S) /\ Len(front) = m - 1
      /\ \A j \in 1 .. m - 1 : front[j] = q[j]
  BY SubSeqProperties
<1>2. /\ back \in Seq(S) /\ Len(back) = Len(q) - m
      /\ \A j \in 1 .. Len(q) - m : back[j] = q[m + j]
  BY SubSeqProperties
<1>3. RemoveAt(q, m) = r /\ Len(q) \in Nat
  BY DEF RemoveAt
<1> HIDE DEF front, back
<1>4. /\ Len(r) = Len(front) + Len(back)
      /\ \A j \in 1 .. Len(front) + Len(back) :
            r[j] = IF j <= Len(front) THEN front[j] ELSE back[j - Len(front)]
  BY <1>1, <1>2, ConcatProperties
<1> HIDE DEF r
<1>5. CASE i < m
  <2>1. i \in 1 .. Len(r) /\ r[i] = q[i]
    BY <1>1, <1>2, <1>3, <1>4, <1>5
  <2> QED
    BY <1>3, <2>1 DEF Contains
<1>6. CASE i > m
  <2>1. r[i - 1] = back[i - m]
    BY <1>1, <1>2, <1>3, <1>4, <1>6
  <2>2. i - m \in 1 .. Len(q) - m /\ m + (i - m) = i /\ i - 1 \in 1 .. Len(r)
    BY <1>1, <1>2, <1>3, <1>4, <1>6
  <2>3. r[i - 1] = q[i]
    BY <1>2, <2>1, <2>2
  <2> QED
    BY <1>3, <2>2, <2>3 DEF Contains
<1> QED
  BY <1>5, <1>6

\* Only the album that is taken off a list may be gone from it.
LEMMA RemoveFirstContains ==
    ASSUME NEW q \in Seq(DirName), NEW b, NEW c, Contains(q, c), c # b
    PROVE  Contains(RemoveFirst(q, b), c)
<1> DEFINE I == {i \in 1 .. Len(q) : q[i] = b}
           m == Min(I)
<1>1. CASE I = {}
  BY <1>1 DEF RemoveFirst
<1>2. CASE I # {}
  <2>1. m \in I
    <3>1. I \subseteq Nat
      OBVIOUS
    <3> HIDE DEF I
    <3> QED
      BY <1>2, <3>1, MinOfPositions
  <2>2. SelectInSeq(q, LAMBDA v : v = b) = m
    BY <1>2 DEF SelectInSeq
  <2>3. RemoveFirst(q, b) = RemoveAt(q, m)
    BY <1>2, <2>2 DEF RemoveFirst
  <2> HIDE DEF m
  <2>4. PICK i \in 1 .. Len(q) : q[i] = c
    BY DEF Contains
  <2> QED
    BY <2>1, <2>3, <2>4, RemoveAtContains
<1> QED
  BY <1>1, <1>2

LEMMA ProcessNewAlbumLists ==
    ASSUME NEW d \in Database, Housed(d), NEW new \in AlbumKey, NEW old \in AlbumKey,
           new[1] \in d.artists
    PROVE  /\ \A ab \in ProcessNewAlbumTx(d, new, old).albums :
                 \/ ab = old \/ Listed(ProcessNewAlbumTx(d, new, old), ab)
                 \/ ab \in d.albums /\ ~Listed(d, ab)
           /\ Housed(ProcessNewAlbumTx(d, new, old))
<1> DEFINE listing == [d.listed EXCEPT ![new[1]] = WithAlbum(@, new[2])]
           e == ProcessNewAlbumTx(d, new, old)
<1>0. /\ new[1] \in DirName /\ new[2] \in DirName /\ new = <<new[1], new[2]>>
      /\ old[1] \in DirName /\ old[2] \in DirName /\ old = <<old[1], old[2]>>
  BY KeyParts
<1>1. /\ listing \in [DirName -> Seq(DirName)]
      /\ Contains(listing[new[1]], new[2])
      /\ \A b \in DirName : \A c : Contains(d.listed[b], c) => Contains(listing[b], c)
  <2>1. d.listed \in [DirName -> Seq(DirName)]
    BY DEF Database
  <2> DEFINE list == WithAlbum(d.listed[new[1]], new[2])
  <2>2. /\ list \in Seq(DirName) /\ Contains(list, new[2])
        /\ \A c : Contains(d.listed[new[1]], c) => Contains(list, c)
    BY <1>0, <2>1, WithAlbumType, WithAlbumContains
  <2> HIDE DEF list
  <2>3. listing = [d.listed EXCEPT ![new[1]] = list]
    BY DEF list
  <2> HIDE DEF listing
  <2> QED
    BY <1>0, <2>1, <2>2, <2>3
<1>2. /\ e.artists = d.artists /\ e.albums = d.albums \cup {new}
      /\ e.listed = [listing EXCEPT ![old[1]] = RemoveFirst(@, old[2])]
  BY DEF ProcessNewAlbumTx, Database
<1> HIDE DEF listing, e
<1>3. ASSUME NEW b \in DirName, NEW c, Contains(listing[b], c), b # old[1] \/ c # old[2]
      PROVE  Contains(e.listed[b], c)
  <2>1. CASE b # old[1]
    BY <1>0, <1>1, <1>2, <1>3, <2>1
  <2>2. CASE b = old[1]
    BY <1>0, <1>1, <1>2, <1>3, <2>2, RemoveFirstContains
  <2> QED
    BY <2>1, <2>2
<1>4. ASSUME NEW ab \in e.albums, ab # old, ab = new \/ Listed(d, ab)
      PROVE  Listed(e, ab)
  <2>1. ab \in AlbumKey /\ ab[1] \in DirName /\ ab = <<ab[1], ab[2]>>
    BY <1>2, KeyParts DEF Database
  <2>2. ab[1] # old[1] \/ ab[2] # old[2]
    BY <1>0, <1>4, <2>1
  <2>3. Contains(listing[ab[1]], ab[2])
    BY <1>1, <1>4, <2>1 DEF Listed
  <2> QED
    BY <1>3, <2>1, <2>2, <2>3 DEF Listed
<1>5. Housed(e)
  BY <1>2 DEF Housed
<1>6. \A ab \in e.albums : ab = old \/ Listed(e, ab) \/ (ab \in d.albums /\ ~Listed(d, ab))
  BY <1>2, <1>4
<1> QED
  BY <1>5, <1>6 DEF e

----------------------------------------------------------------------------
(* What a handler is about, step by step.                                  *)

RenameOf(f, n) == f.req.op = "rename" /\ Len(f.req.from) \in n

OneAlbum(f) == \A s \in f.songs : AlbumOf(s.key) = AlbumOf(f.from)

Errand(step, f) ==
    /\ step = "CreateArtist" => f.req.op = "mkdir" /\ Len(f.req.to) = 1
    /\ step \in {"MoveArtist", "NewArtist"} => RenameOf(f, {1}) /\ f.to = f.req.to
    /\ step \in {"MoveAlbum", "NewAlbum", "EndAlbum"} => RenameOf(f, {1, 2})
    /\ step \in MoveSongsSteps => RenameOf(f, {1, 2, 3})
    /\ step \notin MoveSongsSteps \cup {"Nested"} => f.songs = {}
    /\ RenameOf(f, {1, 2}) => OneAlbum(f)

Errands == \A p \in Process : Errand(pc[p], loc[p])

\* A handler that empties an album goes on with it.
StaysEmptying(p) ==
    RenameOf(loc[p], {1, 2}) =>
        /\ pc'[p] \in EmptyingAlbum /\ loc'[p].req = loc[p].req
        /\ AlbumOf(loc'[p].from) = AlbumOf(loc[p].from)

LEMMA GotoErrand ==
    ASSUME ControlOK, Errands, NEW p \in Process, NEW step, NEW f, Errand(step, f), Goto(p, step, f)
    PROVE  Errands'
<1>1. pc' = [pc EXCEPT ![p] = step] /\ loc' = [loc EXCEPT ![p] = f]
  BY DEF Goto
<1>2. ASSUME NEW q \in Process PROVE Errand(pc'[q], loc'[q])
  BY <1>1, <1>2 DEF ControlOK, Errands
<1> QED
  BY <1>2 DEF Errands

Apart == { "idle", "MkdirNew", "CreateFile", "ReleaseTags", "DeleteSong", "RemoveFile",
           "Victims", "Nested", "EndArtist", "DropArtist", "DropAlbum", "DropFile", "DropSong" }

\* Most steps are about no album that is being emptied.
LEMMA ApartErrand ==
    ASSUME ControlOK, Errands, NEW p \in Process, NEW step \in Apart, NEW f, f.songs = {},
           Goto(p, step, f)
    PROVE  Errands'
<1>1. Errand(step, f)
  BY DEF Errand, Apart, OneAlbum, MoveSongsSteps
<1> QED
  BY <1>1, GotoErrand

LEMMA ReturnErrand ==
    ASSUME ControlOK, Errands, NEW p \in Process, Return(p)
    PROVE  Errands'
  BY ApartErrand DEF Return, Blank, Apart

LEMMA NextAlbumErrand ==
    ASSUME ControlOK, Errands, NEW p \in Process, NEW f \in Frame, f.songs = {},
           RenameOf(f, {1}), NextAlbum(p, f)
    PROVE  Errands'
<1>1. CASE Goto(p, "EndArtist", f)
  BY <1>1, ApartErrand DEF Apart
<1>2. ASSUME NEW from, NEW to, NEW rest,
             Goto(p, "MoveAlbum", [f EXCEPT !.from = from, !.to = to, !.albums = rest])
      PROVE  Errands'
  <2> DEFINE g == [f EXCEPT !.from = from, !.to = to, !.albums = rest]
  <2>1. g.req = f.req /\ g.songs = {}
    BY DEF Frame
  <2>2. Goto(p, "MoveAlbum", g)
    BY <1>2
  <2> HIDE DEF g
  <2>3. Errand("MoveAlbum", g)
    BY <2>1 DEF Errand, RenameOf, OneAlbum, MoveSongsSteps, EmptyingAlbum
  <2> QED
    BY <2>2, <2>3, GotoErrand
<1> QED
  BY <1>1, <1>2 DEF NextAlbum

LEMMA AlbumReturnErrand ==
    ASSUME ControlOK, Errands, NEW p \in Process, NEW f \in Frame, f.songs = {},
           RenameOf(f, {1, 2}), AlbumReturn(p, f)
    PROVE  Errands'
  BY NextAlbumErrand, ReturnErrand DEF AlbumReturn, RenameOf

LEMMA NextSongErrand ==
    ASSUME ControlOK, Errands, NEW p \in Process, NEW f \in Frame, RenameOf(f, {1, 2}),
           OneAlbum(f), NextSong(p, f)
    PROVE  /\ Errands' /\ pc'[p] \in EmptyingAlbum /\ loc'[p].req = f.req
           /\ AlbumOf(loc'[p].from) = AlbumOf(f.from)
<1>1. CASE f.songs = {} /\ Goto(p, "EndAlbum", f)
  <2>1. Errand("EndAlbum", f)
    BY <1>1 DEF Errand, MoveSongsSteps, EmptyingAlbum
  <2>2. pc'[p] = "EndAlbum" /\ loc'[p] = f
    BY <1>1 DEF Goto, ControlOK
  <2> QED
    BY <1>1, <2>1, <2>2, GotoErrand DEF EmptyingAlbum
<1>2. ASSUME NEW s \in f.songs,
             Goto(p, "MoveSongs", [f EXCEPT !.from = s.key,
                                            !.to = <<f.to[1], f.to[2], s.key[3]>>,
                                            !.path = s.path,
                                            !.songs = f.songs \ {s}])
      PROVE  /\ Errands' /\ pc'[p] \in EmptyingAlbum /\ loc'[p].req = f.req
             /\ AlbumOf(loc'[p].from) = AlbumOf(f.from)
  <2> DEFINE g == [f EXCEPT !.from = s.key, !.to = <<f.to[1], f.to[2], s.key[3]>>,
                            !.path = s.path, !.songs = f.songs \ {s}]
  <2>1. g.req = f.req /\ g.from = s.key /\ g.songs \subseteq f.songs
    BY DEF Frame
  <2>2. Goto(p, "MoveSongs", g)
    BY <1>2
  <2> HIDE DEF g
  <2>3. AlbumOf(g.from) = AlbumOf(f.from)
    BY <2>1 DEF OneAlbum
  <2>4. Errand("MoveSongs", g)
    BY <2>1, <2>3 DEF Errand, RenameOf, OneAlbum, MoveSongsSteps
  <2>5. pc'[p] = "MoveSongs" /\ loc'[p] = g
    BY <2>2 DEF Goto, ControlOK
  <2> QED
    BY <2>1, <2>2, <2>3, <2>4, <2>5, GotoErrand DEF EmptyingAlbum
<1>3. \/ f.songs = {} /\ Goto(p, "EndAlbum", f)
      \/ \E s \in f.songs : Goto(p, "MoveSongs", [f EXCEPT !.from = s.key,
                                            !.to = <<f.to[1], f.to[2], s.key[3]>>,
                                            !.path = s.path,
                                            !.songs = f.songs \ {s}])
  BY DEF NextSong, Frame
<1> QED
  BY <1>1, <1>2, <1>3

\* The frames of MoveSongs, which is about one song of a rename.
LEMMA MovingErrand ==
    ASSUME ControlOK, Errands, NEW p \in Process, pc[p] \in MoveSongsSteps,
           NEW step \in MoveSongsSteps \cup {"Nested"}, NEW f,
           f.req = loc[p].req, f.from = loc[p].from, f.songs = loc[p].songs, Goto(p, step, f)
    PROVE  Errands' /\ StaysEmptying(p)
<1>1. Errand(pc[p], loc[p])
  BY DEF Errands
<1>2. step \in EmptyingAlbum
  BY DEF MoveSongsSteps, EmptyingAlbum
<1>3. Errand(step, f)
  BY <1>1, <1>2 DEF Errand, RenameOf, OneAlbum, MoveSongsSteps
<1>4. pc'[p] = step /\ loc'[p] = f
  BY DEF Goto, ControlOK
<1> QED
  BY <1>2, <1>3, <1>4, GotoErrand DEF StaysEmptying

LEMMA SongReturnErrand ==
    ASSUME ControlOK, Errands, NEW p \in Process, pc[p] \in MoveSongsSteps, NEW f \in Frame,
           f.req = loc[p].req, f.from = loc[p].from, f.songs = loc[p].songs, SongReturn(p, f)
    PROVE  Errands' /\ StaysEmptying(p)
<1>1. Errand(pc[p], loc[p])
  BY DEF Errands
<1>2. CASE Len(f.req.from) = 3
  <2>1. Return(p) /\ ~RenameOf(loc[p], {1, 2})
    BY <1>2 DEF SongReturn, RenameOf
  <2> QED
    BY <2>1, ReturnErrand DEF StaysEmptying
<1>3. CASE Len(f.req.from) # 3
  <2> DEFINE g == [f EXCEPT !.path = NoPath, !.lists = <<>>, !.todo = <<>>]
  <2>1. g \in Frame
    BY EmptySeq DEF Frame
  <2>2. g.req = f.req /\ g.from = f.from /\ g.songs = f.songs
    BY DEF Frame
  <2>3. NextSong(p, g)
    BY <1>3 DEF SongReturn
  <2> HIDE DEF g
  <2>4. RenameOf(g, {1, 2}) /\ OneAlbum(g)
    BY <1>1, <1>3, <2>2 DEF Errand, RenameOf, OneAlbum
  <2> QED
    BY <2>1, <2>2, <2>3, <2>4, NextSongErrand DEF StaysEmptying
<1> QED
  BY <1>2, <1>3

----------------------------------------------------------------------------
LEMMA MoveSongsErrand ==
    ASSUME ControlOK, Errands, NEW p \in Process,
           \/ MoveSongs(p) \/ Unlist(p) \/ RenameFile(p) \/ DeleteOld(p) \/ SetMp3Tags(p)
           \/ CreateNew(p) \/ AddPath(p) \/ AddEntry(p) \/ Regenerate(p)
    PROVE  pc[p] \in MoveSongsSteps /\ Errands' /\ StaysEmptying(p)
<1>1. pc[p] \in MoveSongsSteps
  BY DEF MoveSongs, Unlist, RenameFile, DeleteOld, SetMp3Tags, CreateNew, AddPath, AddEntry,
         Regenerate, Session, Syscall, MoveSongsSteps
<1>2. loc[p] \in Frame
  BY DEF ControlOK
<1>3. ASSUME NEW step \in MoveSongsSteps \cup {"Nested"}, NEW f, f.req = loc[p].req,
             f.from = loc[p].from, f.songs = loc[p].songs, Goto(p, step, f)
      PROVE  Errands' /\ StaysEmptying(p)
  BY <1>1, <1>3, MovingErrand
<1>4. ASSUME NEW f \in Frame, f.req = loc[p].req, f.from = loc[p].from,
             f.songs = loc[p].songs, SongReturn(p, f)
      PROVE  Errands' /\ StaysEmptying(p)
  BY <1>1, <1>4, SongReturnErrand
<1>5. CASE MoveSongs(p)
  <2> DEFINE lists == ListsOf(db, loc[p].from)
             f     == [loc[p] EXCEPT !.lists = lists, !.todo = lists]
  <2>1. f.req = loc[p].req /\ f.from = loc[p].from /\ f.songs = loc[p].songs
    BY <1>2 DEF Frame
  <2>2. Goto(p, "RenameFile", f) \/ Goto(p, "Unlist", f)
    BY <1>5 DEF MoveSongs
  <2> HIDE DEF f
  <2> QED
    BY <1>1, <1>3, <2>1, <2>2 DEF MoveSongsSteps
<1>6. CASE Unlist(p)
  <2> DEFINE f == [loc[p] EXCEPT !.todo = Tail(loc[p].todo)]
  <2>1. f.req = loc[p].req /\ f.from = loc[p].from /\ f.songs = loc[p].songs
    BY <1>2 DEF Frame
  <2>2. Goto(p, "RenameFile", f) \/ Goto(p, "Unlist", f)
    BY <1>6 DEF Unlist
  <2> HIDE DEF f
  <2> QED
    BY <1>1, <1>3, <2>1, <2>2 DEF MoveSongsSteps
<1>7. CASE RenameFile(p)
  BY <1>1, <1>2, <1>3, <1>4, <1>7 DEF RenameFile, MoveSongsSteps
<1>8. CASE DeleteOld(p)
  BY <1>1, <1>2, <1>3, <1>4, <1>8 DEF DeleteOld, DeleteSongThen, MoveSongsSteps
<1>9. CASE SetMp3Tags(p)
  BY <1>1, <1>3, <1>9 DEF SetMp3Tags, MoveSongsSteps
<1>10. CASE CreateNew(p)
  <2> DEFINE f == [loc[p] EXCEPT !.todo = loc[p].lists]
  <2>1. f.req = loc[p].req /\ f.from = loc[p].from /\ f.songs = loc[p].songs
    BY <1>2 DEF Frame
  <2>2. SongReturn(p, loc[p]) \/ Goto(p, "AddPath", f)
    BY <1>10 DEF CreateNew
  <2> HIDE DEF f
  <2> QED
    BY <1>1, <1>2, <1>3, <1>4, <2>1, <2>2 DEF MoveSongsSteps
<1>11. CASE AddPath(p)
  <2> DEFINE f == [loc[p] EXCEPT !.path = db.songs[loc[p].to].path]
  <2>1. f.req = loc[p].req /\ f.from = loc[p].from /\ f.songs = loc[p].songs
    BY <1>2 DEF Frame
  <2>2. Goto(p, "Regenerate", loc[p]) \/ Goto(p, "AddEntry", f)
    BY <1>11 DEF AddPath
  <2> HIDE DEF f
  <2> QED
    BY <1>1, <1>3, <2>1, <2>2 DEF MoveSongsSteps
<1>12. CASE AddEntry(p)
  BY <1>1, <1>3, <1>12 DEF AddEntry, MoveSongsSteps
<1>13. CASE Regenerate(p)
  <2> DEFINE rest == Tail(loc[p].todo)
             f == [loc[p] EXCEPT !.todo = rest]
  <2>0. loc[p].todo # <<>> /\ loc[p].todo \in Seq(Playlist)
    BY <1>1, <1>2, <1>13, MovingFrame DEF Regenerate, Session, Frame
  <2>1. rest \in Seq(Playlist)
    BY <2>0, HeadTailProperties
  <2>2. SongReturn(p, f) \/ Goto(p, "AddPath", f)
    BY <1>13 DEF Regenerate
  <2> HIDE DEF rest
  <2>3. f \in Frame /\ f.req = loc[p].req /\ f.from = loc[p].from /\ f.songs = loc[p].songs
    BY <1>2, <2>1 DEF Frame
  <2> HIDE DEF f
  <2> QED
    BY <1>1, <1>3, <1>4, <2>2, <2>3 DEF MoveSongsSteps
<1> QED
  BY <1>1, <1>5, <1>6, <1>7, <1>8, <1>9, <1>10, <1>11, <1>12, <1>13

LEMMA ApartStep ==
    ASSUME ControlOK, Errands, NEW p \in Process,
           \/ CreateArtist(p) \/ CreateAlbum(p) \/ MkdirNew(p) \/ CreateSong(p) \/ CreateFile(p)
           \/ ReleaseSong(p) \/ ReleaseTags(p) \/ GetFilePath(p) \/ DeleteSong(p) \/ RemoveFile(p)
           \/ DeleteArtist(p) \/ DeleteAlbum(p) \/ Victims(p) \/ EndArtist(p)
           \/ GetMp3Tags(p) \/ DropArtist(p) \/ DropAlbum(p) \/ DropFileInto(p) \/ DropSong(p)
    PROVE  pc[p] \notin EmptyingAlbum /\ Errands'
<1>1. pc[p] \notin EmptyingAlbum \cup MoveSongsSteps
  BY DEF CreateArtist, CreateAlbum, MkdirNew, CreateSong, CreateFile, ReleaseSong, ReleaseTags,
         GetFilePath, DeleteSong, RemoveFile, DeleteArtist, DeleteAlbum, Victims, EndArtist,
         GetMp3Tags, DropArtist, DropAlbum, DropFileInto, DropSong, Session, Syscall,
         EmptyingAlbum, MoveSongsSteps
<1>2. loc[p] \in Frame /\ loc[p].songs = {}
  BY <1>1 DEF ControlOK, Errands, Errand, EmptyingAlbum
<1>3. ASSUME NEW step \in Apart, NEW f, f.songs = {}, Goto(p, step, f) PROVE Errands'
  BY <1>3, ApartErrand
<1>4. ASSUME Return(p) PROVE Errands'
  BY <1>4, ReturnErrand
<1>5. ASSUME NEW step \in Apart, NEW to, Goto(p, step, [loc[p] EXCEPT !.to = to]) PROVE Errands'
  <2>1. [loc[p] EXCEPT !.to = to].songs = {}
    BY <1>2 DEF Frame
  <2> QED
    BY <1>3, <1>5, <2>1
<1>6. ASSUME NEW step \in Apart, NEW path, Goto(p, step, [loc[p] EXCEPT !.path = path]) PROVE Errands'
  <2>1. [loc[p] EXCEPT !.path = path].songs = {}
    BY <1>2 DEF Frame
  <2> QED
    BY <1>3, <1>6, <2>1
<1>7. ASSUME NEW victims, Goto(p, "Victims", [loc[p] EXCEPT !.victims = victims]) PROVE Errands'
  <2>1. [loc[p] EXCEPT !.victims = victims].songs = {}
    BY <1>2 DEF Frame
  <2> QED
    BY <1>3, <1>7, <2>1 DEF Apart
<1>8. CASE CreateArtist(p) \/ CreateAlbum(p) \/ CreateSong(p)
  BY <1>1, <1>4, <1>5, <1>8 DEF CreateArtist, CreateAlbum, CreateSong, Refuse, Apart
<1>9. CASE \/ MkdirNew(p) \/ CreateFile(p) \/ ReleaseTags(p) \/ RemoveFile(p)
           \/ EndArtist(p) \/ DropSong(p)
  BY <1>1, <1>4, <1>9 DEF MkdirNew, CreateFile, ReleaseTags, RemoveFile, EndArtist, DropSong
<1>10. CASE ReleaseSong(p) \/ GetFilePath(p)
  BY <1>1, <1>4, <1>6, <1>10 DEF ReleaseSong, GetFilePath, Apart
<1>11. CASE DeleteSong(p)
  BY <1>1, <1>2, <1>3, <1>4, <1>11 DEF DeleteSong, DeleteSongThen, Refuse, Apart
<1>12. CASE DeleteArtist(p) \/ DeleteAlbum(p)
  BY <1>1, <1>4, <1>7, <1>12 DEF DeleteArtist, DeleteAlbum, RemoveVictims, Refuse
<1>13. CASE Victims(p)
  BY <1>1, <1>2, <1>3, <1>4, <1>7, <1>13 DEF Victims, Apart
<1>14. CASE GetMp3Tags(p) \/ DropArtist(p) \/ DropAlbum(p)
  BY <1>1, <1>4, <1>5, <1>14 DEF GetMp3Tags, DropArtist, DropAlbum, Refuse, Apart
<1>15. CASE DropFileInto(p)
  BY <1>1, <1>2, <1>3, <1>4, <1>15 DEF DropFileInto, Apart
<1> QED
  BY <1>1, <1>8, <1>9, <1>10, <1>11, <1>12, <1>13, <1>14, <1>15

\* The frames with which MoveArtist and MoveAlbum begin their loops.
LEMMA LoopFrames ==
    ASSUME ControlOK, DataOK, NEW p \in Process
    PROVE  /\ pc[p] = "NewArtist" => [loc[p] EXCEPT !.albums = db.listed[loc[p].from[1]]] \in Frame
           /\ [loc[p] EXCEPT !.songs = {[key |-> k, path |-> db.songs[k].path] :
                                          k \in SongsIn(db, loc[p].from)}] \in Frame
<1>1. loc[p] \in Frame
  BY DEF ControlOK
<1>2. ASSUME pc[p] = "NewArtist"
      PROVE  [loc[p] EXCEPT !.albums = db.listed[loc[p].from[1]]] \in Frame
  <2>1. loc[p].from \in ArtistKey
    BY <1>2 DEF ControlOK, Shape
  <2>2. db.listed[loc[p].from[1]] \in Seq(DirName)
    BY <2>1, KeyParts DEF DataOK, Database
  <2> QED
    BY <1>1, <2>2 DEF Frame
<1>3. {[key |-> k, path |-> db.songs[k].path] : k \in SongsIn(db, loc[p].from)} \in SUBSET AlbumSong
  <2>1. ASSUME NEW k \in SongsIn(db, loc[p].from) PROVE k \in SongKey /\ db.songs[k].path \in Path
    BY DEF SongsIn, DataOK, Database, SongStore
  <2> QED
    BY <2>1 DEF AlbumSong
<1> QED
  BY <1>1, <1>2, <1>3 DEF Frame

LEMMA NewAlbumErrand ==
    ASSUME ControlOK, DataOK, Errands, NEW p \in Process, NewAlbum(p), NEW ab, ab = loc[p].from
    PROVE  Errands' /\ (db' # db => Emptying(p, ab)')
<1>1. pc[p] = "NewAlbum" /\ loc[p] \in Frame /\ Errand("NewAlbum", loc[p]) /\ loc[p].from \in AlbumKey
  BY DEF NewAlbum, Session, ControlOK, Errands, Shape
<1>2. loc[p].songs = {} /\ RenameOf(loc[p], {1, 2})
  BY <1>1 DEF Errand, MoveSongsSteps
<1>3. CASE AlbumReturn(p, loc[p]) /\ db' = db
  BY <1>1, <1>2, <1>3, AlbumReturnErrand
<1>4. CASE NextSong(p, [loc[p] EXCEPT !.songs =
                 {[key |-> k, path |-> db.songs[k].path] : k \in SongsIn(db, loc[p].from)}])
  <2> DEFINE songs == {[key |-> k, path |-> db.songs[k].path] : k \in SongsIn(db, loc[p].from)}
             f     == [loc[p] EXCEPT !.songs = songs]
  <2>1. f \in Frame
    BY LoopFrames
  <2>2. AlbumOf(loc[p].from) = loc[p].from
    BY <1>1, KeyParts DEF AlbumOf
  <2>3. \A s \in songs : AlbumOf(s.key) = AlbumOf(loc[p].from)
    BY <2>2 DEF SongsIn
  <2>4. NextSong(p, f)
    BY <1>4
  <2> HIDE DEF songs
  <2>5. f \in Frame /\ f.req = loc[p].req /\ f.from = loc[p].from /\ f.songs = songs
    BY <1>1, <2>1 DEF Frame
  <2> HIDE DEF f
  <2>6. RenameOf(f, {1, 2}) /\ OneAlbum(f)
    BY <1>2, <2>3, <2>5 DEF RenameOf, OneAlbum
  <2>7. /\ Errands' /\ pc'[p] \in EmptyingAlbum /\ loc'[p].req = f.req
        /\ AlbumOf(loc'[p].from) = AlbumOf(f.from)
    BY <2>4, <2>5, <2>6, NextSongErrand
  <2>8. AlbumOf(loc'[p].from) = ab
    BY <2>2, <2>5, <2>7
  <2>9. loc'[p].req.op = "rename" /\ Len(loc'[p].req.from) < 3
    <3>1. loc'[p].req = loc[p].req
      BY <2>5, <2>7
    <3>2. loc[p].req.op = "rename" /\ Len(loc[p].req.from) \in {1, 2}
      BY <1>2 DEF RenameOf
    <3>3. ASSUME NEW n \in {1, 2} PROVE n < 3
      OBVIOUS
    <3>4. Len(loc[p].req.from) < 3
      BY <3>2, <3>3
    <3> QED
      BY <3>1, <3>2, <3>4
  <2> QED
    BY <2>7, <2>8, <2>9 DEF Emptying
<1> QED
  BY <1>3, <1>4 DEF NewAlbum

LEMMA StepErrands ==
    ASSUME ControlOK, DataOK, Errands, NEW p \in Process, Step(p)
    PROVE  Errands'
<1>1. loc[p] \in Frame /\ Errand(pc[p], loc[p])
  BY DEF ControlOK, Errands
<1>2. CASE MoveArtist(p)
  <2>1. Errand("MoveArtist", loc[p]) /\ Goto(p, "NewArtist", loc[p])
    BY <1>1, <1>2 DEF MoveArtist, Syscall
  <2>2. Errand("NewArtist", loc[p])
    BY <2>1 DEF Errand, MoveSongsSteps
  <2> QED
    BY <2>1, <2>2, GotoErrand
<1>3. CASE NewArtist(p)
  <2> DEFINE f == [loc[p] EXCEPT !.albums = db.listed[loc[p].from[1]]]
  <2>1. pc[p] = "NewArtist" /\ loc[p].from \in ArtistKey
    BY <1>3 DEF NewArtist, Session, ControlOK, Shape
  <2>2. db.listed[loc[p].from[1]] \in Seq(DirName)
    BY <2>1, KeyParts DEF DataOK, Database
  <2>3. NextAlbum(p, f) \/ Return(p)
    BY <1>3 DEF NewArtist
  <2>4. f \in Frame /\ f.songs = {} /\ RenameOf(f, {1})
    BY <1>1, <2>1, <2>2 DEF Frame, Errand, RenameOf, MoveSongsSteps
  <2> HIDE DEF f
  <2> QED
    BY <2>3, <2>4, NextAlbumErrand, ReturnErrand
<1>4. CASE MoveAlbum(p)
  <2>1. /\ Errand("MoveAlbum", loc[p])
        /\ Goto(p, "NewAlbum", loc[p]) \/ AlbumReturn(p, loc[p])
    BY <1>1, <1>4 DEF MoveAlbum, Syscall
  <2>2. loc[p].songs = {} /\ RenameOf(loc[p], {1, 2}) /\ Errand("NewAlbum", loc[p])
    BY <2>1 DEF Errand, MoveSongsSteps
  <2> QED
    BY <1>1, <2>1, <2>2, GotoErrand, AlbumReturnErrand
<1>5. CASE EndAlbum(p)
  <2>1. Errand("EndAlbum", loc[p]) /\ AlbumReturn(p, loc[p])
    BY <1>1, <1>5 DEF EndAlbum, Session
  <2>2. loc[p].songs = {} /\ RenameOf(loc[p], {1, 2})
    BY <2>1 DEF Errand, MoveSongsSteps
  <2> QED
    BY <1>1, <2>1, <2>2, AlbumReturnErrand
<1> QED
  BY <1>2, <1>3, <1>4, <1>5, NewAlbumErrand, MoveSongsErrand, ApartStep DEF Step

\* Where a request begins.
LEMMA FirstSteps ==
    ASSUME NEW r \in Requests
    PROVE  \/ r.op = "mkdir" /\ Len(r.to) = 1 /\ FirstStep(r) = "CreateArtist"
           \/ r.op = "mkdir" /\ Len(r.to) = 2 /\ FirstStep(r) = "CreateAlbum"
           \/ r.op = "rename" /\ Len(r.from) = 1 /\ Len(r.to) = 1 /\ FirstStep(r) = "MoveArtist"
           \/ r.op = "rename" /\ Len(r.from) = 2 /\ FirstStep(r) = "MoveAlbum"
           \/ r.op = "rename" /\ Len(r.from) = 3 /\ FirstStep(r) = "MoveSongs"
           \/ r.op = "remove" /\ FirstStep(r) \in {"DeleteArtist", "DeleteAlbum", "GetFilePath"}
           \/ FirstStep(r) \in {"CreateSong", "ReleaseSong", "GetMp3Tags"}
<1>1. WellFormed(r)
  BY LibraryAssumption
<1>2. CASE r.op = "mkdir"
  <2>1. CASE Len(r.to) = 1
    BY <1>2, <2>1 DEF FirstStep
  <2>2. CASE Len(r.to) = 2
    BY <1>2, <2>2 DEF FirstStep
  <2> QED
    BY <1>1, <1>2, <2>1, <2>2 DEF WellFormed
<1>3. CASE r.op = "remove"
  <2>1. CASE Len(r.from) = 1
    BY <1>3, <2>1 DEF FirstStep
  <2>2. CASE Len(r.from) = 2
    BY <1>3, <2>2 DEF FirstStep
  <2>3. CASE Len(r.from) = 3
    BY <1>3, <2>3 DEF FirstStep
  <2> QED
    BY <1>1, <1>3, <2>1, <2>2, <2>3 DEF WellFormed
<1>4. CASE r.op = "rename"
  <2>1. CASE Len(r.from) = 1
    BY <1>1, <1>4, <2>1 DEF WellFormed, FirstStep
  <2>2. CASE Len(r.from) = 2
    BY <1>4, <2>2 DEF FirstStep
  <2>3. CASE Len(r.from) = 3
    BY <1>4, <2>3 DEF FirstStep
  <2> QED
    BY <1>1, <1>4, <2>1, <2>2, <2>3 DEF WellFormed
<1>5. CASE r.op \in {"create", "release", "drop"}
  BY <1>5 DEF FirstStep
<1> QED
  BY <1>1, <1>2, <1>3, <1>4, <1>5 DEF WellFormed

LEMMA StartErrands ==
    ASSUME ControlOK, Errands, NEW p \in Process, NEW r \in Requests, Start(p, r)
    PROVE  Errands'
<1> DEFINE f == [Blank EXCEPT !.req = r, !.from = r.from, !.to = r.to, !.path = FirstPath(r)]
<1>1. f.req = r /\ f.to = r.to /\ f.songs = {} /\ Goto(p, FirstStep(r), f)
  BY DEF Start, Blank
<1> HIDE DEF f
<1>2. Errand(FirstStep(r), f)
  BY <1>1, FirstSteps DEF Errand, RenameOf, OneAlbum, MoveSongsSteps
<1> QED
  BY <1>1, <1>2, GotoErrand

LEMMA InitErrands == Init => Errands
  BY DEF Init, Errands, Errand, Blank, NoRequest, RenameOf, OneAlbum, MoveSongsSteps

LEMMA NextErrands ==
    ASSUME ControlOK, DataOK, Errands, [Next]_vars
    PROVE  Errands'
<1>1. CASE UNCHANGED vars
  BY <1>1 DEF vars, Errands
<1> QED
  BY <1>1, StepErrands, StartErrands DEF Next, Finished

----------------------------------------------------------------------------
(* An album that is not on its artist's list is being emptied.             *)

LEMMA SmallLength == \A n \in {1, 2, 3} : n < 3 => n \in {1, 2}
  OBVIOUS

LEMMA KeepsEmptying ==
    ASSUME ControlOK, DataOK, Errands, Housed(db), NEW p \in Process, Step(p),
           NEW q \in Process, NEW ab, Emptying(q, ab)
    PROVE  Emptying(q, ab)' \/ ab \notin db'.albums
<1>1. CASE q # p
  BY <1>1, StepLocal DEF Local, Emptying
<1>2. CASE q = p /\ EndAlbum(p)
  <2>1. db' = DeleteAlbumBucket(db, ab)
    BY <1>2 DEF EndAlbum, Emptying
  <2> QED
    BY <2>1, DeleteAlbumLists DEF DataOK
<1>3. CASE /\ q = p
           /\ \/ MoveSongs(p) \/ Unlist(p) \/ RenameFile(p) \/ DeleteOld(p) \/ SetMp3Tags(p)
              \/ CreateNew(p) \/ AddPath(p) \/ AddEntry(p) \/ Regenerate(p)
  <2>1. pc[p] \in MoveSongsSteps /\ StaysEmptying(p)
    BY <1>3, MoveSongsErrand
  <2>2. RenameOf(loc[p], {1, 2, 3}) /\ loc[p].req.op = "rename" /\ Len(loc[p].req.from) < 3
    BY <1>3, <2>1 DEF Errands, Errand, Emptying
  <2>3. RenameOf(loc[p], {1, 2})
    BY <2>2, SmallLength DEF RenameOf
  <2>4. pc'[p] \in EmptyingAlbum /\ loc'[p].req = loc[p].req /\ AlbumOf(loc'[p].from) = ab
    BY <1>3, <2>1, <2>3 DEF StaysEmptying, Emptying
  <2> QED
    BY <1>3, <2>2, <2>4 DEF Emptying
<1>4. CASE q = p /\ (MoveArtist(p) \/ NewArtist(p) \/ MoveAlbum(p) \/ NewAlbum(p))
  BY <1>4 DEF MoveArtist, NewArtist, MoveAlbum, NewAlbum, Session, Syscall, Emptying, EmptyingAlbum
<1> QED
  BY <1>1, <1>2, <1>3, <1>4, ApartStep DEF Step, Emptying

\* What a step does to artists and albums: it keeps the lists, or it begins to
\* empty the album that it takes off one.
ListsStep ==
    /\ Housed(db')
    /\ \A ab \in db'.albums :
          \/ Listed(db', ab) \/ (ab \in db.albums /\ ~Listed(db, ab))
          \/ \E p \in Process : Emptying(p, ab)'

LEMMA KeptLists ==
    ASSUME KeepsLists(db, db'), Housed(db')
    PROVE  ListsStep
  BY DEF KeepsLists, ListsStep

LEMMA SameLists ==
    ASSUME Housed(db), SameTree(db, db')
    PROVE  ListsStep
  BY SameTreeKeeps, KeptLists

\* The one step that can spoil a list: MoveArtist writes the list of the old
\* artist over that of the new one when it finds it in the database.
TargetFree(p) == pc[p] = "NewArtist" => Compat[loc[p].to[1]] \notin db.artists

LEMMA DeleteSongLists ==
    ASSUME DataOK, NEW p, NEW k, NEW next, DeleteSongThen(p, k, next)
    PROVE  SameTree(db, db')
  BY DEF DeleteSongThen, DeleteSongTx, SameTree, DataOK, Database

LEMMA CreateSongLists ==
    ASSUME DataOK, NEW k, NEW path, db' = CreateSongTx(db, k, path)
    PROVE  SameTree(db, db')
  BY DEF CreateSongTx, SameTree, DataOK, Database

LEMMA StepLists ==
    ASSUME ControlOK, DataOK, Errands, Housed(db), NEW p \in Process, Step(p), TargetFree(p)
    PROVE  ListsStep
<1>1. loc[p] \in Frame /\ Shape(pc[p], loc[p]) /\ db \in Database
  BY FrameOf DEF DataOK
<1>2. db' = db => ListsStep
  BY SameLists DEF SameTree
<1>3. CASE \/ MkdirNew(p) \/ CreateFile(p) \/ ReleaseTags(p) \/ RemoveFile(p)
           \/ MoveArtist(p) \/ MoveAlbum(p) \/ RenameFile(p) \/ SetMp3Tags(p)
           \/ GetMp3Tags(p) \/ DropFileInto(p)
  BY <1>2, <1>3
     DEF MkdirNew, CreateFile, ReleaseTags, RemoveFile, MoveArtist, MoveAlbum,
         RenameFile, SetMp3Tags, GetMp3Tags, DropFileInto, Syscall
<1>4. CASE \/ ReleaseSong(p) \/ GetFilePath(p) \/ Victims(p) \/ MoveSongs(p)
           \/ AddPath(p) \/ Regenerate(p)
  BY <1>2, <1>4 DEF ReleaseSong, GetFilePath, Victims, MoveSongs, AddPath, Regenerate
<1>5. CASE CreateArtist(p)
  <2>1. Compat[loc[p].to[1]] \in DirName
    BY <1>1, <1>5, KeyParts, CompatParts DEF CreateArtist, Session, Shape
  <2> QED
    BY <1>1, <1>2, <1>5, <2>1, CreateArtistLists, KeptLists DEF CreateArtist, Refuse
<1>6. CASE DropArtist(p)
  <2>1. Compat[loc[p].to[1]] \in DirName
    BY <1>1, <1>6, KeyParts, CompatParts DEF DropArtist, Session, Shape
  <2> QED
    BY <1>1, <1>2, <1>6, <2>1, CreateArtistLists, KeptLists DEF DropArtist, Refuse
<1>7. CASE CreateAlbum(p)
  <2> DEFINE ab == <<loc[p].to[1], Compat[loc[p].to[2]]>>
  <2>1. ab \in AlbumKey
    BY <1>1, <1>7, KeyParts, CompatParts DEF CreateAlbum, Session, Shape, AlbumKey
  <2>2. db' = db \/ (ab[1] \in db.artists /\ db' = CreateAlbumTx(db, ab))
    BY <1>7 DEF CreateAlbum, Refuse
  <2> HIDE DEF ab
  <2> QED
    BY <1>1, <1>2, <2>1, <2>2, CreateAlbumLists, KeptLists
<1>8. CASE DropAlbum(p)
  <2> DEFINE ab == <<loc[p].to[1], Compat[loc[p].to[2]]>>
  <2>1. ab \in AlbumKey
    BY <1>1, <1>8, KeyParts, CompatParts DEF DropAlbum, Session, Shape, AlbumKey
  <2>2. db' = db \/ (ab[1] \in db.artists /\ db' = CreateAlbumTx(db, ab))
    BY <1>8 DEF DropAlbum, Refuse
  <2> HIDE DEF ab
  <2> QED
    BY <1>1, <1>2, <2>1, <2>2, CreateAlbumLists, KeptLists
<1>9. CASE CreateSong(p) \/ CreateNew(p) \/ DropSong(p)
  <2>1. db' = db \/ \E k, path : db' = CreateSongTx(db, k, path)
    BY <1>9 DEF CreateSong, CreateNew, DropSong, Refuse
  <2> QED
    BY <1>2, <2>1, CreateSongLists, SameLists
<1>10. CASE DeleteSong(p) \/ DeleteOld(p)
  <2>1. db' = db \/ \E k, next : DeleteSongThen(p, k, next)
    BY <1>10 DEF DeleteSong, DeleteOld, Refuse
  <2> QED
    BY <1>2, <2>1, DeleteSongLists, SameLists
<1>11. CASE DeleteArtist(p) \/ EndArtist(p)
  BY <1>1, <1>11, DeleteArtistLists, KeptLists DEF DeleteArtist, EndArtist
<1>12. CASE DeleteAlbum(p) \/ EndAlbum(p)
  <2>1. db' = db \/ \E ab : db' = DeleteAlbumBucket(db, ab)
    BY <1>12 DEF DeleteAlbum, EndAlbum, Refuse
  <2> QED
    BY <1>1, <1>2, <2>1, DeleteAlbumLists, KeptLists
<1>13. CASE NewArtist(p)
  <2>1. loc[p].from[1] \in DirName /\ Compat[loc[p].to[1]] \in DirName
    BY <1>1, <1>13, KeyParts, CompatParts DEF NewArtist, Session, Shape
  <2>2. Compat[loc[p].to[1]] \notin db.artists
    BY <1>13 DEF TargetFree, NewArtist, Session
  <2>3. \/ db' = db
        \/ db' = ProcessNewArtistTx(db, Compat[loc[p].to[1]], loc[p].from[1])
    BY <1>13 DEF NewArtist
  <2> QED
    BY <1>1, <1>2, <2>1, <2>2, <2>3, ProcessNewArtistLists, KeptLists
<1>14. CASE NewAlbum(p)
  <2> DEFINE old == loc[p].from
             new == <<loc[p].to[1], Compat[loc[p].to[2]]>>
  <2>1. old \in AlbumKey /\ new \in AlbumKey
    BY <1>1, <1>14, KeyParts, CompatParts DEF NewAlbum, Session, Shape, AlbumKey
  <2>2. db' = db \/ (new[1] \in db.artists /\ db' = ProcessNewAlbumTx(db, new, old))
    BY <1>14 DEF NewAlbum
  <2>3. \A ab : ab = old /\ db' # db => Emptying(p, ab)'
    BY <1>14, NewAlbumErrand
  <2> HIDE DEF old, new
  <2> QED
    BY <1>1, <1>2, <2>1, <2>2, <2>3, ProcessNewAlbumLists DEF ListsStep
<1>15. CASE Unlist(p)
  BY <1>1, <1>15, SameLists DEF Unlist, UnlistTx, SameTree, Database
<1>16. CASE AddEntry(p)
  BY <1>1, <1>2, <1>16, SameLists DEF AddEntry, AddFileToPlaylistTx, SameTree, Database
<1> QED
  BY <1>3, <1>4, <1>5, <1>6, <1>7, <1>8, <1>9, <1>10, <1>11, <1>12, <1>13,
     <1>14, <1>15, <1>16 DEF Step

\* What the theorem keeps: the types, the errands, and the lists themselves.
TreeOK == ControlOK /\ DataOK /\ Errands /\ Housed(db) /\ AlbumsListed

LEMMA InitTree == Init => TreeOK
<1> SUFFICES ASSUME Init PROVE Housed(db) /\ AlbumsListed
  BY InitOK, InitErrands DEF TreeOK
<1>1. PICK i \in Initial : db = i.db
  BY DEF Init
<1> QED
  BY <1>1, InitialAssumption DEF Housed, AlbumsListed

LEMMA StepTree ==
    ASSUME TreeOK, NEW p \in Process, Step(p), TargetFree(p)
    PROVE  Housed(db)' /\ AlbumsListed'
<1>1. ListsStep
  BY StepLists DEF TreeOK
<1>2. ASSUME NEW ab \in db'.albums, ab \in db.albums, ~Listed(db, ab)
      PROVE  \E q \in Process : Emptying(q, ab)'
  <2>1. PICK q \in Process : Emptying(q, ab)
    BY <1>2 DEF TreeOK, AlbumsListed, Listed
  <2>2. Emptying(q, ab)'
    BY <2>1, KeepsEmptying DEF TreeOK
  <2> QED
    BY <2>2
<1> QED
  BY <1>1, <1>2 DEF ListsStep, AlbumsListed, Listed, Housed

LEMMA StartTree ==
    ASSUME TreeOK, NEW p \in Process, NEW r \in Requests, Start(p, r)
    PROVE  Housed(db)' /\ AlbumsListed'
<1>1. db' = db /\ pc[p] = "idle" /\ Local(p)
  BY GoesOnLocal DEF Start, GoesOn, TreeOK
<1>2. ASSUME NEW q \in Process, NEW ab, Emptying(q, ab)
      PROVE  Emptying(q, ab)'
  <2>1. q # p
    BY <1>1, <1>2 DEF Emptying, EmptyingAlbum
  <2> QED
    BY <1>1, <1>2, <2>1 DEF Local, Emptying
<1> QED
  BY <1>1, <1>2 DEF TreeOK, Housed, AlbumsListed

LEMMA StutterTree ==
    ASSUME TreeOK, UNCHANGED vars
    PROVE  Housed(db)' /\ AlbumsListed'
  BY DEF TreeOK, vars, Housed, AlbumsListed, Emptying

TargetsFree == \A p \in Process : TargetFree(p)

LEMMA NextTree ==
    ASSUME TreeOK, TargetsFree, [Next]_vars
    PROVE  TreeOK'
<1>1. ControlOK' /\ DataOK' /\ Errands'
  BY NextOK, NextErrands DEF TreeOK
<1>2. Housed(db)' /\ AlbumsListed'
  BY StepTree, StartTree, StutterTree DEF Next, Finished, TargetsFree
<1> QED
  BY <1>1, <1>2 DEF TreeOK

(***************************************************************************)
(* As long as MoveArtist finds no artist at the new name, ArtistAlbums     *)
(* names every album of every artist but the one that MoveAlbum is         *)
(* emptying, whatever creates, moves and deletes albums meanwhile.         *)
(***************************************************************************)
THEOREM AlbumsStayListed == Spec /\ []TargetsFree => []AlbumsListed
<1>1. TreeOK => AlbumsListed
  BY DEF TreeOK
<1> QED
  BY <1>1, InitTree, NextTree, PTL DEF Spec

----------------------------------------------------------------------------
(***************************************************************************)
(* When MoveArtist can find no artist at the new name.  The kernel does    *)
(* not rename a directory onto one that is there, and keeps the root       *)
(* locked while an artist is made or renamed; but it compares the names as *)
(* they are asked for, and a drop makes its artist under no lock.          *)
(***************************************************************************)
Targets == {r.to[1] : r \in {q \in Requests : q.op = "rename" /\ Len(q.from) = 1}}

\* A file with these tags, if there is one, is not for an artist renamed to.
AsksApart(tags) ==
    tags # NoFile =>
        Compat[IF tags = Untagged THEN Unknown ELSE tags.artist] \notin Targets

\* Artists are renamed to compatible names that no file in drop asks for.
ArtistsApart ==
    /\ ~ReplaceDirs
    /\ \A a \in Targets : Compat[a] = a
    /\ \A i \in Initial, f \in DropFile : AsksApart(i.disk[f])

Watched == {"MoveArtist", "NewArtist", "DropArtist", "ReleaseTags"}

\* A step of p for the request that it is about, to a step that is not watched.
Onward(p) ==
    /\ pc[p] # "idle" /\ pc'[p] \notin Watched
    /\ pc'[p] = "idle" \/ loc'[p].req = loc[p].req

LEMMA GotoOnward ==
    ASSUME ControlOK, NEW p \in Process, pc[p] # "idle", NEW step, step \notin Watched, NEW f,
           step = "idle" \/ f.req = loc[p].req, Goto(p, step, f)
    PROVE  Onward(p)
<1>1. pc'[p] = step /\ loc'[p] = f
  BY DEF Goto, ControlOK
<1> QED
  BY <1>1 DEF Onward

LEMMA ReturnOnward ==
    ASSUME ControlOK, NEW p \in Process, pc[p] # "idle", Return(p)
    PROVE  Onward(p)
  BY GotoOnward DEF Return, Watched

LEMMA AlbumOnward ==
    ASSUME ControlOK, NEW p \in Process, pc[p] # "idle", NEW f \in Frame, f.req = loc[p].req,
           NextAlbum(p, f) \/ AlbumReturn(p, f)
    PROVE  Onward(p)
<1>1. ASSUME NextAlbum(p, f) PROVE Onward(p)
  <2>1. CASE Goto(p, "EndArtist", f)
    BY <2>1, GotoOnward DEF Watched
  <2>2. ASSUME NEW from, NEW to, NEW rest,
               Goto(p, "MoveAlbum", [f EXCEPT !.from = from, !.to = to, !.albums = rest])
        PROVE  Onward(p)
    <3>1. [f EXCEPT !.from = from, !.to = to, !.albums = rest].req = loc[p].req
      BY DEF Frame
    <3> QED
      BY <2>2, <3>1, GotoOnward DEF Watched
  <2> QED
    BY <1>1, <2>1, <2>2 DEF NextAlbum
<1> QED
  BY <1>1, ReturnOnward DEF AlbumReturn

LEMMA SongOnward ==
    ASSUME ControlOK, NEW p \in Process, pc[p] # "idle", NEW f \in Frame, f.req = loc[p].req,
           NextSong(p, f) \/ SongReturn(p, f)
    PROVE  Onward(p)
<1>1. ASSUME NEW g \in Frame, g.req = loc[p].req, NextSong(p, g) PROVE Onward(p)
  <2>1. CASE Goto(p, "EndAlbum", g)
    BY <1>1, <2>1, GotoOnward DEF Watched
  <2>2. ASSUME NEW from, NEW to, NEW path, NEW songs,
               Goto(p, "MoveSongs", [g EXCEPT !.from = from, !.to = to, !.path = path, !.songs = songs])
        PROVE  Onward(p)
    <3>1. [g EXCEPT !.from = from, !.to = to, !.path = path, !.songs = songs].req = loc[p].req
      BY <1>1 DEF Frame
    <3> QED
      BY <2>2, <3>1, GotoOnward DEF Watched
  <2> QED
    BY <1>1, <2>1, <2>2 DEF NextSong
<1>2. CASE SongReturn(p, f)
  <2> DEFINE g == [f EXCEPT !.path = NoPath, !.lists = <<>>, !.todo = <<>>]
  <2>1. g \in Frame /\ g.req = loc[p].req
    BY EmptySeq DEF Frame
  <2>2. Return(p) \/ NextSong(p, g)
    BY <1>2 DEF SongReturn
  <2> HIDE DEF g
  <2> QED
    BY <1>1, <2>1, <2>2, ReturnOnward
<1> QED
  BY <1>1, <1>2

LEMMA StepBusy ==
    ASSUME NEW p \in Process, Step(p)
    PROVE  pc[p] # "idle"
<1>1. CASE \/ CreateArtist(p) \/ CreateAlbum(p) \/ MkdirNew(p)
           \/ CreateSong(p) \/ CreateFile(p) \/ ReleaseSong(p) \/ ReleaseTags(p)
           \/ GetFilePath(p) \/ DeleteSong(p) \/ RemoveFile(p)
           \/ DeleteArtist(p) \/ DeleteAlbum(p) \/ Victims(p)
  BY <1>1 DEF CreateArtist, CreateAlbum, MkdirNew, CreateSong, CreateFile, ReleaseSong, ReleaseTags,
              GetFilePath, DeleteSong, RemoveFile, DeleteArtist, DeleteAlbum, Victims, Session, Syscall
<1>2. CASE \/ MoveArtist(p) \/ NewArtist(p) \/ EndArtist(p)
           \/ MoveAlbum(p) \/ NewAlbum(p) \/ EndAlbum(p)
           \/ MoveSongs(p) \/ Unlist(p) \/ RenameFile(p) \/ DeleteOld(p)
           \/ SetMp3Tags(p) \/ CreateNew(p) \/ AddPath(p) \/ AddEntry(p) \/ Regenerate(p)
  BY <1>2 DEF MoveArtist, NewArtist, EndArtist, MoveAlbum, NewAlbum, EndAlbum, MoveSongs, Unlist,
              RenameFile, DeleteOld, SetMp3Tags, CreateNew, AddPath, AddEntry, Regenerate,
              Session, Syscall
<1>3. CASE GetMp3Tags(p) \/ DropArtist(p) \/ DropAlbum(p) \/ DropFileInto(p) \/ DropSong(p)
  BY <1>3 DEF GetMp3Tags, DropArtist, DropAlbum, DropFileInto, DropSong, Session, Syscall
<1> QED
  BY <1>1, <1>2, <1>3 DEF Step

\* Only three steps lead to a watched one, and they keep the request too.
LEMMA StepOnward ==
    ASSUME ControlOK, DataOK, NEW p \in Process, Step(p)
    PROVE  \/ Onward(p)
           \/ /\ MoveArtist(p) \/ GetMp3Tags(p) \/ ReleaseSong(p)
              /\ pc'[p] = "idle" \/ loc'[p].req = loc[p].req
<1>1. pc[p] # "idle" /\ loc[p] \in Frame
  BY StepBusy DEF ControlOK
<1>2. ASSUME NEW step, step \notin Watched, Goto(p, step, loc[p]) PROVE Onward(p)
  BY <1>1, <1>2, GotoOnward
<1>3. ASSUME NEW step, step \notin Watched, NEW to, Goto(p, step, [loc[p] EXCEPT !.to = to])
      PROVE  Onward(p)
  <2>1. [loc[p] EXCEPT !.to = to].req = loc[p].req
    BY <1>1 DEF Frame
  <2> QED
    BY <1>1, <1>3, <2>1, GotoOnward
<1>4. ASSUME NEW step, step \notin Watched, NEW path, Goto(p, step, [loc[p] EXCEPT !.path = path])
      PROVE  Onward(p)
  <2>1. [loc[p] EXCEPT !.path = path].req = loc[p].req
    BY <1>1 DEF Frame
  <2> QED
    BY <1>1, <1>4, <2>1, GotoOnward
<1>5. ASSUME NEW step, step \notin Watched, NEW todo, Goto(p, step, [loc[p] EXCEPT !.todo = todo])
      PROVE  Onward(p)
  <2>1. [loc[p] EXCEPT !.todo = todo].req = loc[p].req
    BY <1>1 DEF Frame
  <2> QED
    BY <1>1, <1>5, <2>1, GotoOnward
<1>6. ASSUME NEW victims, Goto(p, "Victims", [loc[p] EXCEPT !.victims = victims])
      PROVE  Onward(p)
  <2>1. [loc[p] EXCEPT !.victims = victims].req = loc[p].req
    BY <1>1 DEF Frame
  <2> QED
    BY <1>1, <1>6, <2>1, GotoOnward DEF Watched
<1>7. ASSUME Return(p) PROVE Onward(p)
  BY <1>1, <1>7, ReturnOnward
<1>8. CASE \/ CreateArtist(p) \/ CreateAlbum(p) \/ CreateSong(p) \/ GetFilePath(p)
           \/ DropArtist(p) \/ DropAlbum(p)
  BY <1>3, <1>4, <1>7, <1>8
     DEF CreateArtist, CreateAlbum, CreateSong, GetFilePath, DropArtist, DropAlbum, Refuse, Watched
<1>9. CASE \/ MkdirNew(p) \/ CreateFile(p) \/ ReleaseTags(p) \/ RemoveFile(p)
           \/ EndArtist(p) \/ DropSong(p) \/ DropFileInto(p)
  BY <1>2, <1>7, <1>9
     DEF MkdirNew, CreateFile, ReleaseTags, RemoveFile, EndArtist, DropSong, DropFileInto, Watched
<1>10. CASE DeleteArtist(p) \/ DeleteAlbum(p) \/ Victims(p)
  BY <1>2, <1>6, <1>7, <1>10 DEF DeleteArtist, DeleteAlbum, Victims, RemoveVictims, Refuse, Watched
<1>11. ASSUME NEW f \in Frame, f.req = loc[p].req,
              NextAlbum(p, f) \/ AlbumReturn(p, f) \/ NextSong(p, f) \/ SongReturn(p, f)
       PROVE  Onward(p)
  BY <1>1, <1>11, AlbumOnward, SongOnward
<1>12. CASE \/ MoveAlbum(p) \/ EndAlbum(p) \/ RenameFile(p) \/ SetMp3Tags(p) \/ AddEntry(p)
  BY <1>1, <1>2, <1>11, <1>12 DEF MoveAlbum, EndAlbum, RenameFile, SetMp3Tags, AddEntry, Watched
<1>13. CASE DeleteSong(p) \/ DeleteOld(p)
  BY <1>1, <1>2, <1>7, <1>11, <1>13 DEF DeleteSong, DeleteOld, DeleteSongThen, Refuse, Watched
<1>14. CASE MoveSongs(p)
  <2> DEFINE lists == ListsOf(db, loc[p].from)
             f     == [loc[p] EXCEPT !.lists = lists, !.todo = lists]
  <2>1. f.req = loc[p].req
    BY <1>1 DEF Frame
  <2>2. Goto(p, "RenameFile", f) \/ Goto(p, "Unlist", f)
    BY <1>14 DEF MoveSongs
  <2> HIDE DEF f
  <2> QED
    BY <1>1, <2>1, <2>2, GotoOnward DEF Watched
<1>15. CASE Unlist(p) \/ AddPath(p)
  BY <1>2, <1>4, <1>5, <1>15 DEF Unlist, AddPath, Watched
<1>16. CASE CreateNew(p)
  BY <1>1, <1>5, <1>11, <1>16 DEF CreateNew, Watched
<1>17. CASE Regenerate(p)
  <2> DEFINE rest == Tail(loc[p].todo)
             f == [loc[p] EXCEPT !.todo = rest]
  <2>0. loc[p].todo # <<>> /\ loc[p].todo \in Seq(Playlist)
    BY <1>1, <1>17, MovingFrame DEF Regenerate, Session, Frame, MoveSongsSteps
  <2>1. rest \in Seq(Playlist)
    BY <2>0, HeadTailProperties
  <2>2. SongReturn(p, f) \/ Goto(p, "AddPath", f)
    BY <1>17 DEF Regenerate
  <2> HIDE DEF rest
  <2>3. f \in Frame /\ f.req = loc[p].req
    BY <1>1, <2>1 DEF Frame
  <2> HIDE DEF f
  <2> QED
    BY <1>1, <1>11, <2>2, <2>3, GotoOnward DEF Watched
<1>18. CASE NewArtist(p)
  <2> DEFINE f == [loc[p] EXCEPT !.albums = db.listed[loc[p].from[1]]]
  <2>1. f.req = loc[p].req
    BY <1>1 DEF Frame
  <2>2. f \in Frame
    BY <1>18, LoopFrames DEF NewArtist, Session
  <2>3. NextAlbum(p, f) \/ Return(p)
    BY <1>18 DEF NewArtist
  <2> HIDE DEF f
  <2> QED
    BY <1>7, <1>11, <2>1, <2>2, <2>3
<1>19. CASE NewAlbum(p)
  <2> DEFINE f == [loc[p] EXCEPT !.songs = {[key |-> k, path |-> db.songs[k].path] :
                                              k \in SongsIn(db, loc[p].from)}]
  <2>1. f.req = loc[p].req
    BY <1>1 DEF Frame
  <2>2. f \in Frame
    BY LoopFrames
  <2>3. NextSong(p, f) \/ AlbumReturn(p, loc[p])
    BY <1>19 DEF NewAlbum
  <2> HIDE DEF f
  <2> QED
    BY <1>1, <1>11, <2>1, <2>2, <2>3
<1>20. CASE MoveArtist(p)
  BY <1>20 DEF MoveArtist, Goto, ControlOK
<1>21. CASE GetMp3Tags(p) \/ ReleaseSong(p)
  BY <1>1, <1>21 DEF GetMp3Tags, ReleaseSong, Return, Goto, ControlOK, Frame
<1> QED
  BY <1>8, <1>9, <1>10, <1>12, <1>13, <1>14, <1>15, <1>16, <1>17, <1>18, <1>19, <1>20, <1>21 DEF Step

\* The handlers that hold the root directory locked: there is one at a time.
AtRoot(p) == InProgress(p) /\ <<>> \in KernelLocks(loc[p].req)

TargetsApart ==
    /\ \A p, q \in Process : AtRoot(p) /\ AtRoot(q) => p = q
    /\ \A p \in Process : pc[p] \in {"MoveArtist", "NewArtist"} =>
          loc[p].to[1] \in Targets \ db.artists
    /\ \A p \in Process : pc[p] = "DropArtist" => Compat[loc[p].to[1]] \notin Targets
    /\ \A p \in Process : pc[p] = "ReleaseTags" => loc[p].path \notin DropFile
    /\ \A f \in DropFile : AsksApart(disk[f])

LEMMA RootParent ==
    ASSUME NEW n, Len(n) = 1
    PROVE  Parent(n) = <<>>
<1>1. SubSeq(n, 1, 0) = <<>>
  OBVIOUS
<1> QED
  BY <1>1 DEF Parent

LEMMA ArtistsAtRoot ==
    ASSUME ControlOK, Errands, NEW p \in Process,
           pc[p] \in {"CreateArtist", "MoveArtist", "NewArtist"}
    PROVE  AtRoot(p)
<1>1. Errand(pc[p], loc[p]) /\ InProgress(p)
  BY DEF Errands, InProgress
<1>2. CASE loc[p].req.op = "mkdir" /\ Len(loc[p].req.to) = 1
  BY <1>1, <1>2, RootParent DEF AtRoot, KernelLocks
<1>3. CASE loc[p].req.op = "rename" /\ Len(loc[p].req.from) = 1
  BY <1>1, <1>3, RootParent DEF AtRoot, KernelLocks
<1> QED
  BY <1>1, <1>2, <1>3 DEF Errand, RenameOf

LEMMA StepRoot ==
    ASSUME ControlOK, DataOK, TargetsApart, NEW p \in Process, Step(p)
    PROVE  \A q, s \in Process : AtRoot(q)' /\ AtRoot(s)' => q = s
<1>1. \A q \in Process : AtRoot(q)' => AtRoot(q)
  <2>1. AtRoot(p)' => AtRoot(p)
    BY StepBusy, StepOnward DEF AtRoot, InProgress, Onward
  <2>2. ASSUME NEW q \in Process, q # p PROVE AtRoot(q)' => AtRoot(q)
    BY <2>2, StepLocal DEF Local, AtRoot, InProgress
  <2> QED
    BY <2>1, <2>2
<1> QED
  BY <1>1 DEF TargetsApart

LEMMA StartRoot ==
    ASSUME ControlOK, TargetsApart, NEW p \in Process, NEW r \in Requests, Start(p, r)
    PROVE  \A q, s \in Process : AtRoot(q)' /\ AtRoot(s)' => q = s
<1>1. Local(p) /\ loc'[p].req = r
  BY GoesOnLocal DEF Start, GoesOn, Goto, Blank, ControlOK
<1>2. ASSUME NEW q \in Process, AtRoot(q), q # p PROVE ~AtRoot(p)'
  BY <1>1, <1>2 DEF Start, Waits, AtRoot
<1>3. \A q \in Process : q # p /\ AtRoot(q)' => AtRoot(q)
  BY <1>1 DEF Local, AtRoot, InProgress
<1> QED
  BY <1>2, <1>3 DEF TargetsApart

----------------------------------------------------------------------------
\* The steps that make artists.
LEMMA ArtistsGrow ==
    ASSUME ControlOK, DataOK, NEW p \in Process, Step(p)
    PROVE  \/ db'.artists \subseteq db.artists
           \/ pc[p] \in {"CreateArtist", "NewArtist"}
           \/ /\ pc[p] = "DropArtist"
              /\ db'.artists \subseteq db.artists \cup {Compat[loc[p].to[1]]}
<1>1. loc[p] \in Frame /\ Shape(pc[p], loc[p]) /\ db \in Database
  BY FrameOf DEF DataOK
<1>2. CASE \/ MkdirNew(p) \/ CreateFile(p) \/ ReleaseTags(p) \/ RemoveFile(p)
           \/ MoveArtist(p) \/ MoveAlbum(p) \/ RenameFile(p) \/ SetMp3Tags(p)
           \/ GetMp3Tags(p) \/ DropFileInto(p)
  BY <1>2
     DEF MkdirNew, CreateFile, ReleaseTags, RemoveFile, MoveArtist, MoveAlbum,
         RenameFile, SetMp3Tags, GetMp3Tags, DropFileInto, Syscall
<1>3. CASE \/ ReleaseSong(p) \/ GetFilePath(p) \/ Victims(p) \/ MoveSongs(p)
           \/ AddPath(p) \/ Regenerate(p)
  BY <1>3 DEF ReleaseSong, GetFilePath, Victims, MoveSongs, AddPath, Regenerate
<1>4. CASE CreateArtist(p) \/ NewArtist(p)
  BY <1>4 DEF CreateArtist, NewArtist, Session
<1>5. CASE DropArtist(p)
  BY <1>1, <1>5 DEF DropArtist, Session, Refuse, CreateArtistTx, Database
<1>6. CASE CreateAlbum(p) \/ DropAlbum(p)
  <2>1. db' = db \/ \E ab : db' = CreateAlbumTx(db, ab)
    BY <1>6 DEF CreateAlbum, DropAlbum, Refuse
  <2> QED
    BY <1>1, <2>1 DEF CreateAlbumTx, Database
<1>7. CASE CreateSong(p) \/ CreateNew(p) \/ DropSong(p)
  <2>1. db' = db \/ \E k, path : db' = CreateSongTx(db, k, path)
    BY <1>7 DEF CreateSong, CreateNew, DropSong, Refuse
  <2> QED
    BY <2>1, CreateSongLists DEF SameTree
<1>8. CASE DeleteSong(p) \/ DeleteOld(p)
  <2>1. db' = db \/ \E k, next : DeleteSongThen(p, k, next)
    BY <1>8 DEF DeleteSong, DeleteOld, Refuse
  <2> QED
    BY <2>1, DeleteSongLists DEF SameTree
<1>9. CASE DeleteArtist(p) \/ EndArtist(p)
  <2>1. \E a : db' = DeleteArtistBucket(db, a)
    BY <1>9 DEF DeleteArtist, EndArtist
  <2> QED
    BY <1>1, <2>1 DEF DeleteArtistBucket, Database
<1>10. CASE DeleteAlbum(p) \/ EndAlbum(p)
  <2>1. db' = db \/ \E ab : db' = DeleteAlbumBucket(db, ab)
    BY <1>10 DEF DeleteAlbum, EndAlbum, Refuse
  <2> QED
    BY <1>1, <2>1 DEF DeleteAlbumBucket, Database
<1>11. CASE NewAlbum(p)
  <2>1. db' = db \/ \E new, old : db' = ProcessNewAlbumTx(db, new, old)
    BY <1>11 DEF NewAlbum
  <2> QED
    BY <1>1, <2>1 DEF ProcessNewAlbumTx, Database
<1>12. CASE Unlist(p)
  BY <1>1, <1>12 DEF Unlist, UnlistTx, Database
<1>13. CASE AddEntry(p)
  BY <1>1, <1>13 DEF AddEntry, AddFileToPlaylistTx, Database
<1> QED
  BY <1>2, <1>3, <1>4, <1>5, <1>6, <1>7, <1>8, <1>9, <1>10, <1>11, <1>12, <1>13 DEF Step

\* What a step does to the files that wait in drop.
DropKept == \A f \in DropFile :
    disk'[f] = disk[f] \/ disk'[f] = NoFile \/ (disk[f] # NoFile /\ disk'[f] = TagsOf(f))

LEMMA SongFileKept ==
    ASSUME DataOK, NEW k \in SongKey, NEW v, disk' = [disk EXCEPT ![k] = v]
    PROVE  DropKept
<1>1. k \notin DropFile /\ disk \in [Path -> Tags \cup {Untagged, NoFile}]
  BY NotInDrop DEF DataOK, DiskOK
<1> QED
  BY <1>1, NotInDrop, LibraryAssumption DEF DropKept, Path

LEMMA DropStep ==
    ASSUME ControlOK, DataOK, TargetsApart, NEW p \in Process, Step(p)
    PROVE  DropKept
<1>1. /\ loc[p] \in Frame /\ Shape(pc[p], loc[p]) /\ DropFile \subseteq Path
      /\ DropFile \cap SongKey = {} /\ disk \in [Path -> Tags \cup {Untagged, NoFile}]
  BY FrameOf, NotInDrop, LibraryAssumption DEF DataOK, DiskOK, Path
<1>2. disk' = disk => DropKept
  BY DEF DropKept
<1>3. ASSUME NEW from, NEW k \in SongKey, disk' = Moved(from, k)
      PROVE  DropKept
  BY <1>1, <1>3 DEF DropKept, Moved
<1>4. CASE \/ CreateArtist(p) \/ CreateAlbum(p) \/ MkdirNew(p) \/ CreateSong(p) \/ ReleaseSong(p)
           \/ GetFilePath(p) \/ DeleteSong(p) \/ DeleteArtist(p) \/ DeleteAlbum(p)
           \/ MoveArtist(p) \/ NewArtist(p) \/ EndArtist(p)
           \/ MoveAlbum(p) \/ NewAlbum(p) \/ EndAlbum(p)
  BY <1>2, <1>4
     DEF CreateArtist, CreateAlbum, MkdirNew, CreateSong, ReleaseSong, GetFilePath, DeleteSong,
         DeleteSongThen, DeleteArtist, DeleteAlbum, RemoveVictims, MoveArtist, NewArtist,
         EndArtist, MoveAlbum, NewAlbum, EndAlbum, Refuse, files
<1>5. CASE \/ MoveSongs(p) \/ Unlist(p) \/ DeleteOld(p) \/ CreateNew(p)
           \/ AddPath(p) \/ AddEntry(p) \/ Regenerate(p)
           \/ DropArtist(p) \/ DropAlbum(p) \/ DropSong(p)
  BY <1>2, <1>5
     DEF MoveSongs, Unlist, DeleteOld, DeleteSongThen, CreateNew, AddPath, AddEntry, Regenerate,
         DropArtist, DropAlbum, DropSong, Refuse, files
<1>6. CASE CreateFile(p)
  BY <1>1, <1>6, SongFileKept DEF CreateFile, Syscall, Shape
<1>7. CASE ReleaseTags(p)
  <2>1. loc[p].path \notin DropFile
    BY <1>7 DEF TargetsApart, ReleaseTags, Syscall
  <2> QED
    BY <1>1, <1>7, <2>1 DEF ReleaseTags, Retagged, DropKept
<1>8. CASE RemoveFile(p)
  BY <1>1, <1>8 DEF RemoveFile, DropKept
<1>9. CASE Victims(p)
  BY <1>1, <1>2, <1>9 DEF Victims, DropKept
<1>10. CASE RenameFile(p)
  <2>1. NewFullPath(loc[p]) \in SongKey
    BY <1>10, MovingFrame, NewFullPathType DEF RenameFile, Syscall, MoveSongsSteps
  <2> QED
    BY <1>2, <1>3, <1>10, <2>1 DEF RenameFile
<1>11. CASE SetMp3Tags(p)
  <2>1. NewFullPath(loc[p]) \in SongKey
    BY <1>11, MovingFrame, NewFullPathType DEF SetMp3Tags, Syscall, MoveSongsSteps
  <2> QED
    BY <1>11, <2>1, SongFileKept DEF SetMp3Tags, Retagged
<1>12. CASE GetMp3Tags(p)
  BY <1>1, <1>2, <1>12 DEF GetMp3Tags, DropKept
<1>13. CASE DropFileInto(p)
  <2>1. NewFullPath(loc[p]) \in SongKey
    BY <1>1, <1>13, KeyParts, CompatParts DEF DropFileInto, Syscall, Shape, NewFullPath, SongKey
  <2> QED
    BY <1>2, <1>3, <1>13, <2>1 DEF DropFileInto
<1> QED
  BY <1>4, <1>5, <1>6, <1>7, <1>8, <1>9, <1>10, <1>11, <1>12, <1>13 DEF Step

LEMMA StepTargets ==
    ASSUME ControlOK, DataOK, Errands, Filed(db), ArtistsApart, TargetsApart,
           NEW p \in Process, Step(p)
    PROVE  TargetsApart'
<1>1. \A q, s \in Process : AtRoot(q)' /\ AtRoot(s)' => q = s
  BY StepRoot
<1>2. ASSUME NEW q \in Process, pc'[q] \in Watched
      PROVE  \/ pc'[q] = pc[q] /\ loc'[q] = loc[q]
             \/ q = p /\ (MoveArtist(p) \/ GetMp3Tags(p) \/ ReleaseSong(p))
  BY <1>2, StepLocal, StepOnward DEF Local, Onward
<1>3. ASSUME NEW q \in Process, pc'[q] \in {"MoveArtist", "NewArtist"}
      PROVE  loc'[q].to[1] \in Targets \ db'.artists
  <2>1. CASE q = p /\ (MoveArtist(p) \/ GetMp3Tags(p) \/ ReleaseSong(p))
    BY <1>3, <2>1
       DEF MoveArtist, GetMp3Tags, ReleaseSong, Syscall, Session, Return, Goto, ControlOK, TargetsApart
  <2>2. CASE pc'[q] = pc[q] /\ loc'[q] = loc[q]
    <3>1. AtRoot(q) /\ loc[q].to[1] \in Targets \ db.artists
      BY <1>3, <2>2, ArtistsAtRoot DEF TargetsApart
    <3>2. CASE q # p
      <4>1. pc[p] \notin {"CreateArtist", "NewArtist"}
        BY <3>1, <3>2, ArtistsAtRoot DEF TargetsApart
      <4>2. pc[p] = "DropArtist" => Compat[loc[p].to[1]] \notin Targets
        BY DEF TargetsApart
      <4> QED
        BY <2>2, <3>1, <4>1, <4>2, ArtistsGrow
    <3>3. CASE q = p
      <4>1. CASE Onward(p)
        BY <1>3, <3>3, <4>1 DEF Onward, Watched
      <4>2. CASE MoveArtist(p) \/ GetMp3Tags(p) \/ ReleaseSong(p)
        BY <1>3, <2>1, <3>3, <4>2
      <4> QED
        BY <4>1, <4>2, StepOnward
    <3> QED
      BY <3>2, <3>3
  <2> QED
    BY <1>2, <1>3, <2>1, <2>2 DEF Watched
<1>4. ASSUME NEW q \in Process, pc'[q] = "DropArtist"
      PROVE  Compat[loc'[q].to[1]] \notin Targets
  <2>1. CASE q = p /\ GetMp3Tags(p)
    <3> DEFINE t == TagsOf(loc[p].path)
               g == [loc[p] EXCEPT !.to = <<t.artist, t.album, TitleOf(t)>>]
    <3>1. disk[loc[p].path] # NoFile /\ Goto(p, "DropArtist", g)
      BY <1>4, <2>1 DEF GetMp3Tags, Return, Goto, ControlOK
    <3>2. loc[p] \in Frame /\ loc[p].path \in DropFile /\ loc[p].path \in Path
      BY <2>1, LibraryAssumption DEF GetMp3Tags, Syscall, ControlOK, Shape, Path
    <3>3. g.to[1] = t.artist
      BY <3>2 DEF Frame
    <3>4. Compat[t.artist] \notin Targets
      BY <3>1, <3>2 DEF TagsOf, AsksApart, TargetsApart
    <3> HIDE DEF t, g
    <3> QED
      BY <2>1, <3>1, <3>3, <3>4 DEF Goto, ControlOK
  <2>2. CASE pc'[q] = pc[q] /\ loc'[q] = loc[q]
    BY <1>4, <2>2 DEF TargetsApart
  <2>3. CASE q = p /\ (MoveArtist(p) \/ ReleaseSong(p))
    BY <1>4, <2>3 DEF MoveArtist, ReleaseSong, Return, Goto, ControlOK
  <2> QED
    BY <1>2, <1>4, <2>1, <2>2, <2>3 DEF Watched
<1>5. ASSUME NEW q \in Process, pc'[q] = "ReleaseTags"
      PROVE  loc'[q].path \notin DropFile
  <2>1. CASE q = p /\ ReleaseSong(p)
    <3> DEFINE k == loc[p].from
               g == [loc[p] EXCEPT !.path = db.songs[k].path]
    <3>1. db.songs[k] # NoSong /\ Goto(p, "ReleaseTags", g)
      BY <1>5, <2>1 DEF ReleaseSong, Return, Goto, ControlOK
    <3>2. loc[p] \in Frame /\ k \in SongKey
      BY <2>1 DEF ReleaseSong, Session, ControlOK, Shape
    <3>3. db.songs[k].path \notin DropFile
      BY <3>1, <3>2, NotInDrop DEF Filed
    <3>4. g.path \notin DropFile
      BY <3>2, <3>3 DEF Frame
    <3> HIDE DEF g
    <3> QED
      BY <2>1, <3>1, <3>4 DEF Goto, ControlOK
  <2>2. CASE pc'[q] = pc[q] /\ loc'[q] = loc[q]
    BY <1>5, <2>2 DEF TargetsApart
  <2>3. CASE q = p /\ (MoveArtist(p) \/ GetMp3Tags(p))
    BY <1>5, <2>3 DEF MoveArtist, GetMp3Tags, Return, Goto, ControlOK
  <2> QED
    BY <1>2, <1>5, <2>1, <2>2, <2>3 DEF Watched
<1>6. ASSUME NEW f \in DropFile
      PROVE  AsksApart(disk'[f])
  <2>1. AsksApart(disk[f]) /\ f \in Path
    BY LibraryAssumption DEF TargetsApart, Path
  <2>2. CASE disk[f] # NoFile /\ disk'[f] = TagsOf(f)
    <3>1. disk'[f] # Untagged
      BY <2>1, <2>2, TagsOfType, LibraryAssumption DEF DataOK
    <3>2. disk'[f].artist = IF disk[f] = Untagged THEN Unknown ELSE disk[f].artist
      BY <2>2 DEF TagsOf
    <3> QED
      BY <2>1, <2>2, <3>1, <3>2 DEF AsksApart
  <2>3. CASE disk'[f] = disk[f] \/ disk'[f] = NoFile
    BY <2>1, <2>3 DEF AsksApart
  <2> QED
    BY <2>2, <2>3, DropStep DEF DropKept
<1> QED
  BY <1>1, <1>3, <1>4, <1>5, <1>6 DEF TargetsApart

LEMMA StartTargets ==
    ASSUME ControlOK, ArtistsApart, TargetsApart, NEW p \in Process, NEW r \in Requests, Start(p, r)
    PROVE  TargetsApart'
<1>1. \A q, s \in Process : AtRoot(q)' /\ AtRoot(s)' => q = s
  BY StartRoot
<1>2. /\ Local(p) /\ db' = db /\ disk' = disk /\ Resolves(r)
      /\ pc'[p] = FirstStep(r) /\ loc'[p].to = r.to
  BY GoesOnLocal DEF Start, GoesOn, Goto, Blank, ControlOK, files
<1>3. ASSUME pc'[p] \in Watched
      PROVE  pc'[p] = "MoveArtist" /\ r.op = "rename" /\ Len(r.from) = 1 /\ Len(r.to) = 1
  BY <1>2, <1>3, FirstSteps DEF Watched
<1>4. ASSUME pc'[p] \in Watched PROVE r.to[1] \in Targets \ db.artists
  <2>1. r.op = "rename" /\ Len(r.from) = 1 /\ Len(r.to) = 1
    BY <1>3, <1>4
  <2>2. ~Exists(r.to)
    BY <1>2, <2>1 DEF Resolves, ArtistsApart
  <2> QED
    BY <2>1, <2>2 DEF Exists, Targets
<1> QED
  BY <1>1, <1>2, <1>3, <1>4 DEF TargetsApart, Local, Watched

LEMMA NextTargets ==
    ASSUME ControlOK, DataOK, Errands, Filed(db), ArtistsApart, TargetsApart, [Next]_vars
    PROVE  TargetsApart'
<1>1. CASE UNCHANGED vars
  BY <1>1 DEF vars, TargetsApart, AtRoot, InProgress
<1> QED
  BY <1>1, StepTargets, StartTargets DEF Next, Finished

LEMMA InitTargets == ArtistsApart /\ Init => TargetsApart
  BY DEF Init, TargetsApart, ArtistsApart, AtRoot, InProgress

(***************************************************************************)
(* When artists are renamed to compatible names that neither a directory   *)
(* nor a file in drop has, no rename finds an artist at its new name: the  *)
(* lock on the root keeps the handlers that make artists apart, and the    *)
(* list of each artist names every album but the one being emptied.        *)
(***************************************************************************)
THEOREM AlbumsStayListedApart ==
    ASSUME ArtistsApart
    PROVE  Spec => []AlbumsListed
<1> DEFINE Inv == TreeOK /\ Filed(db) /\ TargetsApart
<1>1. TargetsApart => TargetsFree
  BY DEF TargetsApart, TargetsFree, TargetFree, ArtistsApart
<1>2. Init => Inv
  BY InitTree, InitFiled, InitTargets
<1>3. Inv /\ [Next]_vars => Inv'
  BY <1>1, NextTree, NextFiled, NextTargets DEF TreeOK
<1>4. Inv => AlbumsListed
  BY DEF TreeOK
<1> QED
  BY <1>2, <1>3, <1>4, PTL DEF Spec

----------------------------------------------------------------------------
(***************************************************************************)
(* The links between songs and playlists, while the handlers of Library    *)
(* move songs about.                                                       *)
(*                                                                         *)
(* The argument.  Only the two loops of MoveSongs over the playlists of a  *)
(* song touch links; any other transaction leaves a song and its playlists *)
(* as they were, or stores it afresh on none (LeavesLinks).  The first     *)
(* loop takes the song off entry by entry: from then on the handler has    *)
(* found playlists for it (LinkFrame) and keeps it until DeleteSong has    *)
(* deleted the record (OffListsKept), which it can, because the album of   *)
(* a song that exists is there (SongsHoused).  The second loop writes an   *)
(* entry with a path it read in an earlier session; that is still the path *)
(* of the song, because the song was created at its own name and a song    *)
(* keeps its path (FiledAtKept).                                           *)
(***************************************************************************)

SongsHoused(d) == \A k \in SongKey : d.songs[k] # NoSong => AlbumOf(k) \in d.albums

\* The playlists are as they were, and the songs that are not are on none.
LeavesLinks(d, e) ==
    /\ e.entries = d.entries
    /\ \A k \in SongKey : e.songs[k] # NoSong =>
          e.songs[k] = d.songs[k] \/ e.songs[k].lists = <<>>
    /\ SongsHoused(d) => SongsHoused(e)

\* Of albums and songs none are changed but albums that come in addition.
LEMMA AlbumsGrow ==
    ASSUME NEW d, NEW e, e.entries = d.entries, e.songs = d.songs, d.albums \subseteq e.albums
    PROVE  LeavesLinks(d, e)
  BY DEF LeavesLinks, SongsHoused

LEMMA CreateArtistLinks ==
    ASSUME NEW d \in Database, NEW a PROVE LeavesLinks(d, CreateArtistTx(d, a))
<1>1. /\ CreateArtistTx(d, a).entries = d.entries /\ CreateArtistTx(d, a).songs = d.songs
      /\ CreateArtistTx(d, a).albums = d.albums
  BY DEF CreateArtistTx, Database
<1> QED
  BY <1>1, AlbumsGrow

LEMMA CreateAlbumLinks ==
    ASSUME NEW d \in Database, NEW ab PROVE LeavesLinks(d, CreateAlbumTx(d, ab))
<1>1. /\ CreateAlbumTx(d, ab).entries = d.entries /\ CreateAlbumTx(d, ab).songs = d.songs
      /\ CreateAlbumTx(d, ab).albums = d.albums \cup {ab}
  BY DEF CreateAlbumTx, Database
<1> QED
  BY <1>1, AlbumsGrow

LEMMA ProcessNewArtistLinks ==
    ASSUME NEW d \in Database, NEW new, NEW old PROVE LeavesLinks(d, ProcessNewArtistTx(d, new, old))
<1>1. /\ ProcessNewArtistTx(d, new, old).entries = d.entries
      /\ ProcessNewArtistTx(d, new, old).songs = d.songs
      /\ ProcessNewArtistTx(d, new, old).albums = d.albums
  BY DEF ProcessNewArtistTx, Database
<1> QED
  BY <1>1, AlbumsGrow

LEMMA ProcessNewAlbumLinks ==
    ASSUME NEW d \in Database, NEW new, NEW old PROVE LeavesLinks(d, ProcessNewAlbumTx(d, new, old))
<1>1. /\ ProcessNewAlbumTx(d, new, old).entries = d.entries
      /\ ProcessNewAlbumTx(d, new, old).songs = d.songs
      /\ ProcessNewAlbumTx(d, new, old).albums = d.albums \cup {new}
  BY DEF ProcessNewAlbumTx, Database
<1> QED
  BY <1>1, AlbumsGrow

LEMMA DeleteAlbumLinks ==
    ASSUME NEW d \in Database, NEW ab PROVE LeavesLinks(d, DeleteAlbumBucket(d, ab))
<1> DEFINE e == DeleteAlbumBucket(d, ab)
<1>1. /\ e.entries = d.entries /\ e.albums = d.albums \ {ab}
      /\ e.songs = [k \in SongKey |-> IF AlbumOf(k) = ab THEN NoSong ELSE d.songs[k]]
  BY DEF DeleteAlbumBucket, Database
<1> HIDE DEF e
<1>2. LeavesLinks(d, e)
  BY <1>1 DEF LeavesLinks, SongsHoused
<1> QED
  BY <1>2 DEF e

LEMMA DeleteArtistLinks ==
    ASSUME NEW d \in Database, NEW a PROVE LeavesLinks(d, DeleteArtistBucket(d, a))
<1> DEFINE e == DeleteArtistBucket(d, a)
<1>1. /\ e.entries = d.entries /\ e.albums = {ab \in d.albums : ab[1] # a}
      /\ e.songs = [k \in SongKey |-> IF k[1] = a THEN NoSong ELSE d.songs[k]]
  BY DEF DeleteArtistBucket, Database
<1> HIDE DEF e
<1>2. LeavesLinks(d, e)
  BY <1>1 DEF LeavesLinks, SongsHoused, AlbumOf
<1> QED
  BY <1>2 DEF e

LEMMA CreateSongLinks ==
    ASSUME NEW d \in Database, NEW k \in SongKey, NEW path, AlbumOf(k) \in d.albums
    PROVE  LeavesLinks(d, CreateSongTx(d, k, path))
<1> DEFINE e == CreateSongTx(d, k, path)
<1>1. /\ e.entries = d.entries /\ e.albums = d.albums
      /\ e.songs = [d.songs EXCEPT ![k] = [path |-> path, lists |-> <<>>]]
      /\ d.songs \in [SongKey -> SongStore \cup {NoSong}]
  BY DEF CreateSongTx, Database
<1> HIDE DEF e
<1>2. LeavesLinks(d, e)
  BY <1>1 DEF LeavesLinks, SongsHoused
<1> QED
  BY <1>2 DEF e

LEMMA DeleteSongLinks ==
    ASSUME NEW d \in Database, NEW k \in SongKey
    PROVE  LeavesLinks(d, DeleteSongTx(d, k)) /\ DeleteSongTx(d, k).songs[k] = NoSong
<1> DEFINE e == DeleteSongTx(d, k)
<1>1. /\ e.entries = d.entries /\ e.albums = d.albums
      /\ e.songs = [d.songs EXCEPT ![k] = NoSong]
      /\ d.songs \in [SongKey -> SongStore \cup {NoSong}]
  BY DEF DeleteSongTx, Database
<1> HIDE DEF e
<1>2. LeavesLinks(d, e) /\ e.songs[k] = NoSong
  BY <1>1 DEF LeavesLinks, SongsHoused
<1> QED
  BY <1>2 DEF e

\* What the two transactions on playlists do to songs and entries.
LEMMA UnlistLinks ==
    ASSUME NEW d \in Database, NEW pl, NEW title
    PROVE  /\ UnlistTx(d, pl, title).songs = d.songs
           /\ UnlistTx(d, pl, title).albums = d.albums
           /\ UnlistTx(d, pl, title).entries = [d.entries EXCEPT ![<<pl, title>>] = NoEntry]
  BY DEF UnlistTx, Database

LEMMA AddFileToPlaylistLinks ==
    ASSUME NEW d \in Database, NEW pl \in Playlist, NEW k \in SongKey, NEW path, d.songs[k] # NoSong
    PROVE  LET e == AddFileToPlaylistTx(d, pl, k, path) IN
           /\ e.entries = [d.entries EXCEPT ![<<pl, k[3]>>] = [key |-> k, path |-> path]]
           /\ e.albums = d.albums
           /\ \A l \in SongKey : l # k => e.songs[l] = d.songs[l]
           /\ e.songs[k].path = d.songs[k].path
           /\ ToSet(e.songs[k].lists) \subseteq ToSet(d.songs[k].lists) \cup {pl}
<1> DEFINE old   == d.songs[k].lists
           lists == IF Contains(old, pl) THEN old ELSE Append(old, pl)
           song  == [d.songs[k] EXCEPT !.lists = lists]
           e     == AddFileToPlaylistTx(d, pl, k, path)
<1>1. d.songs[k] \in SongStore /\ d.songs \in [SongKey -> SongStore \cup {NoSong}]
  BY DEF Database
<1>2. old \in Seq(Playlist)
  BY <1>1 DEF SongStore
<1>3. ToSet(lists) \subseteq ToSet(old) \cup {pl}
  <2> HIDE DEF old
  <2>1. CASE Contains(old, pl)
    BY <2>1
  <2>2. CASE ~Contains(old, pl)
    <3>1. /\ Len(lists) = Len(old) + 1 /\ lists[Len(old) + 1] = pl /\ Len(old) \in Nat
          /\ \A i \in 1 .. Len(old) : lists[i] = old[i]
      BY <1>2, <2>2, AppendProperties, LenProperties
    <3>2. DOMAIN lists = 1 .. Len(lists) /\ DOMAIN old = 1 .. Len(old)
      BY <1>2, <2>2, AppendProperties
    <3> HIDE DEF lists
    <3> QED
      BY <3>1, <3>2 DEF ToSet
  <2> QED
    BY <2>1, <2>2
<1>4. /\ e.entries = [d.entries EXCEPT ![<<pl, k[3]>>] = [key |-> k, path |-> path]]
      /\ e.albums = d.albums /\ e.songs = [d.songs EXCEPT ![k] = song]
  BY DEF AddFileToPlaylistTx, Database
<1> HIDE DEF lists
<1>5. song.path = d.songs[k].path /\ song.lists = lists
  BY <1>1 DEF SongStore
<1> HIDE DEF song, e, old
<1>6. /\ \A l \in SongKey : l # k => e.songs[l] = d.songs[l]
      /\ e.songs[k] = song
  BY <1>1, <1>4
<1>7. ToSet(e.songs[k].lists) \subseteq ToSet(d.songs[k].lists) \cup {pl}
  BY <1>3, <1>5, <1>6 DEF old
<1> QED
  BY <1>4, <1>5, <1>6, <1>7 DEF e

----------------------------------------------------------------------------
(* The steps that concern links.                                           *)

\* Some steps are told by where the process is.
LEMMA StepNamed ==
    ASSUME NEW p \in Process, Step(p)
    PROVE  /\ pc[p] = "NewArtist" => NewArtist(p)
           /\ pc[p] = "Unlist" => Unlist(p)
           /\ pc[p] = "RenameFile" => RenameFile(p)
           /\ pc[p] = "DeleteOld" => DeleteOld(p)
<1>1. CASE \/ CreateArtist(p) \/ CreateAlbum(p) \/ MkdirNew(p)
           \/ CreateSong(p) \/ CreateFile(p) \/ ReleaseSong(p) \/ ReleaseTags(p)
           \/ GetFilePath(p) \/ DeleteSong(p) \/ RemoveFile(p)
           \/ DeleteArtist(p) \/ DeleteAlbum(p) \/ Victims(p)
  BY <1>1 DEF CreateArtist, CreateAlbum, MkdirNew, CreateSong, CreateFile, ReleaseSong, ReleaseTags,
              GetFilePath, DeleteSong, RemoveFile, DeleteArtist, DeleteAlbum, Victims, Session, Syscall
<1>2. CASE \/ MoveArtist(p) \/ EndArtist(p) \/ MoveAlbum(p) \/ NewAlbum(p) \/ EndAlbum(p)
           \/ MoveSongs(p) \/ SetMp3Tags(p) \/ CreateNew(p) \/ AddPath(p) \/ AddEntry(p) \/ Regenerate(p)
  BY <1>2 DEF MoveArtist, EndArtist, MoveAlbum, NewAlbum, EndAlbum, MoveSongs,
              SetMp3Tags, CreateNew, AddPath, AddEntry, Regenerate, Session, Syscall
<1>3. CASE GetMp3Tags(p) \/ DropArtist(p) \/ DropAlbum(p) \/ DropFileInto(p) \/ DropSong(p)
  BY <1>3 DEF GetMp3Tags, DropArtist, DropAlbum, DropFileInto, DropSong, Session, Syscall
<1>4. CASE NewArtist(p) \/ Unlist(p) \/ RenameFile(p) \/ DeleteOld(p)
  BY <1>4 DEF NewArtist, Unlist, RenameFile, DeleteOld, Session, Syscall
<1> QED
  BY <1>1, <1>2, <1>3, <1>4 DEF Step

\* Albums are nested in artists whatever MoveArtist finds at the new name.
LEMMA StepHoused ==
    ASSUME ControlOK, DataOK, Errands, Housed(db), NEW p \in Process, Step(p)
    PROVE  Housed(db)'
<1>1. CASE pc[p] # "NewArtist"
  <2>1. ListsStep
    BY <1>1, StepLists DEF TargetFree
  <2> QED
    BY <2>1 DEF ListsStep, Housed
<1>2. CASE NewArtist(p)
  <2>1. db' = db \/ \E new, old : db' = ProcessNewArtistTx(db, new, old)
    BY <1>2 DEF NewArtist
  <2>2. db'.albums = db.albums /\ db.artists \subseteq db'.artists
    BY <2>1 DEF ProcessNewArtistTx, DataOK, Database
  <2> QED
    BY <2>2 DEF Housed
<1> QED
  BY <1>1, <1>2, StepNamed

LEMMA SameLinks ==
    ASSUME db' = db
    PROVE  LeavesLinks(db, db')
  BY DEF LeavesLinks

LEMMA DeleteSongThenLinks ==
    ASSUME DataOK, NEW p, NEW k \in SongKey, NEW next, DeleteSongThen(p, k, next)
    PROVE  LeavesLinks(db, db') /\ db'.songs[k] = NoSong
  BY DeleteSongLinks DEF DeleteSongThen, DataOK

\* Nothing but the two loops of MoveSongs over the playlists touches links.
LEMMA StepLinks ==
    ASSUME ControlOK, DataOK, NEW p \in Process, Step(p)
    PROVE  Unlist(p) \/ AddEntry(p) \/ LeavesLinks(db, db')
<1>1. loc[p] \in Frame /\ Shape(pc[p], loc[p]) /\ db \in Database
  BY FrameOf DEF DataOK
<1>2. CASE \/ MkdirNew(p) \/ CreateFile(p) \/ ReleaseTags(p) \/ RemoveFile(p)
           \/ MoveArtist(p) \/ MoveAlbum(p) \/ RenameFile(p) \/ SetMp3Tags(p)
           \/ GetMp3Tags(p) \/ DropFileInto(p)
  BY <1>2, SameLinks
     DEF MkdirNew, CreateFile, ReleaseTags, RemoveFile, MoveArtist, MoveAlbum,
         RenameFile, SetMp3Tags, GetMp3Tags, DropFileInto, Syscall
<1>3. CASE \/ ReleaseSong(p) \/ GetFilePath(p) \/ Victims(p) \/ MoveSongs(p)
           \/ AddPath(p) \/ Regenerate(p)
  BY <1>3, SameLinks DEF ReleaseSong, GetFilePath, Victims, MoveSongs, AddPath, Regenerate
<1>4. CASE CreateArtist(p) \/ DropArtist(p)
  <2>1. db' = db \/ \E a : db' = CreateArtistTx(db, a)
    BY <1>4 DEF CreateArtist, DropArtist, Refuse
  <2> QED
    BY <1>1, <2>1, SameLinks, CreateArtistLinks
<1>5. CASE CreateAlbum(p) \/ DropAlbum(p)
  <2>1. db' = db \/ \E ab : db' = CreateAlbumTx(db, ab)
    BY <1>5 DEF CreateAlbum, DropAlbum, Refuse
  <2> QED
    BY <1>1, <2>1, SameLinks, CreateAlbumLinks
<1>6. CASE CreateSong(p) \/ CreateNew(p) \/ DropSong(p)
  <2>1. db' = db \/ \E k, path : db' = CreateSongTx(db, k, path) /\ HasAlbum(db, AlbumOf(k)) /\ k \in SongKey
    <3>1. CASE CreateSong(p)
      <4>1. <<loc[p].to[1], loc[p].to[2], Compat[loc[p].to[3]]>> \in SongKey
        BY <1>1, <3>1, KeyParts, CompatParts DEF CreateSong, Session, Shape, SongKey
      <4> QED
        BY <3>1, <4>1 DEF CreateSong, Refuse
    <3>2. CASE CreateNew(p)
      <4>1. NewFullPath(loc[p]) \in SongKey
        BY <3>2, MovingFrame, NewFullPathType DEF CreateNew, Session, MoveSongsSteps
      <4>2. AlbumOf(NewFullPath(loc[p])) = AlbumOf(loc[p].to)
        BY DEF NewFullPath, AlbumOf
      <4> QED
        BY <3>2, <4>1, <4>2 DEF CreateNew
    <3>3. CASE DropSong(p)
      <4>1. NewFullPath(loc[p]) \in SongKey
        BY <1>1, <3>3, KeyParts, CompatParts DEF DropSong, Session, Shape, NewFullPath, SongKey
      <4> QED
        BY <3>3, <4>1 DEF DropSong
    <3> QED
      BY <1>6, <3>1, <3>2, <3>3
  <2> QED
    BY <1>1, <2>1, SameLinks, CreateSongLinks DEF HasAlbum
<1>7. CASE DeleteSong(p) \/ DeleteOld(p)
  <2>1. loc[p].from \in SongKey
    BY <1>1, <1>7 DEF DeleteSong, DeleteOld, Session, Shape, MoveSongsSteps
  <2>2. db' = db \/ \E next : DeleteSongThen(p, loc[p].from, next)
    BY <1>7 DEF DeleteSong, DeleteOld, Refuse
  <2> QED
    BY <2>1, <2>2, SameLinks, DeleteSongThenLinks
<1>8. CASE DeleteArtist(p) \/ EndArtist(p)
  BY <1>1, <1>8, DeleteArtistLinks DEF DeleteArtist, EndArtist
<1>9. CASE DeleteAlbum(p) \/ EndAlbum(p)
  <2>1. db' = db \/ \E ab : db' = DeleteAlbumBucket(db, ab)
    BY <1>9 DEF DeleteAlbum, EndAlbum, Refuse
  <2> QED
    BY <1>1, <2>1, SameLinks, DeleteAlbumLinks
<1>10. CASE NewArtist(p)
  <2>1. db' = db \/ \E new, old : db' = ProcessNewArtistTx(db, new, old)
    BY <1>10 DEF NewArtist
  <2> QED
    BY <1>1, <2>1, SameLinks, ProcessNewArtistLinks
<1>11. CASE NewAlbum(p)
  <2>1. db' = db \/ \E new, old : db' = ProcessNewAlbumTx(db, new, old)
    BY <1>11 DEF NewAlbum
  <2> QED
    BY <1>1, <2>1, SameLinks, ProcessNewAlbumLinks
<1> QED
  BY <1>2, <1>3, <1>4, <1>5, <1>6, <1>7, <1>8, <1>9, <1>10, <1>11 DEF Step

----------------------------------------------------------------------------
(* The frames of MoveSongs, as far as they are about playlists.            *)

FiledAt(d, k, path) == d.songs[k] = NoSong \/ d.songs[k].path = path

LinkSteps == {"Unlist", "AddPath", "AddEntry", "Regenerate"}

\* The song that is put back on its playlists is where its name says, if that
\* is a name a song can be created under.
LinkFrame(d, step, f) ==
    /\ step = "Unlist" => f.lists # <<>>
    /\ step \in {"AddPath", "AddEntry", "Regenerate"} /\ Compat[f.to[3]] = f.to[3] =>
          FiledAt(d, f.to, f.to)
    /\ step = "AddEntry" =>
          /\ FiledAt(d, f.to, f.path)
          /\ Compat[f.to[3]] = f.to[3] => f.path = f.to

LinkFrames == \A p \in Process : LinkFrame(db, pc[p], loc[p])

\* A song keeps its file until it goes, and one that is created anew lies at
\* its own name.
LEMMA FiledAtKept ==
    ASSUME DataOK, PathsStep, NEW k \in SongKey, NEW path, FiledAt(db, k, path),
           Compat[k[3]] = k[3] => path = k
    PROVE  FiledAt(db', k, path)
<1>1. CASE KeepsPaths(db, db')
  BY <1>1 DEF KeepsPaths, FiledAt
<1>2. ASSUME NEW l \in SongKey, CreatesAt(l) PROVE FiledAt(db', k, path)
  BY <1>2, CreateSongPaths DEF CreatesAt, FiledAt, DataOK
<1> QED
  BY <1>1, <1>2 DEF PathsStep, Creates

LEMMA FrameKept ==
    ASSUME ControlOK, DataOK, PathsStep, LinkFrames, NEW q \in Process, loc'[q] = loc[q],
           pc'[q] = pc[q] \/ (pc[q] = "AddEntry" /\ pc'[q] = "Regenerate")
    PROVE  LinkFrame(db', pc'[q], loc'[q])
<1> DEFINE f == loc[q]
<1>1. pc[q] \in {"AddPath", "AddEntry", "Regenerate"} => f.to \in SongKey
  BY DEF ControlOK, Shape, MoveSongsSteps
<1>2. LinkFrame(db, pc[q], f)
  BY DEF LinkFrames
<1> HIDE DEF f
<1>3. pc[q] \in {"AddPath", "AddEntry", "Regenerate"} /\ Compat[f.to[3]] = f.to[3] =>
          FiledAt(db', f.to, f.to)
  BY <1>1, <1>2, FiledAtKept DEF LinkFrame
<1>4. pc[q] = "AddEntry" => FiledAt(db', f.to, f.path)
  BY <1>1, <1>2, FiledAtKept DEF LinkFrame
<1>5. LinkFrame(db', pc'[q], f)
  BY <1>2, <1>3, <1>4 DEF LinkFrame
<1> QED
  BY <1>5 DEF f

\* Most steps lead to none that puts links on or takes them off.
LEMMA LeadsOff ==
    ASSUME ControlOK, NEW p \in Process, NEW step, NEW f, step \notin LinkSteps, Goto(p, step, f)
    PROVE  pc'[p] \notin LinkSteps
  BY DEF Goto, ControlOK

LEMMA ReturnsOff ==
    ASSUME ControlOK, NEW p \in Process, NEW f,
           Return(p) \/ NextAlbum(p, f) \/ AlbumReturn(p, f) \/ NextSong(p, f) \/ SongReturn(p, f)
    PROVE  pc'[p] \notin LinkSteps
<1>1. CASE Return(p)
  BY <1>1, LeadsOff DEF Return, LinkSteps
<1>2. \A g : NextAlbum(p, g) => pc'[p] \notin LinkSteps
  BY LeadsOff DEF NextAlbum, LinkSteps
<1>3. ASSUME NEW g, NextSong(p, g) PROVE pc'[p] \notin LinkSteps
  <2>1. (\E h : Goto(p, "EndAlbum", h)) \/ (\E h : Goto(p, "MoveSongs", h))
    BY <1>3 DEF NextSong
  <2> QED
    BY <2>1, LeadsOff DEF LinkSteps
<1> QED
  BY <1>1, <1>2, <1>3 DEF AlbumReturn, SongReturn

Linking(p) == \/ MoveSongs(p) \/ Unlist(p) \/ CreateNew(p)
              \/ AddPath(p) \/ AddEntry(p) \/ Regenerate(p)

LEMMA StepLinking ==
    ASSUME ControlOK, NEW p \in Process, Step(p)
    PROVE  Linking(p) \/ pc'[p] \notin LinkSteps
<1>1. ASSUME NEW step, NEW f, step \notin LinkSteps, Goto(p, step, f) PROVE pc'[p] \notin LinkSteps
  BY <1>1, LeadsOff
<1>2. ASSUME NEW f, \/ Return(p) \/ NextAlbum(p, f) \/ AlbumReturn(p, f)
                    \/ NextSong(p, f) \/ SongReturn(p, f)
      PROVE  pc'[p] \notin LinkSteps
  BY <1>2, ReturnsOff
<1>3. CASE CreateArtist(p) \/ CreateAlbum(p) \/ CreateSong(p) \/ ReleaseSong(p) \/ GetFilePath(p)
  <2>1. \/ Return(p)
        \/ \E f : Goto(p, "MkdirNew", f) \/ Goto(p, "CreateFile", f)
        \/ \E f : Goto(p, "ReleaseTags", f) \/ Goto(p, "DeleteSong", f)
    BY <1>3 DEF CreateArtist, CreateAlbum, CreateSong, ReleaseSong, GetFilePath, Refuse
  <2> QED
    BY <1>1, <1>2, <2>1 DEF LinkSteps
<1>4. CASE MkdirNew(p) \/ CreateFile(p) \/ ReleaseTags(p) \/ RemoveFile(p)
  BY <1>2, <1>4 DEF MkdirNew, CreateFile, ReleaseTags, RemoveFile
<1>5. CASE \/ DeleteSong(p) \/ DeleteOld(p) \/ DeleteArtist(p) \/ DeleteAlbum(p) \/ Victims(p)
  <2>1. \/ Return(p) \/ SongReturn(p, loc[p])
        \/ \E f : Goto(p, "Nested", f) \/ Goto(p, "Victims", f)
        \/ \E f : Goto(p, "RemoveFile", f) \/ Goto(p, "SetMp3Tags", f)
    <3>1. CASE DeleteSong(p) \/ DeleteOld(p)
      BY <3>1 DEF DeleteSong, DeleteOld, DeleteSongThen, Refuse
    <3>2. CASE DeleteArtist(p) \/ DeleteAlbum(p) \/ Victims(p)
      BY <3>2 DEF DeleteArtist, DeleteAlbum, RemoveVictims, Victims, Refuse
    <3> QED
      BY <1>5, <3>1, <3>2
  <2> QED
    BY <1>1, <1>2, <2>1 DEF LinkSteps
<1>6. CASE \/ MoveArtist(p) \/ NewArtist(p) \/ EndArtist(p)
           \/ MoveAlbum(p) \/ NewAlbum(p) \/ EndAlbum(p) \/ RenameFile(p) \/ SetMp3Tags(p)
  BY <1>1, <1>2, <1>6
     DEF MoveArtist, NewArtist, EndArtist, MoveAlbum, NewAlbum, EndAlbum, RenameFile, SetMp3Tags,
         LinkSteps
<1>7. CASE GetMp3Tags(p) \/ DropArtist(p) \/ DropAlbum(p) \/ DropFileInto(p) \/ DropSong(p)
  BY <1>1, <1>2, <1>7
     DEF GetMp3Tags, DropArtist, DropAlbum, DropFileInto, DropSong, Refuse, LinkSteps
<1> QED
  BY <1>3, <1>4, <1>5, <1>6, <1>7 DEF Step, Linking

LEMMA LinkingFrames ==
    ASSUME ControlOK, DataOK, PathsStep, LinkFrames, NEW p \in Process, Linking(p)
    PROVE  LinkFrame(db', pc'[p], loc'[p])
<1>1. loc[p] \in Frame /\ LinkFrame(db, pc[p], loc[p])
  BY DEF ControlOK, LinkFrames
<1>2. ASSUME NEW step, NEW f, Goto(p, step, f), LinkFrame(db', step, f)
      PROVE  LinkFrame(db', pc'[p], loc'[p])
  BY <1>2 DEF Goto, ControlOK
<1>3. pc'[p] \notin LinkSteps => LinkFrame(db', pc'[p], loc'[p])
  BY DEF LinkFrame, LinkSteps
<1>4. CASE MoveSongs(p)
  <2> DEFINE lists == ListsOf(db, loc[p].from)
             f     == [loc[p] EXCEPT !.lists = lists, !.todo = lists]
  <2>1. f.lists = lists
    BY <1>1 DEF Frame
  <2>2. Goto(p, IF lists = <<>> THEN "RenameFile" ELSE "Unlist", f)
    BY <1>4 DEF MoveSongs
  <2> HIDE DEF f, lists
  <2> QED
    BY <1>2, <2>1, <2>2 DEF LinkFrame
<1>5. CASE Unlist(p)
  <2> DEFINE rest == Tail(loc[p].todo)
             f    == [loc[p] EXCEPT !.todo = rest]
  <2>1. f.lists = loc[p].lists /\ loc[p].lists # <<>>
    BY <1>1, <1>5 DEF Frame, Unlist, Session, LinkFrame
  <2>2. Goto(p, IF rest = <<>> THEN "RenameFile" ELSE "Unlist", f)
    BY <1>5 DEF Unlist
  <2> HIDE DEF f
  <2> QED
    BY <1>2, <2>1, <2>2 DEF LinkFrame
<1>6. CASE CreateNew(p)
  <2> DEFINE to  == loc[p].to
             k   == NewFullPath(loc[p])
             f   == [loc[p] EXCEPT !.todo = loc[p].lists]
  <2>1. to \in SongKey /\ k \in SongKey
    BY <1>6, MovingFrame, NewFullPathType DEF CreateNew, Session, MoveSongsSteps, Moving
  <2>2. Compat[to[3]] = to[3] => k = to
    BY <2>1, KeyParts DEF NewFullPath
  <2>3. f.to = to
    BY <1>1 DEF Frame
  <2>4. SongReturn(p, loc[p]) \/ (Goto(p, "AddPath", f) /\ db' = CreateSongTx(db, k, k))
    BY <1>6 DEF CreateNew
  <2>5. CASE SongReturn(p, loc[p])
    BY <1>3, <2>5, ReturnsOff
  <2>6. CASE Goto(p, "AddPath", f) /\ db' = CreateSongTx(db, k, k)
    <3>1. db'.songs[k].path = k
      BY <2>1, <2>6, CreateSongPaths DEF DataOK
    <3> HIDE DEF f, k, to
    <3>2. LinkFrame(db', "AddPath", f)
      BY <2>2, <2>3, <3>1 DEF LinkFrame, FiledAt
    <3> QED
      BY <1>2, <2>6, <3>2
  <2> QED
    BY <2>4, <2>5, <2>6
<1>7. CASE AddPath(p)
  <2> DEFINE path == db.songs[loc[p].to].path
             f    == [loc[p] EXCEPT !.path = path]
  <2>1. f.to = loc[p].to /\ f.path = path
    BY <1>1 DEF Frame
  <2>2. /\ db' = db
        /\ \/ Goto(p, "Regenerate", loc[p])
           \/ db.songs[loc[p].to] # NoSong /\ Goto(p, "AddEntry", f)
    BY <1>7 DEF AddPath
  <2>3. pc[p] = "AddPath"
    BY <1>7 DEF AddPath, Session
  <2> HIDE DEF f
  <2>4. LinkFrame(db', "Regenerate", loc[p])
    BY <1>1, <2>2, <2>3 DEF LinkFrame
  <2>5. db.songs[loc[p].to] # NoSong => LinkFrame(db', "AddEntry", f)
    BY <1>1, <2>1, <2>2, <2>3 DEF LinkFrame, FiledAt
  <2> QED
    BY <1>2, <2>2, <2>4, <2>5
<1>8. CASE AddEntry(p)
  <2>1. pc[p] = "AddEntry" /\ pc'[p] = "Regenerate" /\ loc'[p] = loc[p]
    BY <1>8 DEF AddEntry, Session, Goto, ControlOK
  <2> QED
    BY <2>1, FrameKept
<1>9. CASE Regenerate(p)
  <2> DEFINE f == [loc[p] EXCEPT !.todo = Tail(loc[p].todo)]
  <2>1. f.to = loc[p].to
    BY <1>1 DEF Frame
  <2>2. db' = db /\ pc[p] = "Regenerate" /\ (SongReturn(p, f) \/ Goto(p, "AddPath", f))
    BY <1>9 DEF Regenerate, Session
  <2> HIDE DEF f
  <2>3. LinkFrame(db', "AddPath", f)
    BY <1>1, <2>1, <2>2 DEF LinkFrame
  <2> QED
    BY <1>2, <1>3, <2>2, <2>3, ReturnsOff
<1> QED
  BY <1>4, <1>5, <1>6, <1>7, <1>8, <1>9 DEF Linking

LEMMA NextLinkFrames ==
    ASSUME ControlOK, DataOK, LinkFrames, [Next]_vars
    PROVE  LinkFrames'
<1> SUFFICES ASSUME NEW q \in Process PROVE LinkFrame(db', pc'[q], loc'[q])
  BY DEF LinkFrames
<1>1. PathsStep
  BY NextPaths
<1>2. CASE pc'[q] = pc[q] /\ loc'[q] = loc[q]
  BY <1>1, <1>2, FrameKept
<1>3. pc'[q] \notin LinkSteps => LinkFrame(db', pc'[q], loc'[q])
  BY DEF LinkFrame, LinkSteps
<1>4. ASSUME NEW p \in Process, Step(p) PROVE LinkFrame(db', pc'[q], loc'[q])
  BY <1>1, <1>2, <1>3, <1>4, StepLocal, StepLinking, LinkingFrames DEF Local
<1>5. ASSUME NEW p \in Process, NEW r \in Requests, Start(p, r)
      PROVE  LinkFrame(db', pc'[q], loc'[q])
  <2>1. CASE q # p
    BY <1>2, <1>5, <2>1, GoesOnLocal DEF Start, GoesOn, Local
  <2>2. CASE q = p
    <3>1. FirstStep(r) \notin LinkSteps
      BY FirstSteps DEF LinkSteps
    <3>2. pc'[q] = FirstStep(r)
      BY <1>5, <2>2 DEF Start, Goto, ControlOK
    <3> QED
      BY <1>3, <3>1, <3>2
  <2> QED
    BY <2>1, <2>2
<1>6. CASE UNCHANGED vars
  BY <1>2, <1>6 DEF vars
<1> QED
  BY <1>4, <1>5, <1>6 DEF Next, Finished

----------------------------------------------------------------------------
(* Songs on playlists and songs taken off them.                            *)

\* The links of a song are answered by the entries of its playlists.
Linked(d, k) ==
    \A pl \in ToSet(d.songs[k].lists) :
        d.entries[<<pl, k[3]>>] = [key |-> k, path |-> d.songs[k].path]

\* The process has found playlists for the song and takes it off them.
OffLists(p, k) == Unlisted(p, k) /\ loc[p].lists # <<>>

LinkKept(k) == db.songs[k] # NoSong => Linked(db, k) \/ \E p \in Process : OffLists(p, k)

LinksOK ==
    /\ ControlOK /\ DataOK /\ Errands /\ Housed(db) /\ SongsHoused(db) /\ LinkFrames
    /\ \A k \in SongKey : LinkKept(k)

\* No other song has the entry that a playlist has under a title.
EntryFree(pl, k) ==
    LET e == db.entries[<<pl, k[3]>>] IN e = NoEntry \/ e.key = k

(***************************************************************************)
(* No song that is taken off a playlist or put on it shares its title with *)
(* another song of that playlist: the entries are stored by title alone.   *)
(***************************************************************************)
TitlesFree ==
    \A p \in Process :
        /\ pc[p] = "Unlist" => EntryFree(Head(loc[p].todo), loc[p].from)
        /\ pc[p] = "AddEntry" => EntryFree(Head(loc[p].todo), loc[p].to)

(***************************************************************************)
(* A song that has been taken off its playlists has its file where         *)
(* Dir.Rename expects it, and a directory to go to.                        *)
(***************************************************************************)
ListedInPlace ==
    \A p \in Process : pc[p] = "RenameFile" /\ loc[p].lists # <<>> =>
        disk[loc[p].path] # NoFile /\ DirOf(AlbumOf(loc[p].to)) \in dirs \cup {<<>>}

LEMMA HeadOfTodo ==
    ASSUME ControlOK, NEW p \in Process, pc[p] \in {"Unlist", "AddEntry"}
    PROVE  /\ loc[p] \in Frame /\ loc[p].from \in SongKey /\ loc[p].to \in SongKey
           /\ Head(loc[p].todo) \in Playlist
<1>1. Moving(loc[p]) /\ loc[p].todo # <<>>
  BY MovingFrame DEF MoveSongsSteps
<1> QED
  BY <1>1, HeadTailProperties DEF Moving, Frame

LEMMA EntryOfSong ==
    ASSUME NEW d \in Database, NEW k \in SongKey, d.songs[k] # NoSong
    PROVE  [key |-> k, path |-> d.songs[k].path] # NoEntry
<1>1. d.songs[k] \in SongStore
  BY DEF Database
<1>2. [key |-> k, path |-> d.songs[k].path] \in PlaylistFile
  BY <1>1 DEF SongStore, PlaylistFile
<1> QED
  BY <1>2, SentinelAssumption DEF PlaylistFile, Path

\* A song that is being taken off its playlists goes or goes on being so.
LEMMA OffListsKept ==
    ASSUME LinksOK, ListedInPlace, NEW p \in Process, Step(p), NEW q \in Process,
           NEW k \in SongKey, OffLists(q, k), db.songs[k] # NoSong, db'.songs[k] # NoSong
    PROVE  OffLists(q, k)'
<1>1. ControlOK /\ DataOK
  BY DEF LinksOK
<1>2. CASE q # p
  BY <1>1, <1>2, StepLocal DEF Local, OffLists, Unlisted
<1>3. CASE q = p
  <2>1. loc[p] \in Frame /\ loc[p].from = k /\ loc[p].lists # <<>>
    BY <1>1, <1>3 DEF OffLists, Unlisted, ControlOK
  <2>2. ASSUME NEW step \in {"Unlist", "RenameFile", "DeleteOld"}, NEW f, Goto(p, step, f),
               f.from = k, f.lists = loc[p].lists
        PROVE  OffLists(p, k)'
    BY <1>1, <2>1, <2>2 DEF OffLists, Unlisted, Goto, ControlOK
  <2>3. CASE Unlist(p)
    <3> DEFINE rest == Tail(loc[p].todo)
               f    == [loc[p] EXCEPT !.todo = rest]
    <3>1. f.from = k /\ f.lists = loc[p].lists
      BY <2>1 DEF Frame
    <3>2. Goto(p, IF rest = <<>> THEN "RenameFile" ELSE "Unlist", f)
      BY <2>3 DEF Unlist
    <3> HIDE DEF f
    <3> QED
      BY <1>3, <2>2, <3>1, <3>2
  <2>4. CASE RenameFile(p)
    <3>1. Goto(p, "DeleteOld", loc[p])
      BY <2>1, <2>4 DEF RenameFile, Syscall, ListedInPlace
    <3> QED
      BY <1>3, <2>1, <2>2, <3>1
  <2>5. CASE DeleteOld(p)
    <3>1. HasAlbum(db, AlbumOf(k))
      BY DEF LinksOK, SongsHoused, Housed, HasAlbum
    <3>2. DeleteSongThen(p, k, "SetMp3Tags")
      BY <2>1, <2>5, <3>1 DEF DeleteOld
    <3> QED
      BY <1>1, <3>2, DeleteSongThenLinks
  <2> QED
    BY <1>3, <2>3, <2>4, <2>5, StepNamed DEF OffLists, Unlisted
<1> QED
  BY <1>2, <1>3

LEMMA LeavesLinked ==
    ASSUME LinksOK, ListedInPlace, NEW p \in Process, Step(p), LeavesLinks(db, db'),
           NEW k \in SongKey
    PROVE  LinkKept(k)'
<1> SUFFICES ASSUME db'.songs[k] # NoSong
             PROVE  Linked(db', k) \/ \E q \in Process : OffLists(q, k)'
  BY DEF LinkKept
<1>1. CASE db'.songs[k].lists = <<>>
  BY <1>1 DEF Linked, ToSet
<1>2. CASE db'.songs[k] = db.songs[k]
  <2>1. CASE Linked(db, k)
    BY <1>2, <2>1 DEF Linked, LeavesLinks
  <2>2. ASSUME NEW q \in Process, OffLists(q, k) PROVE OffLists(q, k)'
    BY <1>2, <2>2, OffListsKept
  <2> QED
    BY <1>2, <2>1, <2>2 DEF LinksOK, LinkKept
<1> QED
  BY <1>1, <1>2 DEF LeavesLinks

LEMMA UnlistLinked ==
    ASSUME LinksOK, TitlesFree, ListedInPlace, NEW p \in Process, Step(p), Unlist(p),
           NEW k \in SongKey
    PROVE  LinkKept(k)' /\ (SongsHoused(db) => SongsHoused(db'))
<1> DEFINE pl   == Head(loc[p].todo)
           from == loc[p].from
<1>1. pc[p] = "Unlist" /\ ControlOK /\ db \in Database /\ loc[p].lists # <<>>
  BY DEF Unlist, Session, LinksOK, DataOK, LinkFrames, LinkFrame
<1>2. from \in SongKey /\ pl \in Playlist /\ loc[p] \in Frame
  BY <1>1, HeadOfTodo
<1>3. /\ db'.songs = db.songs /\ db'.albums = db.albums
      /\ db'.entries = [db.entries EXCEPT ![<<pl, from[3]>>] = NoEntry]
  <2>1. db' = UnlistTx(db, pl, from[3])
    BY DEF Unlist
  <2> HIDE DEF pl, from
  <2> QED
    BY <1>1, <2>1, UnlistLinks
<1>4. EntryFree(pl, from)
  BY <1>1 DEF TitlesFree
<1>5. SongsHoused(db) => SongsHoused(db')
  BY <1>3 DEF SongsHoused
<1> SUFFICES ASSUME db.songs[k] # NoSong
             PROVE  Linked(db', k) \/ \E q \in Process : OffLists(q, k)'
  BY <1>3, <1>5 DEF LinkKept
<1>6. CASE k = from
  <2> DEFINE rest == Tail(loc[p].todo)
             f    == [loc[p] EXCEPT !.todo = rest]
  <2>1. f.from = from /\ f.lists = loc[p].lists
    BY <1>2 DEF Frame
  <2>2. Goto(p, IF rest = <<>> THEN "RenameFile" ELSE "Unlist", f)
    BY DEF Unlist
  <2>3. pc'[p] \in {"Unlist", "RenameFile"} /\ loc'[p] = f
    BY <1>1, <2>2 DEF Goto, ControlOK
  <2> HIDE DEF f, rest
  <2>4. OffLists(p, k)'
    BY <1>1, <1>6, <2>1, <2>3 DEF OffLists, Unlisted
  <2> QED
    BY <2>4
<1>7. ASSUME k # from, Linked(db, k) PROVE Linked(db', k)
  <2> SUFFICES ASSUME NEW l \in ToSet(db.songs[k].lists)
               PROVE  db'.entries[<<l, k[3]>>] = [key |-> k, path |-> db.songs[k].path]
    BY <1>3 DEF Linked
  <2>1. db.entries[<<l, k[3]>>] = [key |-> k, path |-> db.songs[k].path]
    BY <1>7 DEF Linked
  <2>2. [key |-> k, path |-> db.songs[k].path] # NoEntry
    BY <1>1, EntryOfSong
  <2>3. <<l, k[3]>> # <<pl, from[3]>>
    BY <1>4, <1>7, <2>1, <2>2 DEF EntryFree
  <2> HIDE DEF pl, from
  <2> QED
    BY <1>1, <1>3, <2>1, <2>3 DEF Database
<1>8. ASSUME NEW q \in Process, OffLists(q, k) PROVE OffLists(q, k)'
  BY <1>3, <1>8, OffListsKept
<1> QED
  BY <1>6, <1>7, <1>8 DEF LinksOK, LinkKept

LEMMA AddEntryLinked ==
    ASSUME LinksOK, TitlesFree, ListedInPlace, NEW p \in Process, Step(p), AddEntry(p),
           NEW k \in SongKey
    PROVE  LinkKept(k)' /\ (SongsHoused(db) => SongsHoused(db'))
<1> DEFINE f  == loc[p]
           pl == Head(loc[p].todo)
           to == loc[p].to
           e  == AddFileToPlaylistTx(db, pl, to, f.path)
<1>1. pc[p] = "AddEntry" /\ ControlOK /\ db \in Database /\ FiledAt(db, to, f.path)
  BY DEF AddEntry, Session, LinksOK, DataOK, LinkFrames, LinkFrame
<1>2. to \in SongKey /\ pl \in Playlist
  BY <1>1, HeadOfTodo
<1>3. EntryFree(pl, to)
  BY <1>1 DEF TitlesFree
<1>4. CASE db' = db
  BY <1>4, SameLinks, LeavesLinked DEF LeavesLinks
<1>5. CASE db.songs[to] # NoSong /\ db' = e
  <2>1. /\ db'.entries = [db.entries EXCEPT ![<<pl, to[3]>>] = [key |-> to, path |-> f.path]]
        /\ db'.albums = db.albums
        /\ \A l \in SongKey : l # to => db'.songs[l] = db.songs[l]
        /\ db'.songs[to].path = db.songs[to].path
        /\ ToSet(db'.songs[to].lists) \subseteq ToSet(db.songs[to].lists) \cup {pl}
    <3> HIDE DEF f, pl, to
    <3> QED
      BY <1>1, <1>2, <1>5, AddFileToPlaylistLinks
  <2>2. db.songs[to].path = f.path
    BY <1>1, <1>5 DEF FiledAt
  <2> HIDE DEF e, f, pl, to
  <2>3. SongsHoused(db) => SongsHoused(db')
    BY <1>5, <2>1 DEF SongsHoused
  <2>4. ASSUME NEW q \in Process, OffLists(q, k), db.songs[k] # NoSong, db'.songs[k] # NoSong
        PROVE  OffLists(q, k)'
    BY <2>4, OffListsKept
  <2>5. ASSUME k = to, Linked(db, k) PROVE Linked(db', k)
    <3> SUFFICES ASSUME NEW l \in ToSet(db'.songs[k].lists)
                 PROVE  db'.entries[<<l, k[3]>>] = [key |-> k, path |-> db.songs[k].path]
      BY <2>1, <2>5 DEF Linked
    <3>1. CASE l = pl
      <4>1. <<pl, to[3]>> \in DOMAIN db.entries
        BY <1>1, <1>2, KeyParts DEF Database
      <4> QED
        BY <2>1, <2>2, <2>5, <3>1, <4>1
    <3>2. CASE l # pl
      <4>1. db.entries[<<l, k[3]>>] = [key |-> k, path |-> db.songs[k].path]
        BY <2>1, <2>5, <3>2 DEF Linked
      <4>2. <<l, k[3]>> # <<pl, to[3]>>
        BY <3>2
      <4> QED
        BY <1>1, <2>1, <4>1, <4>2 DEF Database
    <3> QED
      BY <3>1, <3>2
  <2>6. ASSUME k # to, Linked(db, k), db.songs[k] # NoSong PROVE Linked(db', k)
    <3> SUFFICES ASSUME NEW l \in ToSet(db.songs[k].lists)
                 PROVE  db'.entries[<<l, k[3]>>] = [key |-> k, path |-> db.songs[k].path]
      BY <2>1, <2>6 DEF Linked
    <3>1. db.entries[<<l, k[3]>>] = [key |-> k, path |-> db.songs[k].path]
      BY <2>6 DEF Linked
    <3>2. [key |-> k, path |-> db.songs[k].path] # NoEntry
      BY <1>1, <2>6, EntryOfSong
    <3>3. <<l, k[3]>> # <<pl, to[3]>>
      BY <1>3, <2>6, <3>1, <3>2 DEF EntryFree
    <3> QED
      BY <1>1, <2>1, <3>1, <3>3 DEF Database
  <2>7. db'.songs[k] # NoSong => db.songs[k] # NoSong
    BY <1>5, <2>1
  <2> QED
    BY <2>3, <2>4, <2>5, <2>6, <2>7 DEF LinksOK, LinkKept
<1> QED
  BY <1>1, <1>4, <1>5 DEF AddEntry

LEMMA StepLinked ==
    ASSUME LinksOK, TitlesFree, ListedInPlace, NEW p \in Process, Step(p)
    PROVE  SongsHoused(db)' /\ \A k \in SongKey : LinkKept(k)'
<1>1. CASE LeavesLinks(db, db')
  <2>1. SongsHoused(db')
    BY <1>1 DEF LeavesLinks, LinksOK
  <2> QED
    BY <1>1, <2>1, LeavesLinked DEF SongsHoused
<1>2. CASE Unlist(p) \/ AddEntry(p)
  <2>1. ASSUME NEW k \in SongKey PROVE LinkKept(k)' /\ SongsHoused(db')
    BY <1>2, UnlistLinked, AddEntryLinked DEF LinksOK
  <2>2. SongsHoused(db')
    BY <2>1 DEF SongsHoused
  <2> QED
    BY <2>1, <2>2 DEF SongsHoused
<1> QED
  BY <1>1, <1>2, StepLinks DEF LinksOK

LEMMA StartLinked ==
    ASSUME LinksOK, NEW p \in Process, NEW r \in Requests, Start(p, r)
    PROVE  Housed(db)' /\ SongsHoused(db)' /\ \A k \in SongKey : LinkKept(k)'
<1>1. db' = db /\ pc[p] = "idle" /\ Local(p)
  BY GoesOnLocal DEF Start, GoesOn, LinksOK
<1>2. ASSUME NEW q \in Process, NEW k \in SongKey, OffLists(q, k)
      PROVE  OffLists(q, k)'
  <2>1. q # p
    BY <1>1, <1>2 DEF OffLists, Unlisted
  <2> QED
    BY <1>1, <1>2, <2>1 DEF Local, OffLists, Unlisted
<1>3. ASSUME NEW k \in SongKey PROVE LinkKept(k)'
  BY <1>1, <1>2 DEF LinkKept, LinksOK
<1> QED
  BY <1>1, <1>3 DEF LinksOK, Housed, SongsHoused

LEMMA StutterLinked ==
    ASSUME LinksOK, UNCHANGED vars
    PROVE  Housed(db)' /\ SongsHoused(db)' /\ \A k \in SongKey : LinkKept(k)'
  BY DEF LinksOK, vars, Housed, SongsHoused, LinkKept, OffLists, Unlisted

LEMMA NextLinked ==
    ASSUME LinksOK, TitlesFree, ListedInPlace, [Next]_vars
    PROVE  LinksOK'
<1>1. ControlOK' /\ DataOK' /\ Errands' /\ LinkFrames'
  BY NextOK, NextErrands, NextLinkFrames DEF LinksOK
<1>2. Housed(db)' /\ SongsHoused(db)' /\ \A k \in SongKey : LinkKept(k)'
  BY StepHoused, StepLinked, StartLinked, StutterLinked DEF Next, Finished, LinksOK
<1> QED
  BY <1>1, <1>2 DEF LinksOK

LEMMA InitLinked ==
    ASSUME Init, LinksHold
    PROVE  LinksOK
<1>1. ControlOK /\ DataOK /\ Errands
  BY InitOK, InitErrands
<1>2. LinkFrames /\ \A p \in Process : ~ \E k \in SongKey : Unlisted(p, k)
  BY DEF Init, LinkFrames, LinkFrame, Unlisted
<1>3. PICK i \in Initial : db = i.db
  BY DEF Init
<1>4. Housed(db) /\ SongsHoused(db)
  BY <1>3, InitialAssumption DEF Housed, SongsHoused
<1>5. \A k \in SongKey : LinkKept(k)
  BY <1>2 DEF LinksHold, LinkKept, Linked
<1> QED
  BY <1>1, <1>2, <1>4, <1>5 DEF LinksOK

(***************************************************************************)
(* The playlists of a song have an entry for it, with the file where the   *)
(* song is, from any start where they do: as long as MoveSongs meets no    *)
(* other song with the title of the one that it moves, and can rename the  *)
(* file of a song that it has taken off its playlists.                     *)
(***************************************************************************)
THEOREM LinksStay == Spec /\ LinksHold /\ [](TitlesFree /\ ListedInPlace) => []LinksHold
<1>1. LinksOK => LinksHold
  BY DEF LinksOK, LinkKept, Linked, OffLists, LinksHold
<1>2. Init /\ LinksHold => LinksOK
  BY InitLinked
<1>3. LinksOK /\ (TitlesFree /\ ListedInPlace) /\ [Next]_vars => LinksOK'
  BY NextLinked
<1> QED
  BY <1>1, <1>2, <1>3, PTL DEF Spec
=============================================================================
